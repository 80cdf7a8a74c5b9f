----------------------------- MODULE ShopeeTokens -----------------------------
(***************************************************************************)
(* The Shopee credentials: workers that call the API with the access token *)
(* kept in Redis, the refresh that replaces an expired one, the circuit    *)
(* breaker that stops them all when it fails, and the administrator who    *)
(* reads, saves and resets them.  The process may die at any point: what   *)
(* is in memory, the breaker among it, is gone when it starts again.       *)
(*                                                                         *)
(* Source: services/shopee_service.py, shopee_request and                  *)
(* refresh_shopee_token; services/managers/shopee_token_manager.py;        *)
(* routers/admin_shopee.py; routers/shopee.py, reset_shopee_cache_state.   *)
(* Everything runs on one event loop: the code between two awaits is one   *)
(* action.  Shopee numbers the pairs it issues; a refresh token can be     *)
(* exchanged once, and only the newest access token is accepted.           *)
(***************************************************************************)
EXTENDS Integers, Sequences, SequencesExt

CONSTANTS
    Workers,     \* concurrent calls of shopee_request
    MaxRetries,  \* SHOPEE_MAX_RETRIES after a rate limit
    LastPair     \* bound: pairs that Shopee ever issues

ASSUME TokensAssumption ==
    /\ MaxRetries \in Nat
    /\ LastPair \in Nat \ {0}

Pairs == 1..LastPair
None == 0

VARIABLES
    newest,     \* the pair whose refresh token Shopee would take
    expired     \* whether its access token has expired

VARIABLES
    access,     \* shopee:access_token in Redis: the pair it is of
    refresh,    \* shopee:refresh_token in Redis
    fatal       \* the circuit breaker, _token_fatal_error

VARIABLES
    pc,         \* where each call is
    used,       \* the access token it carries
    failed,     \* the one that was refused, when this is the second try
    tries,      \* rate limits so far in this try, until it is refused
    lock,       \* TOKEN_REFRESH_LOCK: its holder, then the waiters
    carried     \* the token a refresh is about to send, or to store

VARIABLES
    page,       \* the pair in the administrator's form
    saving      \* the pair being saved, once its access token is written

VARIABLES
    meddled,    \* history: breaker or tokens were changed from outside and
                \* no clean pair has been saved since
    torn        \* history: the process died after an exchange and before its
                \* pair was stored, or with the breaker tripped, and no pair
                \* has been stored whole since

shopee == <<newest, expired>>
redis == <<access, refresh>>
calls == <<pc, used, failed, tries, lock, carried>>
admin == <<page, saving>>
history == <<meddled, torn>>
vars == <<shopee, redis, fatal, calls, admin, history>>

NoPair == [access |-> None, refresh |-> None]

Refreshing == {"current", "readRefresh", "post", "storeAccess", "storeRefresh"}
InRefresh == {w \in Workers : pc[w] \in Refreshing}

-----------------------------------------------------------------------------
(* A call *)

Go(w, l) == pc' = [pc EXCEPT ![w] = l]

\* The call returns or raises, whatever it carried.
End(w) ==
    /\ Go(w, "idle")
    /\ used' = [used EXCEPT ![w] = None] /\ failed' = [failed EXCEPT ![w] = None]
    /\ tries' = [tries EXCEPT ![w] = 0]
    /\ carried' = [carried EXCEPT ![w] = None]

Release == lock' = Tail(lock)

\* The breaker is looked at once, when the call begins.
Begin(w) ==
    /\ pc[w] = "idle" /\ ~fatal
    /\ Go(w, "read")
    /\ UNCHANGED <<shopee, redis, fatal, used, failed, tries, lock, carried, admin, history>>

ReadAccess(w) ==
    /\ pc[w] = "read"
    /\ used' = [used EXCEPT ![w] = access]
    /\ Go(w, "call")
    /\ UNCHANGED <<shopee, redis, fatal, failed, tries, lock, carried, admin, history>>

Accepted(w) == used[w] = newest /\ ~expired

Succeed(w) ==
    /\ pc[w] = "call" /\ Accepted(w)
    /\ End(w)
    /\ UNCHANGED <<shopee, redis, fatal, lock, admin, history>>

\* Variant of RateLimited that tries once too often.
RateLimitedAgain(w) ==
    /\ pc[w] = "call"
    /\ IF tries[w] <= MaxRetries
         THEN /\ Go(w, "read")
              /\ tries' = [tries EXCEPT ![w] = @ + 1]
              /\ used' = [used EXCEPT ![w] = None]
              /\ UNCHANGED <<failed, carried>>
         ELSE End(w)
    /\ UNCHANGED <<shopee, redis, fatal, lock, admin, history>>

\* A rate limit: sleep and try again with the token then stored.
RateLimited(w) ==
    /\ pc[w] = "call"
    /\ IF tries[w] < MaxRetries
         THEN /\ Go(w, "read")
              /\ tries' = [tries EXCEPT ![w] = @ + 1]
              /\ used' = [used EXCEPT ![w] = None]
              /\ UNCHANGED <<failed, carried>>
         ELSE End(w)
    /\ UNCHANGED <<shopee, redis, fatal, lock, admin, history>>

\* Refused for its token: the first time the call queues for the refresh,
\* the second time it returns the error.
Refused(w) ==
    /\ pc[w] = "call" /\ ~Accepted(w)
    /\ IF failed[w] = None
         THEN /\ Go(w, "lock")
              /\ lock' = Append(lock, w)
              /\ tries' = [tries EXCEPT ![w] = 0]
              /\ UNCHANGED <<used, failed, carried>>
         ELSE End(w) /\ UNCHANGED lock
    /\ UNCHANGED <<shopee, redis, fatal, admin, history>>

\* Redis or the network fails before a refresh has been sent.
Broken(w) ==
    /\ pc[w] \in {"read", "call", "current", "readRefresh"}
    /\ End(w)
    /\ IF w \in InRefresh THEN Release ELSE UNCHANGED lock
    /\ UNCHANGED <<shopee, redis, fatal, admin, history>>

-----------------------------------------------------------------------------
(* The refresh, under the lock *)

\* Variants of Acquire: one does not wait for the lock, one gives up with the
\* lock held.
AcquireUnlocked(w) ==
    /\ pc[w] = "lock"
    /\ IF fatal THEN End(w) /\ Release
       ELSE Go(w, "current") /\ UNCHANGED <<used, failed, tries, lock, carried>>
    /\ UNCHANGED <<shopee, redis, fatal, admin, history>>

AcquireHolding(w) ==
    /\ pc[w] = "lock" /\ Head(lock) = w
    /\ IF fatal THEN End(w)
       ELSE Go(w, "current") /\ UNCHANGED <<used, failed, tries, carried>>
    /\ UNCHANGED <<shopee, redis, fatal, lock, admin, history>>

\* Variant of Acquire without worker check 1.
AcquireUnchecked(w) ==
    /\ pc[w] = "lock" /\ Head(lock) = w
    /\ Go(w, "current")
    /\ UNCHANGED <<shopee, redis, fatal, used, failed, tries, lock, carried, admin, history>>

\* Worker check 1: did an earlier holder trip the breaker?
Acquire(w) ==
    /\ pc[w] = "lock" /\ Head(lock) = w
    /\ IF fatal THEN End(w) /\ Release
       ELSE Go(w, "current") /\ UNCHANGED <<used, failed, tries, lock, carried>>
    /\ UNCHANGED <<shopee, redis, fatal, admin, history>>

\* The call starts again, with the breaker looked at again.
Retry(w) ==
    IF fatal THEN End(w)
    ELSE /\ Go(w, "read")
         /\ failed' = [failed EXCEPT ![w] = used[w]]
         /\ tries' = [tries EXCEPT ![w] = 0]
         /\ carried' = [carried EXCEPT ![w] = None]
         /\ UNCHANGED used

\* Variant of Compare with the check the wrong way round.
CompareSwapped(w) ==
    /\ pc[w] = "current"
    /\ IF access # used[w]
         THEN Go(w, "readRefresh") /\ UNCHANGED <<used, failed, tries, lock, carried>>
         ELSE Retry(w) /\ Release
    /\ UNCHANGED <<shopee, redis, fatal, admin, history>>

\* Worker check 2: is the refused token still the stored one?
Compare(w) ==
    /\ pc[w] = "current"
    /\ IF access = used[w]
         THEN Go(w, "readRefresh") /\ UNCHANGED <<used, failed, tries, lock, carried>>
         ELSE Retry(w) /\ Release
    /\ UNCHANGED <<shopee, redis, fatal, admin, history>>

ReadRefresh(w) ==
    /\ pc[w] = "readRefresh"
    /\ carried' = [carried EXCEPT ![w] = refresh]
    /\ Go(w, "post")
    /\ UNCHANGED <<shopee, redis, fatal, used, failed, tries, lock, admin, history>>

\* No new pair: trip the breaker, release and raise.
Trip(w) ==
    /\ fatal' = TRUE
    /\ End(w) /\ Release

\* Shopee exchanges the newest refresh token, and no other.
Exchange(w) ==
    /\ pc[w] = "post" /\ carried[w] = newest /\ newest < LastPair
    /\ newest' = newest + 1 /\ expired' = FALSE
    /\ \/ /\ carried' = [carried EXCEPT ![w] = newest + 1]
          /\ Go(w, "storeAccess")
          /\ UNCHANGED <<fatal, used, failed, tries, lock>>
       \/ Trip(w)      \* the answer is lost
    /\ UNCHANGED <<redis, admin, history>>

\* Refused, or never reached Shopee.
Reject(w) ==
    /\ pc[w] = "post"
    /\ Trip(w)
    /\ UNCHANGED <<shopee, redis, admin, history>>

StoreAccess(w) ==
    /\ pc[w] = "storeAccess"
    /\ access' = carried[w]
    /\ Go(w, "storeRefresh")
    /\ UNCHANGED <<shopee, refresh, fatal, used, failed, tries, lock, carried, admin, history>>

\* Variant of StoreRefresh that keeps the refresh token there was.
StoreNoRefresh(w) ==
    /\ pc[w] = "storeRefresh"
    /\ Retry(w) /\ Release
    /\ UNCHANGED <<shopee, redis, fatal, admin, history>>

StoreRefresh(w) ==
    /\ pc[w] = "storeRefresh"
    /\ refresh' = carried[w]
    /\ torn' = FALSE
    /\ Retry(w) /\ Release
    /\ UNCHANGED <<shopee, access, fatal, admin, meddled>>

\* Redis fails in one of the two writes, having written or not.
StoreFails(w) ==
    /\ \/ /\ pc[w] = "storeAccess" /\ access' \in {access, carried[w]}
          /\ UNCHANGED refresh
       \/ /\ pc[w] = "storeRefresh" /\ refresh' \in {refresh, carried[w]}
          /\ UNCHANGED access
    /\ Trip(w)
    /\ UNCHANGED <<shopee, admin, history>>

-----------------------------------------------------------------------------
(* The administrator and Shopee *)

\* get_shopee_config: two reads, between which a refresh may store a pair.
OpenAccess ==
    /\ saving = NoPair /\ page.access = None
    /\ page' = [access |-> access, refresh |-> None]
    /\ UNCHANGED <<shopee, redis, fatal, calls, saving, history>>

OpenRefresh ==
    /\ page.access # None /\ page.refresh = None
    /\ page' = [page EXCEPT !.refresh = refresh]
    /\ UNCHANGED <<shopee, redis, fatal, calls, saving, history>>

Close ==
    /\ page.refresh # None /\ page' = NoPair
    /\ UNCHANGED <<shopee, redis, fatal, calls, saving, history>>

\* The merchant authorises again and has a new pair to enter.
Authorise ==
    /\ page.refresh # None /\ saving = NoPair /\ newest < LastPair
    /\ newest' = newest + 1 /\ expired' = FALSE
    /\ page' = [access |-> newest + 1, refresh |-> newest + 1]
    /\ meddled' = TRUE
    /\ UNCHANGED <<redis, fatal, calls, saving, torn>>

\* save_shopee_config: the form as it is, in two writes.
SaveAccess ==
    /\ page.refresh # None /\ saving = NoPair
    /\ saving' = page /\ page' = NoPair
    /\ access' = page.access
    /\ meddled' = TRUE
    /\ UNCHANGED <<shopee, refresh, fatal, calls, torn>>

\* History: the save mends what came before when the pair is the newest, no
\* refresh runs and no call is at its second try.
SaveRefresh ==
    /\ saving # NoPair
    /\ refresh' = saving.refresh
    /\ fatal' = FALSE
    /\ meddled' = ~(/\ InRefresh = {} /\ access = newest /\ refresh' = newest
                    /\ \A w \in Workers : failed[w] = None)
    /\ torn' = (torn /\ meddled')
    /\ saving' = NoPair
    /\ UNCHANGED <<shopee, access, calls, page>>

SaveFails ==
    /\ saving # NoPair /\ saving' = NoPair
    /\ UNCHANGED <<shopee, redis, fatal, calls, page, history>>

\* reset_shopee_cache_state, or mark_synced at the end of a synchronisation
\* whose calls were all answered before.
Reset ==
    /\ fatal /\ fatal' = FALSE
    /\ meddled' = TRUE
    /\ UNCHANGED <<shopee, redis, calls, admin, torn>>

Expire ==
    /\ ~expired /\ expired' = TRUE
    /\ UNCHANGED <<newest, redis, fatal, calls, admin, history>>

-----------------------------------------------------------------------------
(* A restart *)

\* The process dies and starts again: calls, lock and breaker were in memory,
\* a save or a read of the form in progress is lost with it.  Redis, Shopee
\* and a form already filled in remain, and a token that is there is not
\* seeded again.  A crash while Shopee answers is one at "storeAccess".
Crash ==
    /\ pc' = [w \in Workers |-> "idle"]
    /\ used' = [w \in Workers |-> None] /\ failed' = [w \in Workers |-> None]
    /\ carried' = [w \in Workers |-> None] /\ tries' = [w \in Workers |-> 0]
    /\ lock' = <<>>
    /\ fatal' = FALSE
    /\ saving' = NoPair
    /\ page' = IF page.refresh = None THEN NoPair ELSE page
    /\ torn' = (\/ torn \/ fatal
                \/ \E w \in Workers : pc[w] \in {"storeAccess", "storeRefresh"})
    /\ UNCHANGED <<shopee, redis, meddled>>

-----------------------------------------------------------------------------
\* Redis has been seeded with the pair of the configuration.
Init ==
    /\ newest = 1 /\ expired = FALSE
    /\ access = 1 /\ refresh = 1 /\ fatal = FALSE
    /\ pc = [w \in Workers |-> "idle"]
    /\ used = [w \in Workers |-> None] /\ failed = used /\ carried = used
    /\ tries = [w \in Workers |-> 0]
    /\ lock = <<>>
    /\ page = NoPair /\ saving = NoPair
    /\ meddled = FALSE /\ torn = FALSE

\* The steps a call takes once it has begun.
Proceed(w) ==
    \/ ReadAccess(w) \/ Succeed(w) \/ RateLimited(w) \/ Refused(w) \/ Broken(w)
    \/ Acquire(w) \/ Compare(w) \/ ReadRefresh(w) \/ Exchange(w) \/ Reject(w)
    \/ StoreAccess(w) \/ StoreRefresh(w) \/ StoreFails(w)

Administer ==
    \/ OpenAccess \/ OpenRefresh \/ Close \/ Authorise
    \/ SaveAccess \/ SaveRefresh \/ SaveFails \/ Reset

Next ==
    \/ \E w \in Workers : Begin(w) \/ Proceed(w)
    \/ Administer \/ Expire \/ Crash

Spec == Init /\ [][Next]_vars

\* Every await of a call is answered in the end.  Nothing makes it crash.
FairSpec == Spec /\ \A w \in Workers : WF_vars(Proceed(w))

-----------------------------------------------------------------------------
(* Properties *)

Points == {"idle", "read", "call", "lock"} \union Refreshing

TypeOK ==
    /\ newest \in Pairs /\ access \in Pairs /\ refresh \in Pairs
    /\ expired \in BOOLEAN /\ fatal \in BOOLEAN /\ meddled \in BOOLEAN /\ torn \in BOOLEAN
    /\ pc \in [Workers -> Points]
    /\ used \in [Workers -> 0..LastPair] /\ failed \in [Workers -> 0..LastPair]
    /\ carried \in [Workers -> 0..LastPair]
    /\ tries \in [Workers -> 0..MaxRetries]
    /\ lock \in Seq(Workers)
    /\ page \in [access : 0..LastPair, refresh : 0..LastPair]
    /\ saving \in [access : 0..LastPair, refresh : 0..LastPair]

\* The stored refresh token is the one Shopee would take, unless a refresh is
\* being stored, or one failed and the breaker says so, or the breaker or the
\* tokens were changed from outside, or the process died between an exchange
\* and the end of its two writes, or with the breaker tripped.  A crash at any
\* other point, or a failure of any await, loses nothing.  About
\* refresh_shopee_token, whose two writes, and the answer before them, can
\* each be lost, and whose breaker is in memory.
StoredIsUnspent ==
    \/ refresh = newest
    \/ \E w \in Workers : pc[w] \in {"storeAccess", "storeRefresh"} /\ carried[w] = newest
    \/ fatal \/ meddled \/ torn

\* No worker sends a refresh token that another one has exchanged, unless the
\* breaker or the tokens were changed from outside, or a crash left a spent
\* one in Redis.  About the double check of shopee_request under
\* TOKEN_REFRESH_LOCK.
NoTokenSpentTwice ==
    \A w \in Workers : pc[w] = "post" => carried[w] = newest \/ meddled \/ torn

\* Once the breaker has tripped no refresh is under way: those that waited
\* for the lock give up.  About worker check 1 of shopee_request.
FailFast == fatal => InRefresh = {}

\* A call that is tried again carries another access token than the one that
\* was refused, unless the tokens were changed from outside, whatever crashes
\* and failed writes left in Redis before.
RetriedWithAnother ==
    [][\A w \in Workers :
         pc[w] = "read" /\ pc'[w] = "call" /\ failed[w] # None
           => used'[w] # failed[w] \/ meddled]_vars

\* Every call ends, and leaves the lock, whatever fails on its way.  About
\* the bounded retries, the single retry after an expiry and the waiting for
\* TOKEN_REFRESH_LOCK.
EveryCallEnds == \A w \in Workers : pc[w] # "idle" ~> pc[w] = "idle"
===============================================================================
