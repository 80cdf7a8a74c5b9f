------------------------------- MODULE Sessions -------------------------------
(***************************************************************************)
(* Accounts and refresh tokens: register, login, refresh, logout, deletion *)
(* of an account and the hourly cleanup, over the tables auth.users and    *)
(* auth.refresh_tokens.                                                    *)
(*                                                                         *)
(* Source: services/auth_service.py, services/queries/users.py and         *)
(* routers/auth.py.  The handlers of login, refresh and logout are plain   *)
(* functions and run in threads, one database transaction after another:   *)
(* every transaction is an action, and any other handler runs between two  *)
(* of them.  A session is what one login or registration began; its        *)
(* tokens, each replacing the one before, are numbered.                    *)
(*                                                                         *)
(* The client (performRefresh and handleLogout of the applications) keeps  *)
(* one refresh token, sends one refresh at a time, gives up after fifteen  *)
(* seconds, and logs out when a refresh fails.                             *)
(***************************************************************************)
EXTENDS Integers, FiniteSets, FiniteSetsExt

CONSTANTS
    Users,       \* usernames
    Admins,      \* those with the admin scope, which are never deleted
    Sessions,    \* logins and registrations
    Requests,    \* requests in flight
    Nobody,      \* no username
    NoSession,   \* no session
    Apps,        \* instances of the application that share one token store
    MaxGen,      \* bound: tokens of a session
    MaxIssued,   \* bound: tokens of all sessions
    MaxBirths,   \* bound: times a username is registered
    MaxGone      \* bound: times a token passes its expiry or dies

ASSUME SessionAssumption ==
    /\ Admins \subseteq Users
    /\ Nobody \notin Users /\ NoSession \notin Sessions
    /\ {MaxGen, MaxIssued, MaxBirths, MaxGone} \subseteq Nat \ {0}
    /\ Apps \in Nat \ {0}

Gens == 1..MaxGen
NoToken == 0

VARIABLES
    users,      \* auth.users: the names that exist
    births,     \* history: times each name was registered
    rows,       \* auth.refresh_tokens: the stored tokens of each session
    latest,     \* the newest token of each session
    owner,      \* username of each session
    lapsed,     \* tokens up to this one are past their expiry
    dead        \* up to this one they can no longer be verified at all

tables == <<users, births, rows, latest, owner, lapsed, dead>>

VARIABLES
    held,       \* the token in the store of each client
    req         \* the requests in flight

VARIABLES
    since,      \* history: which registration of the name a session is of
    crossed,    \* history: sessions ended while a request of theirs ran
    straddled,  \* history: sessions whose account went while one ran
    raced,      \* history: sessions two of whose refreshes passed the lookup
                \* before either had deleted the token
    uses        \* history: replacements each token was exchanged for

history == <<since, crossed, straddled, raced, uses>>
vars == <<tables, held, req, history>>

None == [op |-> "none", at |-> "none", s |-> NoSession, n |-> NoToken, heard |-> FALSE]

Of(s) == {r \in Requests : req[r].s = s}
Heard(s, ops) == {r \in Of(s) : req[r].op \in ops /\ req[r].heard}
Step(r, l) == req' = [req EXCEPT ![r].at = l]
Done(r) == req' = [req EXCEPT ![r] = None]

\* A new request of session s, with the token n.
Send(r, op, at, s, n) ==
    /\ req[r] = None
    /\ req' = [req EXCEPT ![r] = [op |-> op, at |-> at, s |-> s, n |-> n, heard |-> TRUE]]

\* A logout and another request of the same session overlap.
Cross(s) == crossed' = IF Of(s) # {} THEN crossed \union {s} ELSE crossed

\* handleLogout after a refresh that failed: the same token is logged out.
LogOutWith(r) ==
    req' = [req EXCEPT ![r] = [@ EXCEPT !.op = "quit", !.at = "erase", !.n = held[req[r].s]]]

\* The answer is a failure.  Only a refresh makes the client log out.
Fail(r) ==
    IF req[r].heard /\ req[r].op = "refresh" /\ held[req[r].s] # NoToken
      THEN LogOutWith(r) ELSE Done(r)

-----------------------------------------------------------------------------
(* Register, login *)

Begin(r, s, u) ==
    /\ owner[s] = Nobody
    /\ Send(r, "login", "issue", s, NoToken)
    /\ owner' = [owner EXCEPT ![s] = u]

\* register_client: the account is created, and then the administrators are
\* told before the tokens are made.
Register(r, s, u) ==
    /\ u \notin users /\ births[u] < MaxBirths
    /\ Begin(r, s, u)
    /\ users' = users \union {u}
    /\ births' = [births EXCEPT ![u] = @ + 1]
    /\ since' = [since EXCEPT ![s] = births[u] + 1]
    /\ UNCHANGED <<rows, latest, lapsed, dead, held, crossed, straddled, raced, uses>>

\* login_user: the account is read and the password matches.
Login(r, s, u) ==
    /\ u \in users
    /\ Begin(r, s, u)
    /\ since' = [since EXCEPT ![s] = births[u]]
    /\ UNCHANGED <<users, births, rows, latest, lapsed, dead, held, crossed,
                   straddled, raced, uses>>

-----------------------------------------------------------------------------
(* Refresh *)

Refresh(r, s) ==
    /\ held[s] # NoToken /\ Cardinality(Heard(s, {"refresh", "quit"})) < Apps
    /\ Send(r, "refresh", "lookup", s, held[s])
    /\ Cross(s)
    /\ UNCHANGED <<tables, held, since, straddled, raced, uses>>

\* Refreshes with this token that have looked it up and not deleted it.
Pending(s, n) == {r \in Of(s) : req[r].n = n /\ req[r].at \in {"account", "consume"}}

\* Variant of LookUp that trusts the signature alone.
LookUpUnchecked(r) ==
    LET s == req[r].s  n == req[r].n IN
    /\ req[r].at = "lookup"
    /\ IF n <= dead[s] THEN Fail(r) ELSE Step(r, "account")
    /\ raced' = IF Pending(s, n) # {} THEN raced \union {s} ELSE raced
    /\ UNCHANGED <<tables, held, since, crossed, straddled, uses>>

\* verify_refresh_token and get_refresh_token.
LookUp(r) ==
    LET s == req[r].s  n == req[r].n IN
    /\ req[r].at = "lookup"
    /\ IF n <= dead[s] \/ n \notin rows[s] THEN Fail(r)
       ELSE Step(r, IF n <= lapsed[s] THEN "discard" ELSE "account")
    /\ raced' = IF Pending(s, n) # {} THEN raced \union {s} ELSE raced
    /\ UNCHANGED <<tables, held, since, crossed, straddled, uses>>

\* delete_refresh_token: no row is no error.
Remove(s, n) == rows' = [rows EXCEPT ![s] = @ \ {n}]

\* Expired in the table though not yet for the verification.
Discard(r) ==
    /\ req[r].at = "discard"
    /\ Remove(req[r].s, req[r].n)
    /\ Fail(r)
    /\ UNCHANGED <<users, births, latest, owner, lapsed, dead, held, history>>

ReadAccount(r) ==
    /\ req[r].at = "account"
    /\ IF owner[req[r].s] \in users THEN Step(r, "consume") ELSE Fail(r)
    /\ UNCHANGED <<tables, held, history>>

\* Variant of Consume that leaves the row to the cleanup.
ConsumeLater(r) ==
    /\ req[r].at = "consume"
    /\ Step(r, "issue")
    /\ UNCHANGED <<tables, held, history>>

Consume(r) ==
    /\ req[r].at = "consume"
    /\ Remove(req[r].s, req[r].n)
    /\ Step(r, "issue")
    /\ UNCHANGED <<users, births, latest, owner, lapsed, dead, held, history>>

Issued == MapThenSumSet(LAMBDA s : latest[s], Sessions)

\* get_tokens: the insert fails when the account has gone.  The answer
\* reaches a client that still waits for it.
Issue(r) ==
    LET s == req[r].s  n == latest[s] + 1 IN
    /\ req[r].at = "issue"
    /\ latest[s] < MaxGen /\ Issued < MaxIssued
    /\ IF owner[s] \notin users
         THEN Fail(r) /\ UNCHANGED <<rows, latest, held, uses>>
         ELSE /\ rows' = [rows EXCEPT ![s] = @ \union {n}]
              /\ latest' = [latest EXCEPT ![s] = n]
              /\ held' = IF req[r].heard THEN [held EXCEPT ![s] = n] ELSE held
              /\ uses' = IF req[r].op = "login" THEN uses
                         ELSE [uses EXCEPT ![s][req[r].n] = @ + 1]
              /\ Done(r)
    /\ UNCHANGED <<users, births, owner, lapsed, dead, since, crossed, straddled, raced>>

-----------------------------------------------------------------------------
(* Logout *)

Logout(r, s) ==
    /\ held[s] # NoToken
    /\ Heard(s, {"logout"}) = {}
    /\ Send(r, "logout", "erase", s, held[s])
    /\ Cross(s)
    /\ UNCHANGED <<tables, held, since, straddled, raced, uses>>

\* Variant of Erase whose deletion is not committed.
EraseNothing(r) ==
    /\ req[r].at = "erase"
    /\ Step(r, "leave")
    /\ UNCHANGED <<tables, held, history>>

\* logout_user: a token that cannot be verified is a bad request.
Erase(r) ==
    LET s == req[r].s  n == req[r].n IN
    /\ req[r].at = "erase"
    /\ IF n <= dead[s] THEN UNCHANGED rows ELSE Remove(s, n)
    /\ Step(r, "leave")
    /\ UNCHANGED <<users, births, latest, owner, lapsed, dead, held, history>>

\* Variant of Leave that clears the store's token and leaves the next one in.
LeaveNext(r) ==
    /\ req[r].at = "leave"
    /\ held' = IF req[r].heard THEN [held EXCEPT ![req[r].s] = @ + 1] ELSE held
    /\ Done(r)
    /\ UNCHANGED <<tables, history>>

\* The client clears its store once the logout is answered.
Leave(r) ==
    /\ req[r].at = "leave"
    /\ held' = IF req[r].heard THEN [held EXCEPT ![req[r].s] = NoToken] ELSE held
    /\ Done(r)
    /\ UNCHANGED <<tables, history>>

-----------------------------------------------------------------------------
(* Failures *)

\* The client gives up: the request runs on, unheard.  After a refresh the
\* client logs out; after a logout it clears its store all the same.
GiveUp(r) ==
    LET s == req[r].s IN
    /\ req[r].heard
    /\ crossed' = crossed \union {s}
    /\ \/ /\ req[r].op = "refresh" /\ held[s] # NoToken
          /\ \E q \in Requests :
               /\ req[q] = None
               /\ req' = [req EXCEPT ![r].heard = FALSE,
                            ![q] = [op |-> "quit", at |-> "erase", s |-> s,
                                    n |-> held[s], heard |-> TRUE]]
          /\ UNCHANGED held
       \/ /\ req[r].op \in {"logout", "quit"} \/ (req[r].op = "refresh" /\ held[s] = NoToken)
          /\ req' = [req EXCEPT ![r].heard = FALSE]
          /\ held' = [held EXCEPT ![s] = NoToken]
       \/ /\ req[r].op = "login"
          /\ req' = [req EXCEPT ![r].heard = FALSE]
          /\ UNCHANGED held
    /\ UNCHANGED <<tables, since, straddled, raced, uses>>

\* A database error or a crash ends a request in the middle.
Abort(r) ==
    /\ req[r].at \in {"lookup", "discard", "account", "consume", "issue", "erase"}
    /\ crossed' = crossed \union {req[r].s}
    /\ IF req[r].op \in {"logout", "quit"} THEN Step(r, "leave") ELSE Fail(r)
    /\ UNCHANGED <<tables, held, since, straddled, raced, uses>>

-----------------------------------------------------------------------------
(* Accounts and time *)

\* Variant of DeleteUser that leaves the refresh tokens.
DeleteUserOnly(u) ==
    /\ u \in users \ Admins
    /\ users' = users \ {u}
    /\ straddled' = straddled \union
         {s \in Sessions : owner[s] = u /\ \E r \in Of(s) : req[r].at \in {"account", "consume", "issue"}}
    /\ UNCHANGED <<births, rows, latest, owner, lapsed, dead, held, req, since,
                   crossed, raced, uses>>

\* delete_user_by_username, one transaction.
DeleteUser(u) ==
    /\ u \in users \ Admins
    /\ users' = users \ {u}
    /\ rows' = [s \in Sessions |-> IF owner[s] = u THEN {} ELSE rows[s]]
    /\ straddled' = straddled \union
         {s \in Sessions : owner[s] = u /\ \E r \in Of(s) : req[r].at \in {"account", "consume", "issue"}}
    /\ UNCHANGED <<births, latest, owner, lapsed, dead, held, req, since, crossed,
                   raced, uses>>

Gone == MapThenSumSet(LAMBDA s : lapsed[s] + dead[s], Sessions)

Expire(s) ==
    /\ lapsed[s] < latest[s] /\ Gone < MaxGone
    /\ lapsed' = [lapsed EXCEPT ![s] = @ + 1]
    /\ UNCHANGED <<users, births, rows, latest, owner, dead, held, req, history>>

\* The leeway is over, or the pair that signed the token is withdrawn.
Die(s) ==
    /\ dead[s] < latest[s] /\ Gone < MaxGone
    /\ dead' = [dead EXCEPT ![s] = @ + 1]
    /\ UNCHANGED <<users, births, rows, latest, owner, lapsed, held, req, history>>

\* Variant of CleanUp that reads the clock an interval ahead.
CleanUpEarly ==
    /\ rows' = [s \in Sessions |-> {n \in rows[s] : n > lapsed[s] + 1}]
    /\ UNCHANGED <<users, births, latest, owner, lapsed, dead, held, req, history>>

\* remove_outdated_refresh_task, every hour.
CleanUp ==
    /\ rows' = [s \in Sessions |-> {n \in rows[s] : n > lapsed[s]}]
    /\ UNCHANGED <<users, births, latest, owner, lapsed, dead, held, req, history>>

-----------------------------------------------------------------------------
Init ==
    /\ users = Admins
    /\ births = [u \in Users |-> IF u \in Admins THEN 1 ELSE 0]
    /\ rows = [s \in Sessions |-> {}]
    /\ latest = [s \in Sessions |-> NoToken]
    /\ owner = [s \in Sessions |-> Nobody]
    /\ lapsed = latest /\ dead = latest
    /\ held = [s \in Sessions |-> NoToken]
    /\ req = [r \in Requests |-> None]
    /\ since = latest
    /\ crossed = {} /\ straddled = {} /\ raced = {}
    /\ uses = [s \in Sessions |-> [n \in Gens |-> 0]]

Advance(r) ==
    \/ LookUp(r) \/ Discard(r) \/ ReadAccount(r) \/ Consume(r) \/ Issue(r)
    \/ Erase(r) \/ Leave(r)

Ask(r, s) ==
    \/ \E u \in Users : Register(r, s, u) \/ Login(r, s, u)
    \/ Refresh(r, s) \/ Logout(r, s)

Next ==
    \/ \E r \in Requests : Advance(r) \/ GiveUp(r) \/ Abort(r)
    \/ \E r \in Requests, s \in Sessions : Ask(r, s)
    \/ \E u \in Users : DeleteUser(u)
    \/ \E s \in Sessions : Expire(s) \/ Die(s)
    \/ CleanUp

Spec == Init /\ [][Next]_vars

-----------------------------------------------------------------------------
(* Properties *)

Points == {"none", "lookup", "discard", "account", "consume", "issue", "erase", "leave"}

Request ==
    [op : {"none", "login", "refresh", "logout", "quit"}, at : Points,
     s : Sessions \union {NoSession}, n : 0..MaxGen, heard : BOOLEAN]

TypeOK ==
    /\ users \subseteq Users /\ births \in [Users -> 0..MaxBirths]
    /\ rows \in [Sessions -> SUBSET Gens]
    /\ latest \in [Sessions -> 0..MaxGen] /\ held \in [Sessions -> 0..MaxGen]
    /\ lapsed \in [Sessions -> 0..MaxGen] /\ dead \in [Sessions -> 0..MaxGen]
    /\ owner \in [Sessions -> Users \union {Nobody}]
    /\ req \in [Requests -> Request]
    /\ since \in [Sessions -> 0..MaxBirths]
    /\ crossed \subseteq Sessions /\ straddled \subseteq Sessions /\ raced \subseteq Sessions
    /\ uses \in [Sessions -> [Gens -> Nat]]

Quiet(s) == Of(s) = {}

\* A session has at most one stored token, its newest, unless two refreshes
\* raced for one.  About refresh_tokens, which deletes the old row before it
\* inserts the new one, whatever requests, aborts and deletions come between.
OneTokenPerSession ==
    \A s \in Sessions \ raced : rows[s] \subseteq {latest[s]} \ {NoToken}

\* A client with a token and no request under way holds the one that is
\* stored, unless it has expired or its account was deleted.  About the
\* answers that are lost or late, after which the client logs out.
HeldIsStored ==
    \A s \in Sessions : Quiet(s) /\ held[s] # NoToken =>
        \/ held[s] \in rows[s]
        \/ held[s] <= lapsed[s] \/ held[s] <= dead[s]
        \/ owner[s] \notin users \/ since[s] # births[owner[s]]

\* Once a session is logged out nothing of it is stored that could still be
\* used, unless the logout crossed another of its requests, or one failed.
\* About logout_user beside refresh_tokens.
LogoutEnds ==
    \A s \in Sessions \ crossed :
        Quiet(s) /\ held[s] = NoToken => \A n \in rows[s] : n <= dead[s]

\* A stored token belongs to an account that exists, and to the registration
\* of that name it was issued to, unless the account was deleted under a
\* request that had already read it.  About delete_user_by_username.
SessionsEndWithAccount ==
    \A s \in Sessions : rows[s] # {} =>
        /\ owner[s] \in users
        /\ since[s] = births[owner[s]] \/ s \in straddled

\* A token is exchanged at most once: routers/auth.py refuses one that was
\* already consumed.  Two refreshes that both pass the lookup before either
\* has deleted the row are the one way round it.
SingleUse == \A s \in Sessions \ raced, n \in Gens : uses[s][n] <= 1
===============================================================================
