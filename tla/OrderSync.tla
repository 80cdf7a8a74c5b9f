------------------------------ MODULE OrderSync ------------------------------
(***************************************************************************)
(* GET /shopee/orders: the synchronisation of the order table with Shopee. *)
(* Requests check a cache flag, queue for one asyncio lock, check again,   *)
(* and then one of them lists the orders of every status concurrently,     *)
(* fetches their details concurrently, and writes them in one transaction. *)
(*                                                                         *)
(* Source: services/shopee_service.py, sync_shopee_orders with its workers *)
(* fetch_sns_for_status and fetch_chunk_details, and                       *)
(* services/managers/shopee_cache_manager.py.  Every await is a place      *)
(* where the other requests may run, so the code between two of them is    *)
(* one action.  When one worker raises, gather abandons the others without *)
(* cancelling them: what they still learn reaches neither the cache nor    *)
(* the database, so they leave this module.                                *)
(***************************************************************************)
EXTENDS Integers, Sequences

CONSTANTS
    Reqs,       \* concurrent requests
    Orders,     \* orders created within the synchronisation window
    LastStatus  \* number of order statuses (five), each listed by a worker

ASSUME SyncAssumption == LastStatus \in Nat \ {0}

Statuses == 1..LastStatus
Absent == 0     \* not placed at Shopee, or no row in the table

VARIABLES
    stage,     \* status of each order at Shopee
    stored,    \* status of each order in shopee.orders
    valid,     \* the cache flag: synchronised within the time to live
    queue,     \* the cache lock: its holder, then its waiters
    phase,     \* where each request is
    left,      \* statuses whose list is still awaited
    found,     \* order numbers listed so far
    todo,      \* orders whose details are still awaited
    seen       \* statuses the details brought

sync == <<left, found, todo, seen>>

VARIABLES
    still,     \* history: orders that have not moved since the sync began
    owed       \* history: refreshes asked for since the last commit

history == <<still, owed>>
vars == <<stage, stored, valid, queue, phase, sync, history>>

Phases == {"idle", "waiting", "listing", "detailing", "notifying"}
Nothing == [o \in Orders |-> Absent]
NoneOf == [r \in Reqs |-> {}]

-----------------------------------------------------------------------------
(* Surroundings *)

\* Shopee: an order is placed, or moves on to a later status.
Advance(o) ==
    /\ \E k \in Statuses : k > stage[o] /\ stage' = [stage EXCEPT ![o] = k]
    /\ still' = [r \in Reqs |-> still[r] \ {o}]
    /\ UNCHANGED <<stored, valid, queue, phase, sync, owed>>

\* A claim, a closing of the period or an administrator invalidates the cache,
\* or its time to live passes.
Invalidate ==
    /\ valid' = FALSE
    /\ UNCHANGED <<stage, stored, queue, phase, sync, history>>

\* The process restarts: cache, lock and requests are in its memory.
Restart ==
    /\ valid' = FALSE
    /\ queue' = <<>>
    /\ phase' = [r \in Reqs |-> "idle"]
    /\ left' = NoneOf /\ found' = NoneOf /\ todo' = NoneOf
    /\ seen' = [r \in Reqs |-> Nothing]
    /\ still' = NoneOf /\ owed' = {}
    /\ UNCHANGED <<stage, stored>>

-----------------------------------------------------------------------------
(* One request *)

\* Variant of Request whose refresh leaves the cache valid.
RequestKeeping(r, refresh) ==
    /\ phase[r] = "idle"
    /\ refresh \/ ~valid
    /\ phase' = [phase EXCEPT ![r] = "waiting"]
    /\ queue' = Append(queue, r)
    /\ owed' = IF refresh THEN owed \cup {r} ELSE owed
    /\ UNCHANGED <<stage, stored, valid, sync, still>>

\* It arrives; a refresh first invalidates the cache.  With a valid cache it is
\* answered from the database at once, which changes nothing.
Request(r, refresh) ==
    /\ phase[r] = "idle"
    /\ refresh \/ ~valid
    /\ valid' = FALSE
    /\ phase' = [phase EXCEPT ![r] = "waiting"]
    /\ queue' = Append(queue, r)
    /\ owed' = IF refresh THEN owed \cup {r} ELSE owed
    /\ UNCHANGED <<stage, stored, sync, still>>

\* The lock goes to the waiters in their order (asyncio.Lock is first come,
\* first served); a free lock is taken at once.
HasLock(r) == queue # <<>> /\ Head(queue) = r

\* What a request has learnt is local to it and ends with it.
Forget(r) ==
    /\ left' = [left EXCEPT ![r] = {}]
    /\ found' = [found EXCEPT ![r] = {}]
    /\ todo' = [todo EXCEPT ![r] = {}]
    /\ seen' = [seen EXCEPT ![r] = Nothing]
    /\ still' = [still EXCEPT ![r] = {}]

Leave(r) ==
    /\ phase' = [phase EXCEPT ![r] = "idle"]
    /\ queue' = Tail(queue)
    /\ owed' = owed \ {r}
    /\ Forget(r)

\* The second check: another request has synchronised meanwhile.
AnswerFromCache(r) ==
    /\ phase[r] = "waiting" /\ HasLock(r)
    /\ valid
    /\ Leave(r)
    /\ UNCHANGED <<stage, stored, valid>>

\* The workers that list the orders of each status start.
Begin(r) ==
    /\ phase[r] = "waiting" /\ HasLock(r)
    /\ ~valid
    /\ phase' = [phase EXCEPT ![r] = "listing"]
    /\ left' = [left EXCEPT ![r] = Statuses]
    /\ found' = [found EXCEPT ![r] = {}]
    /\ still' = [still EXCEPT ![r] = Orders]
    /\ owed' = owed \ {r}
    /\ UNCHANGED <<stage, stored, valid, queue, todo, seen>>

\* Variant of List that collects the status in place of the orders.
ListStatuses(r, s) ==
    /\ phase[r] = "listing" /\ s \in left[r]
    /\ left' = [left EXCEPT ![r] = @ \ {s}]
    /\ found' = [found EXCEPT ![r] = @ \cup {s}]
    /\ UNCHANGED <<stage, stored, valid, queue, phase, todo, seen, history>>

\* One worker has its answer; each asks at a moment of its own.
List(r, s) ==
    /\ phase[r] = "listing" /\ s \in left[r]
    /\ left' = [left EXCEPT ![r] = @ \ {s}]
    /\ found' = [found EXCEPT ![r] = @ \cup {o \in Orders : stage[o] = s}]
    /\ UNCHANGED <<stage, stored, valid, queue, phase, todo, seen, history>>

\* All have: the workers for the details start.  (One order to a chunk: a
\* larger chunk answers for its orders in one step and loses them together.)
Listed(r) ==
    /\ phase[r] = "listing" /\ left[r] = {}
    /\ phase' = [phase EXCEPT ![r] = "detailing"]
    /\ todo' = [todo EXCEPT ![r] = found[r]]
    /\ seen' = [seen EXCEPT ![r] = Nothing]
    /\ UNCHANGED <<stage, stored, valid, queue, left, found, history>>

\* The details of an order arrive.
Detail(r, o) ==
    /\ phase[r] = "detailing" /\ o \in todo[r]
    /\ todo' = [todo EXCEPT ![r] = @ \ {o}]
    /\ seen' = [seen EXCEPT ![r][o] = stage[o]]
    /\ UNCHANGED <<stage, stored, valid, queue, phase, left, found, history>>

\* The request for a chunk fails: the chunk is skipped.
SkipChunk(r, o) ==
    /\ phase[r] = "detailing" /\ o \in todo[r]
    /\ todo' = [todo EXCEPT ![r] = @ \ {o}]
    /\ UNCHANGED <<stage, stored, valid, queue, phase, left, found, seen, history>>

\* Variant of Commit that leaves the rows it finds as they are.
CommitNewOnly(r) ==
    /\ phase[r] = "detailing" /\ todo[r] = {}
    /\ stored' = [o \in Orders |-> IF stored[o] = Absent THEN seen[r][o] ELSE stored[o]]
    /\ valid' = TRUE
    /\ phase' = [phase EXCEPT ![r] = "notifying"]
    /\ owed' = {}
    /\ UNCHANGED <<stage, queue, sync, still>>

\* Variant of Commit that replaces the table by what was seen.
CommitReplacing(r) ==
    /\ phase[r] = "detailing" /\ todo[r] = {}
    /\ stored' = seen[r]
    /\ valid' = TRUE
    /\ phase' = [phase EXCEPT ![r] = "notifying"]
    /\ owed' = {}
    /\ UNCHANGED <<stage, queue, sync, still>>

\* sync_shopee_orders_to_db and mark_synced.
Commit(r) ==
    /\ phase[r] = "detailing" /\ todo[r] = {}
    /\ stored' = [o \in Orders |-> IF seen[r][o] # Absent THEN seen[r][o] ELSE stored[o]]
    /\ valid' = TRUE
    /\ phase' = [phase EXCEPT ![r] = "notifying"]
    /\ owed' = {}
    /\ UNCHANGED <<stage, queue, sync, still>>

\* The sockets have been notified, or a notification has raised; either way the
\* lock, held meanwhile, is released and the request answered.
Release(r) ==
    /\ phase[r] = "notifying"
    /\ Leave(r)
    /\ UNCHANGED <<stage, stored, valid>>

\* Variant of Fail that keeps the lock.
FailLocked(r) ==
    /\ phase[r] \in {"listing", "detailing"}
    /\ phase' = [phase EXCEPT ![r] = "idle"]
    /\ owed' = owed \ {r}
    /\ Forget(r)
    /\ UNCHANGED <<stage, stored, valid, queue>>

\* A list that cannot be had, the token circuit breaker or the database ends
\* the synchronisation; with MOCK_ORDER_BYPASS, whose value is read at this
\* point, the old rows are served instead.
Fail(r) ==
    /\ phase[r] \in {"listing", "detailing"}
    /\ \/ /\ phase' = [phase EXCEPT ![r] = "notifying"]
          /\ Forget(r)
          /\ UNCHANGED <<queue, owed>>
       \/ Leave(r)
    /\ UNCHANGED <<stage, stored, valid>>

-----------------------------------------------------------------------------
Init ==
    /\ stage = Nothing /\ stored = Nothing
    /\ valid = FALSE
    /\ queue = <<>>
    /\ phase = [r \in Reqs |-> "idle"]
    /\ left = NoneOf /\ found = NoneOf /\ todo = NoneOf
    /\ seen = [r \in Reqs |-> Nothing]
    /\ still = NoneOf /\ owed = {}

\* The steps that the code takes for a waiting request by itself: requests to
\* Shopee end with an answer, an error or aiohttp's timeout.
Work(r) ==
    \/ AnswerFromCache(r) \/ Begin(r)
    \/ \E s \in Statuses : List(r, s)
    \/ Listed(r)
    \/ \E o \in Orders : Detail(r, o) \/ SkipChunk(r, o)
    \/ Commit(r) \/ Release(r) \/ Fail(r)

Next ==
    \/ \E o \in Orders : Advance(o)
    \/ Invalidate
    \/ Restart
    \/ \E r \in Reqs, refresh \in BOOLEAN : Request(r, refresh)
    \/ \E r \in Reqs : Work(r)

Spec == Init /\ [][Next]_vars

\* The event loop runs every task that is ready, and nothing else is fair:
\* clients may stop asking, orders may stop moving.
FairSpec == Spec /\ \A r \in Reqs : WF_vars(Work(r))

-----------------------------------------------------------------------------
(* Properties *)

TypeOK ==
    /\ stage \in [Orders -> 0..LastStatus]
    /\ stored \in [Orders -> 0..LastStatus]
    /\ valid \in BOOLEAN
    /\ queue \in Seq(Reqs)
    /\ phase \in [Reqs -> Phases]
    /\ left \in [Reqs -> SUBSET Statuses]
    /\ found \in [Reqs -> SUBSET Orders]
    /\ todo \in [Reqs -> SUBSET Orders]
    /\ seen \in [Reqs -> [Orders -> 0..LastStatus]]
    /\ still \in [Reqs -> SUBSET Orders]
    /\ owed \in SUBSET Reqs

\* The lock and the requests agree, through failures and restarts: a request
\* is in the queue exactly while it is not idle, once, and only the request at
\* its head is past the second check.
LockDiscipline ==
    /\ \A r \in Reqs : phase[r] # "idle" <=> \E i \in 1..Len(queue) : queue[i] = r
    /\ \A i, j \in 1..Len(queue) : queue[i] = queue[j] => i = j
    /\ \A r \in Reqs : phase[r] \notin {"idle", "waiting"} => HasLock(r)

\* An order's row never goes back to an earlier status: details are asked for
\* and written under the lock, so no synchronisation writes what was read
\* before another one's commit.
StoredNeverGoesBack == [][\A o \in Orders : stored'[o] >= stored[o]]_vars

\* A synchronisation that completes has stored the status of every order that
\* did not move while it ran and whose chunk did not fail, whatever else moved.
SyncCatchesResting ==
    [][\A r \in Reqs :
          Commit(r) =>
             \A o \in still[r] :
                \/ stage[o] = Absent
                \/ o \in found[r] /\ seen[r][o] = Absent
                \/ stored'[o] = stage[o]]_vars

\* Every request is answered in the end, with orders or with an error: no
\* failure, invalidation or slow neighbour leaves the lock held for good.
EveryRequestAnswered ==
    \A r \in Reqs : phase[r] = "waiting" ~> phase[r] = "idle"

\* A request to refresh is never answered from what the cache held when it was
\* made: it synchronises, or waits for a synchronisation that is committed
\* afterwards, whatever other requests, failures and invalidations do to the
\* flag meanwhile.  (That one may have begun, and read, before the request.)
RefreshSynchronises == [][\A r \in Reqs : AnswerFromCache(r) => r \notin owed]_vars
=============================================================================
