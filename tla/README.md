# Order Checker: a verification project

TLA+ models of the Order Checker backend (`src/backend`), the TLC runs that check
them on small instances, and TLAPS proofs of what matters most for every instance.

- [The system](#the-system): components, state, operations, interactions
- [What makes it hard](#what-makes-it-hard)
- [Modules](#modules): what each models and how it corresponds to the code
- [Runs](#runs): what TLC checks, on which bounds
- [Fairness](#fairness)
- [Proofs](#proofs)
- [Disagreements found](#disagreements-found)
- [What the models brought to light](#what-the-models-brought-to-light)
- [Not modelled](#not-modelled)

## The system

One FastAPI process (one uvicorn worker), PostgreSQL, Redis, the Shopee Open
Platform, an operator application and an administrator application in Flutter.

| component | state it keeps | operations |
|---|---|---|
| inventory (`queries/stocks.py`) | `warehouse.stocks`: rows of SKU, location, quantity; the mode flag | set, add, transfer; the deduction of a pick; two modes |
| picking lists (`queries/pick_items.py`) | `orders.pick_item_entries` | create (takes stock), assign to an order, return, delete |
| orders and claims (`queries/orders.py`) | `shopee.orders`, `order_info` | synchronise rows, claim |
| outbound (`queries/outbound.py`) | `orders.outbound_items`, `done` of orders | scan, close the period, clear |
| operators (`queries/users.py`) | `auth.users` and everything that refers to it | register, delete |
| synchronisation (`shopee_service.py`, `shopee_cache_manager.py`) | cache flag, asyncio lock, the workers in flight | GET /shopee/orders, refresh, invalidate |
| Shopee credentials | two tokens in Redis, a circuit breaker | refresh by a worker, save and reset by the administrator |
| sessions (`auth_service.py`) | `auth.refresh_tokens` | log in, refresh, log out, clean up |
| signing keys (`key_manager.py`) | key files, the cached key set | three-step rotation |
| sockets (`connection_manager.py`, `ticket_manager.py`) | open sockets, one-use tickets | connect, disconnect, broadcast |
| bills of material (`queries/bom.py`) | static tables | recursive expansion |
| applications (`frontend/`) | tokens, views | retry after refresh, reconnect |

How they interact: a pick takes stock and adds an entry in one transaction; an entry
may be assigned to an order its operator has claimed; orders reach the table only
through the synchronisation; closing a period completes orders through the scanned
order number or the stored tracking number; deleting an operator reaches into every
table; claims, closings and the administrator invalidate the synchronisation's cache;
every change is broadcast over the sockets after its commit.

**Concurrency.** Handlers declared `async def` run their database work synchronously
on the one event loop, so the code between two `await`s is atomic with respect to
them: a query function is one step. Handlers declared `def` (log in, log out,
refresh, reads) run in a thread pool and interleave at each database transaction
(`Sessions`). The rotation of the signing keys does its file work in worker threads
(`KeyRotation`). The synchronisation awaits Shopee in many concurrent workers
(`OrderSync`), each of whose calls may need a new access token (`ShopeeTokens`).

## What makes it hard

`PROJECT.json` lists each hazard at its line. The main families:

- *duplicate rows*: no unique constraint protects (SKU, location), (operator, item,
  order) or (operator, open text); the code looks up with `.first()` and the
  correctness of everything that follows hangs on what earlier calls left behind;
- *two commits in one workflow*: assign and unassign;
- *awaits under a lock*, concurrent workers reading a moving source, and a cache flag
  set by one request and cleared by others;
- *deletion of an operator* in the middle of everything;
- *restarts*, with all coordination state in memory, and *crashes* inside a rotation,
  with files as the only trace, or between the exchange of a Shopee token and the two
  writes that store its successor;
- *threads*: two refreshes between lookup and deletion, a directory listed before and
  cached after a rotation's step, a worker thread that outlives its cancellation;
- *answers that are lost or late*: a refresh the client gave up on, a Shopee token
  exchanged whose successor never arrived.

## Modules

### Stocks

`rows` is the committed table, a set of records; `bypass` the mode flag, which is
configuration and changes only with a restart (`SwitchMode`). A location is a set of
shelf names: `{}` is NULL, a singleton an entered location, a larger set the joined
string `"a, b"` that `WarehouseItem.location` computes and that the code really
stores when an adjustment comes without a location. What a set cannot express is
excluded by the named guard `JoinBound`: joining a name that is already joined.

| action | code |
|---|---|
| `AdjustRow`, `AdjustNew` | set and add in the default mode, with and without a row there |
| `Transfer` | `move_to` in the default mode |
| `PoolInPlace`, `PoolAt`, `PoolTransfer` | the branches of the single-location mode |
| `Pick` | `reduce_stock_for_pick` as `create_pick_item_entry` calls it |

`.first()` and the unordered result of a query are nondeterministic choices of rows.
The audit log and the broadcast after the commit are left out. A result larger than
`MaxInt`, the largest value of the column, is refused by the database, which rolls
the transaction back: a guard.

### Fulfilment

Operators, orders, claims, pick entries and scans in one module because the deletion
of an operator, the close and the claims reach across the tables. One action per
endpoint; `TakeOnly` is the outcome of assign or unassign in which the second of its
two transactions fails or the process stops between them. `SyncOrders` writes a
nondeterministic batch, each order with what the tracking request brought
(`Outcomes`): kept, learnt, or missing. Each order has one package (the code
handles several in the same loop), and the label Shopee prints for it is the constant
`LabelOf`. Empty order numbers and texts are refused or dropped by the request models
and are not in the sets. The stock a pick takes is `Stocks!Pick`, in the same
transaction; it constrains nothing here, because picks are never refused for lack of
stock.

`OwnOrdersOnly` says whether picks name only orders their operator has claimed. The
endpoint does not check it; the operator application does, by offering only the
claimed order that is open (`frontend/client/lib/screens/orders_view.dart:212`). The
one property that depends on it is proved under it; the others are proved for both
values. The passing run has it TRUE, the run `unknown_count` FALSE.

### OrderSync

Requests (`Reqs`) run through `phase`: idle, waiting (for the lock), listing,
detailing, notifying. `queue` is the asyncio lock with its waiters. Between two
awaits everything is one action: arrival and first check (`Request`), second check
(`AnswerFromCache` or `Begin`), the answer of one list worker (`List`), the start of
the detail workers (`Listed`), the answer of one detail worker (`Detail`) or its
failure (`SkipChunk`), the transaction with `mark_synced` (`Commit`), the end
(`Release`), and the failure of the whole (`Fail`), with the fallback of
`MOCK_ORDER_BYPASS` or without it at each failure. Around it Shopee's orders move on (`Advance`), the cache is
invalidated or expires (`Invalidate`), and the process restarts (`Restart`).

Orders move to later statuses only. Each is created within the synchronisation
window, a list fits one page, and a chunk of details holds one order, so chunks fail
independently, which subsumes larger chunks failing together. `still` (orders that
have not moved since a synchronisation began) and `owed` (refreshes asked for since
the last commit) are history variables for the properties: no guard reads them. A
single answer of Shopee is one action here; its retries and its token are
`ShopeeTokens`.

### Sockets

What the clients see of the stock. `listed` is the registry (`active_connections` with
`user_scopes`, which change together), `at` and `who` the endpoints, `gone` the
sockets whose client has left before the endpoint noticed. A snapshot is the number of
commits it was read after (`version`). A broadcast reads its snapshot and creates one
task for each socket in the same step; the tasks run later in the order of creation
(`outbox`), while the answer to a command is sent in the step that reads it
(`Command`) and may overtake them.

| action | code |
|---|---|
| `Open`, `Accepted`, `AcceptFails` | `websocket_endpoint` before, `connect` after the await of accept |
| `Command`, `End`, `Drop` | `get_stocks`; the end of the endpoint; the client leaves |
| `Deliver`, `SendFails`, `OtherSendFails` | `_send_raw` of a snapshot, and of any other message |
| `Update` | `update_or_move_stock`: commit and broadcast in one step |
| `PickCommit`, `PickSent`, `PickSendFails`, `PickAdmins`, `PickStocks` | `create_pick_item_entry`: commit, two notifications, each awaited, then the stocks |
| `Register`, `DeleteUser`, `Restart` | accounts change under open sockets; everything in memory goes |

`Broadcast` raises for everybody when one listed socket's user has no account
(`Nameless`). `Disconnect` of a socket already removed raises when the user has another
one (`DisconnectRaises`); in a pick the exception passes through `gather` and skips the
broadcast. `lost` records that the last broadcast was given up for one of these two
reasons. `version` is bounded by `MaxVersion`. Picks by one user overlap only when the
notifications of the first are over; picks of different users overlap freely. Each
step of a pick is an action of its own even where no socket is listed and the code
would not pause, which only adds behaviours.

### ShopeeTokens

One call of `shopee_request` is a worker: it looks at the circuit breaker (`Begin`),
reads the access token from Redis (`ReadAccess`), is answered (`Succeed`,
`RateLimited`, `Refused`) or breaks (`Broken`). A call refused for its token queues
for `TOKEN_REFRESH_LOCK`; inside, each await is an action: `Acquire` (breaker looked
at again), `Compare` (is the refused token still the stored one), `ReadRefresh`,
`Exchange` or `Reject`, `StoreAccess`, `StoreRefresh`. A failure after the request was
sent trips the breaker (`Trip`); a lost answer is an exchange at Shopee and a failure
here; a failing write may have written (`StoreFails`). Around it the administrator
reads both tokens in two reads (`OpenAccess`, `OpenRefresh`), enters a new pair
(`Authorise`), saves in two writes (`SaveAccess`, `SaveRefresh`) and resets. Shopee is
external: it numbers the pairs it issues (at most `LastPair`), takes the newest
refresh token once, and accepts only the newest access token until it expires.

The process may die between any two of these steps and start again (`Crash`): calls,
lock and breaker are in memory and gone, a save or a read of the form under way is lost
with it; Redis, a service of its own in `compose.yaml`, and Shopee go on. `torn`
remembers a crash that caught a refresh after its exchange, or found the breaker tripped:
Redis may then hold a spent refresh token with nothing to say so. It is over when a pair
has been stored whole, by a refresh or by a clean save.

`meddled` remembers that the breaker or the tokens were changed from outside. A save
of the newest pair while no refresh runs mends that. Where a property excuses
`meddled`, the code really fails otherwise: the page of an administrator holds the
tokens it was opened with and saves them over newer ones, and nothing in the code
prevents it. The same goes for `torn`. `RetriedWithAnother` and `EveryCallEnds` need no
such exception: they hold across crashes.

### Sessions

`rows` is `auth.refresh_tokens`: for each session (what one login or registration
began) the numbers of its stored tokens; the number stands for the `jti`. The handlers
of login, refresh and logout run in threads, one transaction after another, and each
transaction is an action of the request `r` that runs it.

| action | code |
|---|---|
| `Register`, `Login`, then `Issue` | `register_client`, `login_user`: the account is made or read, then the token stored |
| `Refresh`, `LookUp`, `Discard` or `ReadAccount`, `Consume`, `Issue` | the client sends its token; `refresh_tokens`, transaction by transaction |
| `Logout`, `Erase`, `Leave` | the client sends its token; `logout_user`; the client clears its store |
| `DeleteUser`, `CleanUp` | `delete_user_by_username`; the hourly removal of outdated tokens |
| `Expire`, `Die` | a token passes its expiry, and the leeway after which it cannot be verified |
| `GiveUp`, `Abort` | the client stops waiting (fifteen seconds); a database error or a crash ends the request |

`held` is the token in the store of each client, `heard` whether it still waits for the
answer. A refresh that fails makes the client log out with the token it holds
(`performRefresh`, `handleLogout`). `Apps` instances of an application may share one
store; each sends one refresh at a time. `crossed`, `straddled` and `raced` record the
overlaps for which the code makes no promise (a logout beside another request of the
session, an account deleted under a request that has read it, two refreshes that both
passed the lookup); the properties hold of all other sessions, and without these
exceptions TLC finds them violated.

### KeyRotation and KeyRing

`KeyRotation` is the directory (`pub`, `priv`: the content of each file, which may be
absent, empty, or the key of a pair), the cache made of it (`jwks`, `signer`, `fresh`),
the rotation task and the stop handler (`pc`, `file`, `nap`), the request threads that
reload the cache in three steps (`List`, `ReadFiles`, `Store`), and the access and
refresh tokens (`Issue`) that have not expired, signed alike and with lives of their own
(`Ttl`). A rotation is `Start`, `NameKey`, `GenerateKey`, `OpenPub`, `WritePub`,
`Announce` (reload and sleep), `OpenKey`, `WriteKey`, `Switch` (reload and sleep),
`RemoveFile` one at a time, `RemoveEnds`, `Forget`. `Stop` cancels the task: a worker
thread that runs goes on beside the handler (`Check`, then the same file steps as actor
`"stop"`). The constructor creates a first pair when the directory has none
(`CreateFirst`, `WriteFirst`: two files, each opened and then written) and loads the
newest (`Boot`). `Crash` may come between any two of all these steps. A name, given by
the second, is taken never to be given twice; listing the directory and removing files
are taken to succeed.

Time is in ticks. A wait ends no earlier than its length; a scan by a request takes
less than a tick, which is the thirty seconds that the code adds to its waits.
`PublishedAhead` counts from the naming of a pair; its public half is written some file
operations later.

`clash` records that a stop overtook a running worker thread, after which the code
promises nothing: the thread may write a file the handler has removed, or remove the
pair the handler keeps.

`KeyRing` is the abstract promise: a set of published keys, the one in use, the tokens;
a key is withdrawn only when no token needs it for more than its last `Grace` ticks,
except by a stop (`Cut`). `KeyRotation!RingSpec` states that the files, caches and
threads implement it, with `published` the names whose file holds their own key,
`signing` the key of a usable cache, and `tokens` those that were whole when issued and
were not cut. What a rotation waits for before it removes a pair is the life of an access
token, so a token counts there for what it has left of its first `AccessTtl` ticks
(`Due`): for an access token that is its life, for a refresh token its beginning. That
the rest of its twenty-four hours is lost is the run `keys_refresh`. `Grace` is `CacheTtl - Slack - 1`: a thread that listed the directory
before a switch puts the old signer back in the cache for up to `CacheTtl`, while the
removal comes `AccessTtl + Slack` after the switch.

### Bom

`build_shopee_order_response`: lines are taken one at a time (`Take`), a listing or a
bill of material is expanded by visiting nodes (`Visit`, with `stack` the nodes the
recursion still has to visit, each with the items above it), leaves are added to
`parts` (`components_map`, which the code keys by SKU, name and location of the stock;
the model adds the keys of one SKU together). The tables are data from outside: every table within the
bounds is an initial state, cycles included. The queries ask for no order, so a node's
rows come in any (`Of`). The reference definition (`Needed`) counts level by level,
without a stack.

### What composes with what

`Fulfilment!Create` and `Stocks!Pick` are one transaction of the code, and neither
constrains the other: picks are not refused for lack of stock. `OrderSync!Commit` is
`Fulfilment!SyncOrders`, each detail's outcome included. `OrderSync!List`, `Detail`
and their failures are the ends of calls of `ShopeeTokens`. `Sessions!Die` covers the
withdrawal of a pair in `KeyRotation`. `Sockets` composes the endpoints of stocks and
picks with the registry.

### Variants

A definition whose comment begins with "Variant of" is a plausible bug in the one
that follows it. No specification uses it; it shows that the property it is paired
with in `PROJECT.json` would notice.

## Runs

| run | bounds | shows |
|---|---|---|
| `stocks` | 2 items, 2 shelves, 3 rows, quantities to 3 | soundness of rows, conservation, exact deduction, the promise of the single-location mode, across mode switches |
| `fulfilment` | 2 operators, 1 item, 2 orders with labels, 3 entries, quantities to 3, 1 scan | entries merge, one operator on an order, claims hold, assign and return conserve, nothing refers to a deleted operator |
| `sync` | 3 requests, 2 orders, 2 statuses | a refresh synchronises, rows never go back, orders at rest are caught, every request is answered |
| `sockets` | 2 users (one administrator), 2 sockets, 2 commits | the registry is sound, the last message to a client carries the last commit, and arrives |
| `keys` | 3 pairs, 1 scanning thread, 1 token of either kind, 1 crash, 1 stop | a whole pair survives, the signer is published, and ahead of its use; the implementation of `KeyRing`; recovery from an empty key |
| `sessions` | 2 sessions of 1 username, 2 requests, 3 tokens, 2 registrations, 2 losses | one token a session, used once, held only while stored, ended by logout and with the account |
| `shopee_tokens` | 2 workers, 1 retry, 3 pairs, any number of crashes | refresh tokens are spent once and what is stored is unspent, a tripped breaker stops every refresh, a retry carries another token, every call ends |
| `bom` | 3 items, up to 3 rows, 1 product with at most 1 row, 2 lines | the components of an order are those of the reference definition; cycles end |

The bounds are the smallest at which the interesting cases happen. Three rows of stock
give two duplicates on one shelf and a third elsewhere, and a pick over several rows
that ends inside one or at its edge; two shelves give the joined location. Three entries
give source, target and bystander; quantities to three give a partial, a full and an
overflowing merge. One scan is open, closed or cleared while the rest goes on; two
operators with one text open need two, which `unknown_count` has. Three requests give
a holder and a queue behind it; two sockets of one user give the second disconnection
that raises, of two users the bystander of a broadcast given up; two commits let one
overtake the other's announcement. Two statuses let an order move past a list not yet
read. Three pairs make two rotations in a row, the second over what the first left
behind; `CacheTtl` 3 with `Slack` 1 leaves a late reload one tick to spoil, so that
`Grace` is not zero, and a refresh token outlives the access tokens by one tick; one
scanning thread interleaves with the rotation, and that several may interleave with each
other is left to the theorems. Two requests are enough for a race of two refreshes, or a logout
beside a refresh; two registrations of one username give a session of the account that
was deleted. Two workers give a holder of the lock and one whose refused token has been
replaced meanwhile; the third pair is the administrator's. Three rows make a
sub-assembly used twice, a chain, or any cycle of up to three items. Row, entry and
scan keys are bounded by finite sets: when none is free, insertion is disabled. The
proofs remove the bounds.

Deadlock is checked in every run: a client, a clock or an administrator can always act.

The other four runs each find a counterexample to a documented statement; see below.

## Fairness

`sync` needs it: `WF_vars(Work(r))` for each request. The event loop
runs every ready task, the lock is first come, first served, and every request to
Shopee ends with an answer, an error or aiohttp's five-minute timeout; an answer, a
skipped chunk and a failure are all disjuncts of `Work`, so fairness promises an end
of each wait and never success. Nothing is assumed of clients, of Shopee's orders, of
invalidations or of restarts (a restart abandons its requests: their clients see the
connection close, which counts as answered).

`sockets` assumes it of sends (`Send(s)`) and of a pick under way (`PickGoesOn(u)`):
these are tasks of the event loop, and a send ends with success or an exception.
Clients need not leave, return or ask, and endpoints need not notice that they left.

`shopee_tokens` assumes that every await of a call is answered, in any of the ways the
code handles: `WF_vars(Proceed(w))`. The lock is first come, first served. Nothing is
assumed of the administrator, of expiry or of crashes, which end every call.

`keys` assumes that something of `Work` (the task, the stop handler, the end of the
process, its start and its constructor) goes on while any of it can, that a request
ends its scan (`WF`), and that time passes: `Tick` is strongly fair because a scan,
which takes less than a tick, disables it. `compose.yaml`
gives the server itself no restart policy, so that it is started again rests on whoever
runs it: `SignerRecovers` speaks of a key that a restart finds, and a server that stays
down signs nothing. Crashes and stops are never required. A day must pass.

`sessions`, `stocks`, `fulfilment` and `bom` assume nothing.

## Proofs

The modules `StocksProofs`, `FulfilmentProofs`, `OrderSyncProofs`, `SocketsProofs`,
`SessionsProofs`, `ShopeeTokensProofs`, `KeyRotationProofs` and `BomProofs` hold for
every value of the constants that satisfies the modules' `ASSUME`s: any finite sets of
row keys, entries and items, any sets of operators and orders, any number of
concurrent requests, calls, retries and statuses, any sockets, sessions, tokens, pairs
and number of commits, any tables and quantities.

Every safety invariant and every action property that a passing run checks is also the
statement of a theorem, and so is the refinement `RingSpec`.
What only the theorems reach: `NothingDangles` when picks name any order
(`OwnOrdersOnly` FALSE), and threads that scan the key files beside each other.

- **Stocks.** The invariant is `TypeOK` with `RowsSound` and the finiteness of the
  table. The work is in sums: a total is the cardinality of the set of units
  `<<row, i>>`, so replacing rows becomes disjoint unions, and lemmas about `Units`
  give conservation by transfers and the exact deduction by picks without induction.
  Unique keys (`RowsSound`) are needed for conservation: were two rows with one key
  possible, replacing one could swallow the other. `BypassConsolidates` counts rows:
  "at most one" is "any two are the same" (`AtMostOne`), and that any two rows a
  gathering leaves are the same follows from the row it writes.
- **Fulfilment.** The invariant is the conjunction of the type, reference, merge and
  scan invariants; none of them is inductive alone. `EntriesMerged` needs the reduced
  entry to keep its key, `OneOperatorPerOrder` needs `NothingDangles`, so that a
  registered operator starts with nothing. `OpenScansStayDistinct` and `DoneStaysFinal`
  are proved here and need no run. `MovesConserve` counts: what an operator holds of an
  item is the cardinality of the set of units `<<entry, i>>`, which one entry more makes
  larger by what it holds (`HeldGains`); taking from the source (`HeldTaken`) and merging
  into the target (`HeldMerged`) are exchanges of one entry for another. The
  entries are finite because no two have one key. `PicksAloneGive` is the converse over
  all steps: nothing but a pick makes units, retries and half-finished workflows
  included.
- **OrderSync.** `Between`: what the holder has seen of an order lies between the
  order's row and its status at Shopee; `Tracked`: an order at rest has been found by
  the list of its status. With `LockDiscipline`, by which no other request writes rows
  meanwhile, they give that rows never go back and that orders at rest are caught.
  `RefreshesSynchronise`: while a refresh is owed and nothing was committed, the cache
  is not valid, so the refresh cannot be answered from it.
- **Sockets.** `ViewsCurrent` needs `RegistrySound`, by which a broadcast reaches every
  connected socket, and `AcceptingFresh`: a socket that becomes connected was sent
  nothing before, so it holds no old snapshot.
- **Sessions.** The invariant has a part for each of what can go wrong. `Ready`: without a
  race a request past its lookup carries the newest token, and one about to store a
  new token has removed the old. `Apart`: two requests of a session are past their
  lookup only in a race, and overlap only when the session counts as crossed. `Told`:
  a client whose token is no longer stored is excused or has a request under way whose
  failure will make it log out; this needs `Heeded`, that a request nobody waits for
  any more has a successor that somebody does wait for. `Clear` and `Kept`: a logout
  that runs alone finds the token it removes to be all there is.
- **ShopeeTokens.** `LockSound`: the lock holds each waiting call once and only its head
  refreshes, so nobody writes beside it. `Stored` alone is not inductive: the refresher
  has to carry the newest token, and to show that a retry brings another token the
  stored one must be no older than any that a call has read (`Clean`), which holds until
  somebody meddles, and again after a save that finds no refresh and no second try under
  way. A crash (`CrashKeeps`) empties the lock and ends every call, so all parts but
  `Stored` hold of what remains, and `Stored` is excepted exactly when the refresh it
  interrupted had exchanged its token or the breaker had been tripped. `FailFast`: the
  holder that trips the breaker leaves the lock in the same step, and no later one passes
  the check.
- **KeyRotation and KeyRing.** The invariant `Inv` has ten parts, of which the properties
  need all. `PairSurvives` is a property of steps: once a whole pair is there, no step of
  the task, the handler, the constructor or a crash takes the last one. `TaskSound` tells from where the task is which files of the new pair are
  written; `AheadSound`, that until the private half is there the newest pair is the one
  that signs and the only one any scan can have found, so a late scan cannot put a key
  to use early; `RetainSound`, that after the switch a scan that begins finds the new
  pair, and one that was late puts the old pair back for no longer than the cache
  lives, which the wait before the removal outlasts by the slack. `HalvesSound`,
  `StopSound` and `CacheSound` say the same of crashes and of the stop handler, unless a
  stop overtook a thread. `Refinement` maps each action to a step of `KeyRing` or a
  stutter: the making of a pair to `Rotate`, each reload to `Rotate` or nothing, each
  removed file to `Withdraw`, or to `Cut` under a stop, the clock to `Tick`. That the
  promise of `KeyRing` is kept (`RingHonours`) follows from its guards for any lifetime
  and grace, and the two give `TokensVerify`: of the `AccessTtl` ticks from its issue no
  token loses more than the last `Grace`, unless a stop withdrew its pair. For access
  tokens that is their life. Of refresh tokens nothing more holds (`keys_refresh`).
- **Bom.** A branch expands no item that is above itself and puts the item it expands
  above its children, so a path names no item twice (`Simple`); a path without
  repetition is an injection into the items, hence no longer than their number.
  `RecursionBounded` alone is not inductive: it does not say why the next level fits.
  With the depth bounded, `ExpansionEnds` (proved here, no run) gives each node to visit
  the number of visits it may still cause (`Weight`, by the levels it has left): a
  visited node takes away more than its children bring, cycles or not.

  `TotalsRight` compares a walk over a stack with sums over levels. The invariant that
  joins them is `Balance`: when the tables hold no cycle, what the map holds of an item
  and what the nodes on the stack still need of it (`Needed(Asked(stack))`) are together
  what the lines taken need. `Needed` is additive (`NeededPlus`), so the node on top can
  be looked at alone; it can be peeled (`NeededBelow`): what an amount needs is itself,
  where an item has no rows, and what the level below it needs, since without a cycle
  nothing is left on the last level (`AcyclicEnds`); and the children of a node ask for
  exactly that level (`AskedChildren`), in whatever order the query returned the rows.
  A cut would lose what is below it, so the invariant also says that each node was
  reached along rows (`Sound`): a path that comes back to an item is a cycle
  (`NoWayBack`). That the guard cuts nothing when there is no cycle is
  `GuardCutsOnlyCycles`. The component map has one name space for items and products;
  that these are disjoint (`BomAssumption`) is used where a listing without rows is
  added under the product's own id.

  The sums are again numbers of units (`SumCounts`), so they do not depend on the order
  in which a fold takes its elements. The library's induction theorems take an operator
  as a parameter and cannot be used; `SubsetInduction`, `UpToInduction` and `Recursion`
  speak of sets instead of predicates and follow from the orders on numbers and on the
  subsets of a finite set being well founded. With them the recursive functions of the
  reference (`Levels`, the one inside `Acyclic`) can be reasoned about.

Model-checked only:

- liveness (`EveryRequestAnswered`, `ViewsSettle`, `SignerRecovers`, `EveryCallEnds`): it
  rests on fairness and `ENABLED`, which the prover does not reason about.

## Disagreements found

Each is a run that is expected to violate its one property.

- `stocks_duplicate`: an adjustment without a location duplicates the item's row at
  its own location (`queries/stocks.py:235`), while stock is "stored per
  SKU/location".
- `unknown_count`: two operators' open scans of one text make the `unknown` count
  negative (`queries/outbound.py:114`), which the response model refuses, after the
  commit.
- `sockets_lost`: an operator is deleted with a socket open; from then on every
  broadcast of the stock raises (`connection_manager.py:51`) after the commit, so
  changes are answered with an error and shown to nobody until that socket ends,
  while "every mutation ... broadcasts the new inventory snapshot"
  (`docs/ARCHITECTURE.md:86`).

- `keys_refresh`: a refresh token is signed with the pair in use and refused once that
  pair has been removed, a quarter of an hour after the next switch
  (`auth_service.py:149`, `key_manager.py:203`), while it is said to be valid for
  twenty-four hours (`docs/ARCHITECTURE.md:52`, `docs/OPERATIONS.md:149`,
  `models.py:399`): whoever does not refresh within that quarter of an hour has to log
  in again after each daily rotation.

## What the models brought to light

Other behaviour worth knowing. Three of the entries go against a statement of the
repository: the race of two refreshes against "Single-use-on-refresh" (`models.py:399`),
the stop and the late reload against "retain the old key for the access-token lifetime"
(`docs/ARCHITECTURE.md:56`). The models except them by name (`raced`, `Cut`, `Grace`)
and show that nothing else breaks these promises. The others contradict no statement.

- a refresh of the orders may be answered with data read before it was asked for, when
  a synchronisation already running commits after it (`shopee_service.py:569`);
- a synchronisation whose tracking request failed overwrites a stored tracking number
  with nothing (`queries/orders.py:206`); the label scanned later completes no order;
- two refreshes of one token that both pass the lookup are both answered with a new
  token, and the session has two from then on (`auth_service.py:288`);
- a stop in the middle of a rotation commits it at once and withdraws the old pair
  before the tokens signed with it expire (`key_manager.py:205`); inside a worker
  thread it may leave no usable pair;
- a reload begun before a switch of keys puts the old signer back for the life of the
  cache, and its last tokens outlive the old pair (`key_manager.py:123`);
- the administrator's form saves both Shopee tokens as they were when it was opened,
  over newer ones (`routers/admin_shopee.py`), after which every refresh fails;
- a process that dies between Shopee's exchange of a refresh token and the second of
  the two writes to Redis (`shopee_service.py:94-105`) leaves a spent token there, and
  one that dies with the breaker tripped forgets that it was: the next call that finds
  its access token expired sends the spent token, is refused and trips the breaker
  again, and an administrator has to enter a new pair;
- assign and unassign commit the reduction of one entry before they add to the other
  (`queries/pick_items.py:155`); a failure in between loses the units from both;
- the cleanup of refresh tokens ends for good at its first database error
  (`auth_service.py:301`).

## Not modelled

Barcode lookup, exports and reports only read. Configuration, logging and migrations
have no state of the running system. The screens of the applications show what
the sockets bring. The bodies of displayed data (items of an order, addresses, tags)
are written once and decide nothing. `get_or_merge_stock`, `resolve_standard_bom` and
`rotate_keys_force` have no caller outside their packages. The seeding of the
administrator's account and of the Shopee tokens in Redis happens before the initial
states. The one-use ticket of a socket is two calls to Redis, a read and a deletion,
and a property of it would restate them. The reconnection of the applications' sockets
opens a new one, which `Sockets` allows at any time. Redis is taken to keep what it
acknowledged; with a Redis that lost its data the tokens would be seeded again from the
configuration.
