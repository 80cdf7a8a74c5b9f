----------------------------- MODULE KeyRotation -----------------------------
(***************************************************************************)
(* The RSA keys that sign access and refresh tokens: a directory with a    *)
(* .pub and a .key file per pair, a cache of it in memory, a task that     *)
(* replaces the pair every day, request threads that reload the cache, and *)
(* the handler that commits a rotation when the server stops.              *)
(*                                                                         *)
(* Source: services/managers/key_manager.py, and the callers in            *)
(* services/auth_service.py.  The task runs its file operations in worker  *)
(* threads (asyncio.to_thread): request threads run between any two of     *)
(* them, and after a cancellation the thread runs on beside the handler.   *)
(* A file is opened before its content is written, so a reader or a crash  *)
(* can find it empty.  Listing and removing files is taken to succeed.     *)
(*                                                                         *)
(* Time is counted in ticks.  A wait ends no earlier than its length and   *)
(* at any time later; a scan of the directory by a request takes less than *)
(* a tick, which is what the thirty seconds of slack are for.              *)
(***************************************************************************)
EXTENDS Integers, FiniteSets, FiniteSetsExt

CONSTANTS
    LastKid,     \* bound: pairs that are ever named
    CacheTtl,    \* KEY_CACHE_TTL_SECONDS
    AccessTtl,   \* ACCESS_TTL_SECONDS, the life of an access token
    RefreshTtl,  \* REFRESH_TTL_SECONDS, the life of a refresh token
    Slack,       \* the thirty seconds added to both waits
    Day,         \* age at which a pair is replaced
    Scanners,    \* request threads that reload the cache
    MaxTokens,   \* bound: tokens alive at once
    MaxCrashes,  \* bound
    MaxStops     \* bound

ASSUME KeyAssumption ==
    /\ {CacheTtl, AccessTtl, RefreshTtl, Slack, Day} \subseteq Nat
    /\ 0 < Slack /\ Slack < CacheTtl /\ 0 < AccessTtl /\ AccessTtl <= RefreshTtl
    /\ CacheTtl < AccessTtl + Slack
    /\ LastKid \in Nat \ {0}
    /\ {MaxTokens, MaxCrashes, MaxStops} \subseteq Nat

\* A pair is named for the second it was created in: later names are greater.
Kids == 1..LastKid
None == 0               \* no file, no pair
Empty == LastKid + 1    \* a file that was opened and not written
Contents == 0..(LastKid + 1)
Key(c) == c \in Kids    \* otherwise it is no key

Actors == {"task", "stop"}
Kinds == {"access", "refresh"}

VARIABLES
    pub,        \* content of each .pub file: the pair whose key it holds
    priv,       \* content of each .key file
    last,       \* the newest name given
    age         \* ticks since each name was given, up to Day

disk == <<pub, priv, last, age>>

VARIABLES
    jwks,       \* _jwks_cache: the public keys given out
    signer,     \* _active_signer: name and content of its .key file
    fresh,      \* ticks until the cache is too old to use
    newKid,     \* _new_kid, the name of the pair being introduced
    rkey        \* _rkey, the pair whose key is being introduced

cache == <<jwks, signer, fresh>>
context == <<newKid, rkey>>

VARIABLES
    up,         \* whether the server runs
    pc,         \* where the rotation task and the stop handler are
    file,       \* the file each of them has open
    nap,        \* ticks the task still sleeps for
    scan        \* what each request thread has read so far

threads == <<pc, file, nap, scan>>

VARIABLES
    tokens,     \* tokens that have not expired
    cut,        \* history: pairs withdrawn because the server stopped
    clash,      \* history: a stop overtook a worker thread
    faults      \* crashes and stops so far

vars == <<disk, cache, context, up, threads, tokens, cut, clash, faults>>

Stages(task, stop) == [a \in Actors |-> IF a = "task" THEN task ELSE stop]
Idle == [at |-> "idle", pubs |-> {}, pick |-> None, mat |-> None]
NoSigner == [kid |-> None, mat |-> None]

-----------------------------------------------------------------------------
(* The directory *)

PubFiles == {k \in Kids : pub[k] # None}
Pairs == {k \in PubFiles : priv[k] # None}
Newest(K) == IF K = {} THEN None ELSE Max(K)

\* _refresh_keys_from_disk with no other thread in between.
Load ==
    /\ Pairs # {}
    /\ jwks' = {k \in PubFiles : Key(pub[k])}
    /\ signer' = [kid |-> Newest(Pairs), mat |-> priv[Newest(Pairs)]]
    /\ fresh' = CacheTtl

-----------------------------------------------------------------------------
(* The rotation task and the stop handler *)

At(a, l) == up /\ pc[a] = l
Go(a, l) == pc' = [pc EXCEPT ![a] = l]
Stopping == pc["stop"] # "none"

\* A worker thread that ends after the task was cancelled has no successor.
Then(a, l) == Go(a, IF a = "task" /\ Stopping THEN "gone" ELSE l)

\* Variant of Start that needs a key that can sign.
StartUsable ==
    /\ At("task", "idle") /\ ~Stopping
    /\ age[signer.kid] = Day /\ Key(signer.mat)
    /\ Go("task", "name")
    /\ UNCHANGED <<disk, cache, context, up, file, nap, scan, tokens, cut, clash, faults>>

\* The newest pair is more than a day old.
Start ==
    /\ At("task", "idle") /\ ~Stopping
    /\ age[signer.kid] = Day
    /\ Go("task", "name")
    /\ UNCHANGED <<disk, cache, context, up, file, nap, scan, tokens, cut, clash, faults>>

NameKey ==
    /\ At("task", "name") /\ last < LastKid
    /\ last' = last + 1 /\ newKid' = last + 1
    /\ Go("task", "generate")
    /\ UNCHANGED <<pub, priv, age, cache, rkey, up, file, nap, scan, tokens, cut, clash, faults>>

GenerateKey ==
    /\ At("task", "generate")
    /\ rkey' = last
    /\ Go("task", "openPub")
    /\ UNCHANGED <<disk, cache, newKid, up, file, nap, scan, tokens, cut, clash, faults>>

\* When a stop has already forgotten the name, None.pub is written instead.
OpenPub ==
    /\ At("task", "openPub")
    /\ IF newKid = None
         THEN Go("task", "gone") /\ UNCHANGED <<pub, file>>
         ELSE /\ pub' = [pub EXCEPT ![newKid] = Empty]
              /\ file' = [file EXCEPT !["task"] = newKid]
              /\ Go("task", "writePub")
    /\ UNCHANGED <<priv, last, age, cache, context, up, nap, scan, tokens, cut, clash, faults>>

\* What is written to a file that was deleted meanwhile is lost.
Filled(files, a) ==
    IF files[file[a]] # None /\ rkey # None
      THEN [files EXCEPT ![file[a]] = rkey] ELSE files

WritePub ==
    /\ At("task", "writePub")
    /\ pub' = Filled(pub, "task")
    /\ Then("task", "announce")
    /\ file' = [file EXCEPT !["task"] = None]
    /\ UNCHANGED <<priv, last, age, cache, context, up, nap, scan, tokens, cut, clash, faults>>

\* The forced reload after the first and the second step of a rotation, and
\* the sleep that follows it.
Reload(from, to, ticks) ==
    /\ At("task", from)
    /\ IF Pairs = {} THEN UNCHANGED cache ELSE Load
    /\ Then("task", to)
    /\ nap' = IF Stopping THEN 0 ELSE ticks
    /\ UNCHANGED <<disk, context, up, file, scan, tokens, cut, clash, faults>>

\* Variants: the old pair goes as soon as the new one signs; the new pair
\* signs as soon as it is announced.
SwitchBriefly == Reload("switch", "retain", Slack)
AnnounceBriefly == Reload("announce", "settle", Slack)

Announce == Reload("announce", "settle", CacheTtl + Slack)
Switch == Reload("switch", "retain", AccessTtl + Slack)

Wake ==
    /\ nap = 0 /\ ~Stopping
    /\ \/ At("task", "settle") /\ Go("task", "openKey")
       \/ At("task", "retain") /\ Go("task", "remove")
    /\ UNCHANGED <<disk, cache, context, up, file, nap, scan, tokens, cut, clash, faults>>

OpenKey(a) ==
    /\ At(a, "openKey")
    /\ IF newKid = None \/ rkey = None
         THEN Go(a, "gone") /\ UNCHANGED <<priv, file>>
         ELSE /\ priv' = [priv EXCEPT ![newKid] = Empty]
              /\ file' = [file EXCEPT ![a] = newKid]
              /\ Go(a, "writeKey")
    /\ UNCHANGED <<pub, last, age, cache, context, up, nap, scan, tokens, cut, clash, faults>>

WriteKey(a) ==
    /\ At(a, "writeKey")
    /\ priv' = Filled(priv, a)
    /\ Then(a, IF a = "task" THEN "switch" ELSE "remove")
    /\ file' = [file EXCEPT ![a] = None]
    /\ UNCHANGED <<pub, last, age, cache, context, up, nap, scan, tokens, cut, clash, faults>>

\* Variant of RemoveFile that removes the oldest and the newest alike.
RemoveAnyFile(a) ==
    /\ At(a, "remove")
    /\ \E k \in Kids :
         \/ /\ pub[k] # None /\ pub' = [pub EXCEPT ![k] = None]
            /\ cut' = IF Stopping THEN cut \union {k} ELSE cut
            /\ UNCHANGED priv
         \/ /\ priv[k] # None /\ priv' = [priv EXCEPT ![k] = None]
            /\ UNCHANGED <<pub, cut>>
    /\ UNCHANGED <<last, age, cache, context, up, threads, tokens, clash, faults>>

\* _remove_old_keys: one file at a time, whichever the listing brings next.
RemoveFile(a) ==
    /\ At(a, "remove")
    /\ \E k \in Kids \ {newKid} :
         \/ /\ pub[k] # None /\ pub' = [pub EXCEPT ![k] = None]
            /\ cut' = IF Stopping THEN cut \union {k} ELSE cut
            /\ UNCHANGED priv
         \/ /\ priv[k] # None /\ priv' = [priv EXCEPT ![k] = None]
            /\ UNCHANGED <<pub, cut>>
    /\ UNCHANGED <<last, age, cache, context, up, threads, tokens, clash, faults>>

\* Nothing is left to remove: the reload, which fails without a pair.
RemoveEnds(a) ==
    /\ At(a, "remove")
    /\ \A k \in Kids \ {newKid} : pub[k] = None /\ priv[k] = None
    /\ IF Pairs = {} THEN Go(a, "gone") /\ UNCHANGED cache
                     ELSE Go(a, "forget") /\ Load
    /\ UNCHANGED <<disk, context, up, file, nap, scan, tokens, cut, clash, faults>>

Forget(a) ==
    /\ At(a, "forget")
    /\ rkey' = None /\ newKid' = None
    /\ Then(a, IF a = "task" THEN "idle" ELSE "gone")
    /\ UNCHANGED <<disk, cache, up, file, nap, scan, tokens, cut, clash, faults>>

-----------------------------------------------------------------------------
(* Stopping, crashing and starting *)

Working == {"generate", "openPub", "writePub", "writeKey", "forget"}
Beginning == {"name", "announce", "openKey", "switch", "remove"}

\* The task is cancelled once the requests are answered.  Between two of its
\* threads it ends there; inside one, the thread runs on.
Stop ==
    /\ up /\ ~Stopping /\ faults.stops < MaxStops
    /\ \A r \in Scanners : scan[r] = Idle
    /\ \E running \in BOOLEAN :
         /\ pc["task"] \in Working => running
         /\ running => pc["task"] \in Working \union Beginning
         /\ pc' = [pc EXCEPT !["stop"] = "check",
                             !["task"] = IF running THEN @ ELSE "gone"]
         /\ clash' = (clash \/ running)
    /\ faults' = [faults EXCEPT !.stops = @ + 1]
    /\ nap' = 0
    /\ UNCHANGED <<disk, cache, context, up, file, scan, tokens, cut>>

\* Variant of Check that does not look for the private file.
CheckRemoving ==
    /\ At("stop", "check")
    /\ Go("stop", IF rkey = None \/ newKid = None THEN "gone" ELSE "remove")
    /\ UNCHANGED <<disk, cache, context, up, file, nap, scan, tokens, cut, clash, faults>>

\* The handler commits a rotation that has begun, or has nothing to do.
Check ==
    /\ At("stop", "check")
    /\ IF rkey = None \/ newKid = None THEN Go("stop", "gone")
       ELSE Go("stop", IF priv[newKid] = None THEN "openKey" ELSE "remove")
    /\ UNCHANGED <<disk, cache, context, up, file, nap, scan, tokens, cut, clash, faults>>

\* What the process holds in memory is gone.
Down ==
    /\ up' = FALSE
    /\ jwks' = {} /\ signer' = NoSigner /\ fresh' = 0
    /\ newKid' = None /\ rkey' = None
    /\ pc' = Stages("gone", "none")
    /\ file' = [a \in Actors |-> None] /\ nap' = 0
    /\ scan' = [r \in Scanners |-> Idle]
    /\ UNCHANGED <<disk, tokens, cut, clash>>

Exit ==
    /\ At("stop", "gone") /\ At("task", "gone")
    /\ Down
    /\ UNCHANGED faults

\* Also while the constructor creates the first pair.
Crash ==
    /\ up \/ newKid # None
    /\ faults.crashes < MaxCrashes
    /\ Down
    /\ faults' = [faults EXCEPT !.crashes = @ + 1]

\* The constructor of KeyManager finds no complete pair: it names one and
\* opens the file of its public half.
CreateFirst ==
    /\ ~up /\ newKid = None /\ Pairs = {} /\ last < LastKid
    /\ last' = last + 1 /\ newKid' = last + 1 /\ rkey' = last + 1
    /\ pub' = [pub EXCEPT ![last + 1] = Empty]
    /\ UNCHANGED <<priv, age, cache, up, threads, tokens, cut, clash, faults>>

\* It writes that file, and opens and writes that of the private half.
WriteFirst ==
    /\ ~up /\ newKid # None
    /\ \/ /\ pub[newKid] = Empty
          /\ pub' = [pub EXCEPT ![newKid] = rkey] /\ UNCHANGED priv
       \/ /\ pub[newKid] # Empty /\ priv[newKid] = None
          /\ priv' = [priv EXCEPT ![newKid] = Empty] /\ UNCHANGED pub
       \/ /\ priv[newKid] = Empty
          /\ priv' = [priv EXCEPT ![newKid] = rkey] /\ UNCHANGED pub
    /\ UNCHANGED <<last, age, cache, context, up, threads, tokens, cut, clash, faults>>

\* It loads the newest pair, which it found or created, and the server runs.
Boot ==
    /\ ~up /\ up' = TRUE
    /\ newKid # None => Key(priv[newKid])
    /\ Load
    /\ pc' = Stages("idle", "none")
    /\ UNCHANGED <<disk, context, file, nap, scan, tokens, cut, clash, faults>>

-----------------------------------------------------------------------------
(* Requests *)

\* A request finds the cache too old, or a token signed with a pair that is
\* not in it: list the directory, read the files, replace the cache.
List(r) ==
    /\ up /\ ~Stopping /\ scan[r] = Idle
    /\ Pairs # {}
    /\ scan' = [scan EXCEPT ![r] = [at |-> "listed", pubs |-> PubFiles,
                                    pick |-> Newest(Pairs), mat |-> None]]
    /\ UNCHANGED <<disk, cache, context, up, pc, file, nap, tokens, cut, clash, faults>>

\* A .pub file that has gone or is empty is skipped; a .key file that has
\* gone ends the request.
ReadFiles(r) ==
    /\ up /\ scan[r].at = "listed"
    /\ scan' = [scan EXCEPT ![r] =
         IF priv[@.pick] = None THEN Idle
         ELSE [at |-> "read", pubs |-> {k \in @.pubs : Key(pub[k])},
               pick |-> @.pick, mat |-> priv[@.pick]]]
    /\ UNCHANGED <<disk, cache, context, up, pc, file, nap, tokens, cut, clash, faults>>

Store(r) ==
    /\ up /\ scan[r].at = "read"
    /\ jwks' = scan[r].pubs
    /\ signer' = [kid |-> scan[r].pick, mat |-> scan[r].mat]
    /\ fresh' = CacheTtl
    /\ scan' = [scan EXCEPT ![r] = Idle]
    /\ UNCHANGED <<disk, context, up, pc, file, nap, tokens, cut, clash, faults>>

Ttl(kind) == IF kind = "access" THEN AccessTtl ELSE RefreshTtl

\* A token of either kind is signed with the cached key; an empty one raises.
\* History: whether it can be verified when it is issued.
Issue(kind) ==
    /\ up /\ ~Stopping /\ fresh > 0
    /\ Key(signer.mat) /\ Cardinality(tokens) < MaxTokens
    /\ tokens' = tokens \union
         {[kid |-> signer.kid, kind |-> kind, left |-> Ttl(kind),
           whole |-> pub[signer.kid] = signer.mat]}
    /\ UNCHANGED <<disk, cache, context, up, threads, cut, clash, faults>>

\* Variant of Elapsed that does not stop at zero.
ElapsedPast(n) == n - 1

Elapsed(n) == IF n = 0 THEN 0 ELSE n - 1

Tick ==
    /\ \A r \in Scanners : scan[r] = Idle
    /\ nap' = Elapsed(nap) /\ fresh' = Elapsed(fresh)
    /\ age' = [k \in Kids |-> IF k <= last /\ age[k] < Day THEN age[k] + 1 ELSE age[k]]
    /\ tokens' = {[t EXCEPT !.left = @ - 1] : t \in {u \in tokens : u.left > 1}}
    /\ UNCHANGED <<pub, priv, last, jwks, signer, context, up, pc, file, scan,
                   cut, clash, faults>>

-----------------------------------------------------------------------------
(* The first start, with an empty directory, is a boot like any other. *)

Init ==
    /\ pub = [k \in Kids |-> None] /\ priv = [k \in Kids |-> None]
    /\ last = 0 /\ age = [k \in Kids |-> 0]
    /\ jwks = {} /\ signer = NoSigner /\ fresh = 0
    /\ newKid = None /\ rkey = None
    /\ up = FALSE
    /\ pc = Stages("gone", "none")
    /\ file = [a \in Actors |-> None] /\ nap = 0
    /\ scan = [r \in Scanners |-> Idle]
    /\ tokens = {} /\ cut = {} /\ clash = FALSE
    /\ faults = [crashes |-> 0, stops |-> 0]

TaskStep ==
    \/ Start \/ NameKey \/ GenerateKey \/ OpenPub \/ WritePub
    \/ Announce \/ Wake \/ Switch

FileStep(a) ==
    \/ OpenKey(a) \/ WriteKey(a) \/ RemoveFile(a) \/ RemoveEnds(a) \/ Forget(a)

Scan(r) == List(r) \/ ReadFiles(r) \/ Store(r)

\* What the server does of itself, between its start and its end.
Work ==
    \/ TaskStep \/ \E a \in Actors : FileStep(a)
    \/ Check \/ Exit
    \/ CreateFirst \/ WriteFirst \/ Boot

Next ==
    \/ Work
    \/ \E r \in Scanners : Scan(r)
    \/ \E kind \in Kinds : Issue(kind)
    \/ Tick
    \/ Stop \/ Crash

Spec == Init /\ [][Next]_vars

\* What the server has begun goes on, a server that ended is started again,
\* requests end what they read, and time passes between them.
Fairness ==
    /\ WF_vars(Work)
    /\ \A r \in Scanners : WF_vars(Scan(r))
    /\ SF_vars(Tick)

FairSpec == Spec /\ Fairness

-----------------------------------------------------------------------------
(* Properties *)

TaskStages == {"idle", "settle", "retain", "gone"} \union Working \union Beginning
StopStages == {"none", "check", "openKey", "writeKey", "remove", "forget", "gone"}

TypeOK ==
    /\ pub \in [Kids -> Contents] /\ priv \in [Kids -> Contents]
    /\ last \in 0..LastKid /\ age \in [Kids -> 0..Day]
    /\ jwks \subseteq Kids
    /\ signer \in [kid : 0..LastKid, mat : Contents]
    /\ fresh \in 0..CacheTtl
    /\ newKid \in 0..LastKid /\ rkey \in 0..LastKid
    /\ up \in BOOLEAN
    /\ pc \in [Actors -> TaskStages \union StopStages]
    /\ pc["task"] \in TaskStages /\ pc["stop"] \in StopStages
    /\ file \in [Actors -> 0..LastKid]
    /\ nap \in 0..(CacheTtl + AccessTtl + Slack)
    /\ scan \in [Scanners -> [at : {"idle", "listed", "read"}, pubs : SUBSET Kids,
                              pick : 0..LastKid, mat : Contents]]
    /\ tokens \subseteq [kid : Kids, kind : Kinds, whole : BOOLEAN, left : 1..RefreshTtl]
    /\ cut \subseteq Kids /\ clash \in BOOLEAN
    /\ faults \in [crashes : 0..MaxCrashes, stops : 0..MaxStops]

\* What a token can lose: signed from a cache that a late scan had put back
\* to the old pair, it can outlive that pair by less than this.
Grace == CacheTtl - Slack - 1

\* What is left of the time that the wait before the removal is made for:
\* the whole life of an access token, the first AccessTtl ticks of that of a
\* refresh token.
Due(t) == t.left - (Ttl(t.kind) - AccessTtl)

\* A token verifies for AccessTtl ticks from its issue, or for all of them
\* but the last Grace, unless a stop withdrew its pair.  For an access token
\* that is its life; a refresh token is signed with the same keys and gets no
\* more than that.  About the wait of access_ttl + 30 between the switch and
\* _remove_old_keys, with reloads by request threads and crashes at any
\* point between.
TokensOutliveRotation ==
    \A t \in tokens :
        t.kid \notin cut /\ t.whole => pub[t.kid] = t.kid \/ Due(t) <= Grace

\* A refresh token verifies for the twenty-four hours of its life, as
\* docs/ARCHITECTURE.md:52 and models.py:399 say.  About create_refresh_token,
\* which signs it with a pair that _remove_old_keys removes as soon as the
\* access tokens have expired.
RefreshTokensLast ==
    \A t \in tokens :
        t.kind = "refresh" /\ t.whole /\ t.kid \notin cut => pub[t.kid] = t.kid

\* The key that the next token would be signed with has its public half on
\* disk and among the keys given out, unless a stop overtook a thread.
\* About _refresh_keys_from_disk, whose listing, reads and assignments
\* interleave with the rotation and with each other.
SignerPublished ==
    up /\ ~Stopping /\ fresh > 0 /\ Key(signer.mat) /\ ~clash =>
        pub[signer.kid] = signer.mat /\ signer.kid \in jwks

\* No step takes the last pair whose halves belong together: once there is
\* one there always is, whatever is interrupted, unless a stop overtook a
\* thread.  About _create_new_pub, _create_new_signer and _remove_old_keys,
\* in the task, in its CancelledError handler and in the constructor.
WholePair == \E k \in Kids : pub[k] = k /\ priv[k] = k
PairSurvives == [][WholePair /\ ~clash' => WholePair']_vars

\* While the server runs, a key is put to use only when its pair was named at
\* least as long ago as clients cache the JWKS, plus the slack; its public
\* half is written a few file operations after the naming.  About the wait
\* of cache_ttl + 30 between the first and the second step of a rotation.
PublishedAhead ==
    [][up /\ up' /\ ~Stopping /\ signer'.kid # signer.kid
        => age[signer'.kid] >= Min({CacheTtl + Slack, Day})]_vars

\* A key left empty by a crash does not stay in use: a later rotation
\* replaces it, unless a stop overtook a thread.  About the restart after a
\* crash inside _create_new_signer, which finds a complete pair of files.
SignerRecovers ==
    (up /\ signer.mat = Empty /\ last < LastKid) ~> (clash \/ (up /\ Key(signer.mat)))

\* The files, caches and threads implement the promise of KeyRing.
Ring == INSTANCE KeyRing WITH
    Keys <- Kids, NoKey <- None, Lifetime <- AccessTtl, Grace <- Grace,
    published <- {k \in Kids : pub[k] = k},
    signing <- IF /\ up /\ fresh > 0 /\ signer.kid \in Kids
                  /\ signer.mat = signer.kid /\ pub[signer.kid] = signer.kid
               THEN signer.kid ELSE None,
    tokens <- {[key |-> t.kid, left |-> Due(t)] :
                 t \in {u \in tokens : u.kid \notin cut /\ u.whole /\ Due(u) > 0}}

\* Every step of the rotation, of a request, of a stop or of a crash is a
\* step that KeyRing allows, or changes nothing it can see.
RingSpec == Ring!Spec
===============================================================================
