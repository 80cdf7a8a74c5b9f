--------------------------- MODULE KeyRotationProofs ---------------------------
(***************************************************************************)
(* Theorems about KeyRotation for any number of pairs, request threads,    *)
(* tokens, crashes and stops, and any lengths that satisfy KeyAssumption:  *)
(* what signs is published, a complete pair survives, no key signs before  *)
(* clients can have fetched its public half, and the rotation implements   *)
(* KeyRing, so that no access token loses more than Grace ticks of its     *)
(* life.                                                                   *)
(*                                                                         *)
(* The argument: where the task is tells which of the new pair's files are *)
(* written (TaskSound); until the private half is there the newest pair is *)
(* the one that signs and the only one a scan can find, and afterwards the *)
(* new one is, old enough to be used (AheadSound).  A scan that was late   *)
(* puts the old pair back for no longer than the cache lives, which the    *)
(* wait before the removal outlasts by the slack (RetainSound).            *)
(***************************************************************************)
EXTENDS KeyRotation, WellFoundedInduction, TLAPS

-----------------------------------------------------------------------------
(* The invariant *)

\* A pair of files, and the newest there is.
IsNewest(k) == k \in Pairs /\ \A j \in Pairs : j <= k

\* A pair that may be put to use: old enough for clients to have its key.
Ripe(k) == age[k] >= CacheTtl + Slack \/ age[k] = Day

Scanning == {r \in Scanners : scan[r].at # "idle"}

\* Nobody runs the files but the task.
Serving == up /\ ~Stopping

\* How far a rotation is: the new pair has a name, its public half, a private
\* file, a private half.
Naming == {"generate", "openPub"}
Publishing == {"announce", "settle", "openKey"}
Switching == {"switch", "retain", "remove", "forget"}

\* What is in the files: a public half is that of its name, and nothing is
\* newer than the last name given; nothing is owed more than AccessTtl.
FilesSound ==
    /\ \A k \in Kids : pub[k] \in {None, Empty, k}
    /\ \A k \in Kids : k > last => pub[k] = None /\ priv[k] = None
    /\ \A t \in tokens : t.kid <= last /\ Due(t) <= AccessTtl
    /\ \A t \in tokens : t.whole => pub[t.kid] # Empty

\* A cached or scanned key has a name.
NamesSound ==
    /\ newKid <= last /\ rkey <= last
    /\ signer.mat # None => signer.kid # None
    /\ \A r \in Scanners : scan[r].at = "idle" => scan[r] = Idle
    /\ signer.kid <= last
    /\ \A r \in Scanning : scan[r].pick \in Kids /\ scan[r].pick <= last

\* The constructor has the first pair's files open one after the other.
Creating ==
    /\ newKid = last /\ rkey = last /\ last > 0 /\ pub[last] \in {Empty, last}
    /\ pub[last] = Empty => priv[last] = None
    /\ priv[last] \in {None, Empty, last}

\* What a process that has ended, or one that is stopping, leaves behind.
DownSound ==
    /\ ~up => /\ fresh = 0 /\ signer = NoSigner
              /\ (newKid = None /\ rkey = None) \/ Creating
              /\ ~Stopping /\ pc["task"] = "gone" /\ Scanning = {}
    /\ up => last > 0
    /\ Stopping => Scanning = {}
    /\ Stopping /\ ~clash => pc["task"] = "gone"
    /\ Serving => pc["task"] # "gone"

\* Where the task is tells what it has done, as long as no stop has forgotten
\* the name.
TaskSound ==
    /\ up /\ pc["task"] \in Naming =>
          /\ pub[last] = None /\ \A t \in tokens : t.kid # last
          /\ newKid = last \/ (Stopping /\ newKid = None)
    /\ up /\ pc["task"] \in {"openPub", "writePub"} => rkey = last \/ (Stopping /\ rkey = None)
    /\ up /\ pc["task"] = "writePub" => file["task"] = last
    /\ Serving =>
          /\ pc["task"] \in {"idle", "name"} =>
                \/ newKid = None /\ rkey = None
                \/ newKid = last /\ rkey = last /\ pub[last] = last /\ priv[last] = last
          /\ pc["task"] \in Naming \union {"writePub"} \union Publishing =>
                newKid = last /\ priv[last] = None
          /\ pc["task"] = "writePub" => pub[last] = Empty
          /\ pc["task"] \in Publishing \union {"writeKey"} \union Switching =>
                newKid = last /\ rkey = last /\ pub[last] = last
          /\ pc["task"] = "writeKey" => file["task"] = last /\ priv[last] = Empty
          /\ pc["task"] \in Switching => priv[last] = last

\* Before the private half is there the newest pair signs and is what every
\* scan has found; what signs during a rotation, and what will, is old enough.
AheadSound ==
    Serving =>
       /\ Pairs # {} /\ signer.kid \in Kids
       /\ pc["task"] \in {"idle", "name"} \union Naming \union {"writePub"} \union Publishing =>
             IsNewest(signer.kid) /\ \A r \in Scanning : IsNewest(scan[r].pick)
       /\ pc["task"] # "idle" => Ripe(signer.kid) /\ \A r \in Scanning : Ripe(scan[r].pick)
       /\ pc["task"] = "settle" => age[last] + nap >= CacheTtl + Slack \/ age[last] = Day
       /\ pc["task"] \in {"openKey", "writeKey"} \union Switching => Ripe(last)
       /\ pc["task"] = "forget" => signer.kid = last

\* After the switch: a scan that begins finds the new pair; one that was late
\* put the old pair back for no longer than the cache lives, and what was
\* signed with it meanwhile outlives the wait by at most Grace.
RetainSound ==
    Serving /\ pc["task"] \in {"retain", "remove", "forget"} =>
       /\ nap <= AccessTtl + Slack
       /\ pc["task"] # "retain" => nap = 0
       /\ nap < AccessTtl + Slack => \A r \in Scanning : scan[r].pick = last
       /\ signer.kid = last \/ fresh = 0 \/ fresh + AccessTtl <= nap + Grace + 1
       /\ \A t \in tokens : t.kid # last => Due(t) <= nap + Grace

\* Unless a stop overtook a thread: the halves of a pair belong together, ...
HalvesSound ==
    ~clash =>
       /\ \A k \in Kids : priv[k] \in {None, Empty, k}
       /\ \A k \in Kids : priv[k] # None => pub[k] \in {None, k}

\* ... the handler commits the pair that the task had announced, ...
StopSound ==
    Stopping /\ ~clash =>
       /\ pc["stop"] = "check" =>
             newKid = None \/ rkey = None \/ (newKid = last /\ rkey = last /\ pub[last] = last
                                               /\ priv[last] \in {None, last})
       /\ pc["stop"] \in {"openKey", "writeKey", "remove", "forget"} =>
             newKid = last /\ rkey = last /\ pub[last] = last
       /\ pc["stop"] = "openKey" => priv[last] = None
       /\ pc["stop"] = "writeKey" => file["stop"] = last /\ priv[last] = Empty
       /\ pc["stop"] \in {"remove", "forget"} => priv[last] = last

\* ... and what a scan has found, and what is cached, is published.
CacheSound ==
    Serving /\ ~clash =>
       /\ \A r \in Scanning : pub[scan[r].pick] = scan[r].pick /\ scan[r].pick \in scan[r].pubs
       /\ \A r \in Scanning : scan[r].at = "read" => scan[r].mat \in {Empty, scan[r].pick}
       /\ fresh > 0 /\ Key(signer.mat) =>
             signer.mat = signer.kid /\ pub[signer.kid] = signer.kid /\ signer.kid \in jwks

Inv ==
    /\ TypeOK /\ FilesSound /\ NamesSound /\ DownSound /\ TaskSound /\ AheadSound
    /\ RetainSound /\ HalvesSound /\ StopSound /\ CacheSound


-----------------------------------------------------------------------------
(* Numbers, files and types *)

\* What the assumption says of the constants.
LEMMA Numbers ==
    /\ CacheTtl \in Nat /\ AccessTtl \in Nat /\ RefreshTtl \in Nat /\ Slack \in Nat /\ Day \in Nat
    /\ 0 < Slack /\ Slack < CacheTtl /\ 0 < AccessTtl /\ CacheTtl < AccessTtl + Slack
    /\ AccessTtl <= RefreshTtl
    /\ LastKid \in Nat /\ LastKid > 0
    /\ MaxTokens \in Nat /\ MaxCrashes \in Nat /\ MaxStops \in Nat
    /\ Grace = CacheTtl - Slack - 1
  BY KeyAssumption DEF Grace

\* What a token is owed ends with the token or before it, counts down with its
\* life, and is AccessTtl when it is issued.
LEMMA DueIs ==
  ASSUME NEW t, t.kind \in Kinds, t.left \in Int
  PROVE  /\ Due(t) \in Int /\ Due(t) <= t.left
         /\ t.left = Ttl(t.kind) => Due(t) = AccessTtl
         /\ \A u : u.kind = t.kind /\ u.left = t.left - 1 => Due(u) = Due(t) - 1
<1>1. Ttl(t.kind) \in Nat /\ AccessTtl \in Nat /\ AccessTtl <= Ttl(t.kind)
  BY Numbers DEF Ttl, Kinds
<1>2. Due(t) \in Int /\ Due(t) <= t.left /\ (t.left = Ttl(t.kind) => Due(t) = AccessTtl)
  BY <1>1 DEF Due
<1>3. ASSUME NEW u, u.kind = t.kind, u.left = t.left - 1
      PROVE  Due(u) = Due(t) - 1
  <2>1. Due(u) = (t.left - 1) - (Ttl(t.kind) - AccessTtl)
    BY <1>3 DEF Due
  <2> QED  BY <1>1, <2>1 DEF Due
<1> QED  BY <1>2, <1>3

\* A file that exists holds a pair's key or is empty.
LEMMA Values ==
    /\ None \notin Kids /\ Empty \notin Kids /\ Empty # None
    /\ Contents = Kids \union {None, Empty} /\ 0..LastKid = Kids \union {None}
    /\ \A k \in Kids : k \in Nat /\ k > 0 /\ k <= LastKid
    /\ \A c : Key(c) <=> c \in Kids
  BY Numbers DEF Kids, None, Empty, Contents, Key

\* The newest of some pairs is one of them: the names above it are finitely
\* many.
LEMMA MaxIs ==
  ASSUME NEW S, S \subseteq Kids, S # {}
  PROVE  Max(S) \in S /\ \A y \in S : y <= Max(S)
<1> DEFINE T == {LastKid - s : s \in S}
<1>1. T \subseteq Nat /\ T # {}
  <2>1. LastKid \in Nat
    BY Numbers
  <2>2. \A s \in S : s \in Nat /\ s <= LastKid
    BY <2>1 DEF Kids
  <2> QED  BY <2>1, <2>2
<1>2. \E x \in T : \A y \in T : ~(<<y, x>> \in OpToRel(<, Nat))
  BY <1>1, WFMin, NatLessThanWellFounded
<1>3. PICK x \in T : \A y \in T : ~(<<y, x>> \in OpToRel(<, Nat))
  BY <1>2
<1>4. \A y \in T : ~(y < x)
  BY <1>1, <1>3 DEF OpToRel
<1>5. PICK s \in S : x = LastKid - s
  OBVIOUS
<1>6. \A y \in S : s >= y
  <2> SUFFICES ASSUME NEW y \in S PROVE s >= y
    OBVIOUS
  <2>1. y \in Nat /\ s \in Nat
    BY DEF Kids
  <2>2. LastKid - y \in T
    OBVIOUS
  <2>3. ~(LastKid - y < LastKid - s)
    BY <1>4, <1>5, <2>2
  <2> HIDE DEF T
  <2> QED  BY <2>1, <2>3, Numbers
<1>7. Max(S) \in S /\ \A y \in S : Max(S) >= y
  BY <1>6 DEF Max
<1> QED  BY <1>7, Numbers DEF Kids

\* The newest pair on disk, and its content.
LEMMA NewestIs ==
  ASSUME TypeOK, Pairs # {}
  PROVE  /\ Newest(Pairs) \in Kids /\ Newest(Pairs) \in 0..LastKid
         /\ Newest(Pairs) \in Pairs /\ IsNewest(Newest(Pairs))
         /\ priv[Newest(Pairs)] \in Contents /\ priv[Newest(Pairs)] # None
<1>1. Newest(Pairs) \in Pairs /\ \A j \in Pairs : j <= Newest(Pairs)
  BY MaxIs DEF Newest, Pairs, PubFiles
<1>2. Newest(Pairs) \in Kids /\ priv[Newest(Pairs)] # None
  BY <1>1 DEF Pairs, PubFiles
<1> QED  BY <1>1, <1>2, Values DEF IsNewest, TypeOK

\* There is one newest pair.
LEMMA NewestOnce ==
  ASSUME NEW j, NEW k, IsNewest(j), IsNewest(k)
  PROVE  j = k
<1>1. j \in Nat /\ k \in Nat /\ j <= k /\ k <= j
  BY Values DEF IsNewest, Pairs, PubFiles
<1> QED  BY <1>1

\* The type invariant, one group of variables at a time.
DiskTyped == pub \in [Kids -> Contents] /\ priv \in [Kids -> Contents]
AgesTyped == last \in 0..LastKid /\ age \in [Kids -> 0..Day]
CacheTyped ==
    /\ jwks \subseteq Kids /\ signer \in [kid : 0..LastKid, mat : Contents]
    /\ fresh \in 0..CacheTtl
NamesTyped == newKid \in 0..LastKid /\ rkey \in 0..LastKid
StagesTyped ==
    /\ pc \in [Actors -> TaskStages \union StopStages]
    /\ pc["task"] \in TaskStages /\ pc["stop"] \in StopStages
FileTyped == file \in [Actors -> 0..LastKid]
NapTyped == nap \in 0..(CacheTtl + AccessTtl + Slack)
ScanTyped ==
    scan \in [Scanners -> [at : {"idle", "listed", "read"}, pubs : SUBSET Kids,
                           pick : 0..LastKid, mat : Contents]]
TokensTyped == tokens \subseteq [kid : Kids, kind : Kinds, whole : BOOLEAN, left : 1..RefreshTtl]
RestTyped == up \in BOOLEAN /\ clash \in BOOLEAN /\ cut \subseteq Kids
FaultsTyped == faults \in [crashes : 0..MaxCrashes, stops : 0..MaxStops]

\* They make up the type invariant, before a step and after it.
LEMMA TypeParts ==
    /\ TypeOK <=> /\ DiskTyped /\ AgesTyped /\ CacheTyped /\ NamesTyped /\ StagesTyped
                  /\ FileTyped /\ NapTyped /\ ScanTyped /\ TokensTyped /\ RestTyped
                  /\ FaultsTyped
    /\ TypeOK' <=> /\ DiskTyped' /\ AgesTyped' /\ CacheTyped' /\ NamesTyped' /\ StagesTyped'
                   /\ FileTyped' /\ NapTyped' /\ ScanTyped' /\ TokensTyped' /\ RestTyped'
                   /\ FaultsTyped'
  BY DEF TypeOK, DiskTyped, AgesTyped, CacheTyped, NamesTyped, StagesTyped, FileTyped,
         NapTyped, ScanTyped, TokensTyped, RestTyped, FaultsTyped

\* A group whose variables a step leaves alone keeps its types.
LEMMA TypeFrame ==
  ASSUME TypeOK
  PROVE  /\ UNCHANGED <<pub, priv>> => DiskTyped'
         /\ UNCHANGED <<last, age>> => AgesTyped'
         /\ UNCHANGED <<jwks, signer, fresh>> => CacheTyped'
         /\ UNCHANGED <<newKid, rkey>> => NamesTyped'
         /\ UNCHANGED file => FileTyped'
         /\ UNCHANGED nap => NapTyped'
         /\ UNCHANGED scan => ScanTyped'
         /\ UNCHANGED tokens => TokensTyped'
         /\ UNCHANGED <<up, clash, cut>> => RestTyped'
         /\ UNCHANGED faults => FaultsTyped'
<1>1. /\ DiskTyped /\ AgesTyped /\ CacheTyped /\ NamesTyped /\ FileTyped
      /\ NapTyped /\ ScanTyped /\ TokensTyped /\ RestTyped /\ FaultsTyped
  BY TypeParts
<1>2. UNCHANGED <<pub, priv>> => DiskTyped'
  BY <1>1 DEF DiskTyped
<1>3. UNCHANGED <<last, age>> => AgesTyped'
  BY <1>1 DEF AgesTyped
<1>4. UNCHANGED <<jwks, signer, fresh>> => CacheTyped'
  BY <1>1 DEF CacheTyped
<1>5. UNCHANGED <<newKid, rkey>> => NamesTyped'
  BY <1>1 DEF NamesTyped
<1>6. UNCHANGED file => FileTyped'
  BY <1>1 DEF FileTyped
<1>7. UNCHANGED nap => NapTyped'
  BY <1>1 DEF NapTyped
<1>8. UNCHANGED scan => ScanTyped'
  BY <1>1 DEF ScanTyped
<1>9. UNCHANGED tokens => TokensTyped'
  BY <1>1 DEF TokensTyped
<1>10. UNCHANGED <<up, clash, cut>> => RestTyped'
  BY <1>1 DEF RestTyped
<1>11. UNCHANGED faults => FaultsTyped'
  BY <1>1 DEF FaultsTyped
<1> QED  BY <1>2, <1>3, <1>4, <1>5, <1>6, <1>7, <1>8, <1>9, <1>10, <1>11

\* An actor closes its file.
LEMMA Closed ==
  ASSUME TypeOK, NEW a \in Actors, file' = [file EXCEPT ![a] = None]
  PROVE  /\ FileTyped'
         /\ \A b \in Actors : b # a => file'[b] = file[b]
  BY Numbers DEF TypeOK, FileTyped, None

\* The task moves to a stage, and the handler stays where it is.
LEMMA GoTask ==
  ASSUME TypeOK, NEW l \in TaskStages, Go("task", l)
  PROVE  /\ StagesTyped' /\ pc'["task"] = l /\ pc'["stop"] = pc["stop"]
         /\ Stopping' <=> Stopping
  BY DEF Go, TypeOK, StagesTyped, Stopping, Actors, TaskStages, StopStages

\* The handler moves, and the task stays.
LEMMA GoStop ==
  ASSUME TypeOK, NEW l \in StopStages, Go("stop", l)
  PROVE  /\ StagesTyped' /\ pc'["stop"] = l /\ pc'["task"] = pc["task"]
         /\ Stopping' <=> l # "none"
  BY DEF Go, TypeOK, StagesTyped, Stopping, Actors, TaskStages, StopStages

\* A thread of the task that ends has no successor once it was cancelled.
LEMMA ThenTask ==
  ASSUME TypeOK, NEW l \in TaskStages, Then("task", l)
  PROVE  /\ StagesTyped' /\ pc'["stop"] = pc["stop"] /\ (Stopping' <=> Stopping)
         /\ pc'["task"] = IF Stopping THEN "gone" ELSE l
<1>1. CASE Stopping
  BY <1>1, GoTask DEF Then, TaskStages
<1>2. CASE ~Stopping
  BY <1>2, GoTask DEF Then
<1> QED  BY <1>1, <1>2

\* The handler has a successor for every step.
LEMMA ThenStop ==
  ASSUME NEW l, Then("stop", l) PROVE Go("stop", l)
  BY DEF Then

\* What a step that leaves a part of the invariant's variables alone keeps.
LEMMA Frames ==
  ASSUME Inv
  PROVE  /\ UNCHANGED <<pub, priv, last, tokens>> => FilesSound'
         /\ UNCHANGED <<last, signer, newKid, rkey, scan>> => NamesSound'
         /\ UNCHANGED <<pub, priv, last, clash>> => HalvesSound'
         /\ UNCHANGED <<pub, jwks, signer, fresh, scan, clash>> /\ (Serving' => Serving)
               => CacheSound'
         /\ UNCHANGED <<pub, priv>> => Pairs' = Pairs
         /\ UNCHANGED scan => Scanning' = Scanning
<1>1. UNCHANGED <<pub, priv, last, tokens>> => FilesSound'
  BY DEF Inv, FilesSound
<1>2. UNCHANGED <<pub, priv>> => Pairs' = Pairs
  BY DEF Pairs, PubFiles
<1>3. UNCHANGED scan => Scanning' = Scanning
  BY DEF Scanning
<1>4. UNCHANGED <<last, signer, newKid, rkey, scan>> => NamesSound'
  BY <1>3 DEF Inv, NamesSound
<1>5. UNCHANGED <<pub, priv, last, clash>> => HalvesSound'
  BY DEF Inv, HalvesSound
<1>6. UNCHANGED <<pub, jwks, signer, fresh, scan, clash>> /\ (Serving' => Serving)
         => CacheSound'
  BY <1>3 DEF Inv, CacheSound
<1> QED  BY <1>1, <1>2, <1>3, <1>4, <1>5, <1>6

\* What holds after a step because the parts of the invariant do not speak of
\* the state it leads to.
LEMMA Excused ==
    /\ clash' => HalvesSound' /\ StopSound' /\ CacheSound'
    /\ ~Stopping' => StopSound'
    /\ ~Serving' => AheadSound' /\ RetainSound' /\ CacheSound'
    /\ pc'["task"] \notin {"retain", "remove", "forget"} => RetainSound'
    /\ /\ up' /\ last' > 0 /\ (Stopping' => Scanning' = {})
       /\ Stopping' => clash' \/ pc'["task"] = "gone"
       /\ ~Stopping' => pc'["task"] # "gone"
       => DownSound'
<1>1. clash' => HalvesSound' /\ StopSound' /\ CacheSound'
  BY DEF HalvesSound, StopSound, CacheSound
<1>2. ~Stopping' => StopSound'
  BY DEF StopSound
<1>3. ~Serving' => AheadSound' /\ RetainSound' /\ CacheSound'
  BY DEF AheadSound, RetainSound, CacheSound
<1>4. pc'["task"] \notin {"retain", "remove", "forget"} => RetainSound'
  BY DEF RetainSound
<1>5. /\ up' /\ last' > 0 /\ (Stopping' => Scanning' = {})
      /\ Stopping' => clash' \/ pc'["task"] = "gone"
      /\ ~Stopping' => pc'["task"] # "gone"
      => DownSound'
  BY DEF DownSound, Serving
<1> QED  BY <1>1, <1>2, <1>3, <1>4, <1>5

-----------------------------------------------------------------------------
(* The steps of the rotation *)

\* While the task runs there is a name, and a stop has overtaken its thread.
LEMMA TaskRuns ==
  ASSUME Inv, up, pc["task"] # "gone"
  PROVE  /\ TypeOK /\ last > 0 /\ last \in Kids /\ last \in Nat
         /\ Stopping => clash /\ Scanning = {}
<1>1. TypeOK /\ last > 0 /\ (Stopping => clash /\ Scanning = {})
  BY DEF Inv, DownSound
<1>2. last \in 0..LastKid
  BY <1>1 DEF TypeOK
<1>3. last \in Kids /\ last \in Nat
  BY <1>1, <1>2, Numbers DEF Kids
<1> QED  BY <1>1, <1>3

\* The task finds that the pair that signs is old enough.
LEMMA StartKeeps == ASSUME Inv, Start PROVE Inv'
<1>1. /\ up /\ ~Stopping /\ pc["task"] = "idle" /\ age[signer.kid] = Day
      /\ Go("task", "name")
      /\ UNCHANGED <<pub, priv, last, age, jwks, signer, fresh, newKid, rkey, file, nap,
                     scan, tokens, cut, clash, faults, up>>
  BY DEF Start, At, disk, cache, context
<1>2. /\ StagesTyped' /\ pc'["task"] = "name" /\ pc'["stop"] = pc["stop"]
      /\ Serving /\ Serving' /\ ~Stopping'
  BY <1>1, GoTask DEF Inv, TaskStages, Beginning, Serving
<1>3. TypeOK'
  BY <1>1, <1>2, TypeFrame, TypeParts DEF Inv, RestTyped
<1>4. FilesSound' /\ NamesSound' /\ HalvesSound' /\ CacheSound'
  BY <1>1, <1>2, Frames
<1>5. Pairs' = Pairs /\ Scanning' = Scanning
  BY <1>1, Frames
<1>6. DownSound' /\ StopSound' /\ RetainSound'
  BY <1>1, <1>2, Excused, TaskRuns
<1>7. TaskSound'
  BY <1>1, <1>2 DEF Inv, TaskSound, Naming, Publishing, Switching
\* What a scan has found is the newest pair too, which is the one that signs.
<1>8. IsNewest(signer.kid) /\ \A r \in Scanning : IsNewest(scan[r].pick)
  BY <1>1, <1>2 DEF Inv, AheadSound
<1>9. \A r \in Scanning : scan[r].pick = signer.kid
  BY <1>8, NewestOnce
<1>10. AheadSound'
  BY <1>1, <1>2, <1>5, <1>8, <1>9
  DEF Inv, AheadSound, IsNewest, Ripe, Naming, Publishing, Switching
<1> QED  BY <1>3, <1>4, <1>6, <1>7, <1>10 DEF Inv

\* The new pair gets a name that no file and no token has.
LEMMA NameKeyKeeps == ASSUME Inv, NameKey PROVE Inv'
<1>1. /\ up /\ pc["task"] = "name" /\ last < LastKid
      /\ last' = last + 1 /\ newKid' = last + 1
      /\ Go("task", "generate")
      /\ UNCHANGED <<pub, priv, age, jwks, signer, fresh, rkey, file, nap, scan, tokens, cut,
                     clash, faults, up>>
  BY DEF NameKey, At, cache
<1>2. /\ StagesTyped' /\ pc'["task"] = "generate" /\ pc'["stop"] = pc["stop"]
      /\ Stopping' <=> Stopping
  BY <1>1, GoTask DEF Inv, TaskStages, Working
<1>3. /\ TypeOK /\ last > 0 /\ last \in Kids /\ last \in Nat /\ last' \in Kids
      /\ Stopping => clash /\ Scanning = {}
  BY <1>1, TaskRuns, Numbers DEF Kids
<1>4. TypeOK'
  <2>1. AgesTyped' /\ NamesTyped'
    BY <1>1, <1>3, Values DEF AgesTyped, NamesTyped, TypeOK
  <2> QED  BY <1>1, <1>2, <1>3, <2>1, TypeFrame, TypeParts DEF RestTyped
<1>5. Pairs' = Pairs /\ Scanning' = Scanning /\ (Serving' <=> Serving)
  BY <1>1, <1>2, Frames DEF Serving
\* Nothing has the new name.
<1>6. FilesSound' /\ pub[last'] = None /\ priv[last'] = None /\ \A t \in tokens : t.kid # last'
  <2>1. \A k \in Kids : k > last => pub[k] = None /\ priv[k] = None
    BY DEF Inv, FilesSound
  <2>2. \A t \in tokens : t.kid \in Nat /\ t.kid <= last /\ Due(t) <= AccessTtl
    BY <1>3, Values DEF Inv, FilesSound, TypeOK
  <2>3. pub[last'] = None /\ priv[last'] = None
    BY <1>1, <1>3, <2>1
  <2>4. \A t \in tokens : t.kid # last' /\ t.kid <= last'
    BY <1>1, <1>3, <2>2
  <2>5. \A k \in Kids : k > last' => k > last
    BY <1>1, <1>3, Values
  <2> QED  BY <1>1, <2>1, <2>3, <2>4, <2>5 DEF Inv, FilesSound
<1>7. NamesSound'
  <2>1. /\ newKid \in Nat /\ rkey \in Nat /\ signer.kid \in Nat
        /\ \A r \in Scanners : scan[r].pick \in Nat
    BY <1>3, Numbers DEF TypeOK
  <2>2. newKid <= last /\ rkey <= last /\ signer.kid <= last
    BY DEF Inv, NamesSound
  <2>3. newKid' <= last' /\ rkey' <= last' /\ signer'.kid <= last'
    BY <1>1, <1>3, <2>1, <2>2
  <2>4. \A r \in Scanning : scan[r].pick \in Kids /\ scan[r].pick <= last'
    BY <1>1, <1>3, <2>1 DEF Inv, NamesSound, Scanning
  <2> QED  BY <1>1, <1>5, <2>3, <2>4 DEF Inv, NamesSound
<1>8. DownSound'
  BY <1>1, <1>2, <1>3, <1>5, Excused
<1>9. TaskSound'
  BY <1>1, <1>2, <1>3, <1>6 DEF Inv, TaskSound, Naming, Publishing, Switching
<1>10. AheadSound'
  BY <1>1, <1>2, <1>5 DEF Inv, AheadSound, IsNewest, Ripe, Naming, Publishing, Switching
<1>11. HalvesSound'
  BY <1>1, <1>3 DEF Inv, HalvesSound
<1>12. RetainSound' /\ CacheSound' /\ StopSound'
  BY <1>1, <1>2, <1>3, <1>5, Excused, Frames
<1> QED  BY <1>4, <1>6, <1>7, <1>8, <1>9, <1>10, <1>11, <1>12 DEF Inv

\* The key is generated.
LEMMA GenerateKeyKeeps == ASSUME Inv, GenerateKey PROVE Inv'
<1>1. /\ up /\ pc["task"] = "generate" /\ rkey' = last
      /\ Go("task", "openPub")
      /\ UNCHANGED <<pub, priv, last, age, jwks, signer, fresh, newKid, file, nap, scan, tokens,
                     cut, clash, faults, up>>
  BY DEF GenerateKey, At, cache, disk
<1>2. /\ StagesTyped' /\ pc'["task"] = "openPub" /\ pc'["stop"] = pc["stop"]
      /\ Stopping' <=> Stopping
  BY <1>1, GoTask DEF Inv, TaskStages, Working
<1>3. /\ TypeOK /\ last > 0 /\ last \in Kids /\ last \in Nat
      /\ Stopping => clash /\ Scanning = {}
  BY <1>1, TaskRuns
<1>4. TypeOK'
  <2>1. NamesTyped'
    BY <1>1, <1>3, Values DEF NamesTyped, TypeOK
  <2> QED  BY <1>1, <1>2, <1>3, <2>1, TypeFrame, TypeParts DEF RestTyped
<1>5. Pairs' = Pairs /\ Scanning' = Scanning /\ (Serving' <=> Serving)
  BY <1>1, <1>2, Frames DEF Serving
<1>6. FilesSound' /\ HalvesSound' /\ CacheSound'
  BY <1>1, <1>5, Frames
<1>7. NamesSound'
  BY <1>1, <1>3, <1>5 DEF Inv, NamesSound
<1>8. DownSound' /\ StopSound' /\ RetainSound'
  BY <1>1, <1>2, <1>3, <1>5, Excused
<1>9. TaskSound'
  BY <1>1, <1>2, <1>3, <1>5 DEF Inv, TaskSound, Naming, Publishing, Switching
<1>10. AheadSound'
  BY <1>1, <1>2, <1>5 DEF Inv, AheadSound, IsNewest, Ripe, Naming, Publishing, Switching
<1> QED  BY <1>4, <1>6, <1>7, <1>8, <1>9, <1>10 DEF Inv

\* The file of the public half is opened, under the last name, or under none
\* when a stop has forgotten it.
LEMMA OpenPubKeeps == ASSUME Inv, OpenPub PROVE Inv'
<1>1. /\ up /\ pc["task"] = "openPub"
      /\ UNCHANGED <<priv, last, age, jwks, signer, fresh, newKid, rkey, nap, scan, tokens,
                     cut, clash, faults, up>>
  BY DEF OpenPub, At, cache, context
<1>2. /\ TypeOK /\ last > 0 /\ last \in Kids /\ last \in Nat
      /\ Stopping => clash /\ Scanning = {}
  BY <1>1, TaskRuns
<1>3. Scanning' = Scanning /\ NamesSound'
  BY <1>1, Frames
<1>4. CASE newKid = None
  <2>1. Go("task", "gone") /\ UNCHANGED <<pub, file>>
    BY <1>4 DEF OpenPub
  <2>2. StagesTyped' /\ pc'["task"] = "gone" /\ (Stopping' <=> Stopping)
    BY <1>2, <2>1, GoTask DEF TaskStages
  <2>3. Stopping
    BY <1>1, <1>2, <1>4 DEF Inv, TaskSound, Naming, None
  <2>4. TypeOK'
    BY <1>1, <1>2, <2>1, <2>2, TypeFrame, TypeParts
  <2>5. FilesSound' /\ DownSound' /\ HalvesSound' /\ StopSound'
    BY <1>1, <1>2, <1>3, <2>1, <2>2, <2>3, Frames, Excused
  <2>6. TaskSound' /\ AheadSound' /\ RetainSound' /\ CacheSound'
    BY <2>2, <2>3, Excused DEF TaskSound, Serving, Naming
  <2> QED  BY <1>3, <2>4, <2>5, <2>6 DEF Inv
<1>5. CASE newKid # None
  <2>1. /\ newKid = last /\ pub[last] = None /\ \A t \in tokens : t.kid # last
        /\ rkey = last \/ (Stopping /\ rkey = None)
        /\ Serving => priv[last] = None
    BY <1>1, <1>5 DEF Inv, TaskSound, Naming
  <2>2. /\ Go("task", "writePub") /\ pub' = [pub EXCEPT ![last] = Empty]
        /\ file' = [file EXCEPT !["task"] = last]
    BY <1>5, <2>1 DEF OpenPub
  <2>3. /\ StagesTyped' /\ pc'["task"] = "writePub" /\ (Stopping' <=> Stopping)
    BY <1>2, <2>2, GoTask DEF TaskStages, Working
  <2>4. /\ pub' \in [Kids -> Contents] /\ pub'[last] = Empty
        /\ \A k \in Kids : k # last => pub'[k] = pub[k]
    BY <1>2, <2>2, Values DEF TypeOK
  <2>5. FileTyped' /\ file'["task"] = last
    BY <1>2, <2>2, Values DEF FileTyped, TypeOK, Actors
  <2>6. TypeOK'
    <3>1. DiskTyped'
      BY <1>1, <1>2, <2>4 DEF DiskTyped, TypeOK
    <3> QED  BY <1>1, <1>2, <2>3, <2>5, <3>1, TypeFrame, TypeParts
  <2>7. Serving' <=> Serving
    BY <1>1, <2>3 DEF Serving
  <2>8. FilesSound'
    <3>1. \A k \in Kids : pub'[k] \in {None, Empty, k}
      BY <2>4 DEF Inv, FilesSound
    <3>2. \A k \in Kids : k > last => pub'[k] = None /\ priv[k] = None
      BY <1>2, <2>4 DEF Inv, FilesSound
    <3>3. \A t \in tokens : t.kid \in Kids
      BY <1>2 DEF TypeOK
    <3>4. \A t \in tokens : t.whole => pub'[t.kid] # Empty
      BY <2>1, <2>4, <3>3 DEF Inv, FilesSound
    <3> QED  BY <1>1, <3>1, <3>2, <3>4 DEF Inv, FilesSound
  <2>9. DownSound' /\ StopSound' /\ RetainSound'
    BY <1>1, <1>2, <1>3, <2>3, Excused
  <2>10. TaskSound'
    BY <1>1, <2>1, <2>3, <2>4, <2>5, <2>7
    DEF Inv, TaskSound, Naming, Publishing, Switching, Serving
  <2>11. Serving => Pairs' = Pairs
    BY <1>1, <2>1, <2>4 DEF Pairs, PubFiles
  <2>12. AheadSound'
    BY <1>1, <1>3, <2>3, <2>7, <2>11
    DEF Inv, AheadSound, IsNewest, Ripe, Naming, Publishing, Switching
  <2>13. HalvesSound'
    <3>1. SUFFICES ASSUME ~clash PROVE HalvesSound'
      BY <1>1, Excused
    <3>2. priv[last] = None
      BY <1>1, <1>2, <2>1, <3>1 DEF Serving
    <3> QED  BY <1>1, <2>4, <3>1, <3>2 DEF Inv, HalvesSound
  <2>14. CacheSound'
    <3> SUFFICES ASSUME Serving, ~clash PROVE CacheSound'
      BY <1>1, <2>7, Excused
    <3>1. \A k \in Kids : pub[k] = k => pub'[k] = k
      BY <2>1, <2>4, Values
    <3>2. \A r \in Scanning : scan[r].pick \in Kids
      BY DEF Inv, NamesSound
    <3>3. signer.mat \in Kids /\ signer.mat = signer.kid => signer.kid \in Kids
      OBVIOUS
    <3> QED  BY <1>1, <1>3, <3>1, <3>2, <3>3, Values DEF Inv, CacheSound
  <2> QED  BY <1>3, <2>6, <2>8, <2>9, <2>10, <2>12, <2>13, <2>14 DEF Inv
<1> QED  BY <1>4, <1>5

\* The public half is written, unless the file or the key has gone.
LEMMA WritePubKeeps == ASSUME Inv, WritePub PROVE Inv'
<1>1. /\ up /\ pc["task"] = "writePub" /\ pub' = Filled(pub, "task")
      /\ Then("task", "announce") /\ file' = [file EXCEPT !["task"] = None]
      /\ UNCHANGED <<priv, last, age, jwks, signer, fresh, newKid, rkey, nap, scan, tokens,
                     cut, clash, faults, up>>
  BY DEF WritePub, At, cache, context
<1>2. /\ TypeOK /\ last > 0 /\ last \in Kids /\ last \in Nat
      /\ Stopping => clash /\ Scanning = {}
  BY <1>1, TaskRuns
<1>3. Scanning' = Scanning /\ NamesSound'
  BY <1>1, Frames
<1>4. /\ StagesTyped' /\ (Stopping' <=> Stopping)
      /\ pc'["task"] = IF Stopping THEN "gone" ELSE "announce"
  BY <1>1, <1>2, ThenTask DEF TaskStages, Beginning
<1>5. Serving' <=> Serving
  BY <1>1, <1>4 DEF Serving
<1>6. /\ file["task"] = last /\ (rkey = last \/ (Stopping /\ rkey = None))
      /\ Serving => newKid = last /\ priv[last] = None /\ pub[last] = Empty
  BY <1>1 DEF Inv, TaskSound
<1>7. /\ pub' \in [Kids -> Contents]
      /\ \A k \in Kids : k # last => pub'[k] = pub[k]
      /\ pub'[last] \in {pub[last], last} /\ (pub[last] = None => pub'[last] = None)
      /\ Serving => pub'[last] = last
  BY <1>1, <1>2, <1>6, Values DEF Filled, TypeOK, Serving
<1>8. TypeOK'
  <2>1. DiskTyped'
    BY <1>1, <1>2, <1>7 DEF DiskTyped, TypeOK
  <2>2. FileTyped'
    BY <1>1, <1>2, Closed DEF Actors
  <2> QED  BY <1>1, <1>2, <1>4, <2>1, <2>2, TypeFrame, TypeParts
<1>9. FilesSound'
  <2>1. \A k \in Kids : pub'[k] \in {None, Empty, k}
    BY <1>7 DEF Inv, FilesSound
  <2>2. \A k \in Kids : k > last => pub'[k] = None /\ priv[k] = None
    BY <1>2, <1>7 DEF Inv, FilesSound
  <2>3. \A t \in tokens : t.kid \in Kids
    BY <1>2 DEF TypeOK
  <2>4. \A t \in tokens : t.whole => pub'[t.kid] # Empty
    BY <1>2, <1>7, <2>3, Values DEF Inv, FilesSound
  <2> QED  BY <1>1, <2>1, <2>2, <2>4 DEF Inv, FilesSound
<1>10. DownSound' /\ StopSound' /\ RetainSound'
  BY <1>1, <1>2, <1>3, <1>4, Excused
<1>11. TaskSound'
  BY <1>1, <1>4, <1>5, <1>6, <1>7 DEF Inv, TaskSound, Naming, Publishing, Switching, Serving
<1>12. Serving => Pairs' = Pairs
  BY <1>1, <1>6, <1>7 DEF Pairs, PubFiles
<1>13. AheadSound'
  <2> SUFFICES ASSUME Serving PROVE AheadSound'
    BY <1>5, Excused
  <2>1. pc'["task"] = "announce"
    BY <1>4 DEF Serving
  <2> QED  BY <1>1, <1>3, <1>5, <1>12, <2>1
           DEF Inv, AheadSound, IsNewest, Ripe, Naming, Publishing, Switching
<1>14. HalvesSound'
  <2> SUFFICES ASSUME ~clash PROVE HalvesSound'
    BY <1>1, Excused
  <2>1. Serving
    BY <1>1, <1>2 DEF Serving
  <2> QED  BY <1>1, <1>6, <1>7, <2>1 DEF Inv, HalvesSound
<1>15. CacheSound'
  <2> SUFFICES ASSUME Serving, ~clash PROVE CacheSound'
    BY <1>1, <1>5, Excused
  <2>1. \A k \in Kids : pub[k] = k => pub'[k] = k
    BY <1>7
  <2>2. \A r \in Scanning : scan[r].pick \in Kids
    BY DEF Inv, NamesSound
  <2> QED  BY <1>1, <1>3, <2>1, <2>2, Values DEF Inv, CacheSound
<1> QED  BY <1>3, <1>8, <1>9, <1>10, <1>11, <1>13, <1>14, <1>15 DEF Inv

\* A reload that finds a pair puts the newest to use.
LEMMA LoadIs ==
  ASSUME Inv, Load
  PROVE  /\ CacheTyped' /\ fresh' = CacheTtl
         /\ signer'.kid \in Kids /\ signer'.kid \in Pairs /\ IsNewest(signer'.kid)
         /\ signer'.mat = priv[signer'.kid] /\ signer'.mat # None /\ signer'.kid <= last
         /\ \A k \in Kids : k \in jwks' <=> pub[k] \in Kids
<1>1. TypeOK /\ Pairs # {}
  BY DEF Inv, Load
<1>2. signer' = [kid |-> Newest(Pairs), mat |-> priv[Newest(Pairs)]]
  BY DEF Load
<1>3. /\ signer'.kid \in Kids /\ signer'.kid \in Pairs /\ IsNewest(signer'.kid)
      /\ signer'.mat = priv[signer'.kid] /\ signer'.mat # None
      /\ signer' \in [kid : 0..LastKid, mat : Contents]
  BY <1>1, <1>2, NewestIs
<1>4. fresh' = CacheTtl /\ fresh' \in 0..CacheTtl
  BY Numbers DEF Load
<1>5. jwks' \subseteq Kids /\ \A k \in Kids : k \in jwks' <=> pub[k] \in Kids
  BY Values DEF Load, PubFiles
<1>6. signer'.kid <= last
  <2>1. last \in Nat /\ signer'.kid \in Nat
    BY <1>1, <1>3, Values, Numbers DEF TypeOK
  <2>2. ~(signer'.kid > last)
    BY <1>3 DEF Inv, FilesSound, Pairs, PubFiles
  <2> QED  BY <2>1, <2>2
<1> QED  BY <1>3, <1>4, <1>5, <1>6 DEF CacheTyped

\* The key that a reload puts to use is published, unless a stop overtook a
\* thread.
LEMMA LoadPublished ==
  ASSUME Inv, Load, ~clash, Key(signer'.mat)
  PROVE  signer'.mat = signer'.kid /\ pub[signer'.kid] = signer'.kid /\ signer'.kid \in jwks'
<1>1. /\ signer'.kid \in Kids /\ signer'.kid \in Pairs
      /\ signer'.mat = priv[signer'.kid]
      /\ \A k \in Kids : k \in jwks' <=> pub[k] \in Kids
  BY LoadIs
<1> QED  BY <1>1, Values DEF Inv, HalvesSound, Pairs, PubFiles

\* So it is when the server was serving or has just begun to.
LEMMA LoadSound ==
  ASSUME Inv, Load, UNCHANGED <<pub, scan, clash>>, Serving \/ Scanning = {}
  PROVE  CacheSound'
<1> SUFFICES ASSUME ~clash PROVE CacheSound'
  BY Excused
<1>1. Key(signer'.mat) =>
         signer'.mat = signer'.kid /\ pub[signer'.kid] = signer'.kid /\ signer'.kid \in jwks'
  BY LoadPublished
<1>2. Scanning' = Scanning
  BY DEF Scanning
<1> QED  BY <1>1, <1>2 DEF Inv, CacheSound, Key

\* The forced reload of a step of the rotation, whose thread may be overtaken.
LEMMA ReloadKeeps ==
  ASSUME Inv, NEW from, NEW to \in TaskStages, NEW ticks, Reload(from, to, ticks),
         from # "gone", to # "gone", ticks \in 0..(CacheTtl + AccessTtl + Slack)
  PROVE  /\ up /\ pc["task"] = from /\ pc'["task"] = IF Stopping THEN "gone" ELSE to
         /\ UNCHANGED <<pub, priv, last, age, newKid, rkey, file, scan, tokens, cut, clash,
                        faults, up>>
         /\ (Serving => nap' = ticks) /\ (Serving' <=> Serving) /\ (Serving => Load)
         /\ Pairs' = Pairs /\ Scanning' = Scanning
         /\ TypeOK' /\ FilesSound' /\ NamesSound' /\ DownSound' /\ HalvesSound'
         /\ StopSound' /\ CacheSound'
<1>1. /\ up /\ pc["task"] = from /\ Then("task", to)
      /\ nap' = IF Stopping THEN 0 ELSE ticks
      /\ UNCHANGED <<pub, priv, last, age, newKid, rkey, file, scan, tokens, cut, clash,
                     faults, up>>
  BY DEF Reload, At, disk, context
<1>2. IF Pairs = {} THEN UNCHANGED <<jwks, signer, fresh>> ELSE Load
  BY DEF Reload, cache
<1>3. /\ TypeOK /\ last > 0 /\ last \in Kids /\ last \in Nat
      /\ Stopping => clash /\ Scanning = {}
  BY <1>1, TaskRuns
<1>4. /\ StagesTyped' /\ (Stopping' <=> Stopping)
      /\ pc'["task"] = IF Stopping THEN "gone" ELSE to
  BY <1>1, <1>3, ThenTask
<1>5. (Serving' <=> Serving) /\ (Serving => Load /\ nap' = ticks)
  BY <1>1, <1>2, <1>4 DEF Serving, Inv, AheadSound
<1>6. Pairs' = Pairs /\ Scanning' = Scanning /\ FilesSound' /\ HalvesSound'
  BY <1>1, Frames
<1>7. CacheTyped' /\ (signer'.mat # None => signer'.kid # None) /\ signer'.kid <= last
  <2>1. CASE Pairs = {}
    BY <1>2, <1>3, <2>1, TypeFrame DEF Inv, NamesSound
  <2>2. CASE Pairs # {}
    BY <1>2, <2>2, LoadIs, Values
  <2> QED  BY <2>1, <2>2
<1>8. TypeOK'
  <2>1. NapTyped'
    BY <1>1, Numbers DEF NapTyped
  <2> QED  BY <1>1, <1>3, <1>4, <1>7, <2>1, TypeFrame, TypeParts
<1>9. NamesSound'
  BY <1>1, <1>6, <1>7 DEF Inv, NamesSound
<1>10. DownSound' /\ StopSound'
  BY <1>1, <1>3, <1>4, <1>6, Excused
<1>11. CacheSound'
  BY <1>1, <1>5, LoadSound, Excused
<1> QED  BY <1>1, <1>4, <1>5, <1>6, <1>8, <1>9, <1>10, <1>11

\* The public half is announced.
LEMMA AnnounceKeeps == ASSUME Inv, Announce PROVE Inv'
<1>1. CacheTtl + Slack \in 0..(CacheTtl + AccessTtl + Slack)
  BY Numbers
<1>2. "settle" \in TaskStages /\ Reload("announce", "settle", CacheTtl + Slack)
  BY DEF TaskStages, Announce
<1>3. /\ up /\ pc["task"] = "announce" /\ pc'["task"] = IF Stopping THEN "gone" ELSE "settle"
      /\ UNCHANGED <<pub, priv, last, age, newKid, rkey, file, scan, tokens, cut, clash,
                     faults, up>>
      /\ (Serving => nap' = CacheTtl + Slack) /\ (Serving' <=> Serving) /\ (Serving => Load)
      /\ Pairs' = Pairs /\ Scanning' = Scanning
      /\ TypeOK' /\ FilesSound' /\ NamesSound' /\ DownSound' /\ HalvesSound'
      /\ StopSound' /\ CacheSound'
  BY <1>1, <1>2, ReloadKeeps
<1>4. TaskSound'
  BY <1>3 DEF Inv, TaskSound, Naming, Publishing, Switching, Serving
<1>5. RetainSound'
  BY <1>3, Excused
<1>6. AheadSound'
  <2> SUFFICES ASSUME Serving PROVE AheadSound'
    BY <1>3, Excused
  <2>1. pc'["task"] = "settle" /\ Load
    BY <1>3 DEF Serving
  <2>2. /\ IsNewest(signer.kid) /\ \A r \in Scanning : IsNewest(scan[r].pick)
        /\ Ripe(signer.kid) /\ \A r \in Scanning : Ripe(scan[r].pick) /\ Pairs # {}
    BY <1>3 DEF Inv, AheadSound, Publishing
  <2>3. signer'.kid = signer.kid /\ signer'.kid \in Kids
    BY <2>1, <2>2, LoadIs, NewestOnce
  <2>4. age[last] + (CacheTtl + Slack) >= CacheTtl + Slack
    <3>1. last \in Kids /\ TypeOK
      BY <1>3, TaskRuns
    <3> QED  BY <3>1, Numbers DEF TypeOK
  <2> QED  BY <1>3, <2>1, <2>2, <2>3, <2>4
           DEF AheadSound, IsNewest, Ripe, Naming, Publishing, Switching
<1> QED  BY <1>3, <1>4, <1>5, <1>6 DEF Inv

\* The new pair signs.
LEMMA SwitchKeeps == ASSUME Inv, Switch PROVE Inv'
<1>1. AccessTtl + Slack \in 0..(CacheTtl + AccessTtl + Slack)
  BY Numbers
<1>2. "retain" \in TaskStages /\ Reload("switch", "retain", AccessTtl + Slack)
  BY DEF TaskStages, Switch
<1>3. /\ up /\ pc["task"] = "switch" /\ pc'["task"] = IF Stopping THEN "gone" ELSE "retain"
      /\ UNCHANGED <<pub, priv, last, age, newKid, rkey, file, scan, tokens, cut, clash,
                     faults, up>>
      /\ (Serving => nap' = AccessTtl + Slack) /\ (Serving' <=> Serving) /\ (Serving => Load)
      /\ Pairs' = Pairs /\ Scanning' = Scanning
      /\ TypeOK' /\ FilesSound' /\ NamesSound' /\ DownSound' /\ HalvesSound'
      /\ StopSound' /\ CacheSound'
  BY <1>1, <1>2, ReloadKeeps
<1>4. TypeOK /\ last \in Kids /\ last \in Nat
  BY <1>3, TaskRuns
<1>5. TaskSound'
  BY <1>3 DEF Inv, TaskSound, Naming, Publishing, Switching, Serving
<1>6. CASE ~Serving
  BY <1>3, <1>5, <1>6, Excused DEF Inv
<1>7. CASE Serving
  <2>1. pc'["task"] = "retain" /\ Load
    BY <1>3, <1>7 DEF Serving
  <2>2. pub[last] = last /\ priv[last] = last
    BY <1>3, <1>7 DEF Inv, TaskSound, Switching
  <2>3. signer'.kid = last
    <3>1. last \in Pairs
      BY <1>4, <2>2, Values DEF Pairs, PubFiles
    <3>2. IsNewest(signer'.kid) /\ signer'.kid \in Nat /\ signer'.kid <= last
      BY <2>1, LoadIs, Values
    <3> QED  BY <1>4, <3>1, <3>2 DEF IsNewest
  <2>4. Ripe(last) /\ Pairs # {} /\ \A r \in Scanning : Ripe(scan[r].pick)
    BY <1>3, <1>7 DEF Inv, AheadSound, Switching
  <2>5. AheadSound'
    BY <1>3, <1>4, <2>1, <2>3, <2>4 DEF AheadSound, Ripe, Naming, Publishing
  <2>6. \A t \in tokens : Due(t) <= AccessTtl + Slack + Grace
    <3>1. \A t \in tokens : Due(t) \in Int
      BY <1>4, DueIs DEF TypeOK
    <3>2. \A t \in tokens : Due(t) <= AccessTtl
      BY DEF Inv, FilesSound
    <3> QED  BY <3>1, <3>2, Numbers
  <2>7. RetainSound'
    BY <1>3, <2>1, <2>3, <2>6, Numbers DEF RetainSound
  <2> QED  BY <1>3, <1>5, <2>5, <2>7 DEF Inv
<1> QED  BY <1>6, <1>7

\* The sleep ends: the pair is old enough to be used, or the old one can go.
LEMMA WakeKeeps == ASSUME Inv, Wake PROVE Inv'
<1>1. /\ up /\ ~Stopping /\ nap = 0
      /\ \/ pc["task"] = "settle" /\ Go("task", "openKey")
         \/ pc["task"] = "retain" /\ Go("task", "remove")
      /\ UNCHANGED <<pub, priv, last, age, jwks, signer, fresh, newKid, rkey, file, nap,
                     scan, tokens, cut, clash, faults, up>>
  BY DEF Wake, At, disk, cache, context
<1>2. /\ StagesTyped' /\ (Stopping' <=> Stopping)
      /\ \/ pc["task"] = "settle" /\ pc'["task"] = "openKey"
         \/ pc["task"] = "retain" /\ pc'["task"] = "remove"
  BY <1>1, GoTask DEF Inv, TaskStages, Beginning
<1>3. Serving /\ Serving' /\ TypeOK /\ last \in Kids /\ last > 0
  BY <1>1, <1>2, TaskRuns DEF Serving
<1>4. TypeOK'
  BY <1>1, <1>2, <1>3, TypeFrame, TypeParts
<1>5. FilesSound' /\ NamesSound' /\ HalvesSound' /\ CacheSound'
  BY <1>1, <1>3, Frames
<1>6. Pairs' = Pairs /\ Scanning' = Scanning
  BY <1>1, Frames
<1>7. DownSound' /\ StopSound'
  BY <1>1, <1>2, <1>3, Excused
<1>8. TaskSound'
  BY <1>1, <1>2, <1>3 DEF Inv, TaskSound, Naming, Publishing, Switching
<1>9. CASE pc["task"] = "settle"
  <2>1. pc'["task"] = "openKey"
    BY <1>2, <1>9
  <2>2. Ripe(last)
    <3>1. age[last] + nap >= CacheTtl + Slack \/ age[last] = Day
      BY <1>3, <1>9 DEF Inv, AheadSound
    <3> QED  BY <1>1, <1>3, <3>1, Numbers DEF Ripe, TypeOK
  <2>3. AheadSound'
    BY <1>1, <1>3, <1>6, <1>9, <2>1, <2>2
    DEF Inv, AheadSound, IsNewest, Ripe, Naming, Publishing, Switching
  <2>4. RetainSound'
    BY <2>1, Excused
  <2> QED  BY <1>4, <1>5, <1>7, <1>8, <2>3, <2>4 DEF Inv
<1>10. CASE pc["task"] = "retain"
  <2>1. pc'["task"] = "remove"
    BY <1>2, <1>10
  <2>2. AheadSound'
    BY <1>1, <1>3, <1>6, <1>10, <2>1
    DEF Inv, AheadSound, Ripe, Naming, Publishing, Switching
  <2>3. RetainSound'
    BY <1>1, <1>3, <1>6, <1>10, <2>1 DEF Inv, RetainSound
  <2> QED  BY <1>4, <1>5, <1>7, <1>8, <2>2, <2>3 DEF Inv
<1> QED  BY <1>2, <1>9, <1>10

-----------------------------------------------------------------------------
(* The steps on private files and old files, by the task or by the handler *)

\* While the handler runs, a thread of the task can run on beside it.
LEMMA StopRuns ==
  ASSUME Inv, up, Stopping
  PROVE  /\ TypeOK /\ last > 0 /\ last \in Kids /\ last \in Nat
         /\ ~Serving /\ Scanning = {} /\ (clash \/ pc["task"] = "gone")
<1>1. TypeOK /\ last > 0 /\ Scanning = {} /\ (clash \/ pc["task"] = "gone") /\ ~Serving
  BY DEF Inv, DownSound, Serving
<1>2. last \in 0..LastKid
  BY <1>1 DEF TypeOK
<1>3. last \in Kids /\ last \in Nat
  BY <1>1, <1>2, Numbers DEF Kids
<1> QED  BY <1>1, <1>3

\* What a step of the handler keeps whatever it does to the files.
LEMMA StopStep ==
  ASSUME Inv, up, Stopping, NEW l \in StopStages, l # "none", Go("stop", l),
         UNCHANGED <<scan, last, clash, up>>
  PROVE  /\ StagesTyped' /\ pc'["stop"] = l /\ pc'["task"] = pc["task"] /\ Stopping'
         /\ ~Serving' /\ DownSound' /\ AheadSound' /\ RetainSound' /\ CacheSound'
<1>1. /\ TypeOK /\ last > 0 /\ last \in Kids /\ last \in Nat
      /\ ~Serving /\ Scanning = {} /\ (clash \/ pc["task"] = "gone")
  BY StopRuns
<1>2. StagesTyped' /\ pc'["stop"] = l /\ pc'["task"] = pc["task"] /\ Stopping'
  BY <1>1, GoStop
<1>3. ~Serving'
  BY <1>2 DEF Serving
<1>4. Scanning' = {}
  BY <1>1 DEF Scanning
<1> QED  BY <1>1, <1>2, <1>3, <1>4, Excused

\* The task opens the file of the private half, unless a stop has forgotten
\* the name.
LEMMA TaskOpensKey == ASSUME Inv, OpenKey("task") PROVE Inv'
<1>1. /\ up /\ pc["task"] = "openKey"
      /\ UNCHANGED <<pub, last, age, jwks, signer, fresh, newKid, rkey, nap, scan, tokens,
                     cut, clash, faults, up>>
  BY DEF OpenKey, At, cache, context
<1>2. /\ TypeOK /\ last > 0 /\ last \in Kids /\ last \in Nat
      /\ Stopping => clash /\ Scanning = {}
  BY <1>1, TaskRuns
<1>3. Scanning' = Scanning /\ NamesSound'
  BY <1>1, Frames
<1>4. Serving => newKid = last /\ rkey = last /\ pub[last] = last /\ priv[last] = None
  BY <1>1 DEF Inv, TaskSound, Publishing
<1>5. CASE newKid = None \/ rkey = None
  <2>1. Go("task", "gone") /\ UNCHANGED <<priv, file>>
    BY <1>5 DEF OpenKey
  <2>2. StagesTyped' /\ pc'["task"] = "gone" /\ (Stopping' <=> Stopping)
    BY <1>2, <2>1, GoTask DEF TaskStages
  <2>3. Stopping
    BY <1>1, <1>2, <1>4, <1>5 DEF Serving, None
  <2>4. TypeOK'
    BY <1>1, <1>2, <2>1, <2>2, TypeFrame, TypeParts
  <2>5. FilesSound' /\ DownSound' /\ HalvesSound' /\ StopSound'
    BY <1>1, <1>2, <1>3, <2>1, <2>2, <2>3, Frames, Excused
  <2>6. TaskSound' /\ AheadSound' /\ RetainSound' /\ CacheSound'
    BY <2>2, <2>3, Excused DEF TaskSound, Serving, Naming
  <2> QED  BY <1>3, <2>4, <2>5, <2>6 DEF Inv
<1>6. CASE ~(newKid = None \/ rkey = None)
  <2>1. newKid \in Kids /\ newKid <= last
    BY <1>2, <1>6, Values DEF Inv, TypeOK, NamesSound
  <2>2. /\ Go("task", "writeKey") /\ priv' = [priv EXCEPT ![newKid] = Empty]
        /\ file' = [file EXCEPT !["task"] = newKid]
    BY <1>6 DEF OpenKey
  <2>3. StagesTyped' /\ pc'["task"] = "writeKey" /\ (Stopping' <=> Stopping)
    BY <1>2, <2>2, GoTask DEF TaskStages, Working
  <2>4. /\ priv' \in [Kids -> Contents] /\ priv'[newKid] = Empty
        /\ \A k \in Kids : k # newKid => priv'[k] = priv[k]
    BY <1>2, <2>1, <2>2, Values DEF TypeOK
  <2>5. FileTyped' /\ file'["task"] = newKid
    BY <1>2, <2>1, <2>2, Values DEF FileTyped, TypeOK, Actors
  <2>6. TypeOK'
    <3>1. DiskTyped'
      BY <1>1, <1>2, <2>4 DEF DiskTyped, TypeOK
    <3> QED  BY <1>1, <1>2, <2>3, <2>5, <3>1, TypeFrame, TypeParts
  <2>7. Serving' <=> Serving
    BY <1>1, <2>3 DEF Serving
  <2>8. FilesSound'
    <3>1. \A k \in Kids : k > last => pub[k] = None /\ priv'[k] = None
      BY <1>2, <2>1, <2>4, Values DEF Inv, FilesSound
    <3> QED  BY <1>1, <3>1 DEF Inv, FilesSound
  <2>9. DownSound' /\ StopSound' /\ RetainSound'
    BY <1>1, <1>2, <1>3, <2>3, Excused
  <2>10. TaskSound'
    BY <1>1, <1>4, <2>3, <2>4, <2>5, <2>7 DEF Inv, TaskSound, Naming, Publishing, Switching
  <2>11. CacheSound'
    BY <1>1, <2>7, Frames
  <2>12. AheadSound'
    <3> SUFFICES ASSUME Serving PROVE AheadSound'
      BY <2>7, Excused
    <3>1. Pairs \subseteq Pairs'
      BY <1>1, <2>4, Values DEF Pairs, PubFiles
    <3> QED  BY <1>1, <1>3, <2>3, <3>1
             DEF Inv, AheadSound, Ripe, Naming, Publishing, Switching
  <2>13. HalvesSound'
    <3> SUFFICES ASSUME ~clash PROVE HalvesSound'
      BY <1>1, Excused
    <3>1. newKid = last /\ pub[last] = last /\ priv[last] = None
      BY <1>1, <1>2, <1>4 DEF Serving
    <3> QED  BY <1>1, <2>4, <3>1 DEF Inv, HalvesSound
  <2> QED  BY <1>3, <2>6, <2>8, <2>9, <2>10, <2>11, <2>12, <2>13 DEF Inv
<1> QED  BY <1>5, <1>6

\* The handler opens the file of the private half.
LEMMA StopOpensKey == ASSUME Inv, OpenKey("stop") PROVE Inv'
<1>1. /\ up /\ pc["stop"] = "openKey" /\ Stopping
      /\ UNCHANGED <<pub, last, age, jwks, signer, fresh, newKid, rkey, nap, scan, tokens,
                     cut, clash, faults, up>>
  BY DEF OpenKey, At, cache, context, Stopping
<1>2. /\ TypeOK /\ last > 0 /\ last \in Kids /\ last \in Nat
      /\ ~Serving /\ Scanning = {} /\ (clash \/ pc["task"] = "gone")
  BY <1>1, StopRuns
<1>3. NamesSound'
  BY <1>1, Frames
<1>4. ~clash => newKid = last /\ rkey = last /\ pub[last] = last /\ priv[last] = None
  BY <1>1 DEF Inv, StopSound
<1>5. CASE newKid = None \/ rkey = None
  <2>1. Go("stop", "gone") /\ UNCHANGED <<priv, file>>
    BY <1>5 DEF OpenKey
  <2>2. /\ StagesTyped' /\ pc'["stop"] = "gone" /\ pc'["task"] = pc["task"] /\ Stopping'
        /\ ~Serving' /\ DownSound' /\ AheadSound' /\ RetainSound' /\ CacheSound'
    BY <1>1, <2>1, StopStep DEF StopStages
  <2>3. TypeOK'
    BY <1>1, <1>2, <2>1, <2>2, TypeFrame, TypeParts
  <2>4. FilesSound' /\ HalvesSound' /\ StopSound'
    BY <1>1, <2>1, <2>2, Frames DEF StopSound
  <2>5. TaskSound'
    BY <1>1, <2>1, <2>2 DEF Inv, TaskSound, Naming
  <2> QED  BY <1>3, <2>2, <2>3, <2>4, <2>5 DEF Inv
<1>6. CASE ~(newKid = None \/ rkey = None)
  <2>1. newKid \in Kids /\ newKid <= last
    BY <1>2, <1>6, Values DEF Inv, TypeOK, NamesSound
  <2>2. /\ Go("stop", "writeKey") /\ priv' = [priv EXCEPT ![newKid] = Empty]
        /\ file' = [file EXCEPT !["stop"] = newKid]
    BY <1>6 DEF OpenKey
  <2>3. /\ StagesTyped' /\ pc'["stop"] = "writeKey" /\ pc'["task"] = pc["task"] /\ Stopping'
        /\ ~Serving' /\ DownSound' /\ AheadSound' /\ RetainSound' /\ CacheSound'
    BY <1>1, <2>2, StopStep DEF StopStages
  <2>4. /\ priv' \in [Kids -> Contents] /\ priv'[newKid] = Empty
        /\ \A k \in Kids : k # newKid => priv'[k] = priv[k]
    BY <1>2, <2>1, <2>2, Values DEF TypeOK
  <2>5. FileTyped' /\ file'["stop"] = newKid /\ file'["task"] = file["task"]
    BY <1>2, <2>1, <2>2, Values DEF FileTyped, TypeOK, Actors
  <2>6. TypeOK'
    <3>1. DiskTyped'
      BY <1>1, <1>2, <2>4 DEF DiskTyped, TypeOK
    <3> QED  BY <1>1, <1>2, <2>3, <2>5, <3>1, TypeFrame, TypeParts
  <2>7. FilesSound'
    <3>1. \A k \in Kids : k > last => pub[k] = None /\ priv'[k] = None
      BY <1>2, <2>1, <2>4, Values DEF Inv, FilesSound
    <3> QED  BY <1>1, <3>1 DEF Inv, FilesSound
  <2>8. TaskSound'
    BY <1>1, <2>3, <2>5 DEF Inv, TaskSound, Naming
  <2>9. StopSound'
    BY <1>1, <1>4, <2>3, <2>4, <2>5 DEF StopSound
  <2>10. HalvesSound'
    <3> SUFFICES ASSUME ~clash PROVE HalvesSound'
      BY <1>1, Excused
    <3>1. newKid = last /\ pub[last] = last /\ priv[last] = None
      BY <1>4
    <3> QED  BY <1>1, <2>4, <3>1 DEF Inv, HalvesSound
  <2> QED  BY <1>3, <2>3, <2>6, <2>7, <2>8, <2>9, <2>10 DEF Inv
<1> QED  BY <1>5, <1>6

\* Writing a private half fills a file that exists, and creates none.
LEMMA FilledIs ==
  ASSUME TypeOK, NEW a \in Actors, priv' = Filled(priv, a)
  PROVE  /\ priv' \in [Kids -> Contents]
         /\ \A k \in Kids : priv'[k] = None <=> priv[k] = None
         /\ \A k \in Kids : k # file[a] => priv'[k] = priv[k]
         /\ file[a] \in Kids /\ priv[file[a]] # None /\ rkey # None => priv'[file[a]] = rkey
<1>1. /\ priv \in [Kids -> Contents] /\ rkey \in Kids \union {None}
      /\ file[a] \in Kids \union {None}
  BY Values DEF TypeOK
<1>2. CASE file[a] \notin Kids
  <2>1. priv' = priv
    BY <1>1, <1>2 DEF Filled
  <2> QED  BY <1>1, <1>2, <2>1
<1>3. CASE file[a] \in Kids
  BY <1>1, <1>3, Values DEF Filled
<1> QED  BY <1>2, <1>3

\* The task writes the private half.
LEMMA TaskWritesKey == ASSUME Inv, WriteKey("task") PROVE Inv'
<1>1. /\ up /\ pc["task"] = "writeKey" /\ priv' = Filled(priv, "task")
      /\ Then("task", "switch") /\ file' = [file EXCEPT !["task"] = None]
      /\ UNCHANGED <<pub, last, age, jwks, signer, fresh, newKid, rkey, nap, scan, tokens,
                     cut, clash, faults, up>>
  BY DEF WriteKey, At, cache, context
<1>2. /\ TypeOK /\ last > 0 /\ last \in Kids /\ last \in Nat
      /\ Stopping => clash /\ Scanning = {}
  BY <1>1, TaskRuns
<1>3. Scanning' = Scanning /\ NamesSound'
  BY <1>1, Frames
<1>4. /\ StagesTyped' /\ (Stopping' <=> Stopping)
      /\ pc'["task"] = IF Stopping THEN "gone" ELSE "switch"
  BY <1>1, <1>2, ThenTask DEF TaskStages, Beginning
<1>5. Serving' <=> Serving
  BY <1>1, <1>4 DEF Serving
<1>6. /\ priv' \in [Kids -> Contents]
      /\ \A k \in Kids : priv'[k] = None <=> priv[k] = None
      /\ \A k \in Kids : k # file["task"] => priv'[k] = priv[k]
      /\ file["task"] \in Kids /\ priv[file["task"]] # None /\ rkey # None
            => priv'[file["task"]] = rkey
  BY <1>1, <1>2, FilledIs DEF Actors
<1>7. Serving => /\ newKid = last /\ rkey = last /\ pub[last] = last
                 /\ file["task"] = last /\ priv[last] = Empty
  BY <1>1 DEF Inv, TaskSound
<1>8. Serving => priv'[last] = last /\ \A k \in Kids : k # last => priv'[k] = priv[k]
  BY <1>2, <1>6, <1>7, Values
<1>9. TypeOK'
  <2>1. DiskTyped'
    BY <1>1, <1>2, <1>6 DEF DiskTyped, TypeOK
  <2>2. FileTyped'
    BY <1>1, <1>2, Closed DEF Actors
  <2> QED  BY <1>1, <1>2, <1>4, <2>1, <2>2, TypeFrame, TypeParts
<1>10. FilesSound'
  BY <1>1, <1>6 DEF Inv, FilesSound
<1>11. DownSound' /\ StopSound' /\ RetainSound'
  BY <1>1, <1>2, <1>3, <1>4, Excused
<1>12. TaskSound'
  BY <1>1, <1>4, <1>5, <1>7, <1>8
  DEF Inv, TaskSound, Naming, Publishing, Switching, Serving
<1>13. CacheSound'
  BY <1>1, <1>5, Frames
<1>14. AheadSound'
  <2> SUFFICES ASSUME Serving PROVE AheadSound'
    BY <1>5, Excused
  <2>1. pc'["task"] = "switch"
    BY <1>4 DEF Serving
  <2>2. Pairs' = Pairs
    BY <1>1, <1>6 DEF Pairs, PubFiles
  <2> QED  BY <1>1, <1>3, <2>1, <2>2
           DEF Inv, AheadSound, Ripe, Naming, Publishing, Switching
<1>15. HalvesSound'
  <2> SUFFICES ASSUME ~clash PROVE HalvesSound'
    BY <1>1, Excused
  <2>1. Serving
    BY <1>1, <1>2 DEF Serving
  <2> QED  BY <1>1, <1>2, <1>7, <1>8, <2>1 DEF Inv, HalvesSound
<1> QED  BY <1>3, <1>9, <1>10, <1>11, <1>12, <1>13, <1>14, <1>15 DEF Inv

\* The handler writes the private half.
LEMMA StopWritesKey == ASSUME Inv, WriteKey("stop") PROVE Inv'
<1>1. /\ up /\ pc["stop"] = "writeKey" /\ Stopping /\ priv' = Filled(priv, "stop")
      /\ Go("stop", "remove") /\ file' = [file EXCEPT !["stop"] = None]
      /\ UNCHANGED <<pub, last, age, jwks, signer, fresh, newKid, rkey, nap, scan, tokens,
                     cut, clash, faults, up>>
  BY ThenStop DEF WriteKey, At, cache, context, Stopping
<1>2. /\ TypeOK /\ last > 0 /\ last \in Kids /\ last \in Nat
      /\ ~Serving /\ Scanning = {} /\ (clash \/ pc["task"] = "gone")
  BY <1>1, StopRuns
<1>3. NamesSound'
  BY <1>1, Frames
<1>4. /\ StagesTyped' /\ pc'["stop"] = "remove" /\ pc'["task"] = pc["task"] /\ Stopping'
      /\ ~Serving' /\ DownSound' /\ AheadSound' /\ RetainSound' /\ CacheSound'
  BY <1>1, StopStep DEF StopStages
<1>5. /\ priv' \in [Kids -> Contents]
      /\ \A k \in Kids : priv'[k] = None <=> priv[k] = None
      /\ \A k \in Kids : k # file["stop"] => priv'[k] = priv[k]
      /\ file["stop"] \in Kids /\ priv[file["stop"]] # None /\ rkey # None
            => priv'[file["stop"]] = rkey
  BY <1>1, <1>2, FilledIs DEF Actors
<1>6. ~clash => /\ newKid = last /\ rkey = last /\ pub[last] = last
                /\ file["stop"] = last /\ priv[last] = Empty
  BY <1>1 DEF Inv, StopSound
<1>7. ~clash => priv'[last] = last /\ \A k \in Kids : k # last => priv'[k] = priv[k]
  BY <1>2, <1>5, <1>6, Values
<1>8. TypeOK'
  <2>1. DiskTyped'
    BY <1>1, <1>2, <1>5 DEF DiskTyped, TypeOK
  <2>2. FileTyped'
    BY <1>1, <1>2, Closed DEF Actors
  <2> QED  BY <1>1, <1>2, <1>4, <2>1, <2>2, TypeFrame, TypeParts
<1>9. FilesSound'
  BY <1>1, <1>5 DEF Inv, FilesSound
<1>10. TaskSound'
  BY <1>1, <1>4 DEF Inv, TaskSound, Naming
<1>11. StopSound'
  BY <1>1, <1>4, <1>6, <1>7 DEF StopSound
<1>12. HalvesSound'
  <2> SUFFICES ASSUME ~clash PROVE HalvesSound'
    BY <1>1, Excused
  <2> QED  BY <1>1, <1>2, <1>6, <1>7 DEF Inv, HalvesSound
<1> QED  BY <1>3, <1>4, <1>8, <1>9, <1>10, <1>11, <1>12 DEF Inv

\* What the removal of one file, other than those of the new pair, leaves.
LEMMA RemoveIs ==
  ASSUME Inv, NEW a \in Actors, RemoveFile(a)
  PROVE  /\ up /\ pc[a] = "remove"
         /\ UNCHANGED <<last, age, jwks, signer, fresh, newKid, rkey, pc, file, nap, scan, tokens,
                        clash, faults, up>>
         /\ pub' \in [Kids -> Contents] /\ priv' \in [Kids -> Contents] /\ cut' \subseteq Kids
         /\ \A k \in Kids : pub'[k] \in {pub[k], None} /\ priv'[k] \in {priv[k], None}
         /\ newKid \in Kids => pub'[newKid] = pub[newKid] /\ priv'[newKid] = priv[newKid]
<1>1. /\ up /\ pc[a] = "remove"
      /\ UNCHANGED <<last, age, jwks, signer, fresh, newKid, rkey, pc, file, nap, scan, tokens,
                     clash, faults, up>>
  BY DEF RemoveFile, At, cache, context, threads
<1>2. pub \in [Kids -> Contents] /\ priv \in [Kids -> Contents] /\ cut \subseteq Kids
  BY DEF Inv, TypeOK
<1>3. PICK k \in Kids \ {newKid} :
         \/ /\ pub' = [pub EXCEPT ![k] = None]
            /\ cut' = IF Stopping THEN cut \union {k} ELSE cut
            /\ UNCHANGED priv
         \/ /\ priv' = [priv EXCEPT ![k] = None]
            /\ UNCHANGED <<pub, cut>>
  BY DEF RemoveFile
<1>4. cut' \subseteq Kids
  BY <1>2, <1>3
<1>5. CASE pub' = [pub EXCEPT ![k] = None] /\ UNCHANGED priv
  BY <1>1, <1>2, <1>3, <1>4, <1>5, Values
<1>6. CASE priv' = [priv EXCEPT ![k] = None] /\ UNCHANGED pub
  BY <1>1, <1>2, <1>3, <1>4, <1>6, Values
<1> QED  BY <1>3, <1>5, <1>6

\* A file of an old pair is removed.  By then every scan finds the new pair,
\* and nothing else signs.
LEMMA RemoveFileKeeps == ASSUME Inv, NEW a \in Actors, RemoveFile(a) PROVE Inv'
<1>1. /\ up /\ pc[a] = "remove"
      /\ UNCHANGED <<last, age, jwks, signer, fresh, newKid, rkey, pc, file, nap, scan, tokens,
                     clash, faults, up>>
      /\ pub' \in [Kids -> Contents] /\ priv' \in [Kids -> Contents] /\ cut' \subseteq Kids
      /\ \A k \in Kids : pub'[k] \in {pub[k], None} /\ priv'[k] \in {priv[k], None}
      /\ newKid \in Kids => pub'[newKid] = pub[newKid] /\ priv'[newKid] = priv[newKid]
  BY RemoveIs
<1>2. TypeOK /\ last > 0 /\ last \in Kids /\ last \in Nat
  <2>1. CASE a = "task"
    BY <1>1, <2>1, TaskRuns
  <2>2. CASE a = "stop"
    BY <1>1, <2>2, StopRuns DEF Stopping
  <2> QED  BY <2>1, <2>2 DEF Actors
<1>3. TypeOK'
  <2>1. DiskTyped' /\ RestTyped' /\ StagesTyped'
    BY <1>1, <1>2 DEF DiskTyped, RestTyped, StagesTyped, TypeOK
  <2> QED  BY <1>1, <1>2, <2>1, TypeFrame, TypeParts
<1>4. Scanning' = Scanning /\ NamesSound' /\ (Stopping' <=> Stopping) /\ (Serving' <=> Serving)
  BY <1>1, Frames DEF Stopping, Serving
<1>5. FilesSound'
  <2>1. \A k \in Kids : pub'[k] \in {None, Empty, k}
    BY <1>1 DEF Inv, FilesSound
  <2>2. \A k \in Kids : k > last => pub'[k] = None /\ priv'[k] = None
    BY <1>1 DEF Inv, FilesSound
  <2>3. \A t \in tokens : t.kid \in Kids
    BY <1>2 DEF TypeOK
  <2>4. \A t \in tokens : t.whole => pub'[t.kid] # Empty
    BY <1>1, <2>3, Values DEF Inv, FilesSound
  <2> QED  BY <1>1, <2>1, <2>2, <2>4 DEF Inv, FilesSound
<1>6. DownSound'
  BY <1>1, <1>4 DEF Inv, DownSound
\* Whoever removes files, unless it was overtaken, has the last pair complete.
<1>7. Serving => /\ newKid = last /\ pub[last] = last /\ priv[last] = last
                 /\ pc["task"] = "remove"
  BY <1>1 DEF Inv, TaskSound, Switching, Serving, Stopping, Actors
<1>8. ~clash => newKid = last /\ pub[last] = last /\ priv[last] = last
  <2>1. CASE Stopping
    BY <1>1, <2>1 DEF Inv, StopSound, DownSound, Actors
  <2> QED  BY <1>1, <1>7, <2>1 DEF Serving
<1>9. (Serving \/ ~clash) => pub'[last] = last /\ priv'[last] = last
  BY <1>1, <1>2, <1>7, <1>8
<1>10. TaskSound'
  <2>1. pub[last] = None => pub'[last] = None
    BY <1>1, <1>2
  <2> QED  BY <1>1, <1>4, <1>7, <1>9, <2>1
           DEF Inv, TaskSound, Naming, Publishing, Switching
<1>11. StopSound'
  <2>1. Stopping /\ ~clash => pc["stop"] = "remove"
    BY <1>1 DEF Inv, DownSound, Actors
  <2> QED  BY <1>1, <1>4, <1>8, <1>9, <2>1 DEF Inv, StopSound
<1>12. HalvesSound'
  BY <1>1, <1>2, <1>9 DEF Inv, HalvesSound
<1>13. Serving => /\ \A r \in Scanning : scan[r].pick = last
                  /\ fresh > 0 => signer.kid = last
  <2> SUFFICES ASSUME Serving
               PROVE  /\ \A r \in Scanning : scan[r].pick = last
                      /\ fresh > 0 => signer.kid = last
    OBVIOUS
  <2>1. /\ nap = 0 /\ (nap < AccessTtl + Slack => \A r \in Scanning : scan[r].pick = last)
        /\ signer.kid = last \/ fresh = 0 \/ fresh + AccessTtl <= nap + Grace + 1
    BY <1>7 DEF Inv, RetainSound
  <2>2. fresh \in Nat
    BY <1>2, Numbers DEF TypeOK
  <2>3. fresh > 0 => signer.kid = last
    BY <2>1, <2>2, Numbers
  <2> QED  BY <2>1, <2>3, Numbers
<1>14. CacheSound'
  <2> SUFFICES ASSUME Serving, ~clash PROVE CacheSound'
    BY <1>1, <1>4, Excused
  <2>1. \A r \in Scanning : pub'[scan[r].pick] = scan[r].pick
    BY <1>9, <1>13
  <2>2. fresh > 0 => pub'[signer.kid] = signer.kid
    BY <1>9, <1>13
  <2> QED  BY <1>1, <1>4, <2>1, <2>2 DEF Inv, CacheSound
<1>15. AheadSound'
  <2> SUFFICES ASSUME Serving PROVE AheadSound'
    BY <1>4, Excused
  <2>1. last \in Pairs'
    BY <1>1, <1>2, <1>9, Values DEF Pairs, PubFiles
  <2> QED  BY <1>1, <1>4, <1>7, <2>1 DEF Inv, AheadSound, Ripe, Naming, Publishing
<1>16. RetainSound'
  BY <1>1, <1>4 DEF Inv, RetainSound
<1> QED  BY <1>3, <1>4, <1>5, <1>6, <1>10, <1>11, <1>12, <1>14, <1>15, <1>16 DEF Inv

\* When no other file is left the reload finds the new pair.
LEMMA EndIs ==
  ASSUME Inv, NEW a \in Actors, RemoveEnds(a), last \in Kids
  PROVE  /\ up /\ pc[a] = "remove"
         /\ UNCHANGED <<pub, priv, last, age, newKid, rkey, file, nap, scan, tokens, cut,
                        clash, faults, up>>
         /\ \/ Pairs = {} /\ Go(a, "gone") /\ UNCHANGED <<jwks, signer, fresh>>
            \/ Pairs # {} /\ Go(a, "forget") /\ Load
         /\ CacheTyped' /\ FilesSound' /\ NamesSound' /\ HalvesSound'
         /\ Pairs' = Pairs /\ Scanning' = Scanning
         /\ newKid = last => Pairs \subseteq {last}
<1>1. /\ up /\ pc[a] = "remove"
      /\ UNCHANGED <<pub, priv, last, age, newKid, rkey, file, nap, scan, tokens, cut,
                     clash, faults, up>>
      /\ \/ Pairs = {} /\ Go(a, "gone") /\ UNCHANGED <<jwks, signer, fresh>>
         \/ Pairs # {} /\ Go(a, "forget") /\ Load
  BY DEF RemoveEnds, At, disk, context, cache
<1>2. /\ CacheTyped' /\ (signer'.mat # None => signer'.kid # None) /\ signer'.kid <= last
  <2>1. CASE Pairs = {}
    BY <1>1, <2>1, TypeFrame DEF Inv, NamesSound
  <2>2. CASE Pairs # {}
    BY <1>1, <2>2, LoadIs, Values
  <2> QED  BY <2>1, <2>2
<1>3. Pairs' = Pairs /\ Scanning' = Scanning /\ FilesSound' /\ HalvesSound'
  BY <1>1, Frames
<1>4. NamesSound'
  BY <1>1, <1>2, <1>3 DEF Inv, NamesSound
<1>5. newKid = last => Pairs \subseteq {last}
  BY DEF RemoveEnds, Pairs, PubFiles
<1> QED  BY <1>1, <1>2, <1>3, <1>4, <1>5

\* The task has removed the old pairs.
LEMMA TaskEndsRemoving == ASSUME Inv, RemoveEnds("task") PROVE Inv'
<1>1. up /\ pc["task"] = "remove" /\ "task" \in Actors
  BY DEF RemoveEnds, At, Actors
<1>2. /\ TypeOK /\ last > 0 /\ last \in Kids /\ last \in Nat
      /\ Stopping => clash /\ Scanning = {}
  BY <1>1, TaskRuns
<1>3. /\ UNCHANGED <<pub, priv, last, age, newKid, rkey, file, nap, scan, tokens, cut,
                     clash, faults, up>>
      /\ \/ Pairs = {} /\ Go("task", "gone") /\ UNCHANGED <<jwks, signer, fresh>>
         \/ Pairs # {} /\ Go("task", "forget") /\ Load
      /\ CacheTyped' /\ FilesSound' /\ NamesSound' /\ HalvesSound'
      /\ Pairs' = Pairs /\ Scanning' = Scanning
      /\ newKid = last => Pairs \subseteq {last}
  BY <1>1, <1>2, EndIs
<1>4. /\ StagesTyped' /\ (Stopping' <=> Stopping) /\ pc'["task"] \in {"gone", "forget"}
      /\ Pairs # {} => pc'["task"] = "forget" /\ Load
  BY <1>2, <1>3, GoTask DEF TaskStages, Working
<1>5. Serving' <=> Serving
  BY <1>3, <1>4 DEF Serving
<1>6. TypeOK'
  BY <1>2, <1>3, <1>4, TypeFrame, TypeParts
<1>7. CASE ~Serving
  <2>1. Stopping
    BY <1>1, <1>7 DEF Serving
  <2>2. DownSound' /\ StopSound' /\ AheadSound' /\ RetainSound' /\ CacheSound'
    BY <1>1, <1>2, <1>3, <1>4, <1>5, <1>7, <2>1, Excused
  <2>3. TaskSound'
    BY <1>4, <1>5, <1>7 DEF TaskSound, Naming
  <2> QED  BY <1>3, <1>6, <2>2, <2>3 DEF Inv
<1>8. CASE Serving
  <2>1. newKid = last /\ rkey = last /\ pub[last] = last /\ priv[last] = last
    BY <1>1, <1>8 DEF Inv, TaskSound, Switching
  <2>2. /\ Pairs # {} /\ Ripe(last) /\ \A r \in Scanning : Ripe(scan[r].pick)
        /\ nap = 0 /\ nap <= AccessTtl + Slack
        /\ nap < AccessTtl + Slack => \A r \in Scanning : scan[r].pick = last
        /\ \A t \in tokens : t.kid # last => Due(t) <= nap + Grace
    BY <1>1, <1>8 DEF Inv, AheadSound, RetainSound, Switching
  <2>3. pc'["task"] = "forget" /\ Load
    BY <1>4, <2>2
  <2>4. signer'.kid = last
    BY <1>3, <2>1, <2>3, LoadIs
  <2>5. DownSound' /\ StopSound'
    BY <1>1, <1>2, <1>3, <1>4, <1>5, <1>8, <2>3, Excused DEF Serving
  <2>6. TaskSound'
    BY <1>3, <1>4, <1>5, <2>1, <2>3 DEF TaskSound, Naming, Publishing, Switching
  <2>7. AheadSound'
    BY <1>2, <1>3, <2>2, <2>3, <2>4 DEF AheadSound, Ripe, Naming, Publishing
  <2>8. RetainSound'
    BY <1>3, <2>2, <2>4 DEF RetainSound
  <2>9. CacheSound'
    BY <1>3, <1>8, <2>3, LoadSound
  <2> QED  BY <1>3, <1>6, <2>5, <2>6, <2>7, <2>8, <2>9 DEF Inv
<1> QED  BY <1>7, <1>8

\* The handler has removed the old pairs.
LEMMA StopEndsRemoving == ASSUME Inv, RemoveEnds("stop") PROVE Inv'
<1>1. up /\ pc["stop"] = "remove" /\ Stopping /\ "stop" \in Actors
  BY DEF RemoveEnds, At, Actors, Stopping
<1>2. /\ TypeOK /\ last > 0 /\ last \in Kids /\ last \in Nat
      /\ ~Serving /\ Scanning = {} /\ (clash \/ pc["task"] = "gone")
  BY <1>1, StopRuns
<1>3. /\ UNCHANGED <<pub, priv, last, age, newKid, rkey, file, nap, scan, tokens, cut,
                     clash, faults, up>>
      /\ Go("stop", "gone") \/ Go("stop", "forget")
      /\ CacheTyped' /\ FilesSound' /\ NamesSound' /\ HalvesSound'
  BY <1>1, <1>2, EndIs
<1>4. /\ StagesTyped' /\ pc'["stop"] \in {"gone", "forget"} /\ pc'["task"] = pc["task"]
      /\ Stopping' /\ ~Serving'
      /\ DownSound' /\ AheadSound' /\ RetainSound' /\ CacheSound'
  <2>1. "gone" \in StopStages /\ "forget" \in StopStages
    BY DEF StopStages
  <2> QED  BY <1>1, <1>3, <2>1, StopStep
<1>5. TypeOK'
  BY <1>2, <1>3, <1>4, TypeFrame, TypeParts
<1>6. TaskSound'
  BY <1>3, <1>4 DEF Inv, TaskSound, Naming
<1>7. StopSound'
  BY <1>1, <1>3, <1>4 DEF Inv, StopSound
<1> QED  BY <1>3, <1>4, <1>5, <1>6, <1>7 DEF Inv

\* The task has rotated: the new pair is the newest, signs, and is all that
\* a scan has found.
LEMMA TaskForgets == ASSUME Inv, Forget("task") PROVE Inv'
<1>1. /\ up /\ pc["task"] = "forget" /\ rkey' = None /\ newKid' = None /\ Then("task", "idle")
      /\ UNCHANGED <<pub, priv, last, age, jwks, signer, fresh, file, nap, scan, tokens, cut,
                     clash, faults, up>>
  BY DEF Forget, At, disk, cache
<1>2. /\ TypeOK /\ last > 0 /\ last \in Kids /\ last \in Nat
      /\ Stopping => clash /\ Scanning = {}
  BY <1>1, TaskRuns
<1>3. /\ StagesTyped' /\ (Stopping' <=> Stopping)
      /\ pc'["task"] = IF Stopping THEN "gone" ELSE "idle"
  BY <1>1, <1>2, ThenTask DEF TaskStages
<1>4. Pairs' = Pairs /\ Scanning' = Scanning /\ (Serving' <=> Serving)
  BY <1>1, <1>3, Frames DEF Serving
<1>5. TypeOK'
  <2>1. NamesTyped'
    BY <1>1, Values DEF NamesTyped
  <2> QED  BY <1>1, <1>2, <1>3, <2>1, TypeFrame, TypeParts
<1>6. FilesSound' /\ HalvesSound' /\ CacheSound'
  BY <1>1, <1>4, Frames
<1>7. NamesSound'
  BY <1>1, <1>2, <1>4 DEF Inv, NamesSound, None
<1>8. DownSound' /\ StopSound' /\ RetainSound'
  BY <1>1, <1>2, <1>3, <1>4, Excused
<1>9. TaskSound'
  BY <1>1, <1>3, <1>4 DEF TaskSound, Naming, Publishing, Switching, Serving
<1>10. AheadSound'
  <2> SUFFICES ASSUME Serving PROVE AheadSound'
    BY <1>4, Excused
  <2>1. pc'["task"] = "idle"
    BY <1>3 DEF Serving
  <2>2. /\ signer.kid = last /\ pub[last] = last /\ priv[last] = last /\ nap = 0
        /\ nap < AccessTtl + Slack => \A r \in Scanning : scan[r].pick = last
    BY <1>1 DEF Inv, AheadSound, TaskSound, RetainSound, Switching
  <2>3. \A r \in Scanning : scan[r].pick = last
    BY <2>2, Numbers
  <2>4. IsNewest(last)
    <3>1. last \in Pairs
      BY <1>2, <2>2, Values DEF Pairs, PubFiles
    <3>2. \A j \in Pairs : ~(j > last)
      BY DEF Inv, FilesSound, Pairs, PubFiles
    <3>3. \A j \in Pairs : j \in Nat
      BY Values DEF Pairs, PubFiles
    <3>4. \A j \in Pairs : j <= last
      BY <1>2, <3>2, <3>3
    <3> QED  BY <3>1, <3>4 DEF IsNewest
  <2> QED  BY <1>1, <1>2, <1>4, <2>1, <2>2, <2>3, <2>4
           DEF AheadSound, IsNewest, Naming, Publishing, Switching
<1> QED  BY <1>5, <1>6, <1>7, <1>8, <1>9, <1>10 DEF Inv

\* The handler has committed the rotation.
LEMMA StopForgets == ASSUME Inv, Forget("stop") PROVE Inv'
<1>1. /\ up /\ pc["stop"] = "forget" /\ Stopping
      /\ rkey' = None /\ newKid' = None /\ Go("stop", "gone")
      /\ UNCHANGED <<pub, priv, last, age, jwks, signer, fresh, file, nap, scan, tokens, cut,
                     clash, faults, up>>
  BY ThenStop DEF Forget, At, disk, cache, Stopping
<1>2. /\ TypeOK /\ last > 0 /\ last \in Kids /\ last \in Nat
      /\ ~Serving /\ Scanning = {} /\ (clash \/ pc["task"] = "gone")
  BY <1>1, StopRuns
<1>3. /\ StagesTyped' /\ pc'["stop"] = "gone" /\ pc'["task"] = pc["task"] /\ Stopping'
      /\ ~Serving' /\ DownSound' /\ AheadSound' /\ RetainSound' /\ CacheSound'
  BY <1>1, StopStep DEF StopStages
<1>4. TypeOK'
  <2>1. NamesTyped'
    BY <1>1, Values DEF NamesTyped
  <2> QED  BY <1>1, <1>2, <1>3, <2>1, TypeFrame, TypeParts
<1>5. FilesSound' /\ HalvesSound' /\ Scanning' = Scanning
  BY <1>1, Frames
<1>6. NamesSound'
  BY <1>1, <1>2, <1>5 DEF Inv, NamesSound, None
<1>7. TaskSound'
  BY <1>1, <1>3 DEF Inv, TaskSound, Naming
<1>8. StopSound'
  BY <1>3 DEF StopSound
<1> QED  BY <1>3, <1>4, <1>5, <1>6, <1>7, <1>8 DEF Inv

-----------------------------------------------------------------------------
(* Stopping, crashing and starting *)

\* The handler looks at what the task has left.
LEMMA CheckKeeps == ASSUME Inv, Check PROVE Inv'
<1>1. /\ up /\ pc["stop"] = "check" /\ Stopping
      /\ UNCHANGED <<pub, priv, last, age, jwks, signer, fresh, newKid, rkey, file, nap, scan,
                     tokens, cut, clash, faults, up>>
  BY DEF Check, At, disk, cache, context, Stopping
<1>2. \/ Go("stop", "gone")
      \/ newKid # None /\ rkey # None /\ priv[newKid] = None /\ Go("stop", "openKey")
      \/ newKid # None /\ rkey # None /\ priv[newKid] # None /\ Go("stop", "remove")
  BY DEF Check
<1>3. TypeOK
  BY DEF Inv
<1>4. /\ StagesTyped' /\ pc'["task"] = pc["task"] /\ Stopping'
      /\ ~Serving' /\ DownSound' /\ AheadSound' /\ RetainSound' /\ CacheSound'
      /\ \/ pc'["stop"] = "gone"
         \/ newKid # None /\ rkey # None /\ priv[newKid] = None /\ pc'["stop"] = "openKey"
         \/ newKid # None /\ rkey # None /\ priv[newKid] # None /\ pc'["stop"] = "remove"
  <2>1. {"gone", "openKey", "remove"} \subseteq StopStages
    BY DEF StopStages
  <2> QED  BY <1>1, <1>2, <2>1, StopStep
<1>5. TypeOK'
  BY <1>1, <1>3, <1>4, TypeFrame, TypeParts
<1>6. FilesSound' /\ NamesSound' /\ HalvesSound'
  BY <1>1, Frames
<1>7. TaskSound'
  BY <1>1, <1>4 DEF Inv, TaskSound, Naming
<1>8. StopSound'
  BY <1>1, <1>4 DEF Inv, StopSound
<1> QED  BY <1>4, <1>5, <1>6, <1>7, <1>8 DEF Inv

\* A stop: between two of its threads the task ends, inside one it runs on.
LEMMA StopKeeps == ASSUME Inv, Stop PROVE Inv'
<1>1. /\ up /\ ~Stopping /\ faults.stops < MaxStops
      /\ \A r \in Scanners : scan[r] = Idle
      /\ faults' = [faults EXCEPT !.stops = @ + 1] /\ nap' = 0
      /\ UNCHANGED <<pub, priv, last, age, jwks, signer, fresh, newKid, rkey, up, file,
                     scan, tokens, cut>>
  BY DEF Stop, disk, cache, context
<1>2. Serving /\ TypeOK /\ last > 0
  BY <1>1 DEF Serving, Inv, DownSound
<1>3. PICK running \in BOOLEAN :
         /\ pc["task"] \in Working => running
         /\ pc' = [pc EXCEPT !["stop"] = "check", !["task"] = IF running THEN @ ELSE "gone"]
         /\ clash' = (clash \/ running)
  BY DEF Stop
<1>4. /\ StagesTyped' /\ Stopping' /\ pc'["stop"] = "check"
      /\ pc'["task"] \in {pc["task"], "gone"}
      /\ ~clash' => ~clash /\ pc'["task"] = "gone" /\ pc["task"] \notin Working
  <2>1. pc'["stop"] = "check" /\ pc'["task"] = IF running THEN pc["task"] ELSE "gone"
    BY <1>2, <1>3 DEF TypeOK, Actors
  <2>2. StagesTyped'
    BY <1>2, <1>3 DEF TypeOK, StagesTyped, Actors, TaskStages, StopStages
  <2>3. ~clash' => ~clash /\ ~running
    BY <1>3
  <2> QED  BY <1>3, <2>1, <2>2, <2>3 DEF Stopping
<1>5. TypeOK'
  <2>1. RestTyped'
    BY <1>1, <1>2, <1>3 DEF RestTyped, TypeOK
  <2>2. faults.stops + 1 \in 0..MaxStops
    BY <1>1, <1>2, Numbers DEF TypeOK
  <2>3. FaultsTyped' /\ NapTyped'
    BY <1>1, <1>2, <2>2, Numbers DEF FaultsTyped, NapTyped, TypeOK
  <2> QED  BY <1>1, <1>2, <1>4, <2>1, <2>3, TypeFrame, TypeParts
<1>6. FilesSound' /\ NamesSound' /\ Scanning' = {}
  BY <1>1, Frames DEF Scanning, Idle
<1>7. DownSound' /\ AheadSound' /\ RetainSound' /\ CacheSound'
  BY <1>1, <1>2, <1>4, <1>6, Excused DEF Serving
<1>8. TaskSound'
  BY <1>1, <1>4 DEF Inv, TaskSound, Naming, Serving
<1>9. HalvesSound'
  BY <1>1, <1>4 DEF Inv, HalvesSound
\* Between two threads a rotation that has begun is announced.
<1>10. StopSound'
  <2>1. SUFFICES ASSUME ~clash'
                 PROVE  newKid = None \/ rkey = None \/
                          (newKid = last /\ rkey = last /\ pub[last] = last
                           /\ priv[last] \in {None, last})
    BY <1>1, <1>4 DEF StopSound
  <2>2. pc["task"] \in TaskStages /\ pc["task"] # "gone"
    BY <1>2 DEF TypeOK, Inv, DownSound
  <2>3. \/ pc["task"] \in {"idle", "name"} \/ pc["task"] \in Publishing
        \/ pc["task"] \in Switching
    BY <1>4, <2>1, <2>2 DEF TaskStages, Working, Beginning, Publishing, Switching
  <2> QED  BY <1>2, <2>3 DEF Inv, TaskSound
<1> QED  BY <1>5, <1>6, <1>7, <1>8, <1>9, <1>10 DEF Inv

\* A process that ends leaves the files and the tokens.
LEMMA DownKeeps == ASSUME Inv, Down, FaultsTyped' PROVE Inv'
<1>1. /\ ~up' /\ up' \in BOOLEAN /\ jwks' = {} /\ signer' = NoSigner /\ fresh' = 0
      /\ newKid' = None /\ rkey' = None /\ pc' = Stages("gone", "none")
      /\ file' = [a \in Actors |-> None] /\ nap' = 0
      /\ scan' = [r \in Scanners |-> Idle]
      /\ UNCHANGED <<pub, priv, last, age, tokens, cut, clash>>
  BY DEF Down, disk
<1>2. pc'["task"] = "gone" /\ pc'["stop"] = "none" /\ ~Stopping' /\ ~Serving' /\ StagesTyped'
  BY <1>1 DEF Stages, Actors, Stopping, Serving, StagesTyped, TaskStages, StopStages
<1>3. TypeOK /\ last \in Nat
  BY Numbers DEF Inv, TypeOK
<1>4. TypeOK'
  <2>1. CacheTyped' /\ NamesTyped'
    BY <1>1, Values, Numbers DEF CacheTyped, NamesTyped, NoSigner
  <2>2. FileTyped' /\ NapTyped'
    BY <1>1, Values, Numbers DEF FileTyped, NapTyped
  <2>3. Idle \in [at : {"idle", "listed", "read"}, pubs : SUBSET Kids,
                  pick : 0..LastKid, mat : Contents]
    BY Values DEF Idle
  <2>4. ScanTyped'
    BY <1>1, <2>3 DEF ScanTyped
  <2>5. RestTyped'
    BY <1>1, <1>3 DEF RestTyped, TypeOK
  <2> QED  BY <1>1, <1>2, <1>3, <2>1, <2>2, <2>4, <2>5, TypeFrame, TypeParts
<1>5. FilesSound' /\ HalvesSound'
  BY <1>1, Frames
<1>6. Scanning' = {}
  BY <1>1 DEF Scanning, Idle
<1>7. NamesSound'
  BY <1>1, <1>3, <1>6 DEF NamesSound, NoSigner, None
<1>8. DownSound'
  BY <1>1, <1>2, <1>6 DEF DownSound
<1>9. TaskSound'
  BY <1>1, <1>2 DEF TaskSound
<1>10. AheadSound' /\ RetainSound' /\ StopSound' /\ CacheSound'
  BY <1>2, Excused
<1> QED  BY <1>4, <1>5, <1>7, <1>8, <1>9, <1>10 DEF Inv

\* The server ends when both have.
LEMMA ExitKeeps == ASSUME Inv, Exit PROVE Inv'
<1>1. Down /\ FaultsTyped'
  BY TypeFrame DEF Exit, Inv
<1> QED  BY <1>1, DownKeeps

\* The server crashes at any point, in the constructor too.
LEMMA CrashKeeps == ASSUME Inv, Crash PROVE Inv'
<1>1. Down /\ faults.crashes < MaxCrashes /\ faults' = [faults EXCEPT !.crashes = @ + 1]
  BY DEF Crash
<1>2. faults.crashes + 1 \in 0..MaxCrashes
  BY <1>1, Numbers DEF Inv, TypeOK
<1>3. FaultsTyped'
  BY <1>1, <1>2 DEF FaultsTyped, Inv, TypeOK
<1> QED  BY <1>1, <1>3, DownKeeps

\* The constructor names the first pair and opens the file of its public half.
LEMMA CreateFirstKeeps == ASSUME Inv, CreateFirst PROVE Inv'
<1> DEFINE k == last + 1
<1>1. /\ ~up /\ newKid = None /\ last < LastKid
      /\ last' = k /\ newKid' = k /\ rkey' = k /\ pub' = [pub EXCEPT ![k] = Empty]
      /\ UNCHANGED <<priv, age, jwks, signer, fresh, up, pc, file, nap, scan, tokens, cut,
                     clash, faults>>
  BY DEF CreateFirst, cache, threads
<1>2. /\ TypeOK /\ last \in Nat /\ fresh = 0 /\ signer = NoSigner
      /\ ~Stopping /\ pc["task"] = "gone" /\ Scanning = {}
  BY <1>1, Numbers DEF Inv, DownSound, TypeOK
<1>3. k \in Kids /\ k > last /\ k > 0 /\ k \in Nat
  BY <1>1, <1>2, Numbers DEF Kids
<1>4. pub[k] = None /\ priv[k] = None
  BY <1>3 DEF Inv, FilesSound
<1> HIDE DEF k
<1>5. /\ pub' \in [Kids -> Contents] /\ pub'[k] = Empty
      /\ \A i \in Kids : i # k => pub'[i] = pub[i]
  BY <1>1, <1>2, <1>3, Values DEF TypeOK
<1>6. Scanning' = {} /\ ~Stopping' /\ ~Serving' /\ ~up'
  BY <1>1, <1>2, Frames DEF Stopping, Serving
<1>7. TypeOK'
  <2>1. DiskTyped' /\ AgesTyped' /\ NamesTyped' /\ StagesTyped'
    BY <1>1, <1>2, <1>3, <1>5, Values DEF DiskTyped, AgesTyped, NamesTyped, StagesTyped, TypeOK
  <2> QED  BY <1>1, <1>2, <2>1, TypeFrame, TypeParts
<1>8. FilesSound'
  <2>1. \A i \in Kids : pub'[i] \in {None, Empty, i}
    BY <1>5 DEF Inv, FilesSound
  <2>2. \A i \in Kids : i > k => pub'[i] = None /\ priv'[i] = None
    <3>1. \A i \in Kids : i > k => i > last /\ i # k
      BY <1>2, <1>3, Values
    <3> QED  BY <1>1, <1>5, <3>1 DEF Inv, FilesSound
  <2>3. \A t \in tokens : t.kid \in Kids /\ t.kid <= last /\ Due(t) <= AccessTtl
    BY <1>2 DEF TypeOK, Inv, FilesSound
  <2>4. \A t \in tokens : t.kid <= k /\ t.kid # k
    BY <1>2, <1>3, <2>3, Values
  <2>5. \A t \in tokens : t.whole => pub'[t.kid] # Empty
    BY <1>5, <2>3, <2>4 DEF Inv, FilesSound
  <2> QED  BY <1>1, <2>1, <2>2, <2>3, <2>4, <2>5 DEF FilesSound
<1>9. NamesSound'
  BY <1>1, <1>2, <1>3, <1>6 DEF Inv, NamesSound, NoSigner, None
<1>10. DownSound'
  BY <1>1, <1>2, <1>3, <1>4, <1>5, <1>6 DEF DownSound, Creating
<1>11. TaskSound' /\ AheadSound' /\ RetainSound' /\ StopSound' /\ CacheSound'
  BY <1>6, Excused DEF TaskSound
<1>12. HalvesSound'
  BY <1>1, <1>4, <1>5 DEF Inv, HalvesSound
<1> QED  BY <1>7, <1>8, <1>9, <1>10, <1>11, <1>12 DEF Inv

\* What it writes next: the public half, or the private half into a file that
\* it has opened, or nothing yet into one that it opens.
LEMMA FirstIs ==
  ASSUME Inv, WriteFirst
  PROVE  /\ ~up /\ last \in Kids /\ newKid = last /\ rkey = last /\ last > 0 /\ TypeOK
         /\ UNCHANGED <<last, age, jwks, signer, fresh, newKid, rkey, up, pc, file, nap, scan,
                        tokens, cut, clash, faults>>
         /\ pub' \in [Kids -> Contents] /\ priv' \in [Kids -> Contents]
         /\ \A k \in Kids : k # last => pub'[k] = pub[k] /\ priv'[k] = priv[k]
         /\ pub'[last] = last
         /\ \/ pub[last] = Empty /\ priv'[last] = None /\ priv[last] = None
            \/ pub[last] = last /\ priv[last] = None /\ priv'[last] = Empty
            \/ pub[last] = last /\ priv[last] = Empty /\ priv'[last] = last
<1>1. /\ ~up /\ newKid # None
      /\ UNCHANGED <<last, age, jwks, signer, fresh, newKid, rkey, up, pc, file, nap, scan,
                     tokens, cut, clash, faults>>
  BY DEF WriteFirst, cache, context, threads
<1>2. TypeOK /\ Creating
  BY <1>1 DEF Inv, DownSound
<1>3. last \in Kids /\ pub \in [Kids -> Contents] /\ priv \in [Kids -> Contents]
  BY <1>2, Values DEF TypeOK, Creating, None
<1>4. /\ newKid = last /\ rkey = last /\ last > 0 /\ pub[last] \in {Empty, last}
      /\ pub[last] = Empty => priv[last] = None
  BY <1>2 DEF Creating
<1>5. CASE pub[last] = Empty
  <2>1. pub' = [pub EXCEPT ![last] = last] /\ priv' = priv /\ priv[last] = None
    BY <1>3, <1>4, <1>5, Values DEF WriteFirst
  <2> QED  BY <1>1, <1>2, <1>3, <1>4, <1>5, <2>1, Values
<1>6. CASE pub[last] = last /\ priv[last] = None
  <2>1. priv' = [priv EXCEPT ![last] = Empty] /\ pub' = pub
    BY <1>3, <1>4, <1>6, Values DEF WriteFirst
  <2> QED  BY <1>1, <1>2, <1>3, <1>4, <1>6, <2>1, Values
<1>7. CASE pub[last] = last /\ priv[last] = Empty
  <2>1. priv' = [priv EXCEPT ![last] = last] /\ pub' = pub
    BY <1>3, <1>4, <1>7, Values DEF WriteFirst
  <2> QED  BY <1>1, <1>2, <1>3, <1>4, <1>7, <2>1, Values
<1>8. pub[last] = Empty \/ priv[last] = None \/ priv[last] = Empty
  BY <1>4 DEF WriteFirst
<1> QED  BY <1>4, <1>5, <1>6, <1>7, <1>8

\* The first pair's files are filled.
LEMMA WriteFirstKeeps == ASSUME Inv, WriteFirst PROVE Inv'
<1>1. /\ ~up /\ last \in Kids /\ newKid = last /\ rkey = last /\ last > 0 /\ TypeOK
      /\ UNCHANGED <<last, age, jwks, signer, fresh, newKid, rkey, up, pc, file, nap, scan,
                     tokens, cut, clash, faults>>
      /\ pub' \in [Kids -> Contents] /\ priv' \in [Kids -> Contents]
      /\ \A k \in Kids : k # last => pub'[k] = pub[k] /\ priv'[k] = priv[k]
      /\ pub'[last] = last /\ priv'[last] \in {None, Empty, last}
  BY FirstIs
<1>2. /\ fresh = 0 /\ signer = NoSigner /\ ~Stopping /\ pc["task"] = "gone" /\ Scanning = {}
  BY <1>1 DEF Inv, DownSound
<1>3. Scanning' = {} /\ ~Stopping' /\ ~Serving' /\ ~up'
  BY <1>1, <1>2, Frames DEF Stopping, Serving
<1>4. TypeOK'
  <2>1. DiskTyped' /\ StagesTyped'
    BY <1>1 DEF DiskTyped, StagesTyped, TypeOK
  <2> QED  BY <1>1, <2>1, TypeFrame, TypeParts
<1>5. FilesSound'
  <2>1. \A k \in Kids : pub'[k] \in {None, Empty, k}
    BY <1>1 DEF Inv, FilesSound
  <2>2. \A k \in Kids : k > last => pub'[k] = None /\ priv'[k] = None
    BY <1>1, Values DEF Inv, FilesSound
  <2>3. \A t \in tokens : t.kid \in Kids
    BY <1>1 DEF TypeOK
  <2>4. \A t \in tokens : t.whole => pub'[t.kid] # Empty
    BY <1>1, <2>3, Values DEF Inv, FilesSound
  <2> QED  BY <1>1, <2>1, <2>2, <2>4 DEF Inv, FilesSound
<1>6. NamesSound'
  BY <1>1, Frames
<1>7. DownSound'
  BY <1>1, <1>2, <1>3, Values DEF DownSound, Creating
<1>8. TaskSound' /\ AheadSound' /\ RetainSound' /\ StopSound' /\ CacheSound'
  BY <1>3, Excused DEF TaskSound
<1>9. HalvesSound'
  BY <1>1 DEF Inv, HalvesSound
<1> QED  BY <1>4, <1>5, <1>6, <1>7, <1>8, <1>9 DEF Inv

\* The server starts with the newest pair there is, found or created.
LEMMA BootKeeps == ASSUME Inv, Boot PROVE Inv'
<1>1. /\ ~up /\ up' /\ up' \in BOOLEAN /\ pc' = Stages("idle", "none")
      /\ Load /\ (newKid # None => Key(priv[newKid]))
      /\ UNCHANGED <<pub, priv, last, age, newKid, rkey, file, nap, scan, tokens, cut, clash,
                     faults>>
  BY DEF Boot, disk, context
<1>2. /\ TypeOK /\ Scanning = {} /\ Pairs # {}
      /\ (newKid = None /\ rkey = None) \/ Creating
  BY <1>1 DEF Inv, DownSound, Load
<1>3. /\ pc'["task"] = "idle" /\ pc'["stop"] = "none" /\ ~Stopping' /\ Serving' /\ StagesTyped'
  BY <1>1 DEF Stages, Actors, Stopping, Serving, StagesTyped, TaskStages, StopStages
<1>4. Scanning' = {} /\ StopSound' /\ RetainSound'
  BY <1>1, <1>2, <1>3, Frames, Excused
<1>5. RestTyped' /\ last \in Nat
  BY <1>1, <1>2, Numbers DEF RestTyped, TypeOK
<1>6. /\ CacheTyped' /\ signer'.kid \in Kids /\ IsNewest(signer'.kid)
      /\ signer'.mat # None /\ signer'.kid <= last
  BY <1>1, LoadIs
<1>7. TypeOK'
  BY <1>1, <1>2, <1>3, <1>5, <1>6, TypeFrame, TypeParts
<1>8. FilesSound' /\ HalvesSound' /\ Pairs' = Pairs
  BY <1>1, Frames
<1>9. NamesSound'
  BY <1>1, <1>4, <1>6, Values DEF Inv, NamesSound
<1>10. last > 0
  BY <1>5, <1>6, Values
<1>11. DownSound'
  BY <1>1, <1>3, <1>10, Excused
\* A pair that it has created is complete.
<1>12. \/ newKid = None /\ rkey = None
       \/ newKid = last /\ rkey = last /\ pub[last] = last /\ priv[last] = last
  <2> SUFFICES ASSUME Creating, newKid # None
               PROVE  newKid = last /\ rkey = last /\ pub[last] = last /\ priv[last] = last
    BY <1>2, <1>10 DEF Creating, None
  <2>1. /\ newKid = last /\ rkey = last /\ pub[last] \in {Empty, last}
        /\ pub[last] = Empty => priv[last] = None
        /\ priv[last] \in {None, Empty, last} /\ priv[last] \in Kids
    BY <1>1, Values DEF Creating
  <2> QED  BY <2>1, Values
<1>13. TaskSound'
  BY <1>1, <1>3, <1>12 DEF TaskSound, Naming, Publishing, Switching
<1>14. AheadSound'
  BY <1>1, <1>2, <1>3, <1>4, <1>6, <1>8
  DEF AheadSound, IsNewest, Naming, Publishing, Switching
<1>15. CacheSound'
  BY <1>1, <1>2, LoadSound
<1> QED  BY <1>4, <1>7, <1>8, <1>9, <1>11, <1>13, <1>14, <1>15 DEF Inv

-----------------------------------------------------------------------------
(* Requests *)

\* While requests are answered the task is not gone.
LEMMA Serves ==
  ASSUME Inv, Serving
  PROVE  /\ TypeOK /\ up /\ ~Stopping /\ last > 0 /\ last \in Kids /\ last \in Nat
         /\ pc["task"] \in TaskStages \ {"gone"}
<1>1. /\ TypeOK /\ up /\ ~Stopping /\ last > 0
      /\ pc["task"] \in TaskStages \ {"gone"} /\ last \in 0..LastKid
  BY DEF Inv, DownSound, Serving, TypeOK
<1> QED  BY <1>1, Numbers DEF Kids

\* The newest pair is what signs until the private half of the last is there,
\* and the last from then on.
LEMMA NewestSigns ==
  ASSUME Inv, Serving
  PROVE  /\ Newest(Pairs) \in Kids /\ Newest(Pairs) \in Pairs /\ Newest(Pairs) <= last
         /\ IsNewest(Newest(Pairs))
         /\ \/ /\ pc["task"] \in {"idle", "name"} \union Naming \union {"writePub"} \union Publishing
               /\ Newest(Pairs) = signer.kid
            \/ pc["task"] \in {"writeKey"} \union Switching /\ Newest(Pairs) = last
         /\ pc["task"] # "idle" => Ripe(Newest(Pairs))
<1>1. /\ TypeOK /\ up /\ ~Stopping /\ last > 0 /\ last \in Kids /\ last \in Nat
      /\ pc["task"] \in TaskStages \ {"gone"} /\ Pairs # {}
  BY Serves DEF Inv, AheadSound
<1>2. /\ Newest(Pairs) \in Kids /\ Newest(Pairs) \in Pairs /\ IsNewest(Newest(Pairs))
  BY <1>1, NewestIs
<1>3. Newest(Pairs) <= last
  <2>1. ~(Newest(Pairs) > last)
    BY <1>2 DEF Inv, FilesSound, Pairs, PubFiles
  <2> QED  BY <1>1, <1>2, <2>1, Values
<1>4. CASE pc["task"] \in {"idle", "name"} \union Naming \union {"writePub"} \union Publishing
  <2>1. IsNewest(signer.kid) /\ (pc["task"] # "idle" => Ripe(signer.kid))
    BY <1>4 DEF Inv, AheadSound
  <2>2. Newest(Pairs) = signer.kid
    BY <1>2, <2>1, NewestOnce
  <2> QED  BY <1>2, <1>3, <1>4, <2>1, <2>2
<1>5. CASE pc["task"] \in {"writeKey"} \union Switching
  <2>1. /\ pub[last] = last /\ (priv[last] = last \/ priv[last] = Empty) /\ Ripe(last)
    BY <1>5 DEF Inv, AheadSound, TaskSound
  <2>2. last \in Pairs
    BY <1>1, <2>1, Values DEF Pairs, PubFiles
  <2>3. last <= Newest(Pairs)
    BY <1>2, <2>2 DEF IsNewest
  <2>4. Newest(Pairs) = last
    BY <1>1, <1>2, <1>3, <2>3, Values
  <2> QED  BY <1>2, <1>3, <1>5, <2>1, <2>4
<1>6. \/ pc["task"] \in {"idle", "name"} \union Naming \union {"writePub"} \union Publishing
      \/ pc["task"] \in {"writeKey"} \union Switching
  BY <1>1 DEF TaskStages, Working, Beginning, Naming, Publishing, Switching
<1> QED  BY <1>4, <1>5, <1>6

\* What every step of a scan leaves alone.
LEMMA ScanStep ==
  ASSUME Inv, Serving, ScanTyped',
         UNCHANGED <<disk, newKid, rkey, up, pc, file, nap, tokens, cut, clash, faults>>,
         CacheTyped'
  PROVE  /\ UNCHANGED <<pub, priv, last, age, newKid, rkey, up, pc, file, nap, tokens, cut,
                        clash, faults>>
         /\ Serving' /\ ~Stopping' /\ Pairs' = Pairs
         /\ TypeOK' /\ FilesSound' /\ HalvesSound' /\ DownSound' /\ StopSound' /\ TaskSound'
<1>1. UNCHANGED <<pub, priv, last, age, newKid, rkey, up, pc, file, nap, tokens, cut,
                  clash, faults>>
  BY DEF disk
<1>2. /\ TypeOK /\ up /\ ~Stopping /\ last > 0 /\ pc["task"] # "gone"
  BY Serves
<1>3. Serving' /\ ~Stopping'
  BY <1>1, <1>2 DEF Serving, Stopping
<1>4. Pairs' = Pairs /\ FilesSound' /\ HalvesSound'
  BY <1>1, Frames
<1>5. DownSound' /\ StopSound'
  BY <1>1, <1>2, <1>3, Excused
<1>6. TaskSound'
  BY <1>1, <1>2, <1>3 DEF Inv, TaskSound
<1>7. TypeOK'
  <2>1. StagesTyped'
    BY <1>1, <1>2 DEF TypeOK, StagesTyped
  <2> QED  BY <1>1, <1>2, <2>1, TypeFrame, TypeParts
<1> QED  BY <1>1, <1>3, <1>4, <1>5, <1>6, <1>7

\* A scan lists the directory, and the newest pair there is.
LEMMA ListKeeps == ASSUME Inv, NEW r \in Scanners, List(r) PROVE Inv'
<1>1. /\ Serving /\ UNCHANGED <<jwks, signer, fresh>>
      /\ UNCHANGED <<disk, newKid, rkey, up, pc, file, nap, tokens, cut, clash, faults>>
      /\ scan' = [scan EXCEPT ![r] = [at |-> "listed", pubs |-> PubFiles,
                                      pick |-> Newest(Pairs), mat |-> None]]
  BY DEF List, Serving, cache, context
<1>2. /\ TypeOK /\ up /\ ~Stopping /\ last > 0 /\ last \in Kids /\ last \in Nat
      /\ pc["task"] \in TaskStages \ {"gone"}
  BY <1>1, Serves
<1>3. /\ Newest(Pairs) \in Kids /\ Newest(Pairs) \in Pairs /\ Newest(Pairs) <= last
      /\ IsNewest(Newest(Pairs))
      /\ \/ /\ pc["task"] \in {"idle", "name"} \union Naming \union {"writePub"} \union Publishing
            /\ Newest(Pairs) = signer.kid
         \/ pc["task"] \in {"writeKey"} \union Switching /\ Newest(Pairs) = last
      /\ pc["task"] # "idle" => Ripe(Newest(Pairs))
  BY <1>1, NewestSigns
<1>4. /\ scan'[r] = [at |-> "listed", pubs |-> PubFiles, pick |-> Newest(Pairs), mat |-> None]
      /\ \A s \in Scanners : s # r => scan'[s] = scan[s]
      /\ ScanTyped'
  <2>1. [at |-> "listed", pubs |-> PubFiles, pick |-> Newest(Pairs), mat |-> None]
          \in [at : {"idle", "listed", "read"}, pubs : SUBSET Kids,
               pick : 0..LastKid, mat : Contents]
    BY <1>3, Values DEF PubFiles
  <2> QED  BY <1>1, <1>2, <2>1 DEF ScanTyped, TypeOK
<1>5. /\ scan'[r].at = "listed" /\ scan'[r].pick = Newest(Pairs) /\ scan'[r].pubs = PubFiles
      /\ \A s \in Scanning' : s \in Scanners /\ (s = r \/ (s \in Scanning /\ scan'[s] = scan[s]))
  BY <1>4 DEF Scanning
<1>6. /\ UNCHANGED <<pub, priv, last, age, newKid, rkey, up, pc, file, nap, tokens, cut,
                     clash, faults>>
      /\ Serving' /\ ~Stopping' /\ Pairs' = Pairs
      /\ TypeOK' /\ FilesSound' /\ HalvesSound' /\ DownSound' /\ StopSound' /\ TaskSound'
  <2>1. CacheTyped'
    BY <1>1, <1>2, TypeFrame
  <2> QED  BY <1>1, <1>4, <2>1, ScanStep
<1>7. NamesSound'
  <2>1. \A s \in Scanning' : scan'[s].pick \in Kids /\ scan'[s].pick <= last
    BY <1>3, <1>5 DEF Inv, NamesSound
  <2>2. \A s \in Scanners : scan'[s].at = "idle" => scan'[s] = Idle
    BY <1>4, <1>5 DEF Inv, NamesSound
  <2> QED  BY <1>1, <1>6, <2>1, <2>2 DEF Inv, NamesSound
<1>8. AheadSound'
  <2>1. pc["task"] \in {"idle", "name"} \union Naming \union {"writePub"} \union Publishing =>
           \A s \in Scanning' : IsNewest(scan'[s].pick)
    BY <1>1, <1>3, <1>5 DEF Inv, AheadSound
  <2>2. pc["task"] # "idle" => \A s \in Scanning' : Ripe(scan'[s].pick)
    BY <1>1, <1>3, <1>5 DEF Inv, AheadSound
  <2> QED  BY <1>1, <1>6, <2>1, <2>2 DEF Inv, AheadSound, IsNewest, Ripe
<1>9. RetainSound'
  <2>1. pc["task"] \in {"retain", "remove", "forget"} =>
           (nap < AccessTtl + Slack => \A s \in Scanning' : scan'[s].pick = last)
    BY <1>1, <1>3, <1>5 DEF Inv, RetainSound, Naming, Publishing
  <2> QED  BY <1>1, <1>6, <2>1 DEF Inv, RetainSound
<1>10. CacheSound'
  <2> SUFFICES ASSUME ~clash PROVE CacheSound'
    BY <1>6, Excused
  <2>1. pub[Newest(Pairs)] = Newest(Pairs) /\ Newest(Pairs) \in PubFiles
    BY <1>3 DEF Inv, HalvesSound, Pairs, PubFiles
  <2>2. \A s \in Scanning' : pub[scan'[s].pick] = scan'[s].pick /\ scan'[s].pick \in scan'[s].pubs
    BY <1>1, <1>5, <2>1 DEF Inv, CacheSound
  <2>3. \A s \in Scanning' : scan'[s].at = "read" => scan'[s].mat \in {Empty, scan'[s].pick}
    BY <1>1, <1>5 DEF Inv, CacheSound
  <2> QED  BY <1>1, <1>6, <2>2, <2>3 DEF Inv, CacheSound
<1> QED  BY <1>6, <1>7, <1>8, <1>9, <1>10 DEF Inv

\* A scan reads the files that it has listed.
LEMMA ReadFilesKeeps == ASSUME Inv, NEW r \in Scanners, ReadFiles(r) PROVE Inv'
<1>1. /\ up /\ scan[r].at = "listed" /\ UNCHANGED <<jwks, signer, fresh>>
      /\ UNCHANGED <<disk, newKid, rkey, up, pc, file, nap, tokens, cut, clash, faults>>
  BY DEF ReadFiles, cache, context
<1>2. TypeOK /\ r \in Scanning /\ Serving
  BY <1>1 DEF Inv, Scanning, DownSound, Serving
<1>3. scan[r].pick \in Kids /\ scan[r].pick <= last
  BY <1>2 DEF Inv, NamesSound
<1>4. /\ ScanTyped'
      /\ \A s \in Scanners : s # r => scan'[s] = scan[s]
      /\ \/ scan'[r] = Idle
         \/ scan'[r] = [at |-> "read", pubs |-> {k \in scan[r].pubs : Key(pub[k])},
                        pick |-> scan[r].pick, mat |-> priv[scan[r].pick]]
  <2>1. scan[r] \in [at : {"idle", "listed", "read"}, pubs : SUBSET Kids,
                     pick : 0..LastKid, mat : Contents]
    BY <1>2 DEF TypeOK
  <2> DEFINE new == IF priv[scan[r].pick] = None THEN Idle
                    ELSE [at |-> "read", pubs |-> {k \in scan[r].pubs : Key(pub[k])},
                          pick |-> scan[r].pick, mat |-> priv[scan[r].pick]]
  <2>2. scan' = [scan EXCEPT ![r] = new]
    BY <1>2, <2>1 DEF ReadFiles, TypeOK
  <2>3. new \in [at : {"idle", "listed", "read"}, pubs : SUBSET Kids,
                 pick : 0..LastKid, mat : Contents]
    <3>1. Idle \in [at : {"idle", "listed", "read"}, pubs : SUBSET Kids,
                    pick : 0..LastKid, mat : Contents]
      BY Values DEF Idle
    <3>2. priv[scan[r].pick] \in Contents
      BY <1>2, <1>3 DEF TypeOK
    <3> QED  BY <2>1, <3>1, <3>2
  <2>4. new = Idle \/ new = [at |-> "read", pubs |-> {k \in scan[r].pubs : Key(pub[k])},
                             pick |-> scan[r].pick, mat |-> priv[scan[r].pick]]
    OBVIOUS
  <2> HIDE DEF new
  <2>5. scan'[r] = new /\ (\A s \in Scanners : s # r => scan'[s] = scan[s]) /\ ScanTyped'
    BY <1>2, <2>2, <2>3 DEF TypeOK, ScanTyped
  <2> QED  BY <2>4, <2>5
<1>5. \A s \in Scanning' : s \in Scanning /\ scan'[s].pick = scan[s].pick
  BY <1>2, <1>4 DEF Scanning, Idle
<1>6. /\ UNCHANGED <<pub, priv, last, age, newKid, rkey, up, pc, file, nap, tokens, cut,
                     clash, faults>>
      /\ Serving' /\ ~Stopping' /\ Pairs' = Pairs
      /\ TypeOK' /\ FilesSound' /\ HalvesSound' /\ DownSound' /\ StopSound' /\ TaskSound'
  <2>1. CacheTyped'
    BY <1>1, <1>2, TypeFrame
  <2> QED  BY <1>1, <1>2, <1>4, <2>1, ScanStep
<1>7. NamesSound'
  <2>1. \A s \in Scanning' : scan'[s].pick \in Kids /\ scan'[s].pick <= last
    BY <1>5 DEF Inv, NamesSound
  <2>2. \A s \in Scanners : scan'[s].at = "idle" => scan'[s] = Idle
    BY <1>4 DEF Inv, NamesSound
  <2> QED  BY <1>1, <1>6, <2>1, <2>2 DEF Inv, NamesSound
<1>8. AheadSound'
  BY <1>1, <1>2, <1>5, <1>6 DEF Inv, AheadSound, IsNewest, Ripe
<1>9. RetainSound'
  BY <1>1, <1>2, <1>5, <1>6 DEF Inv, RetainSound
<1>10. CacheSound'
  <2> SUFFICES ASSUME ~clash PROVE CacheSound'
    BY <1>6, Excused
  <2>1. pub[scan[r].pick] = scan[r].pick /\ scan[r].pick \in scan[r].pubs
    BY <1>2 DEF Inv, CacheSound
  <2>2. Key(pub[scan[r].pick]) /\ priv[scan[r].pick] \in {None, Empty, scan[r].pick}
    BY <1>3, <2>1, Values DEF Inv, HalvesSound
  <2>3. r \in Scanning' => /\ scan'[r].pick \in scan'[r].pubs
                           /\ scan'[r].mat \in {Empty, scan'[r].pick}
    <3>1. CASE scan'[r] = Idle
      BY <3>1 DEF Scanning, Idle
    <3>2. CASE scan'[r] = [at |-> "read", pubs |-> {k \in scan[r].pubs : Key(pub[k])},
                           pick |-> scan[r].pick, mat |-> priv[scan[r].pick]]
      <4>1. priv[scan[r].pick] # None
        BY <1>2, <1>4, <3>2 DEF ReadFiles, TypeOK, Idle
      <4> QED  BY <2>1, <2>2, <3>2, <4>1
    <3> QED  BY <1>4, <3>1, <3>2
  <2>4. \A s \in Scanning' : pub[scan'[s].pick] = scan'[s].pick /\ scan'[s].pick \in scan'[s].pubs
    BY <1>2, <1>4, <1>5, <2>3 DEF Inv, CacheSound, Scanning
  <2>5. \A s \in Scanning' : scan'[s].at = "read" => scan'[s].mat \in {Empty, scan'[s].pick}
    BY <1>2, <1>4, <1>5, <2>3 DEF Inv, CacheSound, Scanning
  <2> QED  BY <1>1, <1>2, <1>6, <2>4, <2>5 DEF Inv, CacheSound
<1> QED  BY <1>6, <1>7, <1>8, <1>9, <1>10 DEF Inv

\* A scan replaces the cache, maybe with what it found before the switch.
LEMMA StoreKeeps == ASSUME Inv, NEW r \in Scanners, Store(r) PROVE Inv'
<1>1. /\ up /\ scan[r].at = "read" /\ jwks' = scan[r].pubs
      /\ signer' = [kid |-> scan[r].pick, mat |-> scan[r].mat] /\ fresh' = CacheTtl
      /\ scan' = [scan EXCEPT ![r] = Idle]
      /\ UNCHANGED <<disk, newKid, rkey, up, pc, file, nap, tokens, cut, clash, faults>>
  BY DEF Store, context
<1>2. TypeOK /\ r \in Scanning /\ Serving
  BY <1>1 DEF Inv, Scanning, DownSound, Serving
<1>3. scan[r].pick \in Kids /\ scan[r].pick <= last
  BY <1>2 DEF Inv, NamesSound
<1>4. /\ ScanTyped' /\ scan'[r] = Idle
      /\ \A s \in Scanners : s # r => scan'[s] = scan[s]
  <2>1. Idle \in [at : {"idle", "listed", "read"}, pubs : SUBSET Kids,
                  pick : 0..LastKid, mat : Contents]
    BY Values DEF Idle
  <2> QED  BY <1>1, <1>2, <2>1 DEF TypeOK, ScanTyped
<1>5. \A s \in Scanning' : s \in Scanning /\ scan'[s] = scan[s]
  BY <1>4 DEF Scanning, Idle
<1>6. CacheTyped' /\ signer'.kid = scan[r].pick /\ signer'.mat = scan[r].mat
  <2>1. scan[r] \in [at : {"idle", "listed", "read"}, pubs : SUBSET Kids,
                     pick : 0..LastKid, mat : Contents]
    BY <1>2 DEF TypeOK
  <2> QED  BY <1>1, <2>1, Numbers DEF CacheTyped
<1>7. /\ UNCHANGED <<pub, priv, last, age, newKid, rkey, up, pc, file, nap, tokens, cut,
                     clash, faults>>
      /\ Serving' /\ ~Stopping' /\ Pairs' = Pairs
      /\ TypeOK' /\ FilesSound' /\ HalvesSound' /\ DownSound' /\ StopSound' /\ TaskSound'
  BY <1>1, <1>2, <1>4, <1>6, ScanStep
<1>8. NamesSound'
  <2>1. \A s \in Scanning' : scan'[s].pick \in Kids /\ scan'[s].pick <= last
    BY <1>5 DEF Inv, NamesSound
  <2>2. \A s \in Scanners : scan'[s].at = "idle" => scan'[s] = Idle
    BY <1>4 DEF Inv, NamesSound
  <2> QED  BY <1>3, <1>6, <1>7, <2>1, <2>2, Values DEF Inv, NamesSound
<1>9. pc["task"] \in {"retain", "remove", "forget"} =>
         /\ nap <= AccessTtl + Slack /\ nap \in Nat /\ (pc["task"] # "retain" => nap = 0)
         /\ nap < AccessTtl + Slack => \A s \in Scanning : scan[s].pick = last
  BY <1>2, Numbers DEF Inv, RetainSound, TypeOK
<1>10. AheadSound'
  <2>1. pc["task"] = "forget" => signer'.kid = last
    BY <1>2, <1>6, <1>9, Numbers
  <2> QED  BY <1>2, <1>3, <1>5, <1>6, <1>7, <2>1 DEF Inv, AheadSound, IsNewest, Ripe
\* A scan puts the old pair back only before the wait has begun to run.
<1>11. RetainSound'
  <2>1. pc["task"] \in {"retain", "remove", "forget"} =>
           signer'.kid = last \/ CacheTtl + AccessTtl <= nap + Grace + 1
    BY <1>2, <1>6, <1>9, Numbers
  <2> QED  BY <1>1, <1>2, <1>5, <1>7, <2>1 DEF Inv, RetainSound
<1>12. CacheSound'
  <2> SUFFICES ASSUME ~clash PROVE CacheSound'
    BY <1>7, Excused
  <2>1. /\ pub[scan[r].pick] = scan[r].pick /\ scan[r].pick \in scan[r].pubs
        /\ scan[r].mat \in {Empty, scan[r].pick}
    BY <1>1, <1>2 DEF Inv, CacheSound
  <2>2. Key(signer'.mat) =>
           signer'.mat = signer'.kid /\ pub[signer'.kid] = signer'.kid /\ signer'.kid \in jwks'
    BY <1>1, <1>6, <2>1, Values
  <2> QED  BY <1>2, <1>5, <1>7, <2>2 DEF Inv, CacheSound, Key
<1> QED  BY <1>7, <1>8, <1>10, <1>11, <1>12 DEF Inv

\* A token is signed with the cached key; one that a late scan put back can
\* still sign for as long as the cache lives.
LEMMA IssueKeeps == ASSUME Inv, NEW kind \in Kinds, Issue(kind) PROVE Inv'
<1> DEFINE new == [kid |-> signer.kid, kind |-> kind, left |-> Ttl(kind),
                   whole |-> pub[signer.kid] = signer.mat]
<1>1. /\ Serving /\ fresh > 0 /\ Key(signer.mat) /\ tokens' = tokens \union {new}
      /\ UNCHANGED <<pub, priv, last, age, jwks, signer, fresh, newKid, rkey, up, pc, file, nap,
                     scan, cut, clash, faults>>
  BY DEF Issue, Serving, disk, cache, context, threads
<1>2. /\ TypeOK /\ up /\ ~Stopping /\ last > 0 /\ last \in Kids /\ last \in Nat
      /\ pc["task"] \in TaskStages \ {"gone"}
  BY <1>1, Serves
<1>3. signer.kid \in Kids /\ signer.kid <= last /\ signer.mat \in Kids
  <2>1. signer.mat \in Kids /\ signer.mat # None
    BY <1>1, Values
  <2>2. signer.kid # None /\ signer.kid <= last
    BY <2>1 DEF Inv, NamesSound
  <2> QED  BY <1>2, <2>1, <2>2, Values DEF TypeOK
<1>4. new \in [kid : Kids, kind : Kinds, whole : BOOLEAN, left : 1..RefreshTtl]
  BY <1>3, Numbers DEF Ttl
<1>5. new.kid = signer.kid /\ (new.whole => pub[new.kid] # Empty)
  BY <1>3, Values
<1>5a. new.kind = kind /\ new.left = Ttl(kind)
  OBVIOUS
<1> HIDE DEF new
<1>5b. Due(new) = AccessTtl
  <2>1. new.kind \in Kinds /\ new.left \in Int
    BY <1>4
  <2> QED  BY <1>5a, <2>1, DueIs
<1>6. Pairs' = Pairs /\ Scanning' = Scanning /\ Serving' /\ ~Stopping'
  BY <1>1, <1>2, Frames DEF Serving, Stopping
<1>7. TypeOK'
  <2>1. TokensTyped' /\ StagesTyped'
    BY <1>1, <1>2, <1>4 DEF TokensTyped, StagesTyped, TypeOK
  <2> QED  BY <1>1, <1>2, <2>1, TypeFrame, TypeParts
<1>8. FilesSound'
  <2>1. \A t \in tokens' : t.kid <= last /\ (t.whole => pub[t.kid] # Empty)
    BY <1>1, <1>3, <1>5 DEF Inv, FilesSound
  <2>2. \A t \in tokens' : Due(t) <= AccessTtl
    BY <1>1, <1>5b, Numbers DEF Inv, FilesSound
  <2> QED  BY <1>1, <2>1, <2>2 DEF Inv, FilesSound
<1>9. NamesSound' /\ HalvesSound' /\ CacheSound'
  BY <1>1, <1>6, Frames
<1>10. DownSound' /\ StopSound'
  BY <1>1, <1>2, <1>6, Excused
\* What signs has a public file, and the new name has none yet.
<1>11. TaskSound'
  <2>1. pc["task"] \in Naming => pub[last] = None /\ \A t \in tokens : t.kid # last
    BY <1>2 DEF Inv, TaskSound
  <2>2. pc["task"] \in Naming => pub[signer.kid] # None
    BY <1>1 DEF Inv, AheadSound, IsNewest, Pairs, PubFiles
  <2>3. pc["task"] \in Naming => \A t \in tokens' : t.kid # last
    BY <1>1, <1>5, <2>1, <2>2
  <2>4. UNCHANGED <<pub, priv, last, newKid, rkey, up, pc, file>>
    BY <1>1
  <2> QED  BY <1>1, <1>2, <1>6, <2>3, <2>4 DEF Inv, TaskSound
<1>12. AheadSound'
  BY <1>1, <1>6 DEF Inv, AheadSound, IsNewest, Ripe
<1>13. RetainSound'
  <2> SUFFICES ASSUME pc["task"] \in {"retain", "remove", "forget"} PROVE RetainSound'
    BY <1>1, Excused
  <2>1. /\ signer.kid = last \/ fresh = 0 \/ fresh + AccessTtl <= nap + Grace + 1
        /\ \A t \in tokens : t.kid # last => Due(t) <= nap + Grace
    BY <1>1 DEF Inv, RetainSound
  <2>2. fresh \in Nat /\ nap \in Nat
    BY <1>2, Numbers DEF TypeOK
  <2>3. signer.kid # last => AccessTtl <= nap + Grace
    BY <1>1, <2>1, <2>2, Numbers
  <2>4. \A t \in tokens' : t.kid # last => Due(t) <= nap + Grace
    BY <1>1, <1>5, <1>5b, <2>1, <2>3
  <2> QED  BY <1>1, <1>6, <2>4 DEF Inv, RetainSound
<1> QED  BY <1>7, <1>8, <1>9, <1>10, <1>11, <1>12, <1>13 DEF Inv

\* What is left of a number of ticks.
LEMMA ElapsedIs ==
  ASSUME NEW n \in Nat
  PROVE  Elapsed(n) \in Nat /\ (n = 0 => Elapsed(n) = 0) /\ (n > 0 => Elapsed(n) = n - 1)
  BY DEF Elapsed

\* A tick: pairs and tokens age, the sleep and the cache run out.
LEMMA TickIs ==
  ASSUME Inv, Tick
  PROVE  /\ Scanning = {} /\ Scanning' = {}
         /\ UNCHANGED <<pub, priv, last, jwks, signer, newKid, rkey, up, pc, file, scan, cut,
                        clash, faults>>
         /\ nap \in Nat /\ nap' \in Nat /\ (nap = 0 => nap' = 0) /\ (nap > 0 => nap' = nap - 1)
         /\ fresh \in Nat /\ fresh' \in Nat /\ (fresh = 0 => fresh' = 0)
         /\ fresh > 0 => fresh' = fresh - 1
         /\ age' \in [Kids -> 0..Day]
         /\ \A k \in Kids : /\ age[k] \in Nat /\ age'[k] \in Nat /\ age'[k] >= age[k]
                            /\ age[k] = Day => age'[k] = Day
                            /\ k <= last /\ age[k] # Day => age'[k] = age[k] + 1
         /\ TokensTyped'
         /\ \A t \in tokens' : \E u \in tokens : /\ t.kid = u.kid /\ t.whole = u.whole
                                                 /\ Due(u) \in Int /\ Due(t) = Due(u) - 1
<1>1. /\ \A r \in Scanners : scan[r] = Idle
      /\ nap' = Elapsed(nap) /\ fresh' = Elapsed(fresh)
      /\ age' = [k \in Kids |-> IF k <= last /\ age[k] < Day THEN age[k] + 1 ELSE age[k]]
      /\ tokens' = {[t EXCEPT !.left = @ - 1] : t \in {u \in tokens : u.left > 1}}
      /\ UNCHANGED <<pub, priv, last, jwks, signer, newKid, rkey, up, pc, file, scan, cut,
                     clash, faults>>
  BY DEF Tick, context
<1>2. /\ TypeOK /\ nap \in Nat /\ fresh \in Nat /\ last \in Nat
  BY Numbers DEF Inv, TypeOK
<1>3. Scanning = {} /\ Scanning' = {}
  BY <1>1 DEF Scanning, Idle
<1>4. /\ nap' \in Nat /\ (nap = 0 => nap' = 0) /\ (nap > 0 => nap' = nap - 1)
      /\ fresh' \in Nat /\ (fresh = 0 => fresh' = 0) /\ (fresh > 0 => fresh' = fresh - 1)
  BY <1>1, <1>2, ElapsedIs
<1>5. /\ age' \in [Kids -> 0..Day]
      /\ \A k \in Kids : /\ age[k] \in Nat /\ age'[k] \in Nat /\ age'[k] >= age[k]
                         /\ age[k] = Day => age'[k] = Day
                         /\ k <= last /\ age[k] # Day => age'[k] = age[k] + 1
  <2>1. \A k \in Kids : age[k] \in 0..Day
    BY <1>2 DEF TypeOK
  <2>2. \A k \in Kids : age'[k] = IF k <= last /\ age[k] < Day THEN age[k] + 1 ELSE age[k]
    BY <1>1
  <2>3. \A k \in Kids : /\ age'[k] \in 0..Day /\ age[k] \in Nat /\ age'[k] \in Nat
                        /\ age'[k] >= age[k]
                        /\ age[k] = Day => age'[k] = Day
                        /\ k <= last /\ age[k] # Day => age'[k] = age[k] + 1
    BY <2>1, <2>2, Numbers, Values
  <2> QED  BY <1>1, <2>3
<1>6. \A u \in tokens : u \in [kid : Kids, kind : Kinds, whole : BOOLEAN, left : 1..RefreshTtl]
  BY <1>2 DEF TypeOK
<1>7. \A t \in tokens' : \E u \in tokens : u.left > 1 /\ t = [u EXCEPT !.left = u.left - 1]
  BY <1>1
<1>8. ASSUME NEW u \in tokens, NEW t, t = [u EXCEPT !.left = u.left - 1], u.left > 1
      PROVE  /\ t \in [kid : Kids, kind : Kinds, whole : BOOLEAN, left : 1..RefreshTtl] /\ u.left \in Nat
             /\ t.kid = u.kid /\ t.whole = u.whole /\ t.kind = u.kind /\ t.left = u.left - 1
  <2>1. u.left - 1 \in 1..RefreshTtl /\ u.left \in Nat
    BY <1>6, <1>8, Numbers
  <2> QED  BY <1>6, <1>8, <2>1
<1>9. TokensTyped'
  BY <1>7, <1>8 DEF TokensTyped
<1>10. ASSUME NEW t \in tokens'
       PROVE  \E u \in tokens : /\ t.kid = u.kid /\ t.whole = u.whole
                                /\ Due(u) \in Int /\ Due(t) = Due(u) - 1
  <2>1. PICK u \in tokens : u.left > 1 /\ t = [u EXCEPT !.left = u.left - 1]
    BY <1>7
  <2>2. /\ u.left \in Nat
        /\ t.kid = u.kid /\ t.whole = u.whole /\ t.kind = u.kind /\ t.left = u.left - 1
    BY <1>8, <2>1
  <2>3. u.kind \in Kinds
    BY <1>6
  <2>4. Due(u) \in Int /\ Due(t) = Due(u) - 1
    BY <2>2, <2>3, DueIs
  <2> QED  BY <2>2, <2>4
<1> QED  BY <1>1, <1>2, <1>3, <1>4, <1>5, <1>9, <1>10

\* A bound on one countdown by another holds after both have gone down.
LEMMA BothElapse ==
    ASSUME NEW f \in Nat, NEW n \in Nat, NEW m \in Nat, NEW a \in Nat, NEW g \in Int,
           f + a <= n + g + 1, m >= n - 1
    PROVE  (f - 1) + a <= m + g + 1
  OBVIOUS

\* Time passes.  What was signed with the old pair has run down to Grace when
\* the wait is over.
LEMMA TickKeeps == ASSUME Inv, Tick PROVE Inv'
<1>1. /\ Scanning = {} /\ Scanning' = {}
      /\ UNCHANGED <<pub, priv, last, jwks, signer, newKid, rkey, up, pc, file, scan, cut,
                     clash, faults>>
      /\ nap \in Nat /\ nap' \in Nat /\ (nap = 0 => nap' = 0) /\ (nap > 0 => nap' = nap - 1)
      /\ fresh \in Nat /\ fresh' \in Nat /\ (fresh = 0 => fresh' = 0)
      /\ fresh > 0 => fresh' = fresh - 1
      /\ age' \in [Kids -> 0..Day]
      /\ \A k \in Kids : /\ age[k] \in Nat /\ age'[k] \in Nat /\ age'[k] >= age[k]
                         /\ age[k] = Day => age'[k] = Day
                         /\ k <= last /\ age[k] # Day => age'[k] = age[k] + 1
      /\ TokensTyped'
      /\ \A t \in tokens' : \E u \in tokens : /\ t.kid = u.kid /\ t.whole = u.whole
                                              /\ Due(u) \in Int /\ Due(t) = Due(u) - 1
  BY TickIs
<1>2. TypeOK
  BY DEF Inv
<1>3. Pairs' = Pairs /\ (Serving' <=> Serving) /\ (Stopping' <=> Stopping)
  BY <1>1, Frames DEF Serving, Stopping
<1>4. TypeOK'
  <2>1. AgesTyped' /\ StagesTyped'
    BY <1>1, <1>2 DEF AgesTyped, StagesTyped, TypeOK
  <2>2. CacheTyped'
    <3>1. fresh' \in 0..CacheTtl
      BY <1>1, <1>2, Numbers DEF TypeOK
    <3> QED  BY <1>1, <1>2, <3>1 DEF CacheTyped, TypeOK
  <2>3. NapTyped'
    BY <1>1, <1>2, Numbers DEF NapTyped, TypeOK
  <2> QED  BY <1>1, <1>2, <2>1, <2>2, <2>3, TypeFrame, TypeParts
<1>5. NamesSound' /\ HalvesSound'
  BY <1>1, Frames
<1>6. FilesSound'
  <2>1. \A t \in tokens' : t.kid <= last /\ (t.whole => pub[t.kid] # Empty)
    BY <1>1 DEF Inv, FilesSound
  <2>2. ASSUME NEW t \in tokens' PROVE Due(t) <= AccessTtl
    <3>1. PICK u \in tokens : Due(u) \in Int /\ Due(t) = Due(u) - 1
      BY <1>1
    <3>2. Due(u) <= AccessTtl
      BY DEF Inv, FilesSound
    <3> QED  BY <3>1, <3>2, Numbers
  <2> QED  BY <1>1, <2>1, <2>2 DEF Inv, FilesSound
<1>7. DownSound'
  BY <1>1, <1>3 DEF Inv, DownSound, Creating
<1>8. TaskSound'
  <2>1. up /\ pc["task"] \in Naming => \A t \in tokens' : t.kid # last
    BY <1>1 DEF Inv, TaskSound
  <2> QED  BY <1>1, <1>3, <2>1 DEF Inv, TaskSound
<1>9. StopSound'
  BY <1>1, <1>3 DEF Inv, StopSound
<1>10. CacheSound'
  <2>1. fresh' > 0 => fresh > 0
    BY <1>1
  <2> QED  BY <1>1, <1>3, <2>1 DEF Inv, CacheSound
<1>11. AheadSound'
  <2> SUFFICES ASSUME Serving PROVE AheadSound'
    BY <1>3, Excused
  <2>1. last \in Kids /\ last \in Nat
    BY Serves
  <2>2. ASSUME NEW k \in Kids, Ripe(k)
        PROVE  age'[k] >= CacheTtl + Slack \/ age'[k] = Day
    BY <1>1, <2>2, Numbers DEF Ripe
  <2>3. pc["task"] # "idle" => age'[signer.kid] >= CacheTtl + Slack \/ age'[signer.kid] = Day
    <3>1. pc["task"] # "idle" => Ripe(signer.kid)
      BY DEF Inv, AheadSound
    <3> QED  BY <2>2, <3>1 DEF Inv, AheadSound
  <2>4. pc["task"] = "settle" => age'[last] + nap' >= CacheTtl + Slack \/ age'[last] = Day
    <3>1. pc["task"] = "settle" => age[last] + nap >= CacheTtl + Slack \/ age[last] = Day
      BY DEF Inv, AheadSound
    <3>2. last <= last
      BY <2>1
    <3>3. CASE age[last] = Day
      BY <1>1, <2>1, <3>3
    <3>4. CASE age[last] # Day
      <4>1. age'[last] = age[last] + 1
        BY <1>1, <2>1, <3>2, <3>4
      <4> QED  BY <1>1, <2>1, <3>1, <3>4, <4>1, Numbers
    <3> QED  BY <3>3, <3>4
  <2>5. pc["task"] \in {"openKey", "writeKey"} \union Switching =>
           age'[last] >= CacheTtl + Slack \/ age'[last] = Day
    BY <2>1, <2>2 DEF Inv, AheadSound
  <2> QED  BY <1>1, <1>3, <2>3, <2>4, <2>5 DEF Inv, AheadSound, IsNewest, Ripe
<1>12. RetainSound'
  <2> SUFFICES ASSUME Serving, pc["task"] \in {"retain", "remove", "forget"} PROVE RetainSound'
    BY <1>1, <1>3, Excused
  <2>1. /\ nap <= AccessTtl + Slack /\ (pc["task"] # "retain" => nap = 0)
        /\ signer.kid = last \/ fresh = 0 \/ fresh + AccessTtl <= nap + Grace + 1
        /\ \A t \in tokens : t.kid # last => Due(t) <= nap + Grace
    BY DEF Inv, RetainSound
  <2>2. nap' <= AccessTtl + Slack /\ (pc["task"] # "retain" => nap' = 0)
    BY <1>1, <2>1, Numbers
  <2>3. signer.kid = last \/ fresh' = 0 \/ fresh' + AccessTtl <= nap' + Grace + 1
    <3>1. CASE signer.kid = last
      BY <3>1
    <3>2. CASE fresh = 0
      BY <1>1, <3>2
    <3>3. CASE fresh > 0 /\ fresh + AccessTtl <= nap + Grace + 1
      <4>1. fresh \in Nat /\ nap \in Nat /\ nap' \in Nat /\ fresh' = fresh - 1
        BY <1>1, <3>3
      <4>2. nap' >= nap - 1
        BY <1>1
      <4>3. AccessTtl \in Nat /\ Grace \in Int
        BY Numbers
      <4>4. fresh' + AccessTtl <= nap' + Grace + 1
        BY <3>3, <4>1, <4>2, <4>3, BothElapse
      <4> QED  BY <4>4
    <3> QED  BY <1>1, <2>1, <3>1, <3>2, <3>3
  <2>4. ASSUME NEW t \in tokens', t.kid # last
        PROVE  Due(t) <= nap' + Grace
    <3>1. PICK u \in tokens : Due(u) \in Int /\ t.kid = u.kid /\ Due(t) = Due(u) - 1
      BY <1>1
    <3>2. Due(u) <= nap + Grace
      BY <2>1, <2>4, <3>1
    <3> QED  BY <1>1, <3>1, <3>2, Numbers
  <2> QED  BY <1>1, <2>2, <2>3, <2>4 DEF RetainSound
<1> QED  BY <1>4, <1>5, <1>6, <1>7, <1>8, <1>9, <1>10, <1>11, <1>12 DEF Inv

-----------------------------------------------------------------------------
(* The invariant holds *)

\* It holds before the first start.
LEMMA InitKeeps == ASSUME Init PROVE Inv
<1>1. /\ pub = [k \in Kids |-> None] /\ priv = [k \in Kids |-> None]
      /\ last = 0 /\ age = [k \in Kids |-> 0]
      /\ jwks = {} /\ signer = NoSigner /\ fresh = 0
      /\ newKid = None /\ rkey = None /\ up = FALSE
      /\ pc = Stages("gone", "none")
      /\ file = [a \in Actors |-> None] /\ nap = 0
      /\ scan = [r \in Scanners |-> Idle]
      /\ tokens = {} /\ cut = {} /\ clash = FALSE
      /\ faults = [crashes |-> 0, stops |-> 0]
  BY DEF Init
<1>2. pc["task"] = "gone" /\ pc["stop"] = "none" /\ ~Stopping /\ ~Serving /\ StagesTyped
  BY <1>1 DEF Stages, Actors, Stopping, Serving, StagesTyped, TaskStages, StopStages
<1>3. Scanning = {}
  BY <1>1 DEF Scanning, Idle
<1>4. TypeOK
  <2>1. DiskTyped /\ AgesTyped
    BY <1>1, Values, Numbers DEF DiskTyped, AgesTyped
  <2>2. CacheTyped /\ NamesTyped
    BY <1>1, Values, Numbers DEF CacheTyped, NamesTyped, NoSigner
  <2>3. FileTyped /\ NapTyped
    BY <1>1, Values, Numbers DEF FileTyped, NapTyped
  <2>4. Idle \in [at : {"idle", "listed", "read"}, pubs : SUBSET Kids,
                  pick : 0..LastKid, mat : Contents]
    BY Values DEF Idle
  <2>5. ScanTyped
    BY <1>1, <2>4 DEF ScanTyped
  <2>6. TokensTyped /\ RestTyped
    BY <1>1 DEF TokensTyped, RestTyped
  <2>7. FaultsTyped
    BY <1>1, Numbers DEF FaultsTyped
  <2> QED  BY <1>2, <2>1, <2>2, <2>3, <2>5, <2>6, <2>7, TypeParts
<1>5. FilesSound
  BY <1>1 DEF FilesSound
<1>6. NamesSound
  BY <1>1, <1>3 DEF NamesSound, NoSigner, None
<1>7. DownSound
  BY <1>1, <1>2, <1>3 DEF DownSound
<1>8. TaskSound /\ AheadSound /\ RetainSound /\ StopSound /\ CacheSound
  BY <1>1, <1>2 DEF TaskSound, AheadSound, RetainSound, StopSound, CacheSound
<1>9. HalvesSound
  BY <1>1 DEF HalvesSound
<1> QED  BY <1>4, <1>5, <1>6, <1>7, <1>8, <1>9 DEF Inv

\* Every step keeps it.
LEMMA StepKeeps == ASSUME Inv, [Next]_vars PROVE Inv'
<1>1. CASE TaskStep
  BY <1>1, StartKeeps, NameKeyKeeps, GenerateKeyKeeps, OpenPubKeeps, WritePubKeeps,
     AnnounceKeeps, WakeKeeps, SwitchKeeps DEF TaskStep
<1>2. ASSUME NEW a \in Actors, FileStep(a) PROVE Inv'
  <2>1. CASE RemoveFile(a)
    BY <2>1, RemoveFileKeeps
  <2>2. CASE a = "task"
    BY <1>2, <2>1, <2>2, TaskOpensKey, TaskWritesKey, TaskEndsRemoving, TaskForgets DEF FileStep
  <2>3. CASE a = "stop"
    BY <1>2, <2>1, <2>3, StopOpensKey, StopWritesKey, StopEndsRemoving, StopForgets DEF FileStep
  <2> QED  BY <2>2, <2>3 DEF Actors
<1>3. CASE Check \/ Exit \/ CreateFirst \/ WriteFirst \/ Boot
  BY <1>3, CheckKeeps, ExitKeeps, CreateFirstKeeps, WriteFirstKeeps, BootKeeps
<1>4. ASSUME NEW r \in Scanners, Scan(r) PROVE Inv'
  BY <1>4, ListKeeps, ReadFilesKeeps, StoreKeeps DEF Scan
<1>5. CASE Tick \/ \E kind \in Kinds : Issue(kind)
  BY <1>5, IssueKeeps, TickKeeps
<1>6. CASE Stop \/ Crash
  BY <1>6, StopKeeps, CrashKeeps
<1>7. CASE UNCHANGED vars
  <2>1. /\ UNCHANGED <<pub, priv, last, age, jwks, signer, fresh, newKid, rkey, up, pc, file, nap,
                       scan, tokens, cut, clash, faults>>
    BY <1>7 DEF vars, disk, cache, context, threads
  <2>2. TypeOK'
    <3>1. TypeOK /\ StagesTyped'
      BY <2>1 DEF Inv, TypeOK, StagesTyped
    <3> QED  BY <2>1, <3>1, TypeFrame, TypeParts
  <2>3. Scanning' = Scanning /\ Pairs' = Pairs
    BY <2>1, Frames
  <2>4. (Serving' <=> Serving) /\ (Stopping' <=> Stopping)
    BY <2>1 DEF Serving, Stopping
  <2>5. FilesSound' /\ NamesSound' /\ HalvesSound' /\ CacheSound'
    BY <2>1, <2>4, Frames
  <2>6. DownSound' /\ TaskSound' /\ StopSound'
    BY <2>1, <2>3, <2>4 DEF Inv, DownSound, Creating, TaskSound, StopSound
  <2>7. AheadSound' /\ RetainSound'
    BY <2>1, <2>3, <2>4 DEF Inv, AheadSound, RetainSound, IsNewest, Ripe
  <2> QED  BY <2>2, <2>5, <2>6, <2>7 DEF Inv
<1> QED  BY <1>1, <1>2, <1>3, <1>4, <1>5, <1>6, <1>7 DEF Next, Work

\* The invariant, in every state.
LEMMA Invariance == Spec => []Inv
<1>1. Init => Inv
  BY InitKeeps
<1>2. Inv /\ [Next]_vars => Inv'
  BY StepKeeps
<1> QED  BY <1>1, <1>2, PTL DEF Spec

-----------------------------------------------------------------------------
(* Theorems *)

\* Every variable keeps its type: in particular a file holds a pair's key or
\* is empty, and the task and the handler are at a stage of their own code.
THEOREM TypeCorrect == Spec => []TypeOK
<1>1. Inv => TypeOK
  BY DEF Inv
<1> QED  BY <1>1, Invariance, PTL

\* Whatever reload came last, by whichever thread, the key that signs the next
\* token is published on disk and in the JWKS, unless a stop overtook a thread.
THEOREM SignsPublished == Spec => []SignerPublished
<1>1. Inv => SignerPublished
  BY DEF Inv, CacheSound, SignerPublished, Serving
<1> QED  BY <1>1, Invariance, PTL

\* A step that writes into other files than those of a complete pair, or
\* removes others, leaves that pair.
LEMMA WholeStays ==
  ASSUME NEW k \in Kids, pub[k] = k, priv[k] = k, Inv, [Next]_vars, ~clash'
  PROVE  \/ pub'[last] = last /\ priv'[last] = last /\ last \in Kids
         \/ pub'[k] = k /\ priv'[k] = k
<1>1. ~clash
  <2>1. TaskStep => clash' = clash
    BY DEF TaskStep, Start, NameKey, GenerateKey, OpenPub, WritePub, Announce, Wake, Switch,
           Reload
  <2>2. \A a \in Actors : FileStep(a) => clash' = clash
    BY DEF FileStep, OpenKey, WriteKey, RemoveFile, RemoveEnds, Forget
  <2>3. Check \/ Exit \/ CreateFirst \/ WriteFirst \/ Boot \/ Tick \/ Crash => clash' = clash
    BY DEF Check, Exit, CreateFirst, WriteFirst, Boot, Tick, Crash, Down
  <2>4. Stop => (clash => clash')
    BY DEF Stop
  <2>5. \A r \in Scanners : Scan(r) => clash' = clash
    BY DEF Scan, List, ReadFiles, Store
  <2>6. \A kind \in Kinds : Issue(kind) => clash' = clash
    BY DEF Issue
  <2>7. UNCHANGED vars => clash' = clash
    BY DEF vars
  <2> QED  BY <2>1, <2>2, <2>3, <2>4, <2>5, <2>6, <2>7 DEF Next, Work
<1>2. TypeOK /\ pub[k] \notin {None, Empty} /\ priv[k] \notin {None, Empty}
  BY Values DEF Inv
<1>3. pub \in [Kids -> Contents] /\ priv \in [Kids -> Contents]
  BY <1>2 DEF TypeOK
<1>4. CASE UNCHANGED <<pub, priv>>
  BY <1>4
<1>5. CASE OpenPub \/ WritePub
  <2>1. up /\ pc["task"] \in {"openPub", "writePub"} /\ priv' = priv
    BY <1>5 DEF OpenPub, WritePub, At
  <2>2. last \in Kids /\ Serving
    BY <1>1, <2>1, TaskRuns DEF Serving
  <2>3. priv[last] = None /\ newKid = last /\ (pc["task"] = "writePub" => file["task"] = last)
    BY <2>1, <2>2 DEF Inv, TaskSound, Naming
  <2>4. \A i \in Kids : i # last => pub'[i] = pub[i]
    BY <1>3, <1>5, <2>1, <2>2, <2>3 DEF OpenPub, WritePub, Filled, At
  <2> QED  BY <1>2, <2>1, <2>3, <2>4
<1>6. ASSUME NEW a \in Actors, OpenKey(a) \/ WriteKey(a)
      PROVE  pub'[k] = k /\ priv'[k] = k
  <2>1. up /\ pc[a] \in {"openKey", "writeKey"} /\ pub' = pub
    BY <1>6 DEF OpenKey, WriteKey, At
  <2>2. last \in Kids
    BY <2>1, TaskRuns, StopRuns DEF Actors, Stopping
  <2>3. Serving => a = "task"
    BY <2>1 DEF Serving, Stopping, Actors
  <2>4. ~Serving => a = "stop" /\ Stopping
    BY <1>1, <2>1 DEF Serving, Actors, Inv, DownSound
  <2>5. newKid = last /\ (pc[a] = "openKey" => priv[last] = None)
    BY <1>1, <2>1, <2>3, <2>4 DEF Inv, TaskSound, StopSound, Publishing
  <2>6. pc[a] = "writeKey" => file[a] = last /\ priv[last] = Empty
    BY <1>1, <2>1, <2>3, <2>4 DEF Inv, TaskSound, StopSound
  <2>7. \A i \in Kids : i # last => priv'[i] = priv[i]
    <3>1. CASE OpenKey(a)
      BY <1>3, <2>2, <2>5, <3>1 DEF OpenKey, At
    <3>2. CASE WriteKey(a)
      <4>1. priv' = Filled(priv, a) /\ file[a] = last
        BY <2>6, <3>2 DEF WriteKey, At
      <4> QED  BY <1>3, <2>2, <4>1 DEF Filled
    <3> QED  BY <1>6, <3>1, <3>2
  <2> QED  BY <1>2, <2>1, <2>5, <2>6, <2>7
<1>7. ASSUME NEW a \in Actors, RemoveFile(a)
      PROVE  pub'[last] = last /\ priv'[last] = last /\ last \in Kids
  <2>1. /\ up /\ pc[a] = "remove"
        /\ newKid \in Kids => pub'[newKid] = pub[newKid] /\ priv'[newKid] = priv[newKid]
    BY <1>7, RemoveIs
  <2>2. last \in Kids
    BY <2>1, TaskRuns, StopRuns DEF Actors, Stopping
  <2>3. newKid = last /\ pub[last] = last /\ priv[last] = last
    <3>1. Serving => a = "task"
      BY <2>1 DEF Serving, Stopping, Actors
    <3>2. ~Serving => a = "stop" /\ Stopping
      BY <1>1, <2>1 DEF Serving, Actors, Inv, DownSound
    <3> QED  BY <1>1, <2>1, <3>1, <3>2 DEF Inv, TaskSound, StopSound, Switching
  <2> QED  BY <2>1, <2>2, <2>3
<1>8. CASE CreateFirst
  <2>1. Pairs = {}
    BY <1>8 DEF CreateFirst
  <2> QED  BY <1>2, <2>1 DEF Pairs, PubFiles
<1>9. CASE WriteFirst
  BY <1>2, <1>9, FirstIs
<1>10. TaskStep => UNCHANGED <<pub, priv>> \/ OpenPub \/ WritePub
  BY DEF TaskStep, Start, NameKey, GenerateKey, Announce, Wake, Switch, Reload, disk
<1>11. \A a \in Actors : FileStep(a) =>
          UNCHANGED <<pub, priv>> \/ OpenKey(a) \/ WriteKey(a) \/ RemoveFile(a)
  BY DEF FileStep, RemoveEnds, Forget, disk
<1>12. Check \/ Exit \/ Boot \/ Tick \/ Stop \/ Crash \/ UNCHANGED vars => UNCHANGED <<pub, priv>>
  BY DEF Check, Exit, Boot, Tick, Stop, Crash, Down, vars, disk
<1>13. \A r \in Scanners : Scan(r) => UNCHANGED <<pub, priv>>
  BY DEF Scan, List, ReadFiles, Store, disk
<1>14. \A kind \in Kinds : Issue(kind) => UNCHANGED <<pub, priv>>
  BY DEF Issue, disk
<1>15. CASE \E a \in Actors : FileStep(a)
  BY <1>4, <1>6, <1>7, <1>11, <1>15
<1> QED  BY <1>4, <1>5, <1>8, <1>9, <1>10, <1>12, <1>13, <1>14, <1>15 DEF Next, Work

\* However often the rotation, or the creation of the first pair, is
\* interrupted by crashes and stops, a complete pair is left once there was
\* one, unless a stop overtook a thread.
THEOREM PairRemains == Spec => PairSurvives
<1>1. ASSUME Inv, [Next]_vars, WholePair, ~clash' PROVE WholePair'
  <2>1. PICK k \in Kids : pub[k] = k /\ priv[k] = k
    BY <1>1 DEF WholePair
  <2>2. \/ pub'[last] = last /\ priv'[last] = last /\ last \in Kids
        \/ pub'[k] = k /\ priv'[k] = k
    BY <1>1, <2>1, WholeStays
  <2> QED  BY <2>2 DEF WholePair
<1>2. Inv /\ [Next]_vars => [WholePair /\ ~clash' => WholePair']_vars
  BY <1>1
<1> QED  BY <1>2, Invariance, PTL DEF Spec, PairSurvives

\* The smaller of two numbers.
LEMMA MinIs ==
  ASSUME NEW a \in Nat, NEW b \in Nat
  PROVE  Min({a, b}) <= a /\ Min({a, b}) <= b /\ Min({a, b}) \in Nat
<1>1. \E x \in {a, b} : \A y \in {a, b} : x <= y
  <2>1. CASE a <= b
    BY <2>1
  <2>2. CASE b <= a
    BY <2>2
  <2> QED  BY <2>1, <2>2
<1>2. Min({a, b}) \in {a, b} /\ \A y \in {a, b} : Min({a, b}) <= y
  BY <1>1 DEF Min
<1> QED  BY <1>2

\* While the server runs, another key signs only after a reload.
LEMMA SignerChanges ==
  ASSUME [Next]_vars, up, up', signer'.kid # signer.kid
  PROVE  \/ Announce \/ Switch \/ RemoveEnds("task") \/ RemoveEnds("stop")
         \/ \E r \in Scanners : Store(r)
<1>1. TaskStep => Announce \/ Switch
  BY DEF TaskStep, Start, NameKey, GenerateKey, OpenPub, WritePub, Wake, cache
<1>2. \A a \in Actors : FileStep(a) => RemoveEnds(a)
  BY DEF FileStep, OpenKey, WriteKey, RemoveFile, Forget, cache
<1>3. /\ ~Check /\ ~Exit /\ ~CreateFirst /\ ~WriteFirst /\ ~Boot /\ ~Tick /\ ~Stop /\ ~Crash
      /\ \A kind \in Kinds : ~Issue(kind)
      /\ ~UNCHANGED vars
  BY DEF Check, Exit, CreateFirst, WriteFirst, Boot, Issue, Tick, Stop, Crash, Down, vars, cache
<1>4. \A r \in Scanners : Scan(r) => Store(r)
  BY DEF Scan, List, ReadFiles, cache
<1> QED  BY <1>1, <1>2, <1>3, <1>4 DEF Next, Work, Actors

\* While requests are answered, a key is put to use only once clients have had
\* the time to fetch its public half: by the task, which has slept, and by a
\* scan, which finds no pair the task has not.
THEOREM AnnouncedFirst == Spec => PublishedAhead
<1>1. ASSUME Inv, Inv', [Next]_vars, up, up', ~Stopping, signer'.kid # signer.kid
      PROVE  age[signer'.kid] >= Min({CacheTtl + Slack, Day})
  <2>1. Serving /\ pc["task"] \in TaskStages
    BY <1>1 DEF Serving, Inv, TypeOK
  <2>2. ~RemoveEnds("stop")
    BY <1>1 DEF RemoveEnds, At, Stopping
  <2>3. UNCHANGED age /\ Serving' /\ pc'["task"] # "idle"
    <3>1. CASE Announce
      <4>1. pc["task"] = "announce" /\ Then("task", "settle") /\ UNCHANGED age
        BY <3>1 DEF Announce, Reload, At, disk
      <4> QED  BY <1>1, <4>1, ThenTask DEF Inv, TaskStages, Serving
    <3>2. CASE Switch
      <4>1. pc["task"] = "switch" /\ Then("task", "retain") /\ UNCHANGED age
        BY <3>2 DEF Switch, Reload, At, disk
      <4> QED  BY <1>1, <4>1, ThenTask DEF Inv, TaskStages, Serving
    <3>3. CASE RemoveEnds("task")
      <4>1. (Go("task", "gone") \/ Go("task", "forget")) /\ UNCHANGED age
        BY <3>3 DEF RemoveEnds, disk
      <4>2. "gone" \in TaskStages /\ "forget" \in TaskStages
        BY DEF TaskStages, Working
      <4> QED  BY <1>1, <4>1, <4>2, GoTask DEF Inv, Serving
    \* In between rotations a scan finds the pair that signs.
    <3>4. CASE \E r \in Scanners : Store(r)
      <4>1. PICK r \in Scanners : Store(r)
        BY <3>4
      <4>2. /\ signer' = [kid |-> scan[r].pick, mat |-> scan[r].mat] /\ r \in Scanning
            /\ UNCHANGED <<pc, age>>
        BY <4>1 DEF Store, Scanning, disk
      <4>3. CASE pc["task"] = "idle"
        <5>0. IsNewest(signer.kid) /\ \A s \in Scanning : IsNewest(scan[s].pick)
          BY <1>1, <2>1, <4>3 DEF Inv, AheadSound
        <5>1. IsNewest(signer.kid) /\ IsNewest(scan[r].pick)
          BY <4>2, <5>0
        <5>2. scan[r].pick = signer.kid
          BY <5>1, NewestOnce
        <5> QED  BY <1>1, <4>2, <5>2
      <4> QED  BY <1>1, <4>2, <4>3 DEF Serving, Stopping
    <3> QED  BY <1>1, <2>2, <3>1, <3>2, <3>3, <3>4, SignerChanges
  <2>4. /\ signer'.kid \in Kids
        /\ age'[signer'.kid] >= CacheTtl + Slack \/ age'[signer'.kid] = Day
    BY <1>1, <2>3 DEF Inv, AheadSound, Ripe
  <2>5. age[signer'.kid] \in Nat
    BY <1>1, <2>4, Numbers DEF Inv, TypeOK
  <2>6. CacheTtl + Slack \in Nat /\ Day \in Nat
    BY Numbers
  <2> QED  BY <2>3, <2>4, <2>5, <2>6, MinIs
<1>2. Inv /\ Inv' /\ [Next]_vars =>
         (up /\ up' /\ ~Stopping /\ signer'.kid # signer.kid
            => age[signer'.kid] >= Min({CacheTtl + Slack, Day}))
  BY <1>1
<1>3. Inv /\ Inv' /\ [Next]_vars =>
         [up /\ up' /\ ~Stopping /\ signer'.kid # signer.kid
            => age[signer'.kid] >= Min({CacheTtl + Slack, Day})]_vars
  BY <1>2
<1> QED  BY <1>3, Invariance, PTL DEF Spec, PublishedAhead

-----------------------------------------------------------------------------
(* The rotation implements the ring of keys *)

\* What KeyRing calls published, the key in use, and the tokens.
Published == {k \in Kids : pub[k] = k}
Signing ==
    IF /\ up /\ fresh > 0 /\ signer.kid \in Kids
       /\ signer.mat = signer.kid /\ pub[signer.kid] = signer.kid
    THEN signer.kid ELSE None
Owed == {u \in tokens : u.kid \notin cut /\ u.whole /\ Due(u) > 0}
Abstract(t) == [key |-> t.kid, left |-> Due(t)]

\* The instance that KeyRotation declares has these for its variables.
LEMMA RingIs ==
    /\ Ring!Rotate <=> /\ Published' \in SUBSET Kids /\ Published \subseteq Published'
                       /\ Signing' \in Published' \union {None}
                       /\ {Abstract(t) : t \in Owed}' = {Abstract(t) : t \in Owed}
    /\ Ring!Sign <=> /\ Signing \in Published
                     /\ {Abstract(t) : t \in Owed}' = {Abstract(t) : t \in Owed}
                           \union {[key |-> Signing, left |-> AccessTtl]}
                     /\ Published' = Published /\ Signing' = Signing
    /\ Ring!Tick <=> /\ {Abstract(t) : t \in Owed}' = Ring!Older({Abstract(t) : t \in Owed})
                     /\ Signing' \in {Signing, None} /\ Published' = Published
    /\ Ring!Withdraw <=> /\ Published' \in SUBSET Published
                         /\ Signing \in Published' \union {None}
                         /\ \A t \in {Abstract(u) : u \in Owed} :
                               t.key \in Published \ Published' => t.left <= Grace
                         /\ Signing' = Signing
                         /\ {Abstract(t) : t \in Owed}' = {Abstract(t) : t \in Owed}
    /\ Ring!Cut <=> /\ Published' \in SUBSET Published
                    /\ Signing' \in Published' \union {None}
                    /\ {Abstract(t) : t \in Owed}' =
                          {t \in {Abstract(u) : u \in Owed} : t.key \notin Published \ Published'}
    /\ UNCHANGED Ring!ring <=> /\ Published' = Published /\ Signing' = Signing
                               /\ {Abstract(t) : t \in Owed}' = {Abstract(t) : t \in Owed}
  BY DEF Ring!Rotate, Ring!Sign, Ring!Tick, Ring!Withdraw, Ring!Cut, Ring!ring,
         Published, Signing, Owed, Abstract, Due, Ttl

\* As long as no public half goes, and tokens stay as they are, whatever
\* happens to files, caches and threads is a rotation at most.
LEMMA GrowsRotates ==
  ASSUME \A k \in Kids : pub[k] = k => pub'[k] = k, UNCHANGED <<tokens, cut>>
  PROVE  Ring!Rotate
<1>1. Published' \in SUBSET Kids /\ Published \subseteq Published'
  BY DEF Published
<1>2. Signing' \in Published' \union {None}
  BY DEF Signing, Published
<1>3. Owed' = Owed
  BY DEF Owed
<1>4. {Abstract(t) : t \in Owed}' = {Abstract(t) : t \in Owed}
  BY <1>3 DEF Abstract
<1> QED  BY <1>1, <1>2, <1>4, RingIs

\* The steps that leave the public halves alone.
LEMMA PubStays ==
    /\ TaskStep => UNCHANGED <<pub, tokens, cut>> \/ OpenPub \/ WritePub
    /\ \A a \in Actors : FileStep(a) => UNCHANGED <<pub, tokens, cut>> \/ RemoveFile(a)
    /\ \A r \in Scanners : Scan(r) => UNCHANGED <<pub, tokens, cut>>
    /\ Check \/ Exit \/ Boot \/ Stop \/ Crash \/ UNCHANGED vars => UNCHANGED <<pub, tokens, cut>>
<1>1. TaskStep => UNCHANGED <<pub, tokens, cut>> \/ OpenPub \/ WritePub
  BY DEF TaskStep, Start, NameKey, GenerateKey, Announce, Wake, Switch, Reload, disk
<1>2. \A a \in Actors : FileStep(a) => UNCHANGED <<pub, tokens, cut>> \/ RemoveFile(a)
  BY DEF FileStep, OpenKey, WriteKey, RemoveEnds, Forget, disk
<1>3. \A r \in Scanners : Scan(r) => UNCHANGED <<pub, tokens, cut>>
  BY DEF Scan, List, ReadFiles, Store, disk
<1>4. Check \/ Exit \/ Boot \/ Stop \/ Crash \/ UNCHANGED vars => UNCHANGED <<pub, tokens, cut>>
  BY DEF Check, Exit, Boot, Stop, Crash, Down, vars, disk
<1> QED  BY <1>1, <1>2, <1>3, <1>4

\* A new public file is empty, and no published one is in its place.
LEMMA OpenPubRotates == ASSUME Inv, OpenPub PROVE Ring!Rotate
<1>1. up /\ pc["task"] = "openPub" /\ UNCHANGED <<tokens, cut>>
  BY DEF OpenPub, At
<1>2. last \in Kids /\ pub \in [Kids -> Contents]
  BY <1>1, TaskRuns DEF TypeOK
<1>3. pub[last] = None /\ (newKid = last \/ newKid = None)
  BY <1>1 DEF Inv, TaskSound, Naming
<1>4. pub' = pub \/ pub' = [pub EXCEPT ![last] = Empty]
  BY <1>3 DEF OpenPub
<1>5. \A k \in Kids : pub[k] = k => pub'[k] = k
  BY <1>2, <1>3, <1>4, Values
<1> QED  BY <1>1, <1>5, GrowsRotates

\* What is written to it is the half of its own pair.
LEMMA WritePubRotates == ASSUME Inv, WritePub PROVE Ring!Rotate
<1>1. /\ up /\ pc["task"] = "writePub" /\ UNCHANGED <<tokens, cut>>
      /\ pub' = Filled(pub, "task")
  BY DEF WritePub, At
<1>2. last \in Kids /\ pub \in [Kids -> Contents]
  BY <1>1, TaskRuns DEF TypeOK
<1>3. file["task"] = last /\ (rkey = last \/ rkey = None)
  BY <1>1 DEF Inv, TaskSound
<1>4. \A k \in Kids : pub[k] = k => pub'[k] = k
  BY <1>1, <1>2, <1>3 DEF Filled
<1> QED  BY <1>1, <1>4, GrowsRotates

\* The constructor publishes the first pair, or nothing new.
LEMMA FirstRotates == ASSUME Inv, CreateFirst \/ WriteFirst PROVE Ring!Rotate
<1>1. UNCHANGED <<tokens, cut>>
  BY DEF CreateFirst, WriteFirst
<1>2. CASE CreateFirst
  <2>1. last \in Nat /\ last < LastKid /\ pub' = [pub EXCEPT ![last + 1] = Empty]
    BY <1>2, Numbers DEF CreateFirst, Inv, TypeOK
  <2>2. last + 1 \in Kids /\ last + 1 > last
    BY <2>1, Numbers DEF Kids
  <2>3. pub[last + 1] = None /\ pub \in [Kids -> Contents]
    BY <2>2 DEF Inv, FilesSound, TypeOK
  <2>4. \A k \in Kids : pub[k] = k => pub'[k] = k
    BY <2>1, <2>2, <2>3, Values
  <2> QED  BY <1>1, <2>4, GrowsRotates
<1>3. CASE WriteFirst
  <2>1. \A k \in Kids : pub[k] = k => pub'[k] = k
    BY <1>3, FirstIs
  <2> QED  BY <1>1, <2>1, GrowsRotates
<1> QED  BY <1>2, <1>3

\* A token is signed with the key in use, or with none that is owed anything:
\* its pair went when the server stopped, or its halves do not belong together.
LEMMA IssueSigns ==
  ASSUME Inv, NEW kind \in Kinds, Issue(kind)
  PROVE  Ring!Sign \/ UNCHANGED Ring!ring
<1> DEFINE new == [kid |-> signer.kid, kind |-> kind, left |-> Ttl(kind),
                   whole |-> pub[signer.kid] = signer.mat]
<1>1. /\ up /\ fresh > 0 /\ Key(signer.mat) /\ tokens' = tokens \union {new}
      /\ UNCHANGED <<pub, signer, fresh, up, cut>>
  BY DEF Issue, disk, cache
<1>2. signer.kid \in Kids /\ signer.mat \in Kids
  <2>1. signer.mat \in Kids /\ signer.mat # None
    BY <1>1, Values
  <2>2. signer.kid # None /\ signer.kid \in 0..LastKid
    BY <2>1 DEF Inv, NamesSound, TypeOK
  <2> QED  BY <2>1, <2>2, Values
<1>3. Published' = Published /\ Signing' = Signing
  BY <1>1 DEF Published, Signing
<1>4. /\ new.kid = signer.kid /\ (new.whole <=> pub[signer.kid] = signer.mat)
      /\ new.kind = kind /\ new.left = Ttl(kind)
  OBVIOUS
<1> HIDE DEF new
<1>4a. Due(new) = AccessTtl /\ Due(new) > 0
  <2>1. new.kind \in Kinds /\ new.left \in Int
    BY <1>4, Numbers DEF Ttl
  <2> QED  BY <1>4, <2>1, DueIs, Numbers
<1>5. CASE signer.kid \notin cut /\ new.whole
  <2>1. pub[signer.kid] = signer.kid /\ signer.mat = signer.kid
    BY <1>2, <1>4, <1>5, Values DEF Inv, FilesSound
  <2>2. Signing = signer.kid /\ Signing \in Published
    BY <1>1, <1>2, <2>1 DEF Signing, Published
  <2>3. Owed' = Owed \union {new}
    BY <1>1, <1>4, <1>4a, <1>5 DEF Owed, Due, Ttl
  <2>4. {Abstract(t) : t \in Owed}'
          = {Abstract(t) : t \in Owed} \union {[key |-> Signing, left |-> AccessTtl]}
    <3>1. Abstract(new) = [key |-> Signing, left |-> AccessTtl]
      BY <1>4, <1>4a, <2>2 DEF Abstract
    <3>2. {Abstract(t) : t \in Owed}' = {Abstract(t) : t \in Owed \union {new}}
      BY <2>3 DEF Abstract
    <3>3. {Abstract(t) : t \in Owed \union {new}}
            = {Abstract(t) : t \in Owed} \union {Abstract(new)}
      OBVIOUS
    <3> QED  BY <3>1, <3>2, <3>3
  <2> QED  BY <1>3, <2>2, <2>4, RingIs
<1>6. CASE ~(signer.kid \notin cut /\ new.whole)
  <2>1. Owed' = Owed
    BY <1>1, <1>4, <1>6 DEF Owed
  <2>2. {Abstract(t) : t \in Owed}' = {Abstract(t) : t \in Owed}
    BY <2>1 DEF Abstract
  <2> QED  BY <1>3, <2>2, RingIs
<1> QED  BY <1>5, <1>6

\* Time passes for the tokens, and a key that is too old to use is not used.
LEMMA TickTicks == ASSUME Inv, Tick PROVE Ring!Tick
<1>1. /\ UNCHANGED <<pub, signer, up, cut>>
      /\ fresh \in Nat /\ (fresh = 0 => fresh' = 0) /\ (fresh > 0 => fresh' = fresh - 1)
  BY TickIs
<1>2. Published' = Published /\ Signing' \in {Signing, None}
  <2>1. fresh' > 0 => fresh > 0
    BY <1>1
  <2> QED  BY <1>1, <2>1 DEF Published, Signing
<1>3. \A u \in tokens : u \in [kid : Kids, kind : Kinds, whole : BOOLEAN, left : 1..RefreshTtl]
  BY DEF Inv, TypeOK
<1>4. tokens' = {[u EXCEPT !.left = u.left - 1] : u \in {v \in tokens : v.left > 1}}
  BY DEF Tick
<1>5. ASSUME NEW u \in tokens
      PROVE  /\ [u EXCEPT !.left = u.left - 1].kid = u.kid
             /\ [u EXCEPT !.left = u.left - 1].whole = u.whole
             /\ Due([u EXCEPT !.left = u.left - 1]) = Due(u) - 1
             /\ Due(u) \in Int /\ Due(u) <= u.left /\ u.left \in Int
  <2>1. /\ [u EXCEPT !.left = u.left - 1].kid = u.kid
        /\ [u EXCEPT !.left = u.left - 1].whole = u.whole
        /\ [u EXCEPT !.left = u.left - 1].kind = u.kind
        /\ [u EXCEPT !.left = u.left - 1].left = u.left - 1
        /\ u.kind \in Kinds /\ u.left \in Int
    BY <1>3
  <2> QED  BY <2>1, DueIs
<1>6. ASSUME NEW x
      PROVE  x \in {Abstract(t) : t \in Owed}' <=> x \in Ring!Older({Abstract(t) : t \in Owed})
  <2>0. x \in {Abstract(t) : t \in Owed}' <=>
           \E t \in tokens' : /\ t.kid \notin cut /\ t.whole /\ Due(t) > 0
                              /\ x = [key |-> t.kid, left |-> Due(t)]
    BY <1>1 DEF Owed, Abstract, Due, Ttl
  <2>1. ASSUME x \in {Abstract(t) : t \in Owed}'
        PROVE  x \in Ring!Older({Abstract(t) : t \in Owed})
    <3>1. PICK t \in tokens' : /\ t.kid \notin cut /\ t.whole /\ Due(t) > 0
                               /\ x = [key |-> t.kid, left |-> Due(t)]
      BY <2>0, <2>1
    <3>2. PICK u \in tokens : u.left > 1 /\ t = [u EXCEPT !.left = u.left - 1]
      BY <1>4, <3>1
    <3>3. /\ t.kid = u.kid /\ t.whole = u.whole /\ Due(t) = Due(u) - 1 /\ Due(u) \in Int
      BY <1>5, <3>2
    <3>4. u \in Owed
      BY <3>1, <3>3 DEF Owed
    <3>5. /\ Abstract(u).left > 1
          /\ x = [key |-> Abstract(u).key, left |-> Abstract(u).left - 1]
      BY <3>1, <3>3 DEF Abstract
    <3> QED  BY <3>4, <3>5 DEF Ring!Older
  <2>2. ASSUME x \in Ring!Older({Abstract(t) : t \in Owed})
        PROVE  x \in {Abstract(t) : t \in Owed}'
    <3>1. PICK u \in Owed : /\ Abstract(u).left > 1
                            /\ x = [key |-> Abstract(u).key, left |-> Abstract(u).left - 1]
      BY <2>2 DEF Ring!Older
    <3>2. u \in tokens /\ u.kid \notin cut /\ u.whole /\ Due(u) > 1
      BY <3>1 DEF Owed, Abstract
    <3>3. u.left > 1
      <4>1. Due(u) \in Int /\ Due(u) <= u.left /\ u.left \in Int
        BY <1>5, <3>2
      <4> QED  BY <3>2, <4>1
    <3>4. PICK t \in tokens' : t = [u EXCEPT !.left = u.left - 1]
      BY <1>4, <3>2, <3>3
    <3>5. /\ t.kid = u.kid /\ t.whole = u.whole /\ Due(t) = Due(u) - 1 /\ Due(u) \in Int
      BY <1>5, <3>2, <3>4
    <3>6. x = [key |-> t.kid, left |-> Due(t)]
      BY <3>1, <3>5 DEF Abstract
    <3>7. Due(t) > 0
      BY <3>2, <3>5
    <3> QED  BY <2>0, <3>2, <3>5, <3>6, <3>7
  <2> QED  BY <2>1, <2>2
<1>7. {Abstract(t) : t \in Owed}' = Ring!Older({Abstract(t) : t \in Owed})
  BY <1>6
<1> QED  BY <1>2, <1>7, RingIs

\* A public half goes.  While the server serves nothing that is owed more than
\* Grace needs it; while it stops its tokens are given up.
LEMMA RemoveWithdraws ==
  ASSUME Inv, NEW a \in Actors, RemoveFile(a)
  PROVE  Ring!Rotate \/ Ring!Withdraw \/ Ring!Cut
<1>1. /\ up /\ pc[a] = "remove"
      /\ UNCHANGED <<signer, fresh, tokens, up>>
      /\ \A k \in Kids : pub'[k] \in {pub[k], None}
      /\ newKid \in Kids => pub'[newKid] = pub[newKid]
  BY RemoveIs
<1>2. TypeOK /\ FilesSound
  BY DEF Inv
<1>3. Published' \in SUBSET Published
  BY <1>1, Values DEF Published
<1>4. PICK k \in Kids :
         \/ /\ pub[k] # None /\ pub' = [pub EXCEPT ![k] = None]
            /\ cut' = IF Stopping THEN cut \union {k} ELSE cut
         \/ UNCHANGED <<pub, cut>>
  BY DEF RemoveFile
<1>5. CASE UNCHANGED <<pub, cut>>
  BY <1>1, <1>5, GrowsRotates
<1>6. ASSUME pub[k] # None, pub' = [pub EXCEPT ![k] = None], Stopping, cut' = cut \union {k}
      PROVE  Ring!Cut
  <2>1. Signing' \in Published' \union {None}
    BY DEF Signing, Published
  <2>2. \A u \in tokens : u.kid \in Kids /\ (u.whole => pub[u.kid] # Empty)
    BY <1>2 DEF TypeOK, FilesSound
  <2>3. /\ \A i \in Kids : i # k => pub'[i] = pub[i]
        /\ pub'[k] = None /\ pub[k] \in {Empty, k}
    BY <1>2, <1>6 DEF TypeOK, FilesSound
  <2>4. Owed' = {u \in Owed : u.kid \notin Published \ Published'}
    <3>1. CASE pub[k] = k
      <4>1. Published \ Published' = {k}
        BY <2>3, <3>1, Values DEF Published
      <4> QED  BY <1>1, <1>6, <4>1 DEF Owed
    <3>2. CASE pub[k] = Empty
      <4>1. Published \ Published' = {}
        BY <2>3, <3>2, Values DEF Published
      <4>2. Owed' = Owed
        BY <1>1, <1>6, <2>2, <3>2 DEF Owed
      <4> QED  BY <4>1, <4>2
    <3> QED  BY <2>3, <3>1, <3>2
  <2>5. {Abstract(t) : t \in Owed}' =
          {t \in {Abstract(u) : u \in Owed} : t.key \notin Published \ Published'}
    <3>1. {Abstract(t) : t \in Owed}' =
            {Abstract(t) : t \in {u \in Owed : u.kid \notin Published \ Published'}}
      BY <2>4 DEF Abstract
    <3>2. \A u \in Owed : Abstract(u).key = u.kid
      BY DEF Abstract
    <3>3. {Abstract(t) : t \in {u \in Owed : u.kid \notin Published \ Published'}} =
            {t \in {Abstract(u) : u \in Owed} : t.key \notin Published \ Published'}
      BY <3>2
    <3> QED  BY <3>1, <3>3
  <2> QED  BY <1>3, <2>1, <2>5, RingIs
<1>7. ASSUME pub' = [pub EXCEPT ![k] = None], ~Stopping, UNCHANGED cut
      PROVE  Ring!Withdraw
  <2>1. Serving /\ pc["task"] = "remove"
    BY <1>1, <1>7 DEF Serving, Stopping, Actors
  <2>2. last \in Kids /\ newKid = last /\ pub[last] = last
    BY <2>1, Serves DEF Inv, TaskSound, Switching
  <2>3. pub'[last] = last
    BY <1>1, <2>2
  <2>4. /\ nap = 0
        /\ signer.kid = last \/ fresh = 0 \/ fresh + AccessTtl <= nap + Grace + 1
        /\ \A t \in tokens : t.kid # last => Due(t) <= nap + Grace
    BY <2>1 DEF Inv, RetainSound
  \* What a late scan had put back is too old to sign.
  <2>5. fresh > 0 => signer.kid = last
    <3>1. fresh \in Nat
      BY <1>2, Numbers DEF TypeOK
    <3> QED  BY <2>4, <3>1, Numbers
  <2>6. Signing' = Signing /\ Signing \in Published' \union {None}
    <3>1. CASE fresh > 0
      BY <1>1, <2>2, <2>3, <2>5, <3>1 DEF Signing, Published
    <3>2. CASE ~(fresh > 0)
      BY <1>1, <3>2 DEF Signing
    <3> QED  BY <3>1, <3>2
  <2>7. ASSUME NEW u \in Owed, Abstract(u).key \in Published \ Published'
        PROVE  Abstract(u).left <= Grace
    <3>1. last \in Published'
      BY <2>2, <2>3 DEF Published
    <3>2. u \in tokens /\ u.kid # last
      BY <2>7, <3>1 DEF Owed, Abstract
    <3>3. Due(u) <= nap + Grace /\ Due(u) \in Int
      BY <1>2, <2>4, <3>2, DueIs DEF TypeOK
    <3> QED  BY <2>4, <3>3, Numbers DEF Abstract
  <2>8. \A t \in {Abstract(u) : u \in Owed} : t.key \in Published \ Published' => t.left <= Grace
    BY <2>7
  <2>9. {Abstract(t) : t \in Owed}' = {Abstract(t) : t \in Owed}
    BY <1>1, <1>7 DEF Owed, Abstract
  <2> QED  BY <1>3, <2>6, <2>8, <2>9, RingIs
<1> QED  BY <1>4, <1>5, <1>6, <1>7

\* Files, caches, the task, the handler and requests implement the ring of
\* keys: each of their steps publishes, signs, ages, withdraws or cuts as
\* KeyRing allows, or changes nothing that it can see.
THEOREM Refinement == Spec => RingSpec
<1>1. Init => Ring!Init
  <2> SUFFICES ASSUME Init PROVE Ring!Init
    OBVIOUS
  <2>1. Signing = None /\ tokens = {} /\ Published \subseteq Kids
    BY DEF Init, Signing, Published
  <2> QED  BY <2>1 DEF Ring!Init, Signing, Published
<1>2. Inv /\ [Next]_vars => [Ring!Next]_(Ring!ring)
  <2> SUFFICES ASSUME Inv, [Next]_vars PROVE Ring!Next \/ UNCHANGED Ring!ring
    OBVIOUS
  <2>1. UNCHANGED <<pub, tokens, cut>> => Ring!Rotate
    BY GrowsRotates
  <2>2. CASE TaskStep
    BY <2>1, <2>2, PubStays, OpenPubRotates, WritePubRotates DEF Ring!Next
  <2>3. ASSUME NEW a \in Actors, FileStep(a) PROVE Ring!Next
    BY <2>1, <2>3, PubStays, RemoveWithdraws DEF Ring!Next
  <2>4. ASSUME NEW r \in Scanners, Scan(r) PROVE Ring!Next
    BY <2>1, <2>4, PubStays DEF Ring!Next
  <2>5. CASE Check \/ Exit \/ Boot \/ Stop \/ Crash \/ UNCHANGED vars
    BY <2>1, <2>5, PubStays DEF Ring!Next
  <2>6. CASE CreateFirst \/ WriteFirst
    BY <2>6, FirstRotates DEF Ring!Next
  <2>7. CASE \E kind \in Kinds : Issue(kind)
    BY <2>7, IssueSigns DEF Ring!Next
  <2>8. CASE Tick
    BY <2>8, TickTicks DEF Ring!Next
  <2> QED  BY <2>2, <2>3, <2>4, <2>5, <2>6, <2>7, <2>8 DEF Next, Work
<1> QED  BY <1>1, <1>2, Invariance, PTL DEF Spec, RingSpec, Ring!Spec

-----------------------------------------------------------------------------
(* The promise of KeyRing *)

\* The types and the promise of KeyRing, read through the mapping, now and
\* after a step.
LEMMA PromiseIs ==
    /\ Ring!RingTypeOK <=> /\ Published \subseteq Kids /\ Signing \in Kids \union {None}
                           /\ {Abstract(t) : t \in Owed} \subseteq [key : Kids, left : 1..AccessTtl]
    /\ Ring!RingTypeOK' <=> /\ Published' \subseteq Kids /\ Signing' \in Kids \union {None}
                            /\ {Abstract(t) : t \in Owed}'
                                  \subseteq [key : Kids, left : 1..AccessTtl]
    /\ Ring!Honoured <=> \A t \in {Abstract(u) : u \in Owed} :
                            t.key \notin Published => t.left <= Grace
    /\ Ring!Honoured' <=> \A t \in {Abstract(u) : u \in Owed}' :
                             t.key \notin Published' => t.left <= Grace
  BY DEF Ring!RingTypeOK, Ring!Token, Ring!Honoured, Published, Signing, Owed, Abstract, Due, Ttl

\* KeyRotation gives KeyRing's constants values that it can have.
LEMMA ParametersFit == Ring!RingParameters
  BY Numbers, Values DEF Ring!RingParameters

\* Each step of KeyRing keeps the types and the promise: a token is issued with
\* a published key, ages, and loses its key only in its last ticks or with it.
LEMMA RingKeeps ==
  ASSUME Ring!RingTypeOK, Ring!Honoured, [Ring!Next]_(Ring!ring)
  PROVE  Ring!RingTypeOK' /\ Ring!Honoured'
<1> DEFINE T == {Abstract(t) : t \in Owed}
           Token == [key : Kids, left : 1..AccessTtl]
<1>1. /\ Published \subseteq Kids /\ Signing \in Kids \union {None} /\ T \subseteq Token
      /\ \A t \in T : t.key \notin Published => t.left <= Grace
  BY PromiseIs
<1>2. ASSUME Published' \subseteq Kids, Signing' \in Kids \union {None}, T' \subseteq Token,
             \A t \in T' : t.key \notin Published' => t.left <= Grace
      PROVE  Ring!RingTypeOK' /\ Ring!Honoured'
  BY <1>2, PromiseIs
<1>3. None \notin Kids /\ AccessTtl \in Nat \ {0} /\ Grace \in Nat
  BY ParametersFit DEF Ring!RingParameters
<1>4. CASE Ring!Rotate
  <2>1. /\ Published' \subseteq Kids /\ Published \subseteq Published'
        /\ Signing' \in Published' \union {None} /\ T' = T
    BY <1>4, RingIs
  <2> HIDE DEF T
  <2> QED  BY <1>1, <1>2, <2>1
<1>5. CASE Ring!Sign
  <2>1. /\ Signing \in Published /\ T' = T \union {[key |-> Signing, left |-> AccessTtl]}
        /\ Published' = Published /\ Signing' = Signing
    BY <1>5, RingIs
  <2> HIDE DEF T
  <2>2. [key |-> Signing, left |-> AccessTtl] \in Token
    BY <1>1, <1>3, <2>1
  <2> QED  BY <1>1, <1>2, <2>1, <2>2
<1>6. CASE Ring!Tick
  <2>1. T' = Ring!Older(T) /\ Signing' \in {Signing, None} /\ Published' = Published
    BY <1>6, RingIs
  <2> HIDE DEF T
  <2>2. ASSUME NEW t \in T'
        PROVE  t \in Token /\ (t.key \notin Published => t.left <= Grace)
    <3>1. PICK u \in T : u.left > 1 /\ t = [key |-> u.key, left |-> u.left - 1]
      BY <2>1 DEF Ring!Older
    <3>2. u.key \in Kids /\ u.left \in 1..AccessTtl /\ t.key = u.key /\ t.left = u.left - 1
      BY <1>1, <3>1
    <3>3. t.left \in 1..AccessTtl
      BY <1>3, <3>1, <3>2
    <3>4. t \in Token
      BY <3>1, <3>2, <3>3
    <3>5. u.key \notin Published => u.left <= Grace
      BY <1>1
    <3> QED  BY <1>3, <3>2, <3>4, <3>5
  <2> QED  BY <1>1, <1>2, <2>1, <2>2
<1>7. CASE Ring!Withdraw
  <2>1. /\ Published' \in SUBSET Published /\ Signing' = Signing /\ T' = T
        /\ \A t \in T : t.key \in Published \ Published' => t.left <= Grace
    BY <1>7, RingIs
  <2> HIDE DEF T
  <2> QED  BY <1>1, <1>2, <2>1
<1>8. CASE Ring!Cut
  <2>1. /\ Published' \in SUBSET Published /\ Signing' \in Published' \union {None}
        /\ T' = {t \in T : t.key \notin Published \ Published'}
    BY <1>8, RingIs
  <2> HIDE DEF T
  <2> QED  BY <1>1, <1>2, <2>1
<1>9. CASE UNCHANGED Ring!ring
  <2>1. Published' = Published /\ Signing' = Signing /\ T' = T
    BY <1>9, RingIs
  <2> HIDE DEF T
  <2> QED  BY <1>1, <1>2, <2>1
<1> QED  BY <1>4, <1>5, <1>6, <1>7, <1>8, <1>9 DEF Ring!Next

\* Whatever implements KeyRing keeps its promise: a token whose key is no
\* longer published is in the last Grace ticks of its Lifetime.
THEOREM RingHonours == RingSpec => []Ring!Honoured
<1>1. Ring!Init => Ring!RingTypeOK /\ Ring!Honoured
  BY DEF Ring!Init, Ring!RingTypeOK, Ring!Honoured
<1>2. Ring!RingTypeOK /\ Ring!Honoured /\ [Ring!Next]_(Ring!ring)
        => Ring!RingTypeOK' /\ Ring!Honoured'
  BY RingKeeps
<1> QED  BY <1>1, <1>2, PTL DEF RingSpec, Ring!Spec

\* A token that was verifiable when it was issued can be verified for
\* AccessTtl ticks but the last Grace, through every rotation, crash and
\* restart, unless a stop withdrew its pair: an access token all but the end
\* of its life, a refresh token no more than the beginning.
THEOREM TokensVerify == Spec => []TokensOutliveRotation
<1>1. Inv /\ Ring!Honoured => TokensOutliveRotation
  <2> SUFFICES ASSUME Inv, Ring!Honoured,
                      NEW t \in tokens, t.kid \notin cut, t.whole
               PROVE  pub[t.kid] = t.kid \/ Due(t) <= Grace
    BY DEF TokensOutliveRotation
  <2>1. t.kid \in Kids
    BY DEF Inv, TypeOK
  <2>2. \A r \in {Abstract(u) : u \in Owed} : r.key \notin Published => r.left <= Grace
    BY PromiseIs
  <2>3. Due(t) \in Int
    BY DueIs DEF Inv, TypeOK
  <2>4. CASE Due(t) > 0
    <3>1. /\ Abstract(t) \in {Abstract(u) : u \in Owed}
          /\ Abstract(t).key = t.kid /\ Abstract(t).left = Due(t)
      BY <2>4 DEF Owed, Abstract
    <3> QED  BY <2>1, <2>2, <3>1 DEF Published
  <2>5. CASE ~(Due(t) > 0)
    BY <2>3, <2>5, Numbers
  <2> QED  BY <2>4, <2>5
<1> QED  BY <1>1, Refinement, RingHonours, Invariance, PTL
===============================================================================
