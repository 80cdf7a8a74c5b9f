-------------------------- MODULE OrderSyncProofs --------------------------
(***************************************************************************)
(* Theorems about OrderSync for every number of requests, orders and       *)
(* statuses, with the fallback or without: the lock and the requests       *)
(* agree, rows never go back, and a completed synchronisation has stored   *)
(* every order that rested.                                                *)
(*                                                                         *)
(* The argument: what a synchronisation has seen of an order lies between  *)
(* the order's row and its status at Shopee.  The row's side holds because *)
(* only the holder of the lock writes rows, Shopee's because an order      *)
(* never moves back.                                                       *)
(***************************************************************************)
EXTENDS OrderSync, TLAPS

Busy(r) == phase[r] \in {"listing", "detailing", "notifying"}

\* Rows and details are never ahead of Shopee, details never behind the rows.
Between ==
    \A o \in Orders :
       /\ stored[o] <= stage[o]
       /\ \A r \in Reqs : seen[r][o] <= stage[o]
       /\ \A r \in Reqs :
             phase[r] = "detailing" /\ seen[r][o] # Absent => stored[o] <= seen[r][o]

\* Of an order that has not moved since the synchronisation began: once its
\* status has been listed it is found, and its details are what it is.
Tracked ==
    \A r \in Reqs :
       \A o \in still[r] :
          /\ phase[r] = "listing" /\ stage[o] # Absent /\ stage[o] \notin left[r] =>
                o \in found[r]
          /\ phase[r] = "detailing" /\ stage[o] # Absent => o \in found[r]
          /\ phase[r] = "detailing" /\ seen[r][o] # Absent => seen[r][o] = stage[o]

Inv == TypeOK /\ LockDiscipline /\ Between /\ Tracked

\* What the program knows before it has asked anything is well typed.
LEMMA BlankTypes ==
  /\ Nothing \in [Orders -> 0..LastStatus]
  /\ \A o \in Orders : Nothing[o] = 0
  /\ [r \in Reqs |-> Nothing] \in [Reqs -> [Orders -> 0..LastStatus]]
  /\ [r \in Reqs |-> "idle"] \in [Reqs -> Phases]
  /\ NoneOf \in [Reqs -> SUBSET Statuses]
  /\ NoneOf \in [Reqs -> SUBSET Orders]
<1>0. LastStatus \in Nat  BY SyncAssumption
<1>1. Nothing \in [Orders -> 0..LastStatus] /\ \A o \in Orders : Nothing[o] = 0
  BY <1>0 DEF Nothing, Absent
<1>2. [r \in Reqs |-> Nothing] \in [Reqs -> [Orders -> 0..LastStatus]]
  BY <1>1
<1>3. [r \in Reqs |-> "idle"] \in [Reqs -> Phases]  BY DEF Phases
<1>4. NoneOf \in [Reqs -> SUBSET Statuses] /\ NoneOf \in [Reqs -> SUBSET Orders]
  BY DEF NoneOf
<1> QED  BY <1>1, <1>2, <1>3, <1>4

-----------------------------------------------------------------------------
(* The lock *)

\* Two requests past the second check are one: both are the queue's head.
LEMMA OneHolder ==
  ASSUME LockDiscipline, NEW r1 \in Reqs, NEW r2 \in Reqs, Busy(r1), Busy(r2)
  PROVE  r1 = r2
  BY DEF LockDiscipline, Busy, HasLock

\* Joining the queue keeps the discipline.
LEMMA JoinDiscipline ==
  ASSUME queue \in Seq(Reqs), phase \in [Reqs -> Phases], LockDiscipline,
         NEW r \in Reqs, phase[r] = "idle",
         phase' = [phase EXCEPT ![r] = "waiting"], queue' = Append(queue, r)
  PROVE  LockDiscipline' /\ queue' \in Seq(Reqs)
<1> DEFINE n == Len(queue)
<1>1. /\ n \in Nat /\ Len(queue') = n + 1
      /\ \A i \in 1..n : queue'[i] = queue[i]
      /\ queue'[n + 1] = r /\ queue' \in Seq(Reqs)
  OBVIOUS
<1>2. \A x \in Reqs : phase'[x] = IF x = r THEN "waiting" ELSE phase[x]
  BY DEF Phases
<1>3. \A i \in 1..n : queue[i] # r  BY DEF LockDiscipline
<1>4. ASSUME NEW x \in Reqs
      PROVE  phase'[x] # "idle" <=> \E i \in 1..Len(queue') : queue'[i] = x
  <2>1. CASE x = r  BY <1>1, <1>2, <2>1
  <2>2. CASE x # r
    <3>1. phase[x] # "idle" <=> \E i \in 1..n : queue[i] = x  BY DEF LockDiscipline
    <3>2. (\E i \in 1..n : queue[i] = x) <=> \E i \in 1..(n + 1) : queue'[i] = x
      BY <1>1, <2>2
    <3> QED  BY <1>1, <1>2, <2>2, <3>1, <3>2
  <2> QED  BY <2>1, <2>2
<1>5. \A i, j \in 1..Len(queue') : queue'[i] = queue'[j] => i = j
  <2> SUFFICES ASSUME NEW i \in 1..(n + 1), NEW j \in 1..(n + 1), queue'[i] = queue'[j]
               PROVE  i = j
    BY <1>1
  <2>1. CASE i \in 1..n /\ j \in 1..n
    BY <1>1, <2>1 DEF LockDiscipline
  <2>2. CASE i = n + 1 \/ j = n + 1
    BY <1>1, <1>3, <2>2
  <2> QED  BY <1>1, <2>1, <2>2
<1>6. \A x \in Reqs : phase'[x] \notin {"idle", "waiting"} => HasLock(x)'
  <2> SUFFICES ASSUME NEW x \in Reqs, phase'[x] \notin {"idle", "waiting"}
               PROVE  HasLock(x)'
    OBVIOUS
  <2>1. x # r /\ phase[x] = phase'[x]  BY <1>2
  <2>2. queue # <<>> /\ Head(queue) = x  BY <2>1 DEF LockDiscipline, HasLock
  <2>3. n >= 1 /\ queue[1] = x  BY <2>2
  <2> QED  BY <1>1, <2>3 DEF HasLock
<1> QED  BY <1>1, <1>4, <1>5, <1>6 DEF LockDiscipline

\* Leaving it, by its head, keeps the discipline.
LEMMA LeaveDiscipline ==
  ASSUME queue \in Seq(Reqs), phase \in [Reqs -> Phases], LockDiscipline,
         NEW r \in Reqs, HasLock(r),
         phase' = [phase EXCEPT ![r] = "idle"], queue' = Tail(queue)
  PROVE  LockDiscipline' /\ queue' \in Seq(Reqs)
<1> DEFINE n == Len(queue)
<1>1. /\ n \in Nat /\ n >= 1 /\ queue[1] = r /\ Len(queue') = n - 1
      /\ \A i \in 1..(n - 1) : queue'[i] = queue[i + 1]
      /\ queue' \in Seq(Reqs)
  BY DEF HasLock
<1>2. \A x \in Reqs : phase'[x] = IF x = r THEN "idle" ELSE phase[x]
  BY DEF Phases
<1>3. \A i, j \in 1..n : queue[i] = queue[j] => i = j  BY DEF LockDiscipline
<1>4. ASSUME NEW x \in Reqs
      PROVE  phase'[x] # "idle" <=> \E i \in 1..(n - 1) : queue'[i] = x
  <2>1. CASE x = r
    <3>1. \A i \in 1..(n - 1) : i + 1 \in 1..n /\ i + 1 # 1  BY <1>1
    <3>2. \A i \in 1..(n - 1) : queue[i + 1] # r  BY <1>1, <1>3, <3>1
    <3> QED  BY <1>1, <1>2, <2>1, <3>2
  <2>2. CASE x # r
    <3>1. phase[x] # "idle" <=> \E i \in 1..n : queue[i] = x  BY DEF LockDiscipline
    <3>2. ASSUME NEW i \in 1..n, queue[i] = x
          PROVE  \E k \in 1..(n - 1) : queue'[k] = x
      <4>1. i # 1  BY <1>1, <2>2, <3>2
      <4>2. i - 1 \in 1..(n - 1) /\ queue'[i - 1] = queue[i]  BY <1>1, <4>1
      <4> QED  BY <3>2, <4>2
    <3>3. ASSUME NEW k \in 1..(n - 1), queue'[k] = x
          PROVE  \E i \in 1..n : queue[i] = x
      <4>1. k + 1 \in 1..n /\ queue[k + 1] = x  BY <1>1, <3>3
      <4> QED  BY <4>1
    <3> QED  BY <1>2, <2>2, <3>1, <3>2, <3>3
  <2> QED  BY <2>1, <2>2
<1>5. \A i, j \in 1..(n - 1) : queue'[i] = queue'[j] => i = j
  <2> SUFFICES ASSUME NEW i \in 1..(n - 1), NEW j \in 1..(n - 1), queue'[i] = queue'[j]
               PROVE  i = j
    OBVIOUS
  <2>1. i + 1 \in 1..n /\ j + 1 \in 1..n /\ queue[i + 1] = queue[j + 1]  BY <1>1
  <2>2. i + 1 = j + 1  BY <1>3, <2>1
  <2> QED  BY <2>2
<1>6. \A x \in Reqs : phase'[x] \notin {"idle", "waiting"} => HasLock(x)'
  <2> SUFFICES ASSUME NEW x \in Reqs, phase'[x] \notin {"idle", "waiting"}
               PROVE  FALSE
    OBVIOUS
  <2>1. x # r /\ phase[x] \notin {"idle", "waiting"}  BY <1>2
  <2> QED  BY <2>1 DEF LockDiscipline, HasLock
<1> QED  BY <1>1, <1>4, <1>5, <1>6 DEF LockDiscipline

\* A step of the holder that leaves the queue alone keeps it.
LEMMA HolderDiscipline ==
  ASSUME LockDiscipline, phase \in [Reqs -> Phases], NEW r \in Reqs, HasLock(r),
         phase[r] # "idle",
         NEW p \in {"listing", "detailing", "notifying"},
         phase' = [phase EXCEPT ![r] = p], queue' = queue
  PROVE  LockDiscipline'
<1>1. \A x \in Reqs : phase'[x] = IF x = r THEN p ELSE phase[x]
  BY DEF Phases
<1> QED  BY <1>1 DEF LockDiscipline, HasLock

-----------------------------------------------------------------------------
(* One lemma per action *)

\* An order that moves on leaves rows and details behind it, and is no longer
\* at rest.
LEMMA AdvanceInv ==
  ASSUME Inv, NEW x \in Orders, Advance(x)
  PROVE  Inv'
<1>0. TypeOK /\ LockDiscipline /\ Between /\ Tracked /\ LastStatus \in Nat
  BY SyncAssumption DEF Inv
<1>1. PICK k \in Statuses : k > stage[x] /\ stage' = [stage EXCEPT ![x] = k]
  BY DEF Advance
<1>2. /\ stage' \in [Orders -> 0..LastStatus]
      /\ \A o \in Orders : stage'[o] = IF o = x THEN k ELSE stage[o]
      /\ \A o \in Orders : stage[o] <= stage'[o]
  BY <1>0, <1>1 DEF TypeOK, Statuses
<1>3. /\ still' = [r \in Reqs |-> still[r] \ {x}]
      /\ stored' = stored /\ valid' = valid /\ queue' = queue /\ phase' = phase
      /\ left' = left /\ found' = found /\ todo' = todo /\ seen' = seen /\ owed' = owed
  BY DEF Advance, sync
<1>4. TypeOK'  BY <1>0, <1>2, <1>3 DEF TypeOK
<1>5. LockDiscipline'  BY <1>0, <1>3 DEF LockDiscipline, HasLock
<1>6. Between'  BY <1>0, <1>2, <1>3 DEF Between, TypeOK
<1>7. Tracked'
  <2>1. \A r \in Reqs : \A o \in still'[r] : o # x /\ o \in still[r] /\ stage'[o] = stage[o]
    BY <1>0, <1>2, <1>3 DEF TypeOK
  <2> QED  BY <1>0, <1>3, <2>1 DEF Tracked
<1> QED  BY <1>4, <1>5, <1>6, <1>7 DEF Inv

\* Invalidation changes the flag only.
LEMMA InvalidateInv ==
  ASSUME Inv, Invalidate
  PROVE  Inv'
  BY DEF Invalidate, sync, history, Inv, TypeOK, LockDiscipline, HasLock, Between, Tracked

\* A restart forgets all but Shopee and the rows.
LEMMA RestartInv ==
  ASSUME Inv, Restart
  PROVE  Inv'
<1>0. TypeOK /\ Between /\ LastStatus \in Nat  BY SyncAssumption DEF Inv
<1>1. /\ valid' = FALSE /\ queue' = <<>>
      /\ phase' = [r \in Reqs |-> "idle"]
      /\ left' = NoneOf /\ found' = NoneOf /\ todo' = NoneOf
      /\ seen' = [r \in Reqs |-> Nothing]
      /\ still' = NoneOf /\ owed' = {}
      /\ stage' = stage /\ stored' = stored
  BY DEF Restart
<1>2. Nothing \in [Orders -> 0..LastStatus] /\ \A o \in Orders : Nothing[o] = 0
  BY BlankTypes
<1>3. TypeOK'
  <2>1. queue' \in Seq(Reqs)  BY <1>1
  <2>2. left' \in [Reqs -> SUBSET Statuses] /\ found' \in [Reqs -> SUBSET Orders]
        /\ todo' \in [Reqs -> SUBSET Orders] /\ still' \in [Reqs -> SUBSET Orders]
    BY <1>1, BlankTypes
  <2>3. phase' \in [Reqs -> Phases] /\ seen' \in [Reqs -> [Orders -> 0..LastStatus]]
    BY <1>1, BlankTypes
  <2> QED  BY <1>0, <1>1, <2>1, <2>2, <2>3 DEF TypeOK
<1>4. LockDiscipline'  BY <1>1 DEF LockDiscipline, HasLock
<1>5. Between'  BY <1>0, <1>1, <1>2 DEF Between, TypeOK, Absent
<1>6. Tracked'  BY <1>1 DEF Tracked, NoneOf
<1> QED  BY <1>3, <1>4, <1>5, <1>6 DEF Inv

\* An arriving request joins the queue.
LEMMA RequestInv ==
  ASSUME Inv, NEW r \in Reqs, NEW refresh \in BOOLEAN, Request(r, refresh)
  PROVE  Inv'
<1>0. TypeOK /\ LockDiscipline /\ Between /\ Tracked  BY DEF Inv
<1>1. /\ phase[r] = "idle" /\ valid' = FALSE
      /\ phase' = [phase EXCEPT ![r] = "waiting"]
      /\ queue' = Append(queue, r)
      /\ owed' = IF refresh THEN owed \cup {r} ELSE owed
      /\ stage' = stage /\ stored' = stored /\ still' = still
      /\ left' = left /\ found' = found /\ todo' = todo /\ seen' = seen
  BY DEF Request, sync
<1>2. LockDiscipline' /\ queue' \in Seq(Reqs)
  BY <1>0, <1>1, JoinDiscipline DEF TypeOK
<1>3. \A x \in Reqs : phase'[x] = IF x = r THEN "waiting" ELSE phase[x]
  BY <1>0, <1>1 DEF TypeOK
<1>4. TypeOK'  BY <1>0, <1>1, <1>2 DEF TypeOK, Phases
<1>5. Between'  BY <1>0, <1>1, <1>3 DEF Between
<1>6. Tracked'  BY <1>0, <1>1, <1>3 DEF Tracked
<1> QED  BY <1>2, <1>4, <1>5, <1>6 DEF Inv

\* Leaving with the lock, whatever the answer was.
LEMMA LeaveInv ==
  ASSUME Inv, NEW r \in Reqs, HasLock(r), Leave(r), UNCHANGED <<stage, stored, valid>>
  PROVE  Inv'
<1>0. TypeOK /\ LockDiscipline /\ Between /\ Tracked /\ LastStatus \in Nat
  BY SyncAssumption DEF Inv
<1>1. /\ phase' = [phase EXCEPT ![r] = "idle"] /\ queue' = Tail(queue)
      /\ owed' = owed \ {r}
      /\ left' = [left EXCEPT ![r] = {}]
      /\ found' = [found EXCEPT ![r] = {}]
      /\ todo' = [todo EXCEPT ![r] = {}]
      /\ seen' = [seen EXCEPT ![r] = Nothing]
      /\ still' = [still EXCEPT ![r] = {}]
      /\ stage' = stage /\ stored' = stored /\ valid' = valid
  BY DEF Leave, Forget
<1>2. LockDiscipline' /\ queue' \in Seq(Reqs)
  BY <1>0, <1>1, LeaveDiscipline DEF TypeOK
<1>3. Nothing \in [Orders -> 0..LastStatus] /\ \A o \in Orders : Nothing[o] = 0
  BY BlankTypes
<1>4. \A x \in Reqs :
         /\ phase'[x] = IF x = r THEN "idle" ELSE phase[x]
         /\ found'[x] = IF x = r THEN {} ELSE found[x]
         /\ todo'[x] = IF x = r THEN {} ELSE todo[x]
         /\ left'[x] = IF x = r THEN {} ELSE left[x]
         /\ seen'[x] = IF x = r THEN Nothing ELSE seen[x]
         /\ still'[x] = IF x = r THEN {} ELSE still[x]
  BY <1>0, <1>1 DEF TypeOK
<1>5. TypeOK'  BY <1>0, <1>1, <1>2, <1>3 DEF TypeOK, Phases
<1>6. Between'  BY <1>0, <1>1, <1>3, <1>4 DEF Between, TypeOK, Absent
<1>7. Tracked'  BY <1>0, <1>1, <1>4 DEF Tracked
<1> QED  BY <1>2, <1>5, <1>6, <1>7 DEF Inv

\* The sync starts with everything at rest and nothing found.
LEMMA BeginInv ==
  ASSUME Inv, NEW r \in Reqs, Begin(r)
  PROVE  Inv'
<1>0. TypeOK /\ LockDiscipline /\ Between /\ Tracked /\ LastStatus \in Nat
  BY SyncAssumption DEF Inv
<1>1. /\ phase[r] = "waiting" /\ HasLock(r)
      /\ phase' = [phase EXCEPT ![r] = "listing"]
      /\ left' = [left EXCEPT ![r] = Statuses]
      /\ found' = [found EXCEPT ![r] = {}]
      /\ still' = [still EXCEPT ![r] = Orders]
      /\ owed' = owed \ {r}
      /\ stage' = stage /\ stored' = stored /\ valid' = valid /\ queue' = queue
      /\ todo' = todo /\ seen' = seen
  BY DEF Begin
<1>2. \A x \in Reqs :
         /\ phase'[x] = IF x = r THEN "listing" ELSE phase[x]
         /\ found'[x] = IF x = r THEN {} ELSE found[x]
         /\ left'[x] = IF x = r THEN Statuses ELSE left[x]
         /\ still'[x] = IF x = r THEN Orders ELSE still[x]
  BY <1>0, <1>1 DEF TypeOK
<1>3. TypeOK'  BY <1>0, <1>1 DEF TypeOK, Phases
<1>4. LockDiscipline'  BY <1>0, <1>1, HolderDiscipline DEF TypeOK
<1>5. Between'  BY <1>0, <1>1, <1>2 DEF Between
<1>6. Tracked'
  <2>1. \A o \in Orders : stage[o] # Absent => stage[o] \in Statuses
    BY <1>0 DEF TypeOK, Statuses, Absent
  <2> QED  BY <1>0, <1>1, <1>2, <2>1 DEF Tracked
<1> QED  BY <1>3, <1>4, <1>5, <1>6 DEF Inv

\* A list holds every order at rest in its status.
LEMMA ListInv ==
  ASSUME Inv, NEW r \in Reqs, NEW s \in Statuses, List(r, s)
  PROVE  Inv'
<1>0. TypeOK /\ LockDiscipline /\ Between /\ Tracked  BY DEF Inv
<1>1. /\ phase[r] = "listing"
      /\ left' = [left EXCEPT ![r] = left[r] \ {s}]
      /\ found' = [found EXCEPT ![r] = found[r] \cup {o \in Orders : stage[o] = s}]
      /\ stage' = stage /\ stored' = stored /\ valid' = valid /\ queue' = queue
      /\ phase' = phase /\ todo' = todo /\ seen' = seen /\ still' = still /\ owed' = owed
  BY DEF List, history
<1>2. \A x \in Reqs :
         /\ found'[x] = IF x = r THEN found[r] \cup {o \in Orders : stage[o] = s} ELSE found[x]
         /\ left'[x] = IF x = r THEN left[r] \ {s} ELSE left[x]
  BY <1>0, <1>1 DEF TypeOK
<1>3. TypeOK'  BY <1>0, <1>1 DEF TypeOK
<1>4. LockDiscipline'  BY <1>0, <1>1 DEF LockDiscipline, HasLock
<1>5. Between'  BY <1>0, <1>1 DEF Between
<1>6. Tracked'  BY <1>0, <1>1, <1>2 DEF Tracked, TypeOK
<1> QED  BY <1>3, <1>4, <1>5, <1>6 DEF Inv

\* When every status is listed, every order at rest is found.
LEMMA ListedInv ==
  ASSUME Inv, NEW r \in Reqs, Listed(r)
  PROVE  Inv'
<1>0. TypeOK /\ LockDiscipline /\ Between /\ Tracked /\ LastStatus \in Nat
  BY SyncAssumption DEF Inv
<1>1. /\ phase[r] = "listing" /\ left[r] = {}
      /\ phase' = [phase EXCEPT ![r] = "detailing"]
      /\ todo' = [todo EXCEPT ![r] = found[r]]
      /\ seen' = [seen EXCEPT ![r] = Nothing]
      /\ stage' = stage /\ stored' = stored /\ valid' = valid /\ queue' = queue
      /\ left' = left /\ found' = found /\ still' = still /\ owed' = owed
  BY DEF Listed, history
<1>2. Nothing \in [Orders -> 0..LastStatus] /\ \A o \in Orders : Nothing[o] = 0
  BY BlankTypes
<1>3. \A x \in Reqs :
         /\ phase'[x] = IF x = r THEN "detailing" ELSE phase[x]
         /\ seen'[x] = IF x = r THEN Nothing ELSE seen[x]
  BY <1>0, <1>1 DEF TypeOK
<1>4. TypeOK'  BY <1>0, <1>1, <1>2 DEF TypeOK, Phases
<1>5. LockDiscipline'
  <2>1. HasLock(r)  BY <1>0, <1>1 DEF LockDiscipline
  <2> QED  BY <1>0, <1>1, <2>1, HolderDiscipline DEF TypeOK
<1>6. Between'  BY <1>0, <1>1, <1>2, <1>3 DEF Between, TypeOK, Absent
<1>7. Tracked'
  <2> SUFFICES ASSUME NEW x \in Reqs, NEW o \in still'[x]
               PROVE  /\ phase'[x] = "listing" /\ stage'[o] # Absent
                             /\ stage'[o] \notin left'[x] => o \in found'[x]
                      /\ phase'[x] = "detailing" /\ stage'[o] # Absent => o \in found'[x]
                      /\ phase'[x] = "detailing" /\ seen'[x][o] # Absent =>
                            seen'[x][o] = stage'[o]
    BY DEF Tracked
  <2>1. o \in still[x] /\ o \in Orders  BY <1>0, <1>1 DEF TypeOK
  <2>2. CASE x = r  BY <1>0, <1>1, <1>2, <1>3, <2>1, <2>2 DEF Tracked, Absent
  <2>3. CASE x # r  BY <1>0, <1>1, <1>3, <2>1, <2>3 DEF Tracked
  <2> QED  BY <2>2, <2>3
<1> QED  BY <1>4, <1>5, <1>6, <1>7 DEF Inv

\* Details are what the order is when they are asked for.
LEMMA DetailInv ==
  ASSUME Inv, NEW r \in Reqs, NEW x \in Orders, Detail(r, x)
  PROVE  Inv'
<1>0. TypeOK /\ LockDiscipline /\ Between /\ Tracked /\ LastStatus \in Nat
  BY SyncAssumption DEF Inv
<1>1. /\ phase[r] = "detailing"
      /\ todo' = [todo EXCEPT ![r] = todo[r] \ {x}]
      /\ seen' = [seen EXCEPT ![r] = [seen[r] EXCEPT ![x] = stage[x]]]
      /\ stage' = stage /\ stored' = stored /\ valid' = valid /\ queue' = queue
      /\ phase' = phase /\ left' = left /\ found' = found /\ still' = still /\ owed' = owed
  BY DEF Detail, history
<1>2. \A q \in Reqs, o \in Orders :
         seen'[q][o] = IF q = r /\ o = x THEN stage[x] ELSE seen[q][o]
  BY <1>0, <1>1 DEF TypeOK
<1>3. TypeOK'  BY <1>0, <1>1 DEF TypeOK
<1>4. LockDiscipline'  BY <1>0, <1>1 DEF LockDiscipline, HasLock
<1>5. Between'  BY <1>0, <1>1, <1>2 DEF Between, TypeOK
<1>6. Tracked'
  <2>1. \A q \in Reqs : still[q] \subseteq Orders  BY <1>0 DEF TypeOK
  <2> QED  BY <1>0, <1>1, <1>2, <2>1 DEF Tracked
<1> QED  BY <1>3, <1>4, <1>5, <1>6 DEF Inv

\* A skipped chunk teaches nothing.
LEMMA SkipInv ==
  ASSUME Inv, NEW r \in Reqs, NEW x \in Orders, SkipChunk(r, x)
  PROVE  Inv'
<1>0. TypeOK /\ LockDiscipline /\ Between /\ Tracked  BY DEF Inv
<1>1. /\ todo' = [todo EXCEPT ![r] = todo[r] \ {x}]
      /\ stage' = stage /\ stored' = stored /\ valid' = valid /\ queue' = queue
      /\ phase' = phase /\ left' = left /\ found' = found /\ seen' = seen
      /\ still' = still /\ owed' = owed
  BY DEF SkipChunk, history
<1>2. TypeOK'  BY <1>0, <1>1 DEF TypeOK
<1> QED  BY <1>0, <1>1, <1>2 DEF Inv, LockDiscipline, HasLock, Between, Tracked

\* The commit writes what was seen; no other request is at its details.
LEMMA CommitInv ==
  ASSUME Inv, NEW r \in Reqs, Commit(r)
  PROVE  Inv'
<1>0. TypeOK /\ LockDiscipline /\ Between /\ Tracked /\ LastStatus \in Nat
  BY SyncAssumption DEF Inv
<1>1. /\ phase[r] = "detailing"
      /\ stored' = [o \in Orders |-> IF seen[r][o] # Absent THEN seen[r][o] ELSE stored[o]]
      /\ valid' = TRUE
      /\ phase' = [phase EXCEPT ![r] = "notifying"]
      /\ stage' = stage /\ queue' = queue /\ left' = left /\ found' = found
      /\ todo' = todo /\ seen' = seen /\ still' = still /\ owed' = {}
  BY DEF Commit, sync
<1>2. \A x \in Reqs : phase'[x] = IF x = r THEN "notifying" ELSE phase[x]
  BY <1>0, <1>1 DEF TypeOK
<1>3. TypeOK'  BY <1>0, <1>1 DEF TypeOK, Phases
<1>4. LockDiscipline'
  <2>1. HasLock(r)  BY <1>0, <1>1 DEF LockDiscipline
  <2> QED  BY <1>0, <1>1, <2>1, HolderDiscipline DEF TypeOK
<1>5. Between'
  <2>1. \A x \in Reqs : phase[x] = "detailing" => x = r
    BY <1>0, <1>1, OneHolder DEF Busy
  <2>2. \A x \in Reqs : phase'[x] # "detailing"  BY <1>2, <2>1
  <2>3. \A o \in Orders : stored'[o] = IF seen[r][o] # Absent THEN seen[r][o] ELSE stored[o]
    BY <1>1
  <2> QED  BY <1>0, <1>1, <2>2, <2>3 DEF Between
<1>6. Tracked'  BY <1>0, <1>1, <1>2 DEF Tracked
<1> QED  BY <1>3, <1>4, <1>5, <1>6 DEF Inv

\* A failure that falls back to the rows there are goes on with the lock.
LEMMA FallbackInv ==
  ASSUME Inv, NEW r \in Reqs, phase[r] \in {"listing", "detailing"},
         phase' = [phase EXCEPT ![r] = "notifying"], Forget(r),
         UNCHANGED <<queue, owed, stage, stored, valid>>
  PROVE  Inv'
<1>0. TypeOK /\ LockDiscipline /\ Between /\ Tracked /\ LastStatus \in Nat
  BY SyncAssumption DEF Inv
<1>1. /\ left' = [left EXCEPT ![r] = {}]
      /\ found' = [found EXCEPT ![r] = {}]
      /\ todo' = [todo EXCEPT ![r] = {}]
      /\ seen' = [seen EXCEPT ![r] = Nothing]
      /\ still' = [still EXCEPT ![r] = {}]
      /\ stage' = stage /\ stored' = stored /\ valid' = valid
      /\ queue' = queue /\ owed' = owed
  BY DEF Forget
<1>2. Nothing \in [Orders -> 0..LastStatus] /\ \A o \in Orders : Nothing[o] = 0
  BY BlankTypes
<1>3. \A x \in Reqs :
         /\ phase'[x] = IF x = r THEN "notifying" ELSE phase[x]
         /\ found'[x] = IF x = r THEN {} ELSE found[x]
         /\ left'[x] = IF x = r THEN {} ELSE left[x]
         /\ seen'[x] = IF x = r THEN Nothing ELSE seen[x]
         /\ still'[x] = IF x = r THEN {} ELSE still[x]
  BY <1>0, <1>1 DEF TypeOK
<1>4. TypeOK'  BY <1>0, <1>1, <1>2 DEF TypeOK, Phases
<1>5. LockDiscipline'
  <2>1. HasLock(r)  BY <1>0 DEF LockDiscipline
  <2> QED  BY <1>0, <1>1, <2>1, HolderDiscipline DEF TypeOK
<1>6. Between'  BY <1>0, <1>1, <1>2, <1>3 DEF Between, TypeOK, Absent
<1>7. Tracked'  BY <1>0, <1>1, <1>3 DEF Tracked
<1> QED  BY <1>4, <1>5, <1>6, <1>7 DEF Inv

\* Every step a request takes by itself keeps the invariant.
LEMMA WorkInv ==
  ASSUME Inv, NEW r \in Reqs, Work(r)
  PROVE  Inv'
<1>0. LockDiscipline  BY DEF Inv
<1>1. CASE AnswerFromCache(r)  BY <1>1, LeaveInv DEF AnswerFromCache
<1>2. CASE Begin(r)  BY <1>2, BeginInv
<1>3. CASE \E s \in Statuses : List(r, s)  BY <1>3, ListInv
<1>4. CASE Listed(r)  BY <1>4, ListedInv
<1>5. CASE \E o \in Orders : Detail(r, o) \/ SkipChunk(r, o)
  BY <1>5, DetailInv, SkipInv
<1>6. CASE Commit(r)  BY <1>6, CommitInv
<1>7. CASE Release(r)
  <2>1. HasLock(r)  BY <1>0, <1>7 DEF Release, LockDiscipline
  <2> QED  BY <1>7, <2>1, LeaveInv DEF Release
<1>8. CASE Fail(r)
  <2>1. phase[r] \in {"listing", "detailing"} /\ HasLock(r)
    BY <1>0, <1>8 DEF Fail, LockDiscipline
  <2> QED  BY <1>8, <2>1, FallbackInv, LeaveInv DEF Fail
<1> QED  BY <1>1, <1>2, <1>3, <1>4, <1>5, <1>6, <1>7, <1>8 DEF Work

-----------------------------------------------------------------------------
(* Theorems *)

\* The invariant holds in every state.
THEOREM InvHolds == Spec => []Inv
<1>1. Init => Inv
  <2> SUFFICES ASSUME Init PROVE Inv
    OBVIOUS
  <2>1. LastStatus \in Nat  BY SyncAssumption
  <2>2. Nothing \in [Orders -> 0..LastStatus] /\ \A o \in Orders : Nothing[o] = 0
    BY BlankTypes
  <2>3. TypeOK
    <3>1. queue \in Seq(Reqs)  BY DEF Init
    <3>2. left \in [Reqs -> SUBSET Statuses] /\ found \in [Reqs -> SUBSET Orders]
          /\ todo \in [Reqs -> SUBSET Orders] /\ still \in [Reqs -> SUBSET Orders]
      BY BlankTypes DEF Init
    <3>3. phase \in [Reqs -> Phases] /\ seen \in [Reqs -> [Orders -> 0..LastStatus]]
      BY BlankTypes DEF Init
    <3>4. stage \in [Orders -> 0..LastStatus] /\ stored \in [Orders -> 0..LastStatus]
      BY BlankTypes DEF Init
    <3> QED  BY <3>1, <3>2, <3>3, <3>4 DEF Init, TypeOK
  <2>4. LockDiscipline  BY DEF Init, LockDiscipline, HasLock
  <2>5. Between  BY <2>2 DEF Init, Between, Absent
  <2>6. Tracked  BY DEF Init, Tracked, NoneOf
  <2> QED  BY <2>3, <2>4, <2>5, <2>6 DEF Inv
<1>2. Inv /\ [Next]_vars => Inv'
  <2> SUFFICES ASSUME Inv, [Next]_vars PROVE Inv'
    OBVIOUS
  <2>1. CASE UNCHANGED vars
    BY <2>1 DEF vars, sync, history, Inv, TypeOK, LockDiscipline, HasLock, Between, Tracked
  <2>2. CASE \E o \in Orders : Advance(o)  BY <2>2, AdvanceInv
  <2>3. CASE Invalidate  BY <2>3, InvalidateInv
  <2>4. CASE Restart  BY <2>4, RestartInv
  <2>5. CASE \E r \in Reqs, refresh \in BOOLEAN : Request(r, refresh)
    BY <2>5, RequestInv
  <2>6. CASE \E r \in Reqs : Work(r)  BY <2>6, WorkInv
  <2> QED  BY <2>1, <2>2, <2>3, <2>4, <2>5, <2>6 DEF Next
<1> QED  BY <1>1, <1>2, PTL DEF Spec

\* Every variable keeps its type.
THEOREM TypeCorrect == Spec => []TypeOK
<1>1. Inv => TypeOK  BY DEF Inv
<1> QED  BY <1>1, InvHolds, PTL

\* One request at a time is past the second check, and no request is lost to
\* the queue or stays in it when it has been answered.
THEOREM LockIsKept == Spec => []LockDiscipline
<1>1. Inv => LockDiscipline  BY DEF Inv
<1> QED  BY <1>1, InvHolds, PTL

\* No commit writes an older status over a newer one.
THEOREM RowsNeverGoBack == Spec => StoredNeverGoesBack
<1>1. Inv /\ [Next]_vars => [\A o \in Orders : stored'[o] >= stored[o]]_vars
  <2> SUFFICES ASSUME Inv, Next, NEW o \in Orders PROVE stored'[o] >= stored[o]
    OBVIOUS
  <2>0. TypeOK /\ Between /\ stored[o] \in Int  BY DEF Inv, TypeOK
  <2>1. ASSUME NEW r \in Reqs, Commit(r) PROVE stored'[o] >= stored[o]
    <3>1. /\ phase[r] = "detailing"
          /\ stored'[o] = IF seen[r][o] # Absent THEN seen[r][o] ELSE stored[o]
      BY <2>1 DEF Commit
    <3>2. seen[r][o] \in Int  BY <2>0 DEF TypeOK
    <3> QED  BY <2>0, <3>1, <3>2 DEF Between
  <2>2. CASE stored' = stored  BY <2>0, <2>2
  <2>3. ASSUME NEW r \in Reqs, Work(r), ~Commit(r) PROVE stored' = stored
    BY <2>3 DEF Work, AnswerFromCache, Begin, List, Listed, Detail, SkipChunk, Release, Fail
  <2>4. CASE (\E x \in Orders : Advance(x)) \/ Invalidate \/ Restart
             \/ \E r \in Reqs, refresh \in BOOLEAN : Request(r, refresh)
    BY <2>2, <2>4 DEF Advance, Invalidate, Restart, Request
  <2> QED  BY <2>1, <2>2, <2>3, <2>4 DEF Next
<1> QED  BY <1>1, InvHolds, PTL DEF Spec, StoredNeverGoesBack

\* A completed synchronisation has stored every order that rested, unless its
\* chunk failed.
THEOREM RestingIsCaught == Spec => SyncCatchesResting
<1>1. ASSUME Inv, NEW r \in Reqs, Commit(r), NEW o \in still[r]
      PROVE  \/ stage[o] = Absent
             \/ o \in found[r] /\ seen[r][o] = Absent
             \/ stored'[o] = stage[o]
  <2>1. o \in Orders  BY <1>1 DEF Inv, TypeOK
  <2>2. phase[r] = "detailing" /\ Tracked  BY <1>1 DEF Commit, Inv
  <2>3. stored'[o] = IF seen[r][o] # Absent THEN seen[r][o] ELSE stored[o]
    BY <1>1, <2>1 DEF Commit
  <2> QED  BY <1>1, <2>2, <2>3 DEF Tracked
<1>2. Inv /\ [Next]_vars =>
        [\A r \in Reqs :
            Commit(r) =>
               \A o \in still[r] :
                  \/ stage[o] = Absent
                  \/ o \in found[r] /\ seen[r][o] = Absent
                  \/ stored'[o] = stage[o]]_vars
  BY <1>1
<1> QED  BY <1>2, InvHolds, PTL DEF Spec, SyncCatchesResting

\* Only a commit makes the cache valid, and it serves every refresh that waits.
Served == valid => owed = {}

\* No refresh is answered from what the cache held when it was made.
THEOREM RefreshesSynchronise == Spec => RefreshSynchronises
<1>1. Init => Served  BY DEF Init, Served
<1>2. Served /\ [Next]_vars => Served'
  <2> SUFFICES ASSUME Served, [Next]_vars, valid' PROVE owed' = {}
    BY DEF Served
  <2>1. CASE UNCHANGED vars  BY <2>1 DEF vars, history, Served
  <2>2. CASE \E o \in Orders : Advance(o)  BY <2>2 DEF Advance, Served
  <2>3. CASE Invalidate  BY <2>3 DEF Invalidate
  <2>4. CASE Restart  BY <2>4 DEF Restart
  <2>5. CASE \E r \in Reqs, refresh \in BOOLEAN : Request(r, refresh)
    BY <2>5 DEF Request
  <2>6. ASSUME NEW r \in Reqs, Work(r)  PROVE owed' = {}
    <3>1. CASE Commit(r)  BY <3>1 DEF Commit
    <3>2. CASE AnswerFromCache(r) \/ Release(r) \/ Fail(r)
      BY <3>2 DEF AnswerFromCache, Release, Fail, Leave, Served
    <3>3. CASE Begin(r)  BY <3>3 DEF Begin, Served
    <3>4. CASE Listed(r) \/ \E s \in Statuses : List(r, s)
      BY <3>4 DEF List, Listed, history, Served
    <3>5. CASE \E o \in Orders : Detail(r, o) \/ SkipChunk(r, o)
      BY <3>5 DEF Detail, SkipChunk, history, Served
    <3> QED  BY <2>6, <3>1, <3>2, <3>3, <3>4, <3>5 DEF Work
  <2> QED  BY <2>1, <2>2, <2>3, <2>4, <2>5, <2>6 DEF Next
<1>3. Served => \A r \in Reqs : AnswerFromCache(r) => r \notin owed
  BY DEF Served, AnswerFromCache
<1>4. Served /\ [Next]_vars => [\A r \in Reqs : AnswerFromCache(r) => r \notin owed]_vars
  BY <1>3
<1> QED  BY <1>1, <1>2, <1>4, PTL DEF Spec, RefreshSynchronises
=============================================================================
