-------------------------- MODULE ShopeeTokensProofs --------------------------
(***************************************************************************)
(* Theorems about ShopeeTokens for any number of calls, retries and pairs: *)
(* one call refreshes at a time, a refresh token is spent once and stored, *)
(* a call that is tried again carries another token, and a tripped breaker *)
(* stops every refresh.                                                    *)
(*                                                                         *)
(* The argument: the call at the head of the lock is the only one that     *)
(* writes (LockSound); pairs are numbered and nothing is newer than the    *)
(* newest (Numbered); as long as nobody has meddled the stored access      *)
(* token only grows, past every one a call has read or was refused (Clean).*)
(* A crash empties the lock and ends every call; what it leaves in Redis is*)
(* older than Shopee's only where the history says so (Stored).            *)
(***************************************************************************)
EXTENDS ShopeeTokens, TLAPS

Queued == {"lock"} \union Refreshing
Storing == {"storeAccess", "storeRefresh"}

\* The lock holds the calls that wait for it or refresh, each once, and the
\* one that refreshes is its head.
LockSound ==
    /\ \A w \in Workers : pc[w] \in Queued <=> \E i \in 1..Len(lock) : lock[i] = w
    /\ \A i, j \in 1..Len(lock) : lock[i] = lock[j] => i = j
    /\ \A w \in Workers : pc[w] \in Refreshing => lock # <<>> /\ Head(lock) = w

\* Nothing is newer than the newest pair.
Numbered ==
    /\ access <= newest /\ refresh <= newest
    /\ page.access <= newest /\ page.refresh <= newest
    /\ saving.access <= newest /\ saving.refresh <= newest

\* A form that is complete has both tokens.
Whole ==
    /\ page.refresh # 0 => page.access # 0
    /\ saving # NoPair => saving.access # 0 /\ saving.refresh # 0

\* A call carries no token newer than the newest, and none to send or to
\* store that is not one.  It does not refresh once the breaker has tripped.
Sound(w) ==
    /\ used[w] <= newest /\ carried[w] <= newest
    /\ pc[w] \in {"post"} \union Storing => carried[w] # 0
    /\ pc[w] \in Refreshing => ~fatal

\* Unless somebody meddled, a call carries no token newer than the stored
\* one, was refused an older one, and refreshes with the newest, or with what
\* a crash left.
Clean(w) ==
    /\ used[w] <= access
    /\ failed[w] # 0 => failed[w] < access
    /\ pc[w] = "post" => carried[w] = newest \/ torn
    /\ pc[w] \in Storing => carried[w] = newest /\ used[w] < newest
    /\ pc[w] = "storeRefresh" => access = newest

\* Unless somebody meddled, the newest refresh token is stored or will be, or
\* a failure or a crash has lost it.
Stored == refresh = newest \/ fatal \/ torn \/ \E w \in Workers : pc[w] \in Storing

Inv ==
    /\ TypeOK /\ LockSound /\ Numbered /\ Whole
    /\ \A w \in Workers : Sound(w)
    /\ ~meddled => Stored /\ \A w \in Workers : Clean(w)

\* The history is only ever looked at by its parts.
USE DEF history

-----------------------------------------------------------------------------
(* How a step changes one call *)

\* The calls have their types.
CallsTyped ==
    /\ pc \in [Workers -> Points]
    /\ used \in [Workers -> 0..LastPair] /\ failed \in [Workers -> 0..LastPair]
    /\ carried \in [Workers -> 0..LastPair] /\ tries \in [Workers -> 0..MaxRetries]

\* Only call w changes.
Only(w) ==
    \A v \in Workers \ {w} :
       /\ pc'[v] = pc[v] /\ used'[v] = used[v] /\ failed'[v] = failed[v]
       /\ carried'[v] = carried[v]

\* Call w has become this.
Now(w, l, u, f, c) ==
    pc'[w] = l /\ used'[w] = u /\ failed'[w] = f /\ carried'[w] = c

\* The bounds are numbers.
LEMMA Numbers == LastPair \in Nat /\ LastPair > 0 /\ MaxRetries \in Nat
  BY TokensAssumption

\* A call that moves on.
LEMMA GoFacts ==
  ASSUME CallsTyped, NEW w \in Workers, NEW l \in Points, Go(w, l),
         UNCHANGED <<used, failed, tries, carried>>
  PROVE  CallsTyped' /\ Only(w) /\ Now(w, l, used[w], failed[w], carried[w])
  BY DEF CallsTyped, Go, Only, Now

\* A call that ends.
LEMMA EndFacts ==
  ASSUME CallsTyped, NEW w \in Workers, End(w)
  PROVE  CallsTyped' /\ Only(w) /\ Now(w, "idle", 0, 0, 0)
<1>1. /\ pc' = [pc EXCEPT ![w] = "idle"] /\ used' = [used EXCEPT ![w] = 0]
      /\ failed' = [failed EXCEPT ![w] = 0] /\ tries' = [tries EXCEPT ![w] = 0]
      /\ carried' = [carried EXCEPT ![w] = 0]
  BY DEF End, Go, None
<1> QED  BY <1>1, Numbers DEF CallsTyped, Only, Now, Points

\* A call that starts again, or finds the breaker tripped.
LEMMA RetryFacts ==
  ASSUME CallsTyped, NEW w \in Workers, Retry(w), ~fatal
  PROVE  CallsTyped' /\ Only(w) /\ Now(w, "read", used[w], used[w], 0)
<1>1. /\ pc' = [pc EXCEPT ![w] = "read"] /\ used' = used
      /\ failed' = [failed EXCEPT ![w] = used[w]] /\ tries' = [tries EXCEPT ![w] = 0]
      /\ carried' = [carried EXCEPT ![w] = 0]
  BY DEF Retry, Go, None
<1> QED  BY <1>1, Numbers DEF CallsTyped, Only, Now, Points

-----------------------------------------------------------------------------
(* The lock *)

\* Two calls that refresh are one: both are the head of the lock.
LEMMA OneRefreshes ==
  ASSUME LockSound, NEW v \in Workers, NEW w \in Workers, pc[v] \in Refreshing, pc[w] \in Refreshing
  PROVE  v = w
  BY DEF LockSound

\* The holder of the lock, or a call outside it, moves on without leaving.
LEMMA StayFacts ==
  ASSUME CallsTyped, LockSound, NEW w \in Workers, Only(w), lock' = lock,
         pc[w] \in Queued <=> pc'[w] \in Queued,
         pc'[w] \in Refreshing => lock # <<>> /\ Head(lock) = w
  PROVE  LockSound'
<1>1. \A v \in Workers \ {w} : pc'[v] = pc[v]
  BY DEF Only
<1> QED  BY <1>1 DEF LockSound

\* A call joins the queue.
LEMMA JoinFacts ==
  ASSUME lock \in Seq(Workers), LockSound, NEW w \in Workers, Only(w),
         pc[w] \notin Queued, pc'[w] = "lock", lock' = Append(lock, w)
  PROVE  LockSound' /\ lock' \in Seq(Workers)
<1> DEFINE n == Len(lock)
<1>1. /\ n \in Nat /\ Len(lock') = n + 1
      /\ \A i \in 1..n : lock'[i] = lock[i]
      /\ lock'[n + 1] = w /\ lock' \in Seq(Workers)
  OBVIOUS
<1>2. \A v \in Workers \ {w} : pc'[v] = pc[v]
  BY DEF Only
<1>3. \A i \in 1..n : lock[i] # w
  BY DEF LockSound
<1>4. "lock" \in Queued /\ "lock" \notin Refreshing
  BY DEF Queued, Refreshing
<1>5. ASSUME NEW v \in Workers
      PROVE  pc'[v] \in Queued <=> \E i \in 1..Len(lock') : lock'[i] = v
  <2>1. CASE v = w
    BY <1>1, <1>4, <2>1
  <2>2. CASE v # w
    <3>1. pc[v] \in Queued <=> \E i \in 1..n : lock[i] = v
      BY DEF LockSound
    <3>2. (\E i \in 1..n : lock[i] = v) <=> \E i \in 1..(n + 1) : lock'[i] = v
      BY <1>1, <2>2
    <3> QED  BY <1>1, <1>2, <2>2, <3>1, <3>2
  <2> QED  BY <2>1, <2>2
<1>6. \A i, j \in 1..Len(lock') : lock'[i] = lock'[j] => i = j
  <2> SUFFICES ASSUME NEW i \in 1..(n + 1), NEW j \in 1..(n + 1), lock'[i] = lock'[j]
               PROVE  i = j
    BY <1>1
  <2>1. CASE i \in 1..n /\ j \in 1..n
    BY <1>1, <2>1 DEF LockSound
  <2>2. CASE i = n + 1 \/ j = n + 1
    BY <1>1, <1>3, <2>2
  <2> QED  BY <1>1, <2>1, <2>2
<1>7. ASSUME NEW v \in Workers, pc'[v] \in Refreshing
      PROVE  lock' # <<>> /\ Head(lock') = v
  <2>1. lock # <<>> /\ Head(lock) = v
    BY <1>2, <1>4, <1>7 DEF LockSound
  <2>2. n >= 1 /\ lock[1] = v
    BY <2>1
  <2> QED  BY <1>1, <2>2
<1> QED  BY <1>1, <1>5, <1>6, <1>7 DEF LockSound

\* The holder leaves.
LEMMA LeaveFacts ==
  ASSUME lock \in Seq(Workers), LockSound, NEW w \in Workers, Only(w),
         lock # <<>>, Head(lock) = w, pc'[w] \notin Queued, lock' = Tail(lock)
  PROVE  LockSound' /\ lock' \in Seq(Workers) /\ \A v \in Workers : pc'[v] \notin Refreshing
<1> DEFINE n == Len(lock)
<1>1. /\ n \in Nat /\ n >= 1 /\ lock[1] = w /\ Len(lock') = n - 1
      /\ \A i \in 1..(n - 1) : lock'[i] = lock[i + 1]
      /\ lock' \in Seq(Workers)
  OBVIOUS
<1>2. \A v \in Workers \ {w} : pc'[v] = pc[v]
  BY DEF Only
<1>3. \A i, j \in 1..n : lock[i] = lock[j] => i = j
  BY DEF LockSound
<1>4. ASSUME NEW v \in Workers
      PROVE  pc'[v] \in Queued <=> \E i \in 1..(n - 1) : lock'[i] = v
  <2>1. CASE v = w
    <3>1. \A i \in 1..(n - 1) : i + 1 \in 1..n /\ i + 1 # 1
      BY <1>1
    <3>2. \A i \in 1..(n - 1) : lock[i + 1] # w
      BY <1>1, <1>3, <3>1
    <3> QED  BY <1>1, <2>1, <3>2
  <2>2. CASE v # w
    <3>1. pc[v] \in Queued <=> \E i \in 1..n : lock[i] = v
      BY DEF LockSound
    <3>2. ASSUME NEW i \in 1..n, lock[i] = v
          PROVE  \E k \in 1..(n - 1) : lock'[k] = v
      <4>1. i # 1
        BY <1>1, <2>2, <3>2
      <4>2. i - 1 \in 1..(n - 1) /\ lock'[i - 1] = lock[i]
        BY <1>1, <4>1
      <4> QED  BY <3>2, <4>2
    <3>3. ASSUME NEW k \in 1..(n - 1), lock'[k] = v
          PROVE  \E i \in 1..n : lock[i] = v
      <4>1. k + 1 \in 1..n /\ lock[k + 1] = v
        BY <1>1, <3>3
      <4> QED  BY <4>1
    <3> QED  BY <1>2, <2>2, <3>1, <3>2, <3>3
  <2> QED  BY <2>1, <2>2
<1>5. \A i, j \in 1..(n - 1) : lock'[i] = lock'[j] => i = j
  <2> SUFFICES ASSUME NEW i \in 1..(n - 1), NEW j \in 1..(n - 1), lock'[i] = lock'[j]
               PROVE  i = j
    OBVIOUS
  <2>1. i + 1 \in 1..n /\ j + 1 \in 1..n /\ lock[i + 1] = lock[j + 1]
    BY <1>1
  <2> QED  BY <1>3, <2>1
<1>6. \A v \in Workers : pc'[v] \notin Refreshing
  <2> SUFFICES ASSUME NEW v \in Workers, pc'[v] \in Refreshing PROVE FALSE
    OBVIOUS
  <2>1. v # w
    BY DEF Queued
  <2>2. Head(lock) = v
    BY <1>2, <2>1 DEF LockSound
  <2> QED  BY <2>1, <2>2
<1> QED  BY <1>1, <1>4, <1>5, <1>6 DEF LockSound

-----------------------------------------------------------------------------
(* What a step of a call must see to *)

\* The parts of the type invariant that a step of a call leaves alone.
LEMMA AdminTyped ==
  ASSUME TypeOK, UNCHANGED <<admin, meddled>>, torn' \in BOOLEAN,
         CallsTyped', lock' \in Seq(Workers),
         newest' \in Pairs, access' \in Pairs, refresh' \in Pairs,
         expired' \in BOOLEAN, fatal' \in BOOLEAN
  PROVE  TypeOK'
  BY DEF TypeOK, CallsTyped, admin

\* A call that changes nothing but itself and the lock.
LEMMA MoveKeeps ==
  ASSUME Inv, NEW w \in Workers, Only(w), CallsTyped', LockSound', lock' \in Seq(Workers),
         UNCHANGED <<shopee, redis, fatal, admin, history>>,
         pc[w] \notin Storing, Sound(w)', ~meddled => Clean(w)'
  PROVE  Inv'
<1> USE DEF shopee, redis, admin
<1>1. TypeOK'
  BY AdminTyped DEF Inv, TypeOK
<1>2. Numbered' /\ Whole'
  BY DEF Inv, Numbered, Whole, NoPair
<1>3. ASSUME NEW v \in Workers \ {w} PROVE Sound(v)' /\ (~meddled => Clean(v)')
  <2>1. Sound(v) /\ (~meddled => Clean(v))
    BY DEF Inv
  <2>2. /\ pc'[v] = pc[v] /\ used'[v] = used[v] /\ failed'[v] = failed[v]
        /\ carried'[v] = carried[v]
    BY DEF Only
  <2> QED  BY <2>1, <2>2 DEF Sound, Clean
<1>4. \A v \in Workers : Sound(v)' /\ (~meddled => Clean(v)')
  BY <1>3
<1>5. ~meddled => Stored'
  BY DEF Inv, Stored, Only
<1> QED  BY <1>1, <1>2, <1>4, <1>5 DEF Inv

\* The call that refreshes writes what it carries: the others are outside the
\* refresh, and the stored access token does not fall behind theirs.
LEMMA RefresherKeeps ==
  ASSUME Inv, NEW w \in Workers, pc[w] \in Refreshing, Only(w), CallsTyped', LockSound',
         lock' \in Seq(Workers), UNCHANGED <<admin, meddled>>, torn' \in BOOLEAN,
         newest' \in Pairs, access' \in Pairs, refresh' \in Pairs,
         expired' \in BOOLEAN, fatal' \in BOOLEAN,
         newest <= newest', access' <= newest', refresh' <= newest',
         ~meddled => access <= access', Sound(w)', ~meddled => Stored' /\ Clean(w)'
  PROVE  Inv'
<1>1. TypeOK'
  BY AdminTyped DEF Inv
<1>2. newest \in Nat /\ newest' \in Nat /\ access \in Nat /\ access' \in Nat
  BY Numbers DEF Inv, TypeOK, Pairs
<1>3. Numbered' /\ Whole'
  <2>1. page' = page /\ saving' = saving
    BY DEF admin
  <2>2. /\ page.access \in Nat /\ page.refresh \in Nat
        /\ saving.access \in Nat /\ saving.refresh \in Nat
    BY Numbers DEF Inv, TypeOK
  <2> QED  BY <1>2, <2>1, <2>2 DEF Inv, Numbered, Whole, NoPair
<1>4. ASSUME NEW v \in Workers \ {w} PROVE Sound(v)' /\ (~meddled => Clean(v)')
  <2>1. Sound(v) /\ (~meddled => Clean(v))
    BY DEF Inv
  <2>2. /\ pc'[v] = pc[v] /\ used'[v] = used[v] /\ failed'[v] = failed[v]
        /\ carried'[v] = carried[v]
    BY DEF Only
  <2>3. pc[v] \notin Refreshing
    BY OneRefreshes DEF Inv
  <2>4. used[v] \in Nat /\ failed[v] \in Nat /\ carried[v] \in Nat
    BY Numbers DEF Inv, TypeOK
  <2>5. pc[v] # "post" /\ pc[v] \notin Storing /\ pc[v] # "storeRefresh"
    BY <2>3 DEF Refreshing, Storing
  <2> QED  BY <1>2, <2>1, <2>2, <2>3, <2>4, <2>5 DEF Sound, Clean
<1>5. \A v \in Workers : Sound(v)' /\ (~meddled => Clean(v)')
  BY <1>4
<1> QED  BY <1>1, <1>3, <1>5 DEF Inv, admin

\* What the invariant says of one call.
LEMMA Known ==
  ASSUME Inv, NEW w \in Workers
  PROVE  /\ CallsTyped /\ LockSound /\ lock \in Seq(Workers)
         /\ Sound(w) /\ (~meddled => Clean(w))
         /\ newest \in Nat /\ access \in Nat /\ refresh \in Nat
         /\ newest # 0 /\ access # 0 /\ refresh # 0
         /\ access <= newest /\ refresh <= newest
         /\ used[w] \in Nat /\ failed[w] \in Nat /\ carried[w] \in Nat
         /\ torn \in BOOLEAN
  BY Numbers DEF Inv, TypeOK, CallsTyped, Pairs, Numbered

\* A call that ends is sound, wherever it was.
LEMMA EndedIsSound ==
  ASSUME Inv, NEW w \in Workers, Now(w, "idle", 0, 0, 0),
         newest' \in Nat, access' \in Nat
  PROVE  Sound(w)' /\ Clean(w)'
  BY DEF Now, Sound, Clean, Storing, Refreshing

-----------------------------------------------------------------------------
(* The steps of a call *)

\* A call begins with nothing but its place.
LEMMA BeginKeeps ==
  ASSUME Inv, NEW w \in Workers, Begin(w)
  PROVE  Inv'
<1>1. CallsTyped' /\ Only(w) /\ Now(w, "read", used[w], failed[w], carried[w])
  BY Known, GoFacts DEF Begin, Points
<1>2. LockSound'
  BY Known, <1>1, StayFacts DEF Begin, Now, Queued, Refreshing
<1>3. Sound(w)' /\ (~meddled => Clean(w)')
  BY Known, <1>1 DEF Begin, Now, Sound, Clean, Storing, Refreshing, shopee, redis
<1>4. UNCHANGED <<shopee, redis, fatal, admin, history, lock>> /\ pc[w] \notin Storing
  BY DEF Begin, Storing
<1> QED  BY Known, <1>1, <1>2, <1>3, <1>4, MoveKeeps

\* The access token a call reads is the stored one.
LEMMA ReadAccessKeeps ==
  ASSUME Inv, NEW w \in Workers, ReadAccess(w)
  PROVE  Inv'
<1>1. CallsTyped' /\ Only(w) /\ Now(w, "call", access, failed[w], carried[w])
  <2>1. /\ pc' = [pc EXCEPT ![w] = "call"] /\ used' = [used EXCEPT ![w] = access]
        /\ UNCHANGED <<failed, tries, carried>>
    BY DEF ReadAccess, Go
  <2>2. access \in 0..LastPair /\ CallsTyped
    BY Known, Numbers DEF Inv, TypeOK, Pairs
  <2> QED  BY <2>1, <2>2 DEF CallsTyped, Points, Only, Now
<1>2. LockSound'
  BY Known, <1>1, StayFacts DEF ReadAccess, Now, Queued, Refreshing
<1>3. Sound(w)' /\ (~meddled => Clean(w)')
  BY Known, <1>1 DEF ReadAccess, Now, Sound, Clean, Storing, Refreshing, shopee, redis
<1>4. UNCHANGED <<shopee, redis, fatal, admin, history, lock>> /\ pc[w] \notin Storing
  BY DEF ReadAccess, Storing
<1> QED  BY Known, <1>1, <1>2, <1>3, <1>4, MoveKeeps

\* A call outside the lock that ends.
LEMMA EndsKeeps ==
  ASSUME Inv, NEW w \in Workers, pc[w] \in {"read", "call"}, End(w),
         UNCHANGED <<shopee, redis, fatal, lock, admin, history>>
  PROVE  Inv'
<1>1. CallsTyped' /\ Only(w) /\ Now(w, "idle", 0, 0, 0)
  BY Known, EndFacts
<1>2. LockSound'
  BY Known, <1>1, StayFacts DEF Now, Queued, Refreshing
<1>3. Sound(w)' /\ Clean(w)'
  BY Known, <1>1, EndedIsSound DEF shopee, redis
<1>4. pc[w] \notin Storing
  BY DEF Storing
<1> QED  BY Known, <1>1, <1>2, <1>3, <1>4, MoveKeeps

\* A call that ends or starts again when it holds the lock, and leaves it
\* before it has sent anything.
LEMMA LeavesKeeps ==
  ASSUME Inv, NEW w \in Workers, lock # <<>>, Head(lock) = w, pc[w] \notin Storing,
         CallsTyped', Only(w), pc'[w] \notin Queued, Release,
         UNCHANGED <<shopee, redis, fatal, admin, history>>,
         Sound(w)', ~meddled => Clean(w)'
  PROVE  Inv'
<1>1. LockSound' /\ lock' \in Seq(Workers)
  BY Known, LeaveFacts DEF Release
<1> QED  BY <1>1, MoveKeeps

\* The call is answered.
LEMMA SucceedKeeps ==
  ASSUME Inv, NEW w \in Workers, Succeed(w)
  PROVE  Inv'
  BY EndsKeeps DEF Succeed

\* It is tried again, or has been often enough.
LEMMA RateLimitedKeeps ==
  ASSUME Inv, NEW w \in Workers, RateLimited(w)
  PROVE  Inv'
<1>1. CASE tries[w] < MaxRetries
  <2>1. CallsTyped' /\ Only(w) /\ Now(w, "read", 0, failed[w], carried[w])
    <3>1. /\ pc' = [pc EXCEPT ![w] = "read"] /\ tries' = [tries EXCEPT ![w] = tries[w] + 1]
          /\ used' = [used EXCEPT ![w] = 0] /\ UNCHANGED <<failed, carried>>
      BY <1>1 DEF RateLimited, Go, None
    <3>2. CallsTyped /\ tries[w] + 1 \in 0..MaxRetries /\ 0 \in 0..LastPair
      BY Known, Numbers, <1>1 DEF CallsTyped
    <3> QED  BY <3>1, <3>2 DEF CallsTyped, Points, Only, Now
  <2>2. LockSound'
    BY Known, <2>1, StayFacts DEF RateLimited, Now, Queued, Refreshing
  <2>3. Sound(w)' /\ (~meddled => Clean(w)')
    BY Known, <2>1 DEF RateLimited, Now, Sound, Clean, Storing, Refreshing, shopee, redis
  <2>4. UNCHANGED <<shopee, redis, fatal, admin, history, lock>> /\ pc[w] \notin Storing
    BY DEF RateLimited, Storing
  <2> QED  BY Known, <2>1, <2>2, <2>3, <2>4, MoveKeeps
<1>2. CASE ~(tries[w] < MaxRetries)
  BY <1>2, EndsKeeps DEF RateLimited
<1> QED  BY <1>1, <1>2

\* It joins the queue, or returns the error of its second try.
LEMMA RefusedKeeps ==
  ASSUME Inv, NEW w \in Workers, Refused(w)
  PROVE  Inv'
<1>1. CASE failed[w] = None
  <2>1. CallsTyped' /\ Only(w) /\ Now(w, "lock", used[w], failed[w], carried[w])
    <3>1. /\ pc' = [pc EXCEPT ![w] = "lock"] /\ tries' = [tries EXCEPT ![w] = 0]
          /\ UNCHANGED <<used, failed, carried>>
      BY <1>1 DEF Refused, Go
    <3>2. CallsTyped /\ 0 \in 0..MaxRetries
      BY Known, Numbers
    <3> QED  BY <3>1, <3>2 DEF CallsTyped, Points, Only, Now
  <2>2. LockSound' /\ lock' \in Seq(Workers)
    BY Known, <1>1, <2>1, JoinFacts DEF Refused, Now, Queued, Refreshing
  <2>3. Sound(w)' /\ (~meddled => Clean(w)')
    BY Known, <2>1 DEF Refused, Now, Sound, Clean, Storing, Refreshing, shopee, redis
  <2>4. UNCHANGED <<shopee, redis, fatal, admin, history>> /\ pc[w] \notin Storing
    BY DEF Refused, Storing
  <2> QED  BY <2>1, <2>2, <2>3, <2>4, MoveKeeps
<1>2. CASE failed[w] # None
  BY <1>2, EndsKeeps DEF Refused
<1> QED  BY <1>1, <1>2

\* It fails, outside the lock or as its holder.
LEMMA BrokenKeeps ==
  ASSUME Inv, NEW w \in Workers, Broken(w)
  PROVE  Inv'
<1>1. CASE pc[w] \in {"read", "call"}
  BY <1>1, EndsKeeps DEF Broken, InRefresh, Refreshing
<1>2. CASE pc[w] \in {"current", "readRefresh"}
  <2>1. CallsTyped' /\ Only(w) /\ Now(w, "idle", 0, 0, 0)
    BY Known, EndFacts DEF Broken
  <2>2. Release /\ UNCHANGED <<shopee, redis, fatal, admin, history>>
    BY <1>2 DEF Broken, InRefresh, Refreshing
  <2>3. lock # <<>> /\ Head(lock) = w /\ pc[w] \notin Storing /\ pc'[w] \notin Queued
    BY Known, <1>2, <2>1 DEF LockSound, Refreshing, Storing, Queued, Now
  <2>4. Sound(w)' /\ Clean(w)'
    BY Known, <2>1, <2>2, EndedIsSound DEF shopee, redis
  <2> QED  BY <2>1, <2>2, <2>3, <2>4, LeavesKeeps
<1> QED  BY <1>1, <1>2 DEF Broken

\* The head of the queue refreshes, or leaves when the breaker has tripped.
LEMMA AcquireKeeps ==
  ASSUME Inv, NEW w \in Workers, Acquire(w)
  PROVE  Inv'
<1>1. /\ lock # <<>> /\ Head(lock) = w /\ pc[w] \notin Storing
      /\ UNCHANGED <<shopee, redis, fatal, admin, history>>
  <2>1. pc[w] = "lock" /\ Head(lock) = w /\ pc[w] \in Queued
    BY DEF Acquire, Queued
  <2>2. \E i \in 1..Len(lock) : lock[i] = w
    BY Known, <2>1 DEF LockSound
  <2>3. lock # <<>>
    BY <2>2
  <2> QED  BY <2>1, <2>3 DEF Acquire, Storing
<1>2. CASE fatal
  <2>1. CallsTyped' /\ Only(w) /\ Now(w, "idle", 0, 0, 0)
    BY Known, <1>2, EndFacts DEF Acquire
  <2>2. Sound(w)' /\ Clean(w)' /\ pc'[w] \notin Queued
    BY Known, <1>1, <2>1, EndedIsSound DEF shopee, redis, Now, Queued, Refreshing
  <2> QED  BY <1>1, <1>2, <2>1, <2>2, LeavesKeeps DEF Acquire
<1>3. CASE ~fatal
  <2>1. CallsTyped' /\ Only(w) /\ Now(w, "current", used[w], failed[w], carried[w]) /\ lock' = lock
    BY Known, <1>3, GoFacts DEF Acquire, Points, Refreshing
  <2>2. LockSound'
    BY Known, <1>1, <2>1, StayFacts DEF Acquire, Now, Queued, Refreshing
  <2>3. Sound(w)' /\ (~meddled => Clean(w)')
    BY Known, <1>1, <1>3, <2>1 DEF Now, Sound, Clean, Storing, Refreshing, shopee, redis
  <2> QED  BY Known, <1>1, <2>1, <2>2, <2>3, MoveKeeps
<1> QED  BY <1>2, <1>3

\* A stored token that is not the refused one is a newer one.
LEMMA CompareKeeps ==
  ASSUME Inv, NEW w \in Workers, Compare(w)
  PROVE  Inv'
<1>1. /\ pc[w] = "current" /\ pc[w] \in Refreshing /\ pc[w] \notin Storing
      /\ UNCHANGED <<shopee, redis, fatal, admin, history>>
  BY DEF Compare, Refreshing, Storing
<1>2. lock # <<>> /\ Head(lock) = w /\ ~fatal
  BY Known, <1>1 DEF LockSound, Sound
<1>3. CASE access = used[w]
  <2>1. CallsTyped' /\ Only(w) /\ Now(w, "readRefresh", used[w], failed[w], carried[w])
        /\ lock' = lock
    BY Known, <1>3, GoFacts DEF Compare, Points, Refreshing
  <2>2. LockSound'
    BY Known, <1>1, <1>2, <2>1, StayFacts DEF Now, Queued, Refreshing
  <2>3. Sound(w)' /\ (~meddled => Clean(w)')
    BY Known, <1>1, <1>2, <2>1 DEF Now, Sound, Clean, Storing, Refreshing, shopee, redis
  <2> QED  BY Known, <1>1, <2>1, <2>2, <2>3, MoveKeeps
<1>4. CASE access # used[w]
  <2>1. CallsTyped' /\ Only(w) /\ Now(w, "read", used[w], used[w], 0)
    BY Known, <1>2, <1>4, RetryFacts DEF Compare
  <2>2. pc'[w] \notin Queued /\ Release
    BY <1>4, <2>1 DEF Compare, Now, Queued, Refreshing
  <2>3. Sound(w)' /\ (~meddled => Clean(w)')
    BY Known, <1>1, <1>4, <2>1 DEF Now, Sound, Clean, Storing, Refreshing, shopee, redis
  <2> QED  BY <1>1, <1>2, <2>1, <2>2, <2>3, LeavesKeeps
<1> QED  BY <1>3, <1>4

\* Nobody else is storing, so that the stored refresh token is the newest.
LEMMA ReadRefreshKeeps ==
  ASSUME Inv, NEW w \in Workers, ReadRefresh(w)
  PROVE  Inv'
<1>1. /\ pc[w] = "readRefresh" /\ pc[w] \in Refreshing /\ pc[w] \notin Storing
      /\ UNCHANGED <<shopee, redis, fatal, admin, history, lock>>
  BY DEF ReadRefresh, Refreshing, Storing
<1>2. lock # <<>> /\ Head(lock) = w /\ ~fatal
  BY Known, <1>1 DEF LockSound, Sound
<1>3. CallsTyped' /\ Only(w) /\ Now(w, "post", used[w], failed[w], refresh)
  BY Known DEF ReadRefresh, Go, Points, Refreshing, CallsTyped, Only, Now, Inv, TypeOK, Pairs
<1>4. LockSound'
  BY Known, <1>1, <1>2, <1>3, StayFacts DEF Now, Queued, Refreshing
<1>5. ~meddled => refresh = newest \/ torn
  <2>1. ~\E v \in Workers : pc[v] \in Storing
    <3>1. \A v \in Workers : pc[v] \in Storing => pc[v] \in Refreshing
      BY DEF Storing, Refreshing
    <3> QED  BY <1>1, <3>1, OneRefreshes DEF Inv
  <2> QED  BY <1>2, <2>1 DEF Inv, Stored
<1>6. Sound(w)' /\ (~meddled => Clean(w)')
  BY Known, <1>1, <1>2, <1>3, <1>5 DEF Now, Sound, Clean, Storing, Refreshing, shopee, redis
<1> QED  BY Known, <1>1, <1>3, <1>4, <1>6, MoveKeeps

-----------------------------------------------------------------------------
(* The steps that write *)

\* The refresh fails after it was sent: the breaker trips and the holder
\* leaves, so that nobody refreshes.
LEMMA TripKeeps ==
  ASSUME Inv, NEW w \in Workers, pc[w] \in Refreshing, Trip(w), UNCHANGED <<admin, history>>,
         newest' \in Pairs, access' \in Pairs, refresh' \in Pairs, expired' \in BOOLEAN,
         newest <= newest', access' <= newest', refresh' <= newest',
         ~meddled => access <= access'
  PROVE  Inv'
<1>1. CallsTyped' /\ Only(w) /\ Now(w, "idle", 0, 0, 0) /\ fatal' = TRUE
  BY Known, EndFacts DEF Trip
<1>2. LockSound' /\ lock' \in Seq(Workers)
  <2>1. lock # <<>> /\ Head(lock) = w /\ pc'[w] \notin Queued /\ lock' = Tail(lock)
    BY Known, <1>1 DEF LockSound, Now, Queued, Refreshing, Trip, Release
  <2> QED  BY Known, <1>1, <2>1, LeaveFacts
<1>3. Sound(w)' /\ Clean(w)'
  BY <1>1, EndedIsSound, Numbers DEF Pairs
<1>4. Stored'
  BY <1>1 DEF Stored
<1> QED  BY Known, <1>1, <1>2, <1>3, <1>4, RefresherKeeps

\* The pair that Shopee issues is newer than every one in use.
LEMMA ExchangeKeeps ==
  ASSUME Inv, NEW w \in Workers, Exchange(w)
  PROVE  Inv'
<1>1. /\ pc[w] = "post" /\ pc[w] \in Refreshing /\ carried[w] = newest /\ newest < LastPair
      /\ newest' = newest + 1 /\ expired' = FALSE
      /\ UNCHANGED <<access, refresh, admin, history>>
  BY DEF Exchange, Refreshing, redis
<1>2. /\ newest' \in Pairs /\ access' \in Pairs /\ refresh' \in Pairs /\ expired' \in BOOLEAN
      /\ newest <= newest' /\ access' <= newest' /\ refresh' <= newest' /\ access <= access'
  <2>1. newest \in Pairs /\ access \in Pairs /\ refresh \in Pairs
    BY DEF Inv, TypeOK
  <2>2. newest + 1 \in Pairs
    BY Numbers, <1>1, <2>1 DEF Pairs
  <2>3. newest <= newest' /\ access' <= newest' /\ refresh' <= newest' /\ access <= access'
    BY Known, <1>1
  <2>4. newest' \in Pairs /\ access' \in Pairs /\ refresh' \in Pairs
    BY <1>1, <2>1, <2>2
  <2>5. expired' \in BOOLEAN
    BY <1>1
  <2> QED  BY <2>3, <2>4, <2>5
<1>3. CASE Trip(w)
  BY <1>1, <1>2, <1>3, TripKeeps
<1>4. CASE /\ carried' = [carried EXCEPT ![w] = newest + 1]
           /\ Go(w, "storeAccess")
           /\ UNCHANGED <<fatal, used, failed, tries, lock>>
  <2>1. CallsTyped' /\ Only(w) /\ Now(w, "storeAccess", used[w], failed[w], newest')
    <3>1. CallsTyped /\ newest + 1 \in 0..LastPair
      BY Known, Numbers, <1>1
    <3> QED  BY <1>1, <1>4, <3>1 DEF Go, CallsTyped, Points, Refreshing, Only, Now
  <2>2. lock # <<>> /\ Head(lock) = w /\ ~fatal
    BY Known, <1>1 DEF LockSound, Sound
  <2>3. LockSound'
    BY Known, <1>1, <1>4, <2>1, <2>2, StayFacts DEF Now, Queued, Refreshing
  <2>4. Sound(w)' /\ (~meddled => Clean(w)')
    BY Known, <1>1, <1>4, <2>1, <2>2 DEF Now, Sound, Clean, Storing, Refreshing
  <2>5. Stored' /\ fatal' \in BOOLEAN /\ lock' \in Seq(Workers)
    BY Known, <1>4, <2>1 DEF Stored, Now, Storing, Inv, TypeOK
  <2> QED  BY Known, <1>1, <1>2, <2>1, <2>3, <2>4, <2>5, RefresherKeeps
<1> QED  BY <1>3, <1>4 DEF Exchange

\* Shopee refuses, or is not reached.
LEMMA RejectKeeps ==
  ASSUME Inv, NEW w \in Workers, Reject(w)
  PROVE  Inv'
<1>1. /\ pc[w] \in Refreshing /\ Trip(w)
      /\ UNCHANGED <<newest, expired, access, refresh, admin, history>>
  BY DEF Reject, Refreshing, shopee, redis
<1>2. /\ newest' \in Pairs /\ access' \in Pairs /\ refresh' \in Pairs /\ expired' \in BOOLEAN
      /\ newest <= newest' /\ access' <= newest' /\ refresh' <= newest' /\ access <= access'
  BY Known, <1>1 DEF Inv, TypeOK
<1> QED  BY <1>1, <1>2, TripKeeps

\* The newest access token is stored.
LEMMA StoreAccessKeeps ==
  ASSUME Inv, NEW w \in Workers, StoreAccess(w)
  PROVE  Inv'
<1>1. /\ pc[w] = "storeAccess" /\ pc[w] \in Refreshing /\ pc[w] \in Storing
      /\ access' = carried[w] /\ Go(w, "storeRefresh")
      /\ UNCHANGED <<newest, expired, refresh, fatal, used, failed, tries, lock, carried>>
      /\ UNCHANGED <<admin, history>>
  BY DEF StoreAccess, Refreshing, Storing, shopee
<1>2. lock # <<>> /\ Head(lock) = w /\ ~fatal
  BY Known, <1>1 DEF LockSound, Sound
<1>3. CallsTyped' /\ Only(w) /\ Now(w, "storeRefresh", used[w], failed[w], carried[w])
  BY Known, <1>1, GoFacts DEF Points, Refreshing
<1>4. LockSound'
  BY Known, <1>1, <1>2, <1>3, StayFacts DEF Now, Queued, Refreshing
<1>5. /\ newest' \in Pairs /\ refresh' \in Pairs /\ expired' \in BOOLEAN /\ fatal' \in BOOLEAN
      /\ newest <= newest' /\ refresh' <= newest'
  BY Known, <1>1 DEF Inv, TypeOK
<1>6. access' \in Pairs /\ access' <= newest' /\ (~meddled => access <= access' /\ access' = newest)
  <2>1. carried[w] # 0 /\ carried[w] <= newest /\ (~meddled => carried[w] = newest)
    BY Known, <1>1 DEF Sound, Clean
  <2> QED  BY Known, Numbers, <1>1, <2>1 DEF CallsTyped, Pairs
<1>7. Sound(w)' /\ (~meddled => Clean(w)')
  <2>1. Sound(w) /\ (~meddled => Clean(w))
    BY Known
  <2> QED  BY Known, <1>1, <1>2, <1>3, <1>6, <2>1 DEF Now, Sound, Clean, Storing, Refreshing
<1>8. Stored' /\ lock' \in Seq(Workers)
  BY Known, <1>1, <1>3 DEF Stored, Now, Storing
<1> QED  BY Known, <1>1, <1>3, <1>4, <1>5, <1>6, <1>7, <1>8, RefresherKeeps

\* Its refresh token follows it.
LEMMA StoreRefreshKeeps ==
  ASSUME Inv, NEW w \in Workers, StoreRefresh(w)
  PROVE  Inv'
<1>1. /\ pc[w] = "storeRefresh" /\ pc[w] \in Refreshing /\ pc[w] \in Storing
      /\ refresh' = carried[w] /\ Retry(w) /\ Release
      /\ torn' = FALSE /\ UNCHANGED <<newest, expired, access, fatal, admin, meddled>>
  BY DEF StoreRefresh, Refreshing, Storing, shopee
<1>2. lock # <<>> /\ Head(lock) = w /\ ~fatal
  BY Known, <1>1 DEF LockSound, Sound
<1>3. CallsTyped' /\ Only(w) /\ Now(w, "read", used[w], used[w], 0)
  BY Known, <1>1, <1>2, RetryFacts
<1>4. LockSound' /\ lock' \in Seq(Workers)
  BY Known, <1>1, <1>2, <1>3, LeaveFacts DEF Now, Queued, Refreshing, Release
<1>5. carried[w] # 0 /\ carried[w] <= newest /\ (~meddled => carried[w] = newest)
  BY Known, <1>1 DEF Sound, Clean
<1>6. /\ newest' \in Pairs /\ access' \in Pairs /\ expired' \in BOOLEAN /\ fatal' \in BOOLEAN
      /\ newest <= newest' /\ access' <= newest' /\ access <= access'
  BY Known, <1>1 DEF Inv, TypeOK
<1>7. refresh' \in Pairs /\ refresh' <= newest' /\ (~meddled => Stored')
  BY Known, Numbers, <1>1, <1>5 DEF CallsTyped, Pairs, Stored
<1>8. Sound(w)' /\ (~meddled => Clean(w)')
  <2>1. Sound(w) /\ (~meddled => Clean(w))
    BY Known
  <2> QED  BY Known, <1>1, <1>2, <1>3, <2>1 DEF Now, Sound, Clean, Storing, Refreshing
<1> QED  BY <1>1, <1>3, <1>4, <1>6, <1>7, <1>8, RefresherKeeps

\* A write fails, done or not.
LEMMA StoreFailsKeeps ==
  ASSUME Inv, NEW w \in Workers, StoreFails(w)
  PROVE  Inv'
<1>1. /\ pc[w] \in Refreshing /\ pc[w] \in Storing /\ Trip(w)
      /\ access' \in {access, carried[w]} /\ refresh' \in {refresh, carried[w]}
      /\ UNCHANGED <<newest, expired, admin, history>>
  BY DEF StoreFails, Refreshing, Storing, shopee
<1>2. carried[w] # 0 /\ carried[w] <= newest /\ (~meddled => carried[w] = newest)
  BY Known, <1>1 DEF Sound, Clean, Storing
<1>3. carried[w] \in Pairs
  BY Known, Numbers, <1>2 DEF CallsTyped, Pairs
<1>4. /\ newest' \in Pairs /\ access' \in Pairs /\ refresh' \in Pairs /\ expired' \in BOOLEAN
      /\ newest <= newest' /\ access' <= newest' /\ refresh' <= newest'
      /\ (~meddled => access <= access')
  BY Known, <1>1, <1>2, <1>3 DEF Inv, TypeOK
<1> QED  BY <1>1, <1>4, TripKeeps

-----------------------------------------------------------------------------
(* The administrator and Shopee *)

\* A step beside the calls: after one that meddles, the calls need only be
\* sound; after another, nothing they depend on has changed.
LEMMA BesideKeeps ==
  ASSUME Inv, TypeOK', Numbered', Whole', UNCHANGED calls,
         newest <= newest', newest' \in Nat, fatal' => fatal,
         meddled' \/ UNCHANGED <<newest, access, refresh, fatal, history>>
  PROVE  Inv'
<1> USE DEF calls
<1>1. LockSound'
  BY DEF Inv, LockSound
<1>2. ASSUME NEW v \in Workers PROVE Sound(v)'
  BY Known DEF Sound
<1>3. CASE meddled'
  BY <1>1, <1>2, <1>3 DEF Inv
<1>4. CASE UNCHANGED <<newest, access, refresh, fatal, history>>
  <2>1. ~meddled => Stored' /\ \A v \in Workers : Clean(v)'
    BY <1>4 DEF Inv, Stored, Clean
  <2> QED  BY <1>1, <1>2, <1>4, <2>1 DEF Inv
<1> QED  BY <1>3, <1>4

\* The numbers of the form and of the save.
LEMMA AdminKnown ==
  ASSUME Inv
  PROVE  /\ page \in [access : 0..LastPair, refresh : 0..LastPair]
         /\ saving \in [access : 0..LastPair, refresh : 0..LastPair]
         /\ newest \in Nat /\ access \in Nat /\ refresh \in Nat
         /\ newest \in Pairs /\ access \in Pairs /\ refresh \in Pairs
         /\ access \in 0..LastPair /\ refresh \in 0..LastPair
         /\ page.access \in Nat /\ page.refresh \in Nat
         /\ saving.access \in Nat /\ saving.refresh \in Nat
         /\ TypeOK /\ Numbered /\ Whole
  BY Numbers DEF Inv, TypeOK, Pairs

\* The form gets the stored access token.
LEMMA OpenAccessKeeps ==
  ASSUME Inv, OpenAccess
  PROVE  Inv'
<1>1. page' = [access |-> access, refresh |-> 0]
      /\ UNCHANGED <<shopee, redis, fatal, calls, saving, history>>
  BY DEF OpenAccess, None
<1>2. TypeOK' /\ Numbered' /\ Whole'
  BY AdminKnown, Numbers, <1>1 DEF TypeOK, Numbered, Whole, NoPair, shopee, redis, calls
<1> QED  BY AdminKnown, <1>1, <1>2, BesideKeeps DEF shopee, redis

\* It gets the stored refresh token, perhaps of another pair.
LEMMA OpenRefreshKeeps ==
  ASSUME Inv, OpenRefresh
  PROVE  Inv'
<1>1. page.access # 0 /\ page' = [page EXCEPT !.refresh = refresh]
      /\ UNCHANGED <<shopee, redis, fatal, calls, saving, history>>
  BY DEF OpenRefresh, None
<1>2. /\ page' \in [access : 0..LastPair, refresh : 0..LastPair]
      /\ page'.access = page.access /\ page'.refresh = refresh
  BY AdminKnown, <1>1
<1>3. TypeOK' /\ Numbered' /\ Whole'
  BY AdminKnown, Numbers, <1>1, <1>2 DEF TypeOK, Numbered, Whole, NoPair, shopee, redis, calls
<1> QED  BY AdminKnown, <1>1, <1>3, BesideKeeps DEF shopee, redis

\* The form or the save is given up.
LEMMA ForgetKeeps ==
  ASSUME Inv, page' \in {page, NoPair}, saving' \in {saving, NoPair},
         UNCHANGED <<shopee, redis, fatal, calls, history>>
  PROVE  Inv'
<1>1. /\ NoPair \in [access : 0..LastPair, refresh : 0..LastPair]
      /\ NoPair.access = 0 /\ NoPair.refresh = 0
  BY Numbers DEF NoPair, None
<1>2. TypeOK' /\ Numbered' /\ Whole'
  BY AdminKnown, Numbers, <1>1 DEF TypeOK, Numbered, Whole, shopee, redis, calls
<1> QED  BY AdminKnown, <1>2, BesideKeeps DEF shopee, redis

\* The merchant gets a newer pair.
LEMMA AuthoriseKeeps ==
  ASSUME Inv, Authorise
  PROVE  Inv'
<1>1. /\ newest < LastPair /\ newest' = newest + 1 /\ expired' = FALSE /\ meddled' = TRUE
      /\ page' = [access |-> newest + 1, refresh |-> newest + 1]
      /\ UNCHANGED <<redis, fatal, calls, saving, torn>>
  BY DEF Authorise
<1>2. newest + 1 \in Pairs /\ newest + 1 \in 0..LastPair /\ newest + 1 \in Nat
  BY AdminKnown, Numbers, <1>1 DEF Pairs
<1>3. TypeOK'
  BY AdminKnown, <1>1, <1>2 DEF TypeOK, redis, calls
<1>4. Numbered' /\ Whole'
  BY AdminKnown, <1>1, <1>2 DEF Numbered, Whole, NoPair, redis
<1>5. newest <= newest' /\ newest' \in Nat
  BY AdminKnown, <1>1, <1>2
<1> QED  BY <1>1, <1>3, <1>4, <1>5, BesideKeeps

\* The access token of the form is stored.
LEMMA SaveAccessKeeps ==
  ASSUME Inv, SaveAccess
  PROVE  Inv'
<1>1. /\ page.refresh # 0 /\ saving' = page /\ page' = NoPair /\ access' = page.access
      /\ meddled' = TRUE /\ UNCHANGED <<shopee, refresh, fatal, calls, torn>>
  BY DEF SaveAccess, None
<1>2. /\ NoPair \in [access : 0..LastPair, refresh : 0..LastPair]
      /\ NoPair.access = 0 /\ NoPair.refresh = 0
  BY Numbers DEF NoPair, None
<1>3. page.access # 0 /\ page.access \in Pairs
  BY AdminKnown, Numbers, <1>1 DEF Whole, Pairs
<1>4. TypeOK'
  BY AdminKnown, <1>1, <1>2, <1>3 DEF TypeOK, shopee, calls
<1>5. Numbered' /\ Whole'
  BY AdminKnown, <1>1, <1>2, <1>3 DEF Numbered, Whole, shopee
<1> QED  BY AdminKnown, <1>1, <1>4, <1>5, BesideKeeps DEF shopee

\* What a save mends: nobody refreshes, and the stored pair is the newest.
LEMMA SaveRefreshKeeps ==
  ASSUME Inv, SaveRefresh
  PROVE  Inv'
<1>1. /\ saving # NoPair /\ refresh' = saving.refresh /\ fatal' = FALSE /\ saving' = NoPair
      /\ meddled' = ~(/\ InRefresh = {} /\ access = newest /\ refresh' = newest
                      /\ \A w \in Workers : failed[w] = 0)
      /\ torn' = (torn /\ meddled')
      /\ UNCHANGED <<shopee, access, calls, page>>
  BY DEF SaveRefresh, None
<1>2. /\ NoPair \in [access : 0..LastPair, refresh : 0..LastPair]
      /\ NoPair.access = 0 /\ NoPair.refresh = 0
  BY Numbers DEF NoPair, None
<1>3. saving.refresh # 0 /\ saving.refresh \in Pairs
  BY AdminKnown, Numbers, <1>1 DEF Whole, Pairs
<1>4. meddled' \in BOOLEAN /\ torn' \in BOOLEAN
  BY <1>1
<1>5. TypeOK'
  BY AdminKnown, <1>1, <1>2, <1>3, <1>4 DEF TypeOK, shopee, calls
<1>6. Numbered' /\ Whole'
  BY AdminKnown, <1>1, <1>2, <1>3 DEF Numbered, Whole, shopee
<1>7. CASE meddled'
  BY AdminKnown, <1>1, <1>5, <1>6, <1>7, BesideKeeps DEF shopee
<1>8. CASE ~meddled'
  <2>1. InRefresh = {} /\ access = newest /\ refresh' = newest /\ \A w \in Workers : failed[w] = 0
    BY <1>1, <1>8
  <2>2. \A w \in Workers : pc[w] \notin Refreshing
    BY <2>1 DEF InRefresh
  <2>3. LockSound'
    BY <1>1 DEF Inv, LockSound, calls
  <2>4. ASSUME NEW v \in Workers PROVE Sound(v)' /\ Clean(v)'
    <3>1. /\ pc'[v] = pc[v] /\ used'[v] = used[v] /\ failed'[v] = failed[v]
          /\ carried'[v] = carried[v] /\ newest' = newest /\ access' = access
      BY <1>1 DEF calls, shopee
    <3>2. pc[v] # "post" /\ pc[v] \notin Storing /\ pc[v] # "storeRefresh" /\ failed[v] = 0
      BY <2>1, <2>2 DEF Refreshing, Storing
    <3>3. Sound(v)
      BY DEF Inv
    <3> QED  BY <2>1, <2>2, <3>1, <3>2, <3>3 DEF Sound, Clean
  <2>5. Stored'
    BY <1>1, <2>1 DEF Stored, shopee
  <2> QED  BY <1>5, <1>6, <2>3, <2>4, <2>5 DEF Inv
<1> QED  BY <1>7, <1>8

\* The breaker is closed by hand.
LEMMA ResetKeeps ==
  ASSUME Inv, Reset
  PROVE  Inv'
<1>1. fatal' = FALSE /\ meddled' = TRUE /\ UNCHANGED <<shopee, redis, calls, admin, torn>>
  BY DEF Reset
<1>2. TypeOK' /\ Numbered' /\ Whole'
  BY AdminKnown, <1>1 DEF TypeOK, Numbered, Whole, NoPair, shopee, redis, calls, admin
<1> QED  BY AdminKnown, <1>1, <1>2, BesideKeeps DEF shopee

\* An access token expires.
LEMMA ExpireKeeps ==
  ASSUME Inv, Expire
  PROVE  Inv'
<1>1. expired' = TRUE /\ UNCHANGED <<newest, redis, fatal, calls, admin, history>>
  BY DEF Expire
<1>2. TypeOK' /\ Numbered' /\ Whole'
  BY AdminKnown, <1>1 DEF TypeOK, Numbered, Whole, NoPair, redis, calls, admin
<1> QED  BY AdminKnown, <1>1, <1>2, BesideKeeps DEF redis

-----------------------------------------------------------------------------
(* A restart *)

\* Nothing is left of the calls, nor of the lock; what Redis lacks after it
\* is excused by the history.
LEMMA CrashKeeps ==
  ASSUME Inv, Crash
  PROVE  Inv'
<1>1. /\ pc' = [w \in Workers |-> "idle"] /\ used' = [w \in Workers |-> 0]
      /\ failed' = [w \in Workers |-> 0] /\ carried' = [w \in Workers |-> 0]
      /\ tries' = [w \in Workers |-> 0]
      /\ lock' = <<>> /\ fatal' = FALSE /\ saving' = NoPair /\ page' \in {page, NoPair}
      /\ torn' = (torn \/ fatal \/ \E w \in Workers : pc[w] \in Storing)
      /\ UNCHANGED <<newest, expired, access, refresh, meddled>>
  BY DEF Crash, None, Storing, shopee, redis
<1>2. /\ NoPair \in [access : 0..LastPair, refresh : 0..LastPair]
      /\ NoPair.access = 0 /\ NoPair.refresh = 0
  BY Numbers DEF NoPair, None
<1>3. TypeOK'
  <2>1. CallsTyped' /\ lock' \in Seq(Workers)
    BY <1>1, Numbers DEF CallsTyped, Points
  <2>2. /\ page' \in [access : 0..LastPair, refresh : 0..LastPair]
        /\ saving' \in [access : 0..LastPair, refresh : 0..LastPair]
    BY AdminKnown, <1>1, <1>2
  <2>3. torn' \in BOOLEAN
    BY <1>1
  <2> QED  BY AdminKnown, <1>1, <2>1, <2>2, <2>3 DEF TypeOK, CallsTyped
<1>4. LockSound'
  BY <1>1 DEF LockSound, Queued, Refreshing
<1>5. Numbered' /\ Whole'
  BY AdminKnown, <1>1, <1>2 DEF Numbered, Whole
<1>6. ASSUME NEW w \in Workers PROVE Sound(w)' /\ Clean(w)'
  BY AdminKnown, <1>1 DEF Sound, Clean, Storing, Refreshing
<1>7. ~meddled => Stored'
  BY <1>1 DEF Inv, Stored
<1> QED  BY <1>1, <1>3, <1>4, <1>5, <1>6, <1>7 DEF Inv

-----------------------------------------------------------------------------
(* The invariant *)

\* The invariant holds at first.
LEMMA InitInv == Init => Inv
<1> SUFFICES ASSUME Init PROVE Inv
  OBVIOUS
<1>1. /\ newest = 1 /\ access = 1 /\ refresh = 1 /\ fatal = FALSE /\ meddled = FALSE /\ torn = FALSE
      /\ pc = [w \in Workers |-> "idle"] /\ used = [w \in Workers |-> 0]
      /\ failed = [w \in Workers |-> 0] /\ carried = [w \in Workers |-> 0]
      /\ lock = <<>> /\ page = NoPair /\ saving = NoPair
      /\ NoPair = [access |-> 0, refresh |-> 0]
  BY DEF Init, NoPair, None
<1>2. TypeOK
  <2>1. newest \in Pairs /\ access \in Pairs /\ refresh \in Pairs
    BY Numbers, <1>1 DEF Pairs
  <2>2. expired \in BOOLEAN /\ fatal \in BOOLEAN /\ meddled \in BOOLEAN /\ torn \in BOOLEAN
    BY <1>1 DEF Init
  <2>3. /\ pc \in [Workers -> Points]
        /\ used \in [Workers -> 0..LastPair] /\ failed \in [Workers -> 0..LastPair]
        /\ carried \in [Workers -> 0..LastPair] /\ tries \in [Workers -> 0..MaxRetries]
    BY Numbers, <1>1 DEF Init, Points
  <2>4. /\ page \in [access : 0..LastPair, refresh : 0..LastPair]
        /\ saving \in [access : 0..LastPair, refresh : 0..LastPair] /\ lock \in Seq(Workers)
    BY Numbers, <1>1
  <2> QED  BY <2>1, <2>2, <2>3, <2>4 DEF TypeOK
<1>3. LockSound
  BY <1>1 DEF LockSound, Queued, Refreshing
<1>4. Numbered /\ Whole /\ Stored
  BY <1>1 DEF Numbered, Whole, Stored
<1>5. \A w \in Workers : Sound(w) /\ Clean(w)
  BY <1>1 DEF Sound, Clean, Storing, Refreshing
<1> QED  BY <1>2, <1>3, <1>4, <1>5 DEF Inv

\* Every step keeps it.
LEMMA StepInv == Inv /\ [Next]_vars => Inv'
<1> SUFFICES ASSUME Inv, [Next]_vars PROVE Inv'
  OBVIOUS
<1>1. ASSUME NEW w \in Workers, Begin(w) \/ Proceed(w) PROVE Inv'
  BY <1>1, BeginKeeps, ReadAccessKeeps, SucceedKeeps, RateLimitedKeeps, RefusedKeeps,
     BrokenKeeps, AcquireKeeps, CompareKeeps, ReadRefreshKeeps, ExchangeKeeps, RejectKeeps,
     StoreAccessKeeps, StoreRefreshKeeps, StoreFailsKeeps DEF Proceed
<1>2. CASE OpenAccess \/ OpenRefresh \/ Authorise \/ SaveAccess \/ SaveRefresh \/ Reset \/ Expire
             \/ Crash
  BY <1>2, OpenAccessKeeps, OpenRefreshKeeps, AuthoriseKeeps, SaveAccessKeeps,
     SaveRefreshKeeps, ResetKeeps, ExpireKeeps, CrashKeeps
<1>3. CASE Close \/ SaveFails
  BY <1>3, ForgetKeeps DEF Close, SaveFails
<1>4. CASE UNCHANGED vars
  BY <1>4, ForgetKeeps DEF vars, admin
<1> QED  BY <1>1, <1>2, <1>3, <1>4 DEF Next, Administer

\* The invariant holds in every reachable state: the lock has one holder, the
\* pairs are numbered, and the calls are sound and, unless somebody meddled,
\* clean.
THEOREM InvHolds == Spec => []Inv
  BY InitInv, StepInv, PTL DEF Spec

\* Every variable keeps its type: what is stored in Redis is always a pair
\* that Shopee issued, and no call is tried more than MaxRetries times.
THEOREM TypeCorrect == Spec => []TypeOK
<1>1. Inv => TypeOK
  BY DEF Inv
<1> QED  BY <1>1, InvHolds, PTL

\* The stored refresh token is the one that Shopee would take, or the newest
\* pair is on its way into Redis, or the breaker has tripped, or somebody
\* meddled, or the process died with the pair half stored or the breaker
\* tripped: a crash anywhere else loses nothing.  About the writes of
\* refresh_shopee_token.
THEOREM StoredStaysUnspent == Spec => []StoredIsUnspent
<1>1. Inv => StoredIsUnspent
  BY DEF Inv, Stored, Clean, StoredIsUnspent, Storing
<1> QED  BY <1>1, InvHolds, PTL

\* No refresh token is sent after it was exchanged, unless somebody meddled
\* or a crash left a spent one in Redis.
\* About the checks that shopee_request makes again under the lock.
THEOREM NoTokenTwice == Spec => []NoTokenSpentTwice
<1>1. Inv => NoTokenSpentTwice
  BY DEF Inv, Clean, NoTokenSpentTwice
<1> QED  BY <1>1, InvHolds, PTL

\* Once the breaker has tripped nobody refreshes, not even a call that had
\* queued before.  About worker check 1 of shopee_request.
THEOREM TrippedMeansStopped == Spec => []FailFast
<1>1. Inv => FailFast
  BY DEF Inv, Sound, FailFast, InRefresh
<1> QED  BY <1>1, InvHolds, PTL

\* Only ReadAccess brings a call to "call".
LEMMA ReadsOnly ==
  ASSUME Inv, [Next]_vars, NEW w \in Workers, pc[w] = "read", pc'[w] = "call"
  PROVE  ReadAccess(w)
<1>1. CallsTyped
  BY Known
<1>2. ASSUME NEW v \in Workers, Begin(v) \/ Proceed(v) PROVE ReadAccess(w)
  <2>1. pc \in [Workers -> Points]
    BY <1>1 DEF CallsTyped
  <2>2. CASE ReadAccess(v)
    <3>1. pc' = [pc EXCEPT ![v] = "call"]
      BY <2>2 DEF ReadAccess, Go
    <3>2. v = w
      BY <2>1, <3>1
    <3> QED  BY <2>2, <3>2
  <2>3. ASSUME NEW l \in Points \ {"call"}, Go(v, l) PROVE FALSE
    BY <2>1, <2>3 DEF Go
  <2>4. CASE Go(v, "idle") \/ Go(v, "read") \/ Go(v, "lock") \/ Go(v, "current")
             \/ Go(v, "readRefresh") \/ Go(v, "post")
             \/ Go(v, "storeAccess") \/ Go(v, "storeRefresh")
    BY <2>3, <2>4 DEF Points, Refreshing
  <2>5. CASE Begin(v) \/ Succeed(v) \/ RateLimited(v) \/ Refused(v) \/ Broken(v) \/ Acquire(v)
             \/ Compare(v) \/ ReadRefresh(v)
    BY <2>4, <2>5 DEF Begin, Succeed, RateLimited, Refused, Broken, Acquire, Compare, Retry,
                      ReadRefresh, End
  <2>6. CASE Exchange(v) \/ Reject(v) \/ StoreAccess(v) \/ StoreRefresh(v) \/ StoreFails(v)
    BY <2>4, <2>6 DEF Exchange, Reject, StoreAccess, StoreRefresh, StoreFails, Retry, Trip, End
  <2> QED  BY <1>2, <2>2, <2>5, <2>6 DEF Proceed
<1>3. CASE Administer \/ Expire \/ UNCHANGED vars
  <2>1. pc' = pc
    BY <1>3 DEF Administer, Expire, vars, calls, OpenAccess, OpenRefresh, Close, Authorise,
                SaveAccess, SaveRefresh, SaveFails, Reset
  <2> QED  BY <2>1
<1>4. CASE Crash
  BY <1>4 DEF Crash
<1> QED  BY <1>2, <1>3, <1>4 DEF Next

\* A call that is tried again carries another access token than the refused
\* one, unless somebody meddled, and whatever crashed before.  About the second try of shopee_request.
THEOREM RetriesDiffer == Spec => RetriedWithAnother
<1> DEFINE Differs == \A w \in Workers :
                        pc[w] = "read" /\ pc'[w] = "call" /\ failed[w] # None
                          => used'[w] # failed[w] \/ meddled
<1>1. ASSUME Inv, [Next]_vars PROVE Differs
  <2> SUFFICES ASSUME NEW w \in Workers, pc[w] = "read", pc'[w] = "call",
                      failed[w] # 0, ~meddled
               PROVE  used'[w] # failed[w]
    BY DEF None
  <2>1. failed[w] < access /\ access \in Nat /\ failed[w] \in Nat
    BY <1>1, Known DEF Clean
  <2>2. used'[w] = access
    <3>1. pc'[w] # pc[w] /\ ReadAccess(w)
      BY <1>1, ReadsOnly
    <3> QED  BY <3>1, <1>1, Known DEF ReadAccess, CallsTyped
  <2> QED  BY <2>1, <2>2
<1>2. Inv /\ [Next]_vars => [Differs]_vars
  BY <1>1
<1> QED  BY <1>2, InvHolds, PTL DEF Spec, RetriedWithAnother

=============================================================================
