--------------------------- MODULE SessionsProofs ---------------------------
(***************************************************************************)
(* Theorems about Sessions for any users, sessions, requests, instances of *)
(* the application and bounds: tokens are single, used once, held only     *)
(* while stored, and end with the logout and with the account.             *)
(*                                                                         *)
(* The invariant says, of each request, what it can be (Fit), that without *)
(* a race it carries the newest token (Ready), that its account stands     *)
(* (Stands), that somebody hears of it (Heeded), and what it finds when    *)
(* nothing else of the session ran (Clear); of two requests, that they     *)
(* keep Apart; of each session, that its numbers are Sane, its token       *)
(* Single, its account there (Stays), its client Told when the token goes, *)
(* and the token Kept until the logout.                                    *)
(***************************************************************************)
EXTENDS Sessions, TLAPS

Active == {"account", "consume", "issue"}
Holding == {"refresh", "logout", "quit"}

\* The client will hear that its token has gone.
Waits(s) == \E r \in Requests : req[r].s = s /\ req[r].heard /\ req[r].op \in Holding

\* A token may be held that is not stored.
Excused(s) ==
    \/ held[s] <= lapsed[s] \/ held[s] <= dead[s]
    \/ owner[s] \notin users \/ since[s] < births[owner[s]]

\* Of one request: what it can be, ...
Fit(r) ==
    /\ req[r].s \in Sessions <=> req[r].op # "none"
    /\ req[r].op = "none" => req[r].at = "none"
    /\ req[r].op = "login" => req[r].at = "issue" /\ latest[req[r].s] = 0
    /\ req[r].op = "refresh" => req[r].at \in Active \union {"lookup", "discard"}
    /\ req[r].op \in {"logout", "quit"} => req[r].at \in {"erase", "leave"}
    /\ req[r].op \in Holding => req[r].n > 0 /\ req[r].n <= latest[req[r].s]
    /\ req[r].op # "none" => owner[req[r].s] # Nobody

\* ... the token it replaces, ...
Ready(r) ==
    req[r].at \in Active /\ req[r].s \notin raced =>
       /\ req[r].op = "refresh" => req[r].n = latest[req[r].s] /\ uses[req[r].s][req[r].n] = 0
       /\ req[r].at = "issue" => rows[req[r].s] = {}

\* ... the account it has read, ...
Stands(r) ==
    req[r].at \in Active =>
       \/ owner[req[r].s] \in users /\ since[req[r].s] = births[owner[req[r].s]]
       \/ req[r].s \in straddled

\* ... who hears of it, and what it finds when nothing else runs.
Heeded(r) ==
    req[r].op \in Holding /\ ~req[r].heard => req[r].n # held[req[r].s] \/ Waits(req[r].s)

Clear(r) ==
    req[r].s \in Sessions \ crossed =>
       /\ req[r].heard
       /\ req[r].op \in Holding => req[r].n = held[req[r].s]
       /\ req[r].at = "leave" => \A n \in rows[req[r].s] : n <= dead[req[r].s]

\* Of two requests.
Apart(r, q) ==
    req[r].s = req[q].s /\ r # q =>
       /\ ~(req[r].op = "login" /\ req[q].op = "login")
       /\ req[r].at \in Active /\ req[q].at \in Active => req[r].s \in raced
       /\ req[r].s \notin Sessions \ crossed

\* Of one session: its numbers, ...
Sane(s) ==
    /\ \A n \in rows[s] : n <= latest[s]
    /\ held[s] <= latest[s]
    /\ owner[s] = Nobody => latest[s] = 0
    /\ owner[s] # Nobody => since[s] <= births[owner[s]]
    /\ \A n \in Gens : n > latest[s] => uses[s][n] = 0

\* ... its single token, its account, ...
Single(s) ==
    s \notin raced =>
       /\ \A n \in rows[s] : n = latest[s] /\ uses[s][n] = 0
       /\ \A n \in Gens : uses[s][n] <= 1

Stays(s) ==
    rows[s] # {} =>
       /\ owner[s] \in users
       /\ since[s] = births[owner[s]] \/ s \in straddled

\* ... and what its client holds.
Told(s) == held[s] # 0 => held[s] \in rows[s] \/ Excused(s) \/ Waits(s)

Kept(s) == s \notin crossed => \A n \in rows[s] : n = held[s] \/ n <= dead[s]

Inv ==
    /\ TypeOK
    /\ raced \subseteq crossed
    /\ \A r \in Requests : Fit(r) /\ Ready(r) /\ Stands(r) /\ Heeded(r) /\ Clear(r)
    /\ \A r, q \in Requests : Apart(r, q)
    /\ \A s \in Sessions : Sane(s) /\ Single(s) /\ Stays(s) /\ Told(s) /\ Kept(s)

-----------------------------------------------------------------------------
(* How a step changes one request *)

Only(r) == \A q \in Requests \ {r} : req'[q] = req[q]

\* Request r has ended.
Ended(r) == req'[r].op = "none" /\ req'[r].at = "none" /\ req'[r].s = NoSession

\* Request r is at l, otherwise as before.
Moved(r, l) ==
    /\ req'[r].at = l /\ req'[r].op = req[r].op /\ req'[r].s = req[r].s
    /\ req'[r].n = req[r].n /\ req'[r].heard = req[r].heard

\* Request r goes on, unheard.
Muted(r) ==
    /\ req'[r].at = req[r].at /\ req'[r].op = req[r].op /\ req'[r].s = req[r].s
    /\ req'[r].n = req[r].n /\ ~req'[r].heard

\* Request r is a new one of session s, with the token n.
Sent(r, op, at, s, n) ==
    /\ req'[r].op = op /\ req'[r].at = at /\ req'[r].s = s
    /\ req'[r].n = n /\ req'[r].heard

\* Request r has failed.
Failed(r) ==
    \/ /\ req[r].heard /\ req[r].op = "refresh" /\ held[req[r].s] # 0
       /\ Sent(r, "quit", "erase", req[r].s, held[req[r].s])
    \/ /\ ~(req[r].heard /\ req[r].op = "refresh" /\ held[req[r].s] # 0)
       /\ Ended(r)

\* The bounds are numbers.
LEMMA Numbers == /\ MaxGen \in Nat /\ MaxBirths \in Nat /\ Apps \in Nat
                 /\ MaxGen > 0 /\ MaxBirths > 0
  BY SessionAssumption

\* No request is a request.
LEMMA NoneTyped == None \in Request
  BY Numbers DEF Request, None, NoToken, Points

\* A request that goes on.
LEMMA StepFacts ==
  ASSUME TypeOK, NEW r \in Requests, NEW l \in Points, Step(r, l)
  PROVE  req' \in [Requests -> Request] /\ Only(r) /\ Moved(r, l)
  BY DEF TypeOK, Request, Step, Only, Moved

\* A request that ends.
LEMMA DoneFacts ==
  ASSUME TypeOK, NEW r \in Requests, Done(r)
  PROVE  req' \in [Requests -> Request] /\ Only(r) /\ Ended(r)
<1>1. req' \in [Requests -> Request] /\ Only(r) /\ req'[r] = None
  BY NoneTyped DEF TypeOK, Done, Only
<1> QED  BY <1>1 DEF None, Ended

\* A request that begins.
LEMMA SendFacts ==
  ASSUME TypeOK, NEW r \in Requests, NEW op \in {"none", "login", "refresh", "logout", "quit"},
         NEW at \in Points, NEW s \in Sessions, NEW n \in 0..MaxGen, Send(r, op, at, s, n)
  PROVE  /\ req' \in [Requests -> Request] /\ Only(r) /\ Sent(r, op, at, s, n)
         /\ req[r].op = "none" /\ req[r].s = NoSession /\ req[r].at = "none"
  BY DEF TypeOK, Request, Send, Only, Sent, None

\* A request that fails: the client of a refresh logs out, any other ends.
LEMMA FailFacts ==
  ASSUME TypeOK, NEW r \in Requests, req[r].s \in Sessions, Fail(r)
  PROVE  req' \in [Requests -> Request] /\ Only(r) /\ Failed(r)
<1>1. CASE req[r].heard /\ req[r].op = "refresh" /\ held[req[r].s] # 0
  <2>1. LogOutWith(r)
    BY <1>1 DEF Fail, NoToken
  <2>2. req[r] \in Request /\ held[req[r].s] \in 0..MaxGen
    BY DEF TypeOK
  <2> DEFINE new == [req[r] EXCEPT !.op = "quit", !.at = "erase", !.n = held[req[r].s]]
  <2>3. /\ new \in Request /\ new.op = "quit" /\ new.at = "erase" /\ new.s = req[r].s
        /\ new.n = held[req[r].s] /\ new.heard = req[r].heard
    BY <2>2 DEF Request, Points
  <2>4. req' = [req EXCEPT ![r] = new]
    BY <2>1 DEF LogOutWith
  <2> HIDE DEF new
  <2>5. req' \in [Requests -> Request] /\ req'[r] = new /\ Only(r)
    BY <2>3, <2>4 DEF TypeOK, Only
  <2> QED  BY <1>1, <2>3, <2>5 DEF Failed, Sent
<1>2. CASE ~(req[r].heard /\ req[r].op = "refresh" /\ held[req[r].s] # 0)
  BY <1>2, DoneFacts DEF Fail, Failed, NoToken
<1> QED  BY <1>1, <1>2

-----------------------------------------------------------------------------
(* The two ways to give up *)

ClearsStore(r) ==
    /\ req[r].heard /\ req[r].op # "none"
    /\ req' = [req EXCEPT ![r].heard = FALSE]
    /\ held' = IF req[r].op = "login" THEN held ELSE [held EXCEPT ![req[r].s] = 0]
    /\ crossed' = crossed \union {req[r].s}
    /\ UNCHANGED <<tables, since, straddled, raced, uses>>

LogsOutInstead(r, q) ==
    /\ req[r].heard /\ req[r].op = "refresh" /\ held[req[r].s] # 0 /\ req[q] = None
    /\ req' = [req EXCEPT ![r].heard = FALSE,
                          ![q] = [op |-> "quit", at |-> "erase", s |-> req[r].s,
                                  n |-> held[req[r].s], heard |-> TRUE]]
    /\ crossed' = crossed \union {req[r].s}
    /\ UNCHANGED <<tables, held, since, straddled, raced, uses>>

-----------------------------------------------------------------------------
(* Two requests, when one of them goes on or ends *)

\* Requests of one session stay apart when one of them moves on without a race.
LEMMA ApartFacts ==
  ASSUME NEW r \in Requests, Only(r), \A q, p \in Requests : Apart(q, p),
         req'[r].s = req[r].s \/ req'[r].s = NoSession, NoSession \notin Sessions,
         raced \subseteq raced', crossed \subseteq crossed',
         req'[r].op = "login" => req[r].op = "login" /\ req'[r].s = req[r].s,
         req'[r].s = NoSession => req'[r].at \notin Active,
         req'[r].at \in Active =>
            \A q \in Requests \ {r} :
               req[q].s = req[r].s /\ req[q].at \in Active => req[r].s \in raced'
  PROVE  \A q, p \in Requests : Apart(q, p)'
<1> SUFFICES ASSUME NEW q \in Requests, NEW p \in Requests, q # p, req'[q].s = req'[p].s
             PROVE  /\ ~(req'[q].op = "login" /\ req'[p].op = "login")
                    /\ req'[q].at \in Active /\ req'[p].at \in Active => req'[q].s \in raced'
                    /\ req'[q].s \notin Sessions \ crossed'
  BY DEF Apart
<1>1. Apart(q, p) /\ Apart(p, q)
  OBVIOUS
<1>2. CASE q # r /\ p # r
  BY <1>1, <1>2 DEF Apart, Only
<1>3. CASE q = r
  BY <1>1, <1>3 DEF Apart, Only
<1>4. CASE p = r
  BY <1>1, <1>4 DEF Apart, Only
<1> QED  BY <1>2, <1>3, <1>4

\* The invariant, part by part.
LEMMA Known ==
  ASSUME Inv
  PROVE  /\ TypeOK /\ raced \subseteq crossed /\ MaxGen \in Nat /\ MaxBirths \in Nat
         /\ NoSession \notin Sessions /\ Nobody \notin Users
         /\ \A q \in Requests : req[q] \in Request /\ req[q].n \in Nat
         /\ \A q \in Requests : Fit(q) /\ Ready(q) /\ Stands(q) /\ Heeded(q) /\ Clear(q)
         /\ \A q, p \in Requests : Apart(q, p)
         /\ \A t \in Sessions : Sane(t) /\ Single(t) /\ Stays(t) /\ Told(t) /\ Kept(t)
  BY Numbers, SessionAssumption DEF Inv, TypeOK, Request

-----------------------------------------------------------------------------
(* Each action keeps the invariant *)

\* The lookup: without a race the token found is the newest, and no other
\* request of the session is past its own lookup.
LEMMA LookUpKeeps ==
  ASSUME Inv, NEW r \in Requests, LookUp(r)
  PROVE  Inv'
<1> DEFINE s == req[r].s  n == req[r].n
<1>1. req[r].at = "lookup" /\ req[r].op = "refresh" /\ s \in Sessions
  BY Known DEF LookUp, Fit, Request, Active, Holding
<1>2. /\ UNCHANGED <<users, births, rows, latest, owner, lapsed, dead, held, since, crossed, straddled, uses>>
      /\ raced' = IF Pending(s, n) # {} THEN raced \union {s} ELSE raced
  BY DEF LookUp, tables
<1>3. /\ req' \in [Requests -> Request] /\ Only(r)
      /\ \/ Failed(r)
         \/ Moved(r, "discard") /\ n \in rows[s]
         \/ Moved(r, "account") /\ n \in rows[s]
  <2>1. CASE n <= dead[s] \/ n \notin rows[s]
    BY Known, <1>1, <2>1, FailFacts DEF LookUp
  <2>2. CASE ~(n <= dead[s] \/ n \notin rows[s]) /\ n <= lapsed[s]
    BY Known, <1>1, <2>2, StepFacts DEF LookUp, Points
  <2>3. CASE ~(n <= dead[s] \/ n \notin rows[s]) /\ ~(n <= lapsed[s])
    BY Known, <1>1, <2>3, StepFacts DEF LookUp, Points
  <2> QED  BY <2>1, <2>2, <2>3
<1>4. /\ raced \subseteq raced' /\ raced' \subseteq raced \union {s}
      /\ s \notin raced' => \A q \in Requests :
            req[q].s = s /\ req[q].n = n => req[q].at \notin {"account", "consume"}
  BY <1>2 DEF Pending, Of
<1>10. TypeOK'
  BY Known, <1>1, <1>2, <1>3, <1>4 DEF TypeOK
<1>11. raced' \subseteq crossed'
  BY Known, <1>1, <1>2, <1>3, <1>4 DEF Apart, Pending, Of
<1>12. \A q \in Requests : Fit(q)'
  <2>1. Fit(r)'
    BY Known, <1>1, <1>2, <1>3, <1>4 DEF Fit, TypeOK, Failed, Moved, Sent, Ended, Sane, Active, Holding
  <2>2. ASSUME NEW q \in Requests \ {r} PROVE Fit(q)'
    BY Known, <1>1, <1>2, <1>3, <1>4 DEF Fit, Only, TypeOK
  <2> QED  BY <2>1, <2>2
<1>13. \A q \in Requests : Ready(q)'
  <2>1. Ready(r)'
    BY Known, <1>1, <1>2, <1>3, <1>4 DEF Ready, Fit, Failed, Moved, Sent, Ended, Single, Active, Holding
  <2>2. ASSUME NEW q \in Requests \ {r} PROVE Ready(q)'
    BY Known, <1>1, <1>2, <1>3, <1>4 DEF Ready, Only
  <2> QED  BY <2>1, <2>2
<1>14. \A q \in Requests : Stands(q)'
  <2>1. Stands(r)'
    BY Known, <1>1, <1>2, <1>3, <1>4 DEF Stands, Stays, Failed, Moved, Sent, Ended, Active
  <2>2. ASSUME NEW q \in Requests \ {r} PROVE Stands(q)'
    BY Known, <1>1, <1>2, <1>3, <1>4 DEF Stands, Only
  <2> QED  BY <2>1, <2>2
<1>15. \A t \in Sessions : held[t] # 0 /\ Waits(t) => Waits(t)'
  BY Known, <1>1, <1>2, <1>3, <1>4 DEF Waits, Only, Failed, Moved, Sent, Ended, Holding, Fit
<1>16. \A q \in Requests : Heeded(q)'
  BY Known, <1>1, <1>2, <1>3, <1>4, <1>15 DEF Heeded, Only, Failed, Moved, Sent, Ended, Holding, Fit
<1>17. \A q \in Requests : Clear(q)'
  <2>1. Clear(r)'
    BY Known, <1>1, <1>2, <1>3, <1>4 DEF Clear, Failed, Moved, Sent, Ended, Holding
  <2>2. ASSUME NEW q \in Requests \ {r} PROVE Clear(q)'
    BY Known, <1>1, <1>2, <1>3, <1>4 DEF Clear, Only
  <2> QED  BY <2>1, <2>2
<1>18. \A q, p \in Requests : Apart(q, p)'
  <2>1. ASSUME NEW q \in Requests \ {r}, req'[r].at \in Active, req[q].s = s, req[q].at \in Active
        PROVE  s \in raced'
    <3>1. SUFFICES ASSUME s \notin raced' PROVE FALSE
      OBVIOUS
    <3>2. n \in rows[s] /\ n = latest[s] /\ n > 0
      BY Known, <1>1, <1>2, <1>3, <1>4, <2>1, <3>1 DEF Failed, Sent, Ended, Moved, Active, Single, Fit, Holding
    <3>3. req[q].op = "refresh" /\ req[q].at # "issue"
      BY Known, <1>1, <1>2, <1>3, <1>4, <2>1, <3>1, <3>2 DEF Fit, Ready, Active, Request
    <3> QED  BY Known, <1>1, <1>2, <1>3, <1>4, <2>1, <3>1, <3>2, <3>3 DEF Ready, Active
  <2> QED  BY Known, <1>1, <1>2, <1>3, <1>4, <2>1, ApartFacts DEF Failed, Sent, Ended, Moved, Active
<1>19. \A t \in Sessions : Sane(t)'
  BY Known, <1>1, <1>2, <1>3, <1>4 DEF Sane
<1>20. \A t \in Sessions : Single(t)'
  BY Known, <1>1, <1>2, <1>3, <1>4 DEF Single
<1>21. \A t \in Sessions : Stays(t)'
  BY Known, <1>1, <1>2, <1>3, <1>4 DEF Stays
<1>22. \A t \in Sessions : Told(t)'
  BY Known, <1>1, <1>2, <1>3, <1>4, <1>15 DEF Told, Excused
<1>23. \A t \in Sessions : Kept(t)'
  BY Known, <1>1, <1>2, <1>3, <1>4 DEF Kept
<1> QED
  BY <1>10, <1>11, <1>12, <1>13, <1>14, <1>16, <1>17, <1>18, <1>19, <1>20, <1>21, <1>22, <1>23 DEF Inv

\* An outdated token goes: its client logs out.
LEMMA DiscardKeeps ==
  ASSUME Inv, NEW r \in Requests, Discard(r)
  PROVE  Inv'
<1> DEFINE s == req[r].s  n == req[r].n
<1>1. req[r].at = "discard" /\ req[r].op = "refresh" /\ s \in Sessions
  BY Known DEF Discard, Fit, Request, Active, Holding
<1>2. UNCHANGED <<users, births, latest, owner, lapsed, dead, held, since, crossed, straddled, raced, uses>>
  BY DEF Discard, history
<1>3. /\ rows' \in [Sessions -> SUBSET Gens]
      /\ \A t \in Sessions : rows'[t] = IF t = s THEN rows[s] \ {n} ELSE rows[t]
  BY Known DEF Discard, Remove, TypeOK
<1>4. req' \in [Requests -> Request] /\ Only(r) /\ Failed(r)
  BY Known, <1>1, FailFacts DEF Discard
<1>10. TypeOK'
  BY Known, <1>1, <1>2, <1>3, <1>4 DEF TypeOK
<1>11. raced' \subseteq crossed'
  BY Known, <1>1, <1>2, <1>3, <1>4
<1>12. \A q \in Requests : Fit(q)'
  <2>1. Fit(r)'
    BY Known, <1>1, <1>2, <1>3, <1>4 DEF Fit, TypeOK, Failed, Moved, Sent, Ended, Sane, Active, Holding
  <2>2. ASSUME NEW q \in Requests \ {r} PROVE Fit(q)'
    BY Known, <1>1, <1>2, <1>3, <1>4 DEF Fit, Only, TypeOK
  <2> QED  BY <2>1, <2>2
<1>13. \A q \in Requests : Ready(q)'
  <2>1. Ready(r)'
    BY Known, <1>1, <1>2, <1>3, <1>4 DEF Ready, Fit, Failed, Moved, Sent, Ended, Single, Active, Holding
  <2>2. ASSUME NEW q \in Requests \ {r} PROVE Ready(q)'
    BY Known, <1>1, <1>2, <1>3, <1>4 DEF Ready, Only, Fit, Active, Holding
  <2> QED  BY <2>1, <2>2
<1>14. \A q \in Requests : Stands(q)'
  <2>1. Stands(r)'
    BY Known, <1>1, <1>2, <1>3, <1>4 DEF Stands, Fit, Failed, Moved, Sent, Ended, Active
  <2>2. ASSUME NEW q \in Requests \ {r} PROVE Stands(q)'
    BY Known, <1>1, <1>2, <1>3, <1>4 DEF Stands, Only, Fit, Active
  <2> QED  BY <2>1, <2>2
<1>15. \A t \in Sessions : held[t] # 0 /\ Waits(t) => Waits(t)'
  BY Known, <1>1, <1>2, <1>3, <1>4 DEF Waits, Only, Failed, Moved, Sent, Ended, Holding, Fit
<1>16. \A q \in Requests : Heeded(q)'
  BY Known, <1>1, <1>2, <1>3, <1>4, <1>15 DEF Heeded, Only, Failed, Moved, Sent, Ended, Holding, Fit
<1>17. \A q \in Requests : Clear(q)'
  <2>1. Clear(r)'
    BY Known, <1>1, <1>2, <1>3, <1>4 DEF Clear, Failed, Moved, Sent, Ended, Holding
  <2>2. ASSUME NEW q \in Requests \ {r} PROVE Clear(q)'
    BY Known, <1>1, <1>2, <1>3, <1>4 DEF Clear, Only
  <2> QED  BY <2>1, <2>2
<1>18. \A q, p \in Requests : Apart(q, p)'
  <2>1. req'[r].at \in Active => req[r].at \in Active
    BY Known, <1>1, <1>2, <1>3, <1>4 DEF Failed, Moved, Sent, Ended, Active
  <2> QED  BY Known, <1>1, <1>2, <1>3, <1>4, <2>1, ApartFacts DEF Fit, Apart, Failed, Moved, Sent, Ended, Active
<1>19. \A t \in Sessions : Sane(t)'
  BY Known, <1>1, <1>2, <1>3, <1>4 DEF Sane
<1>20. \A t \in Sessions : Single(t)'
  BY Known, <1>1, <1>2, <1>3, <1>4 DEF Single
<1>21. \A t \in Sessions : Stays(t)'
  BY Known, <1>1, <1>2, <1>3, <1>4 DEF Stays
<1>22. \A t \in Sessions : Told(t)'
  <2>1. ASSUME NEW t \in Sessions, t = s, held[t] = n, held[t] # 0
        PROVE  Waits(t)'
    <3>1. CASE req[r].heard
      BY Known, <1>1, <1>2, <1>3, <1>4, <2>1, <3>1 DEF Waits, Failed, Moved, Sent, Holding
    <3>2. CASE ~req[r].heard
      BY Known, <1>1, <1>2, <1>3, <1>4, <1>15, <2>1, <3>2 DEF Heeded, Holding
    <3> QED  BY <3>1, <3>2
  <2>2. ASSUME NEW t \in Sessions PROVE Told(t)'
    BY Known, <1>1, <1>2, <1>3, <1>4, <1>15, <2>1 DEF Told, Excused
  <2> QED  BY <2>2
<1>23. \A t \in Sessions : Kept(t)'
  BY Known, <1>1, <1>2, <1>3, <1>4 DEF Kept
<1> QED
  BY <1>10, <1>11, <1>12, <1>13, <1>14, <1>16, <1>17, <1>18, <1>19, <1>20, <1>21, <1>22, <1>23 DEF Inv

\* The account is there, or the refresh fails.
LEMMA ReadAccountKeeps ==
  ASSUME Inv, NEW r \in Requests, ReadAccount(r)
  PROVE  Inv'
<1> DEFINE s == req[r].s  n == req[r].n
<1>1. req[r].at = "account" /\ req[r].op = "refresh" /\ s \in Sessions
  BY Known DEF ReadAccount, Fit, Request, Active, Holding
<1>2. UNCHANGED <<users, births, rows, latest, owner, lapsed, dead, held, since, crossed, straddled, raced, uses>>
  BY DEF ReadAccount, tables, history
<1>3. req' \in [Requests -> Request] /\ Only(r) /\ (Failed(r) \/ Moved(r, "consume"))
  BY Known, <1>1, FailFacts, StepFacts DEF ReadAccount, Points
<1>10. TypeOK'
  BY Known, <1>1, <1>2, <1>3 DEF TypeOK
<1>11. raced' \subseteq crossed'
  BY Known, <1>1, <1>2, <1>3
<1>12. \A q \in Requests : Fit(q)'
  <2>1. Fit(r)'
    BY Known, <1>1, <1>2, <1>3 DEF Fit, TypeOK, Failed, Moved, Sent, Ended, Sane, Active, Holding
  <2>2. ASSUME NEW q \in Requests \ {r} PROVE Fit(q)'
    BY Known, <1>1, <1>2, <1>3 DEF Fit, Only, TypeOK
  <2> QED  BY <2>1, <2>2
<1>13. \A q \in Requests : Ready(q)'
  <2>1. Ready(r)'
    BY Known, <1>1, <1>2, <1>3 DEF Ready, Fit, Failed, Moved, Sent, Ended, Single, Active, Holding
  <2>2. ASSUME NEW q \in Requests \ {r} PROVE Ready(q)'
    BY Known, <1>1, <1>2, <1>3 DEF Ready, Only, Fit, Active, Holding
  <2> QED  BY <2>1, <2>2
<1>14. \A q \in Requests : Stands(q)'
  <2>1. Stands(r)'
    BY Known, <1>1, <1>2, <1>3 DEF Stands, Fit, Failed, Moved, Sent, Ended, Active
  <2>2. ASSUME NEW q \in Requests \ {r} PROVE Stands(q)'
    BY Known, <1>1, <1>2, <1>3 DEF Stands, Only, Fit, Active
  <2> QED  BY <2>1, <2>2
<1>15. \A t \in Sessions : held[t] # 0 /\ Waits(t) => Waits(t)'
  BY Known, <1>1, <1>2, <1>3 DEF Waits, Only, Failed, Moved, Sent, Ended, Holding, Fit
<1>16. \A q \in Requests : Heeded(q)'
  BY Known, <1>1, <1>2, <1>3, <1>15 DEF Heeded, Only, Failed, Moved, Sent, Ended, Holding, Fit
<1>17. \A q \in Requests : Clear(q)'
  <2>1. Clear(r)'
    BY Known, <1>1, <1>2, <1>3 DEF Clear, Failed, Moved, Sent, Ended, Holding
  <2>2. ASSUME NEW q \in Requests \ {r} PROVE Clear(q)'
    BY Known, <1>1, <1>2, <1>3 DEF Clear, Only
  <2> QED  BY <2>1, <2>2
<1>18. \A q, p \in Requests : Apart(q, p)'
  <2>1. req'[r].at \in Active => req[r].at \in Active
    BY Known, <1>1, <1>2, <1>3 DEF Failed, Moved, Sent, Ended, Active
  <2> QED  BY Known, <1>1, <1>2, <1>3, <2>1, ApartFacts DEF Fit, Apart, Failed, Moved, Sent, Ended, Active
<1>19. \A t \in Sessions : Sane(t)'
  BY Known, <1>1, <1>2, <1>3 DEF Sane
<1>20. \A t \in Sessions : Single(t)'
  BY Known, <1>1, <1>2, <1>3 DEF Single
<1>21. \A t \in Sessions : Stays(t)'
  BY Known, <1>1, <1>2, <1>3 DEF Stays
<1>22. \A t \in Sessions : Told(t)'
  BY Known, <1>1, <1>2, <1>3, <1>15 DEF Told, Excused
<1>23. \A t \in Sessions : Kept(t)'
  BY Known, <1>1, <1>2, <1>3 DEF Kept
<1> QED
  BY <1>10, <1>11, <1>12, <1>13, <1>14, <1>16, <1>17, <1>18, <1>19, <1>20, <1>21, <1>22, <1>23 DEF Inv

\* The old token goes: whoever holds it waits for the answer.
LEMMA ConsumeKeeps ==
  ASSUME Inv, NEW r \in Requests, Consume(r)
  PROVE  Inv'
<1> DEFINE s == req[r].s  n == req[r].n
<1>1. req[r].at = "consume" /\ req[r].op = "refresh" /\ s \in Sessions
  BY Known DEF Consume, Fit, Request, Active, Holding
<1>2. UNCHANGED <<users, births, latest, owner, lapsed, dead, held, since, crossed, straddled, raced, uses>>
  BY DEF Consume, history
<1>3. /\ rows' \in [Sessions -> SUBSET Gens]
      /\ \A t \in Sessions : rows'[t] = IF t = s THEN rows[s] \ {n} ELSE rows[t]
  BY Known DEF Consume, Remove, TypeOK
<1>4. req' \in [Requests -> Request] /\ Only(r) /\ Moved(r, "issue")
  BY Known, <1>1, StepFacts DEF Consume, Points
<1>10. TypeOK'
  BY Known, <1>1, <1>2, <1>3, <1>4 DEF TypeOK
<1>11. raced' \subseteq crossed'
  BY Known, <1>1, <1>2, <1>3, <1>4
<1>12. \A q \in Requests : Fit(q)'
  <2>1. Fit(r)'
    BY Known, <1>1, <1>2, <1>3, <1>4 DEF Fit, TypeOK, Failed, Moved, Sent, Ended, Sane, Active, Holding
  <2>2. ASSUME NEW q \in Requests \ {r} PROVE Fit(q)'
    BY Known, <1>1, <1>2, <1>3, <1>4 DEF Fit, Only, TypeOK
  <2> QED  BY <2>1, <2>2
<1>13. \A q \in Requests : Ready(q)'
  <2>1. Ready(r)'
    BY Known, <1>1, <1>2, <1>3, <1>4 DEF Ready, Moved, Single, Active
  <2>2. ASSUME NEW q \in Requests \ {r}, req[q].s \in Sessions PROVE Ready(q)'
    BY Known, <1>1, <1>2, <1>3, <1>4, <2>2 DEF Ready, Only
  <2>3. ASSUME NEW q \in Requests \ {r}, req[q].s \notin Sessions PROVE Ready(q)'
    BY Known, <1>1, <1>2, <1>3, <1>4, <2>3 DEF Ready, Fit, Only, Active
  <2> QED  BY <2>1, <2>2, <2>3
<1>14. \A q \in Requests : Stands(q)'
  <2>1. Stands(r)'
    BY Known, <1>1, <1>2, <1>3, <1>4 DEF Stands, Fit, Failed, Moved, Sent, Ended, Active
  <2>2. ASSUME NEW q \in Requests \ {r} PROVE Stands(q)'
    BY Known, <1>1, <1>2, <1>3, <1>4 DEF Stands, Only, Fit, Active
  <2> QED  BY <2>1, <2>2
<1>15. \A t \in Sessions : held[t] # 0 /\ Waits(t) => Waits(t)'
  BY Known, <1>1, <1>2, <1>3, <1>4 DEF Waits, Only, Failed, Moved, Sent, Ended, Holding, Fit
<1>16. \A q \in Requests : Heeded(q)'
  BY Known, <1>1, <1>2, <1>3, <1>4, <1>15 DEF Heeded, Only, Failed, Moved, Sent, Ended, Holding, Fit
<1>17. \A q \in Requests : Clear(q)'
  <2>1. Clear(r)'
    BY Known, <1>1, <1>2, <1>3, <1>4 DEF Clear, Failed, Moved, Sent, Ended, Holding
  <2>2. ASSUME NEW q \in Requests \ {r} PROVE Clear(q)'
    BY Known, <1>1, <1>2, <1>3, <1>4 DEF Clear, Only
  <2> QED  BY <2>1, <2>2
<1>18. \A q, p \in Requests : Apart(q, p)'
  <2>1. req'[r].at \in Active => req[r].at \in Active
    BY Known, <1>1, <1>2, <1>3, <1>4 DEF Failed, Moved, Sent, Ended, Active
  <2> QED  BY Known, <1>1, <1>2, <1>3, <1>4, <2>1, ApartFacts DEF Fit, Apart, Failed, Moved, Sent, Ended, Active
<1>19. \A t \in Sessions : Sane(t)'
  BY Known, <1>1, <1>2, <1>3, <1>4 DEF Sane
<1>20. \A t \in Sessions : Single(t)'
  BY Known, <1>1, <1>2, <1>3, <1>4 DEF Single
<1>21. \A t \in Sessions : Stays(t)'
  BY Known, <1>1, <1>2, <1>3, <1>4 DEF Stays
<1>22. \A t \in Sessions : Told(t)'
  <2>1. ASSUME NEW t \in Sessions, t = s, held[t] = n, held[t] # 0
        PROVE  Waits(t)'
    <3>1. CASE req[r].heard
      BY Known, <1>1, <1>2, <1>3, <1>4, <2>1, <3>1 DEF Waits, Failed, Moved, Sent, Holding
    <3>2. CASE ~req[r].heard
      BY Known, <1>1, <1>2, <1>3, <1>4, <1>15, <2>1, <3>2 DEF Heeded, Holding
    <3> QED  BY <3>1, <3>2
  <2>2. ASSUME NEW t \in Sessions PROVE Told(t)'
    BY Known, <1>1, <1>2, <1>3, <1>4, <1>15, <2>1 DEF Told, Excused
  <2> QED  BY <2>2
<1>23. \A t \in Sessions : Kept(t)'
  BY Known, <1>1, <1>2, <1>3, <1>4 DEF Kept
<1> QED
  BY <1>10, <1>11, <1>12, <1>13, <1>14, <1>16, <1>17, <1>18, <1>19, <1>20, <1>21, <1>22, <1>23 DEF Inv

\* The logout removes what it was sent: without a crossing, all that is stored.
LEMMA EraseKeeps ==
  ASSUME Inv, NEW r \in Requests, Erase(r)
  PROVE  Inv'
<1> DEFINE s == req[r].s  n == req[r].n
<1>1. req[r].at = "erase" /\ req[r].op \in {"logout", "quit"} /\ s \in Sessions
  BY Known DEF Erase, Fit, Request, Active, Holding
<1>2. UNCHANGED <<users, births, latest, owner, lapsed, dead, held, since, crossed, straddled, raced, uses>>
  BY DEF Erase, history
<1>3. /\ rows' \in [Sessions -> SUBSET Gens]
      /\ \A t \in Sessions : rows'[t] = IF t = s /\ ~(n <= dead[s]) THEN rows[s] \ {n} ELSE rows[t]
  <2>1. CASE n <= dead[s]
    BY Known, <2>1 DEF Erase, TypeOK
  <2>2. CASE ~(n <= dead[s])
    BY Known, <2>2 DEF Erase, Remove, TypeOK
  <2> QED  BY <2>1, <2>2
<1>4. req' \in [Requests -> Request] /\ Only(r) /\ Moved(r, "leave")
  BY Known, <1>1, StepFacts DEF Erase, Points
<1>10. TypeOK'
  BY Known, <1>1, <1>2, <1>3, <1>4 DEF TypeOK
<1>11. raced' \subseteq crossed'
  BY Known, <1>1, <1>2, <1>3, <1>4
<1>12. \A q \in Requests : Fit(q)'
  <2>1. Fit(r)'
    BY Known, <1>1, <1>2, <1>3, <1>4 DEF Fit, TypeOK, Failed, Moved, Sent, Ended, Sane, Active, Holding
  <2>2. ASSUME NEW q \in Requests \ {r} PROVE Fit(q)'
    BY Known, <1>1, <1>2, <1>3, <1>4 DEF Fit, Only, TypeOK
  <2> QED  BY <2>1, <2>2
<1>13. \A q \in Requests : Ready(q)'
  <2>1. Ready(r)'
    BY Known, <1>1, <1>2, <1>3, <1>4 DEF Ready, Fit, Failed, Moved, Sent, Ended, Single, Active, Holding
  <2>2. ASSUME NEW q \in Requests \ {r} PROVE Ready(q)'
    BY Known, <1>1, <1>2, <1>3, <1>4 DEF Ready, Only, Fit, Active, Holding
  <2> QED  BY <2>1, <2>2
<1>14. \A q \in Requests : Stands(q)'
  <2>1. Stands(r)'
    BY Known, <1>1, <1>2, <1>3, <1>4 DEF Stands, Fit, Failed, Moved, Sent, Ended, Active
  <2>2. ASSUME NEW q \in Requests \ {r} PROVE Stands(q)'
    BY Known, <1>1, <1>2, <1>3, <1>4 DEF Stands, Only, Fit, Active
  <2> QED  BY <2>1, <2>2
<1>15. \A t \in Sessions : held[t] # 0 /\ Waits(t) => Waits(t)'
  BY Known, <1>1, <1>2, <1>3, <1>4 DEF Waits, Only, Failed, Moved, Sent, Ended, Holding, Fit
<1>16. \A q \in Requests : Heeded(q)'
  BY Known, <1>1, <1>2, <1>3, <1>4, <1>15 DEF Heeded, Only, Failed, Moved, Sent, Ended, Holding, Fit
<1>17. \A q \in Requests : Clear(q)'
  <2>1. Clear(r)'
    BY Known, <1>1, <1>2, <1>3, <1>4 DEF Clear, Moved, Holding, Kept
  <2>2. ASSUME NEW q \in Requests \ {r} PROVE Clear(q)'
    BY Known, <1>1, <1>2, <1>3, <1>4 DEF Clear, Only
  <2> QED  BY <2>1, <2>2
<1>18. \A q, p \in Requests : Apart(q, p)'
  <2>1. req'[r].at \in Active => req[r].at \in Active
    BY Known, <1>1, <1>2, <1>3, <1>4 DEF Failed, Moved, Sent, Ended, Active
  <2> QED  BY Known, <1>1, <1>2, <1>3, <1>4, <2>1, ApartFacts DEF Fit, Apart, Failed, Moved, Sent, Ended, Active
<1>19. \A t \in Sessions : Sane(t)'
  BY Known, <1>1, <1>2, <1>3, <1>4 DEF Sane
<1>20. \A t \in Sessions : Single(t)'
  BY Known, <1>1, <1>2, <1>3, <1>4 DEF Single
<1>21. \A t \in Sessions : Stays(t)'
  BY Known, <1>1, <1>2, <1>3, <1>4 DEF Stays
<1>22. \A t \in Sessions : Told(t)'
  <2>1. ASSUME NEW t \in Sessions, t = s, held[t] = n, held[t] # 0
        PROVE  Waits(t)'
    <3>1. CASE req[r].heard
      BY Known, <1>1, <1>2, <1>3, <1>4, <2>1, <3>1 DEF Waits, Failed, Moved, Sent, Holding
    <3>2. CASE ~req[r].heard
      BY Known, <1>1, <1>2, <1>3, <1>4, <1>15, <2>1, <3>2 DEF Heeded, Holding
    <3> QED  BY <3>1, <3>2
  <2>2. ASSUME NEW t \in Sessions PROVE Told(t)'
    BY Known, <1>1, <1>2, <1>3, <1>4, <1>15, <2>1 DEF Told, Excused
  <2> QED  BY <2>2
<1>23. \A t \in Sessions : Kept(t)'
  BY Known, <1>1, <1>2, <1>3, <1>4 DEF Kept
<1> QED
  BY <1>10, <1>11, <1>12, <1>13, <1>14, <1>16, <1>17, <1>18, <1>19, <1>20, <1>21, <1>22, <1>23 DEF Inv

\* The client has logged out.
LEMMA LeaveKeeps ==
  ASSUME Inv, NEW r \in Requests, Leave(r)
  PROVE  Inv'
<1> DEFINE s == req[r].s  n == req[r].n
<1>1. req[r].at = "leave" /\ req[r].op \in {"logout", "quit"} /\ s \in Sessions
  BY Known DEF Leave, Fit, Request, Active, Holding
<1>2. UNCHANGED <<users, births, rows, latest, owner, lapsed, dead, since, crossed, straddled, raced, uses>>
  BY DEF Leave, tables, history
<1>3. /\ held' \in [Sessions -> 0..MaxGen]
      /\ \A t \in Sessions : held'[t] = IF t = s /\ req[r].heard THEN 0 ELSE held[t]
  <2>1. CASE req[r].heard
    <3>1. held' = [held EXCEPT ![s] = 0]
      BY <2>1 DEF Leave, NoToken
    <3> QED  BY Known, <1>1, <2>1, <3>1 DEF TypeOK
  <2>2. CASE ~req[r].heard
    BY Known, <2>2 DEF Leave, TypeOK
  <2> QED  BY <2>1, <2>2
<1>4. req' \in [Requests -> Request] /\ Only(r) /\ Ended(r)
  BY Known, <1>1, DoneFacts DEF Leave
<1>10. TypeOK'
  BY Known, <1>1, <1>2, <1>3, <1>4 DEF TypeOK
<1>11. raced' \subseteq crossed'
  BY Known, <1>1, <1>2, <1>3, <1>4
<1>12. \A q \in Requests : Fit(q)'
  <2>1. Fit(r)'
    BY Known, <1>1, <1>2, <1>3, <1>4 DEF Fit, TypeOK, Failed, Moved, Sent, Ended, Sane, Active, Holding
  <2>2. ASSUME NEW q \in Requests \ {r} PROVE Fit(q)'
    BY Known, <1>1, <1>2, <1>3, <1>4 DEF Fit, Only, TypeOK
  <2> QED  BY <2>1, <2>2
<1>13. \A q \in Requests : Ready(q)'
  <2>1. Ready(r)'
    BY Known, <1>1, <1>2, <1>3, <1>4 DEF Ready, Fit, Failed, Moved, Sent, Ended, Single, Active, Holding
  <2>2. ASSUME NEW q \in Requests \ {r} PROVE Ready(q)'
    BY Known, <1>1, <1>2, <1>3, <1>4 DEF Ready, Only, Fit, Active, Holding
  <2> QED  BY <2>1, <2>2
<1>14. \A q \in Requests : Stands(q)'
  <2>1. Stands(r)'
    BY Known, <1>1, <1>2, <1>3, <1>4 DEF Stands, Fit, Failed, Moved, Sent, Ended, Active
  <2>2. ASSUME NEW q \in Requests \ {r} PROVE Stands(q)'
    BY Known, <1>1, <1>2, <1>3, <1>4 DEF Stands, Only, Fit, Active
  <2> QED  BY <2>1, <2>2
<1>15. \A t \in Sessions : held'[t] # 0 /\ Waits(t) => Waits(t)'
  BY Known, <1>1, <1>2, <1>3, <1>4 DEF Waits, Only, Failed, Moved, Sent, Ended, Holding, Fit
<1>16. \A q \in Requests : Heeded(q)'
  BY Known, <1>1, <1>2, <1>3, <1>4, <1>15 DEF Heeded, Only, Failed, Moved, Sent, Ended, Holding, Fit
<1>17. \A q \in Requests : Clear(q)'
  <2>1. Clear(r)'
    BY Known, <1>1, <1>2, <1>3, <1>4 DEF Clear, Ended
  <2>2. ASSUME NEW q \in Requests \ {r} PROVE Clear(q)'
    BY Known, <1>1, <1>2, <1>3, <1>4 DEF Clear, Apart, Only, Fit
  <2> QED  BY <2>1, <2>2
<1>18. \A q, p \in Requests : Apart(q, p)'
  <2>1. req'[r].at \in Active => req[r].at \in Active
    BY Known, <1>1, <1>2, <1>3, <1>4 DEF Failed, Moved, Sent, Ended, Active
  <2> QED  BY Known, <1>1, <1>2, <1>3, <1>4, <2>1, ApartFacts DEF Fit, Apart, Failed, Moved, Sent, Ended, Active
<1>19. \A t \in Sessions : Sane(t)'
  BY Known, <1>1, <1>2, <1>3, <1>4 DEF Sane, TypeOK
<1>20. \A t \in Sessions : Single(t)'
  BY Known, <1>1, <1>2, <1>3, <1>4 DEF Single
<1>21. \A t \in Sessions : Stays(t)'
  BY Known, <1>1, <1>2, <1>3, <1>4 DEF Stays
<1>22. \A t \in Sessions : Told(t)'
  BY Known, <1>1, <1>2, <1>3, <1>4, <1>15 DEF Told, Excused
<1>23. \A t \in Sessions : Kept(t)'
  BY Known, <1>1, <1>2, <1>3, <1>4 DEF Kept, Clear
<1> QED
  BY <1>10, <1>11, <1>12, <1>13, <1>14, <1>16, <1>17, <1>18, <1>19, <1>20, <1>21, <1>22, <1>23 DEF Inv

\* A request breaks off: the session counts as crossed.
LEMMA AbortKeeps ==
  ASSUME Inv, NEW r \in Requests, Abort(r)
  PROVE  Inv'
<1> DEFINE s == req[r].s  n == req[r].n
<1>1. req[r].op # "none" /\ req[r].at # "none" /\ s \in Sessions
  BY Known DEF Abort, Fit, Request
<1>2. /\ UNCHANGED <<users, births, rows, latest, owner, lapsed, dead, held, since, straddled, raced, uses>>
      /\ crossed' = crossed \union {s}
  BY DEF Abort, tables
<1>3. /\ req' \in [Requests -> Request] /\ Only(r)
      /\ \/ Failed(r) /\ req[r].op \notin {"logout", "quit"}
         \/ Moved(r, "leave") /\ req[r].op \in {"logout", "quit"}
  BY Known, <1>1, FailFacts, StepFacts DEF Abort, Points
<1>10. TypeOK'
  BY Known, <1>1, <1>2, <1>3 DEF TypeOK
<1>11. raced' \subseteq crossed'
  BY Known, <1>1, <1>2, <1>3
<1>12. \A q \in Requests : Fit(q)'
  <2>1. Fit(r)'
    BY Known, <1>1, <1>2, <1>3 DEF Fit, TypeOK, Failed, Moved, Sent, Ended, Sane, Active, Holding
  <2>2. ASSUME NEW q \in Requests \ {r} PROVE Fit(q)'
    BY Known, <1>1, <1>2, <1>3 DEF Fit, Only, TypeOK
  <2> QED  BY <2>1, <2>2
<1>13. \A q \in Requests : Ready(q)'
  <2>1. Ready(r)'
    BY Known, <1>1, <1>2, <1>3 DEF Ready, Fit, Failed, Moved, Sent, Ended, Single, Active, Holding
  <2>2. ASSUME NEW q \in Requests \ {r} PROVE Ready(q)'
    BY Known, <1>1, <1>2, <1>3 DEF Ready, Only, Fit, Active, Holding
  <2> QED  BY <2>1, <2>2
<1>14. \A q \in Requests : Stands(q)'
  <2>1. Stands(r)'
    BY Known, <1>1, <1>2, <1>3 DEF Stands, Fit, Failed, Moved, Sent, Ended, Active
  <2>2. ASSUME NEW q \in Requests \ {r} PROVE Stands(q)'
    BY Known, <1>1, <1>2, <1>3 DEF Stands, Only, Fit, Active
  <2> QED  BY <2>1, <2>2
<1>15. \A t \in Sessions : held[t] # 0 /\ Waits(t) => Waits(t)'
  <2> SUFFICES ASSUME NEW t \in Sessions, held[t] # 0, NEW q \in Requests,
                      req[q].s = t, req[q].heard, req[q].op \in Holding
               PROVE  Waits(t)'
    BY DEF Waits
  <2>1. CASE q # r
    BY Known, <1>1, <1>2, <1>3, <2>1 DEF Only, Waits
  <2>2. CASE q = r
    BY Known, <1>1, <1>2, <1>3, <2>2 DEF Failed, Moved, Sent, Waits, Holding
  <2> QED  BY <2>1, <2>2
<1>16. \A q \in Requests : Heeded(q)'
  BY Known, <1>1, <1>2, <1>3, <1>15 DEF Heeded, Only, Failed, Moved, Sent, Ended, Holding, Fit
<1>17. \A q \in Requests : Clear(q)'
  <2>1. Clear(r)'
    BY Known, <1>1, <1>2, <1>3 DEF Clear, Failed, Moved, Sent, Ended
  <2>2. ASSUME NEW q \in Requests \ {r} PROVE Clear(q)'
    BY Known, <1>1, <1>2, <1>3 DEF Clear, Only
  <2> QED  BY <2>1, <2>2
<1>18. \A q, p \in Requests : Apart(q, p)'
  <2>1. req'[r].at \in Active => req[r].at \in Active
    BY Known, <1>1, <1>2, <1>3 DEF Failed, Moved, Sent, Ended, Active
  <2> QED  BY Known, <1>1, <1>2, <1>3, <2>1, ApartFacts DEF Fit, Apart, Failed, Moved, Sent, Ended, Active
<1>19. \A t \in Sessions : Sane(t)'
  BY Known, <1>1, <1>2, <1>3 DEF Sane
<1>20. \A t \in Sessions : Single(t)'
  BY Known, <1>1, <1>2, <1>3 DEF Single
<1>21. \A t \in Sessions : Stays(t)'
  BY Known, <1>1, <1>2, <1>3 DEF Stays
<1>22. \A t \in Sessions : Told(t)'
  BY Known, <1>1, <1>2, <1>3, <1>15 DEF Told, Excused
<1>23. \A t \in Sessions : Kept(t)'
  BY Known, <1>1, <1>2, <1>3 DEF Kept
<1> QED
  BY <1>10, <1>11, <1>12, <1>13, <1>14, <1>16, <1>17, <1>18, <1>19, <1>20, <1>21, <1>22, <1>23 DEF Inv

\* A refresh is sent with the token held.
LEMMA RefreshKeeps ==
  ASSUME Inv, NEW r \in Requests, NEW s \in Sessions, Refresh(r, s)
  PROVE  Inv'
<1>1. /\ UNCHANGED <<users, births, rows, latest, owner, lapsed, dead, held, since, straddled, raced, uses>>
      /\ crossed' = IF Of(s) # {} THEN crossed \union {s} ELSE crossed
      /\ held[s] > 0 /\ held[s] \in 0..MaxGen
  BY Known DEF Refresh, Cross, tables, TypeOK, NoToken
<1>2. /\ req' \in [Requests -> Request] /\ Only(r) /\ Sent(r, "refresh", "lookup", s, held[s])
      /\ req[r].op = "none" /\ req[r].s = NoSession /\ req[r].at = "none"
  BY Known, <1>1, SendFacts DEF Refresh, Points
<1>3. \A q \in Requests \ {r} : req[q].s = s => s \in crossed'
  BY <1>1 DEF Of
<1>10. TypeOK'
  BY Known, <1>1, <1>2, <1>3 DEF TypeOK
<1>11. raced' \subseteq crossed'
  BY Known, <1>1, <1>2, <1>3
<1>12. \A q \in Requests : Fit(q)'
  <2>1. Fit(r)'
    BY Known, <1>1, <1>2, <1>3 DEF Fit, Sent, Sane, TypeOK, Active, Holding
  <2>2. ASSUME NEW q \in Requests \ {r} PROVE Fit(q)'
    BY Known, <1>1, <1>2, <1>3 DEF Fit, Only
  <2> QED  BY <2>1, <2>2
<1>13. \A q \in Requests : Ready(q)'
  <2>1. Ready(r)'
    BY Known, <1>1, <1>2, <1>3 DEF Sent, Ready, Active
  <2>2. ASSUME NEW q \in Requests \ {r} PROVE Ready(q)'
    BY Known, <1>1, <1>2, <1>3 DEF Ready, Only
  <2> QED  BY <2>1, <2>2
<1>14. \A q \in Requests : Stands(q)'
  <2>1. Stands(r)'
    BY Known, <1>1, <1>2, <1>3 DEF Sent, Stands, Active
  <2>2. ASSUME NEW q \in Requests \ {r} PROVE Stands(q)'
    BY Known, <1>1, <1>2, <1>3 DEF Stands, Only
  <2> QED  BY <2>1, <2>2
<1>15. \A t \in Sessions : held[t] # 0 /\ Waits(t) => Waits(t)'
  BY Known, <1>1, <1>2, <1>3 DEF Waits, Only, Failed, Moved, Sent, Ended, Holding, Fit
<1>16. \A q \in Requests : Heeded(q)'
  BY Known, <1>1, <1>2, <1>3, <1>15 DEF Heeded, Only, Failed, Moved, Sent, Ended, Holding, Fit
<1>17. \A q \in Requests : Clear(q)'
  <2>1. Clear(r)'
    BY Known, <1>1, <1>2, <1>3 DEF Clear, Sent
  <2>2. ASSUME NEW q \in Requests \ {r} PROVE Clear(q)'
    BY Known, <1>1, <1>2, <1>3 DEF Clear, Only
  <2> QED  BY <2>1, <2>2
<1>18. \A q, p \in Requests : Apart(q, p)'
  <2> SUFFICES ASSUME NEW q \in Requests, NEW p \in Requests, q # p, req'[q].s = req'[p].s
               PROVE  /\ ~(req'[q].op = "login" /\ req'[p].op = "login")
                      /\ req'[q].at \in Active /\ req'[p].at \in Active => req'[q].s \in raced'
                      /\ req'[q].s \notin Sessions \ crossed'
    BY DEF Apart
  <2>1. CASE q # r /\ p # r
    BY Known, <1>1, <1>2, <1>3, <2>1 DEF Apart, Only
  <2>2. CASE q = r \/ p = r
    BY Known, <1>1, <1>2, <1>3, <2>2 DEF Sent, Only, Active
  <2> QED  BY <2>1, <2>2
<1>19. \A t \in Sessions : Sane(t)'
  BY Known, <1>1, <1>2, <1>3 DEF Sane
<1>20. \A t \in Sessions : Single(t)'
  BY Known, <1>1, <1>2, <1>3 DEF Single
<1>21. \A t \in Sessions : Stays(t)'
  BY Known, <1>1, <1>2, <1>3 DEF Stays
<1>22. \A t \in Sessions : Told(t)'
  BY Known, <1>1, <1>2, <1>3, <1>15 DEF Told, Excused
<1>23. \A t \in Sessions : Kept(t)'
  BY Known, <1>1, <1>2, <1>3 DEF Kept
<1> QED
  BY <1>10, <1>11, <1>12, <1>13, <1>14, <1>16, <1>17, <1>18, <1>19, <1>20, <1>21, <1>22, <1>23 DEF Inv

\* A logout is sent with the token held.
LEMMA LogoutKeeps ==
  ASSUME Inv, NEW r \in Requests, NEW s \in Sessions, Logout(r, s)
  PROVE  Inv'
<1>1. /\ UNCHANGED <<users, births, rows, latest, owner, lapsed, dead, held, since, straddled, raced, uses>>
      /\ crossed' = IF Of(s) # {} THEN crossed \union {s} ELSE crossed
      /\ held[s] > 0 /\ held[s] \in 0..MaxGen
  BY Known DEF Logout, Cross, tables, TypeOK, NoToken
<1>2. /\ req' \in [Requests -> Request] /\ Only(r) /\ Sent(r, "logout", "erase", s, held[s])
      /\ req[r].op = "none" /\ req[r].s = NoSession /\ req[r].at = "none"
  BY Known, <1>1, SendFacts DEF Logout, Points
<1>3. \A q \in Requests \ {r} : req[q].s = s => s \in crossed'
  BY <1>1 DEF Of
<1>10. TypeOK'
  BY Known, <1>1, <1>2, <1>3 DEF TypeOK
<1>11. raced' \subseteq crossed'
  BY Known, <1>1, <1>2, <1>3
<1>12. \A q \in Requests : Fit(q)'
  <2>1. Fit(r)'
    BY Known, <1>1, <1>2, <1>3 DEF Fit, Sent, Sane, TypeOK, Active, Holding
  <2>2. ASSUME NEW q \in Requests \ {r} PROVE Fit(q)'
    BY Known, <1>1, <1>2, <1>3 DEF Fit, Only
  <2> QED  BY <2>1, <2>2
<1>13. \A q \in Requests : Ready(q)'
  <2>1. Ready(r)'
    BY Known, <1>1, <1>2, <1>3 DEF Sent, Ready, Active
  <2>2. ASSUME NEW q \in Requests \ {r} PROVE Ready(q)'
    BY Known, <1>1, <1>2, <1>3 DEF Ready, Only
  <2> QED  BY <2>1, <2>2
<1>14. \A q \in Requests : Stands(q)'
  <2>1. Stands(r)'
    BY Known, <1>1, <1>2, <1>3 DEF Sent, Stands, Active
  <2>2. ASSUME NEW q \in Requests \ {r} PROVE Stands(q)'
    BY Known, <1>1, <1>2, <1>3 DEF Stands, Only
  <2> QED  BY <2>1, <2>2
<1>15. \A t \in Sessions : held[t] # 0 /\ Waits(t) => Waits(t)'
  BY Known, <1>1, <1>2, <1>3 DEF Waits, Only, Failed, Moved, Sent, Ended, Holding, Fit
<1>16. \A q \in Requests : Heeded(q)'
  BY Known, <1>1, <1>2, <1>3, <1>15 DEF Heeded, Only, Failed, Moved, Sent, Ended, Holding, Fit
<1>17. \A q \in Requests : Clear(q)'
  <2>1. Clear(r)'
    BY Known, <1>1, <1>2, <1>3 DEF Clear, Sent
  <2>2. ASSUME NEW q \in Requests \ {r} PROVE Clear(q)'
    BY Known, <1>1, <1>2, <1>3 DEF Clear, Only
  <2> QED  BY <2>1, <2>2
<1>18. \A q, p \in Requests : Apart(q, p)'
  <2> SUFFICES ASSUME NEW q \in Requests, NEW p \in Requests, q # p, req'[q].s = req'[p].s
               PROVE  /\ ~(req'[q].op = "login" /\ req'[p].op = "login")
                      /\ req'[q].at \in Active /\ req'[p].at \in Active => req'[q].s \in raced'
                      /\ req'[q].s \notin Sessions \ crossed'
    BY DEF Apart
  <2>1. CASE q # r /\ p # r
    BY Known, <1>1, <1>2, <1>3, <2>1 DEF Apart, Only
  <2>2. CASE q = r \/ p = r
    BY Known, <1>1, <1>2, <1>3, <2>2 DEF Sent, Only, Active
  <2> QED  BY <2>1, <2>2
<1>19. \A t \in Sessions : Sane(t)'
  BY Known, <1>1, <1>2, <1>3 DEF Sane
<1>20. \A t \in Sessions : Single(t)'
  BY Known, <1>1, <1>2, <1>3 DEF Single
<1>21. \A t \in Sessions : Stays(t)'
  BY Known, <1>1, <1>2, <1>3 DEF Stays
<1>22. \A t \in Sessions : Told(t)'
  BY Known, <1>1, <1>2, <1>3, <1>15 DEF Told, Excused
<1>23. \A t \in Sessions : Kept(t)'
  BY Known, <1>1, <1>2, <1>3 DEF Kept
<1> QED
  BY <1>10, <1>11, <1>12, <1>13, <1>14, <1>16, <1>17, <1>18, <1>19, <1>20, <1>21, <1>22, <1>23 DEF Inv

\* Tokens age.
LEMMA ExpireKeeps ==
  ASSUME Inv, NEW s \in Sessions, Expire(s)
  PROVE  Inv'
<1>1. UNCHANGED <<users, births, rows, latest, owner, dead, held, req, since, crossed, straddled, raced, uses>>
  BY DEF Expire, history
<1>2. /\ lapsed' \in [Sessions -> 0..MaxGen]
      /\ \A t \in Sessions : lapsed'[t] \in Nat /\ lapsed[t] \in Nat /\ lapsed'[t] >= lapsed[t]
  BY Known DEF Expire, TypeOK
<1>10. TypeOK'
  BY Known, <1>1, <1>2 DEF TypeOK
<1>11. raced' \subseteq crossed'
  BY Known, <1>1, <1>2
<1>12. \A q \in Requests : Fit(q)'
  BY Known, <1>1, <1>2 DEF Fit, TypeOK
<1>13. \A q \in Requests : Ready(q)'
  BY Known, <1>1, <1>2 DEF Ready, Fit, Active, Holding
<1>14. \A q \in Requests : Stands(q)'
  BY Known, <1>1, <1>2 DEF Stands
<1>15. \A t \in Sessions : held[t] # 0 /\ Waits(t) => Waits(t)'
  BY Known, <1>1, <1>2 DEF Waits
<1>16. \A q \in Requests : Heeded(q)'
  BY Known, <1>1, <1>2 DEF Heeded, Waits
<1>17. \A q \in Requests : Clear(q)'
  <2> SUFFICES ASSUME NEW q \in Requests, req[q].s \in Sessions PROVE Clear(q)'
    BY Known, <1>1, <1>2 DEF Clear
  <2>1. \A m \in rows[req[q].s] : m \in Nat
    BY Known DEF TypeOK, Gens
  <2>2. Clear(q) /\ (req[q].s \in Sessions \ crossed => req[q].s \in Sessions)
    BY Known
  <2> QED  BY <1>1, <1>2, <2>1, <2>2 DEF Clear
<1>18. \A q, p \in Requests : Apart(q, p)'
  BY Known, <1>1, <1>2 DEF Apart
<1>19. \A t \in Sessions : Sane(t)'
  BY Known, <1>1, <1>2 DEF Sane
<1>20. \A t \in Sessions : Single(t)'
  BY Known, <1>1, <1>2 DEF Single
<1>21. \A t \in Sessions : Stays(t)'
  BY Known, <1>1, <1>2 DEF Stays
<1>22. \A t \in Sessions : Told(t)'
  BY Known, <1>1, <1>2, <1>15 DEF Told, Excused, TypeOK
<1>23. \A t \in Sessions : Kept(t)'
  BY Known, <1>1, <1>2 DEF Kept, TypeOK, Gens
<1> QED
  BY <1>10, <1>11, <1>12, <1>13, <1>14, <1>16, <1>17, <1>18, <1>19, <1>20, <1>21, <1>22, <1>23 DEF Inv

\* Tokens become unverifiable.
LEMMA DieKeeps ==
  ASSUME Inv, NEW s \in Sessions, Die(s)
  PROVE  Inv'
<1>1. UNCHANGED <<users, births, rows, latest, owner, lapsed, held, req, since, crossed, straddled, raced, uses>>
  BY DEF Die, history
<1>2. /\ dead' \in [Sessions -> 0..MaxGen]
      /\ \A t \in Sessions : dead'[t] \in Nat /\ dead[t] \in Nat /\ dead'[t] >= dead[t]
  BY Known DEF Die, TypeOK
<1>10. TypeOK'
  BY Known, <1>1, <1>2 DEF TypeOK
<1>11. raced' \subseteq crossed'
  BY Known, <1>1, <1>2
<1>12. \A q \in Requests : Fit(q)'
  BY Known, <1>1, <1>2 DEF Fit, TypeOK
<1>13. \A q \in Requests : Ready(q)'
  BY Known, <1>1, <1>2 DEF Ready, Fit, Active, Holding
<1>14. \A q \in Requests : Stands(q)'
  BY Known, <1>1, <1>2 DEF Stands
<1>15. \A t \in Sessions : held[t] # 0 /\ Waits(t) => Waits(t)'
  BY Known, <1>1, <1>2 DEF Waits
<1>16. \A q \in Requests : Heeded(q)'
  BY Known, <1>1, <1>2 DEF Heeded, Waits
<1>17. \A q \in Requests : Clear(q)'
  <2> SUFFICES ASSUME NEW q \in Requests, req[q].s \in Sessions PROVE Clear(q)'
    BY Known, <1>1, <1>2 DEF Clear
  <2>1. \A m \in rows[req[q].s] : m \in Nat
    BY Known DEF TypeOK, Gens
  <2>2. Clear(q) /\ (req[q].s \in Sessions \ crossed => req[q].s \in Sessions)
    BY Known
  <2> QED  BY <1>1, <1>2, <2>1, <2>2 DEF Clear
<1>18. \A q, p \in Requests : Apart(q, p)'
  BY Known, <1>1, <1>2 DEF Apart
<1>19. \A t \in Sessions : Sane(t)'
  BY Known, <1>1, <1>2 DEF Sane
<1>20. \A t \in Sessions : Single(t)'
  BY Known, <1>1, <1>2 DEF Single
<1>21. \A t \in Sessions : Stays(t)'
  BY Known, <1>1, <1>2 DEF Stays
<1>22. \A t \in Sessions : Told(t)'
  BY Known, <1>1, <1>2, <1>15 DEF Told, Excused, TypeOK
<1>23. \A t \in Sessions : Kept(t)'
  BY Known, <1>1, <1>2 DEF Kept, TypeOK, Gens
<1> QED
  BY <1>10, <1>11, <1>12, <1>13, <1>14, <1>16, <1>17, <1>18, <1>19, <1>20, <1>21, <1>22, <1>23 DEF Inv

\* What the cleanup removes is past its expiry.
LEMMA CleanUpKeeps ==
  ASSUME Inv, CleanUp
  PROVE  Inv'
<1>1. UNCHANGED <<users, births, latest, owner, lapsed, dead, held, req, since, crossed, straddled, raced, uses>>
  BY DEF CleanUp, history
<1>2. /\ rows' \in [Sessions -> SUBSET Gens]
      /\ \A t \in Sessions : rows'[t] = {n \in rows[t] : n > lapsed[t]}
  BY Known DEF CleanUp, TypeOK
<1>10. TypeOK'
  BY Known, <1>1, <1>2 DEF TypeOK
<1>11. raced' \subseteq crossed'
  BY Known, <1>1, <1>2
<1>12. \A q \in Requests : Fit(q)'
  BY Known, <1>1, <1>2 DEF Fit, TypeOK
<1>13. \A q \in Requests : Ready(q)'
  BY Known, <1>1, <1>2 DEF Ready, Fit, Active
<1>14. \A q \in Requests : Stands(q)'
  BY Known, <1>1, <1>2 DEF Stands
<1>15. \A t \in Sessions : held[t] # 0 /\ Waits(t) => Waits(t)'
  BY Known, <1>1, <1>2 DEF Waits
<1>16. \A q \in Requests : Heeded(q)'
  BY Known, <1>1, <1>2 DEF Heeded, Waits
<1>17. \A q \in Requests : Clear(q)'
  BY Known, <1>1, <1>2 DEF Clear
<1>18. \A q, p \in Requests : Apart(q, p)'
  BY Known, <1>1, <1>2 DEF Apart
<1>19. \A t \in Sessions : Sane(t)'
  BY Known, <1>1, <1>2 DEF Sane
<1>20. \A t \in Sessions : Single(t)'
  BY Known, <1>1, <1>2 DEF Single
<1>21. \A t \in Sessions : Stays(t)'
  BY Known, <1>1, <1>2 DEF Stays
<1>22. \A t \in Sessions : Told(t)'
  BY Known, <1>1, <1>2, <1>15 DEF Told, Excused, TypeOK
<1>23. \A t \in Sessions : Kept(t)'
  BY Known, <1>1, <1>2 DEF Kept
<1> QED
  BY <1>10, <1>11, <1>12, <1>13, <1>14, <1>16, <1>17, <1>18, <1>19, <1>20, <1>21, <1>22, <1>23 DEF Inv

\* The account goes with its tokens; requests that have read it are straddled.
LEMMA DeleteUserKeeps ==
  ASSUME Inv, NEW u \in Users, DeleteUser(u)
  PROVE  Inv'
<1>1. /\ UNCHANGED <<births, latest, owner, lapsed, dead, held, req, since, crossed, raced, uses>>
      /\ users' = users \ {u} /\ straddled \subseteq straddled' /\ straddled' \subseteq Sessions
  BY Known DEF DeleteUser, TypeOK
<1>2. /\ rows' \in [Sessions -> SUBSET Gens]
      /\ \A t \in Sessions : rows'[t] = IF owner[t] = u THEN {} ELSE rows[t]
  BY Known DEF DeleteUser, TypeOK
<1>3. \A q \in Requests : req[q].s \in Sessions /\ owner[req[q].s] = u /\ req[q].at \in Active
         => req[q].s \in straddled'
  BY DEF DeleteUser, Of, Active
<1>10. TypeOK'
  BY Known, <1>1, <1>2, <1>3 DEF TypeOK
<1>11. raced' \subseteq crossed'
  BY Known, <1>1, <1>2, <1>3
<1>12. \A q \in Requests : Fit(q)'
  BY Known, <1>1, <1>2, <1>3 DEF Fit, TypeOK
<1>13. \A q \in Requests : Ready(q)'
  BY Known, <1>1, <1>2, <1>3 DEF Ready, Fit, Active
<1>14. \A q \in Requests : Stands(q)'
  BY Known, <1>1, <1>2, <1>3 DEF Stands, Fit, Active
<1>15. \A t \in Sessions : held[t] # 0 /\ Waits(t) => Waits(t)'
  BY Known, <1>1, <1>2, <1>3 DEF Waits
<1>16. \A q \in Requests : Heeded(q)'
  BY Known, <1>1, <1>2, <1>3 DEF Heeded, Waits
<1>17. \A q \in Requests : Clear(q)'
  BY Known, <1>1, <1>2, <1>3 DEF Clear
<1>18. \A q, p \in Requests : Apart(q, p)'
  BY Known, <1>1, <1>2, <1>3 DEF Apart
<1>19. \A t \in Sessions : Sane(t)'
  BY Known, <1>1, <1>2, <1>3 DEF Sane
<1>20. \A t \in Sessions : Single(t)'
  BY Known, <1>1, <1>2, <1>3 DEF Single
<1>21. \A t \in Sessions : Stays(t)'
  BY Known, <1>1, <1>2, <1>3 DEF Stays
<1>22. \A t \in Sessions : Told(t)'
  BY Known, <1>1, <1>2, <1>3, <1>15 DEF Told, Excused
<1>23. \A t \in Sessions : Kept(t)'
  BY Known, <1>1, <1>2, <1>3 DEF Kept
<1> QED
  BY <1>10, <1>11, <1>12, <1>13, <1>14, <1>16, <1>17, <1>18, <1>19, <1>20, <1>21, <1>22, <1>23 DEF Inv

\* The account has gone.
LEMMA IssueFailsKeeps ==
  ASSUME Inv, NEW r \in Requests, Issue(r), owner[req[r].s] \notin users
  PROVE  Inv'
<1> DEFINE s == req[r].s  n == req[r].n
<1>1. req[r].at = "issue" /\ req[r].op \in {"login", "refresh"} /\ s \in Sessions
  BY Known DEF Issue, Fit, Request, Active, Holding
<1>2. UNCHANGED <<users, births, rows, latest, owner, lapsed, dead, held, since, crossed, straddled, raced, uses>>
  BY DEF Issue
<1>3. req' \in [Requests -> Request] /\ Only(r) /\ Failed(r)
  BY Known, <1>1, FailFacts DEF Issue
<1>10. TypeOK'
  BY Known, <1>1, <1>2, <1>3 DEF TypeOK
<1>11. raced' \subseteq crossed'
  BY Known, <1>1, <1>2, <1>3
<1>12. \A q \in Requests : Fit(q)'
  <2>1. Fit(r)'
    BY Known, <1>1, <1>2, <1>3 DEF Fit, TypeOK, Failed, Moved, Sent, Ended, Sane, Active, Holding
  <2>2. ASSUME NEW q \in Requests \ {r} PROVE Fit(q)'
    BY Known, <1>1, <1>2, <1>3 DEF Fit, Only, TypeOK
  <2> QED  BY <2>1, <2>2
<1>13. \A q \in Requests : Ready(q)'
  <2>1. Ready(r)'
    BY Known, <1>1, <1>2, <1>3 DEF Ready, Fit, Failed, Moved, Sent, Ended, Single, Active, Holding
  <2>2. ASSUME NEW q \in Requests \ {r} PROVE Ready(q)'
    BY Known, <1>1, <1>2, <1>3 DEF Ready, Only, Fit, Active, Holding
  <2> QED  BY <2>1, <2>2
<1>14. \A q \in Requests : Stands(q)'
  <2>1. Stands(r)'
    BY Known, <1>1, <1>2, <1>3 DEF Stands, Fit, Failed, Moved, Sent, Ended, Active
  <2>2. ASSUME NEW q \in Requests \ {r} PROVE Stands(q)'
    BY Known, <1>1, <1>2, <1>3 DEF Stands, Only, Fit, Active
  <2> QED  BY <2>1, <2>2
<1>15. \A t \in Sessions : held[t] # 0 /\ Waits(t) => Waits(t)'
  BY Known, <1>1, <1>2, <1>3 DEF Waits, Only, Failed, Moved, Sent, Ended, Holding, Fit
<1>16. \A q \in Requests : Heeded(q)'
  BY Known, <1>1, <1>2, <1>3, <1>15 DEF Heeded, Only, Failed, Moved, Sent, Ended, Holding, Fit
<1>17. \A q \in Requests : Clear(q)'
  <2>1. Clear(r)'
    BY Known, <1>1, <1>2, <1>3 DEF Clear, Failed, Moved, Sent, Ended, Holding
  <2>2. ASSUME NEW q \in Requests \ {r} PROVE Clear(q)'
    BY Known, <1>1, <1>2, <1>3 DEF Clear, Only
  <2> QED  BY <2>1, <2>2
<1>18. \A q, p \in Requests : Apart(q, p)'
  <2>1. req'[r].at \in Active => req[r].at \in Active
    BY Known, <1>1, <1>2, <1>3 DEF Failed, Moved, Sent, Ended, Active
  <2> QED  BY Known, <1>1, <1>2, <1>3, <2>1, ApartFacts DEF Fit, Apart, Failed, Moved, Sent, Ended, Active
<1>19. \A t \in Sessions : Sane(t)'
  BY Known, <1>1, <1>2, <1>3 DEF Sane
<1>20. \A t \in Sessions : Single(t)'
  BY Known, <1>1, <1>2, <1>3 DEF Single
<1>21. \A t \in Sessions : Stays(t)'
  BY Known, <1>1, <1>2, <1>3 DEF Stays
<1>22. \A t \in Sessions : Told(t)'
  BY Known, <1>1, <1>2, <1>3, <1>15 DEF Told, Excused
<1>23. \A t \in Sessions : Kept(t)'
  BY Known, <1>1, <1>2, <1>3 DEF Kept
<1> QED
  BY <1>10, <1>11, <1>12, <1>13, <1>14, <1>16, <1>17, <1>18, <1>19, <1>20, <1>21, <1>22, <1>23 DEF Inv

\* The token is stored.
LEMMA IssueStoresKeeps ==
  ASSUME Inv, NEW r \in Requests, Issue(r), owner[req[r].s] \in users
  PROVE  Inv'
<1> DEFINE s == req[r].s  n == req[r].n
<1>1. /\ req[r].at = "issue" /\ req[r].op \in {"login", "refresh"} /\ s \in Sessions
      /\ latest[s] \in Nat /\ latest[s] + 1 \in Gens /\ req[r].heard \in BOOLEAN
  <2>1. req[r].at = "issue" /\ latest[s] < MaxGen
    BY DEF Issue
  <2>2. req[r].op \in {"login", "refresh"} /\ s \in Sessions /\ req[r].heard \in BOOLEAN
    BY Known, <2>1 DEF Fit, Request, Active, Holding
  <2>3. latest[s] \in Nat
    BY Known, <2>2 DEF TypeOK
  <2> QED  BY Known, <2>1, <2>2, <2>3 DEF Gens
<1>2. /\ UNCHANGED <<users, births, owner, lapsed, dead, since, crossed, straddled, raced>>
      /\ rows' = [rows EXCEPT ![s] = @ \union {latest[s] + 1}]
      /\ latest' = [latest EXCEPT ![s] = latest[s] + 1]
  BY DEF Issue
<1>3. /\ rows' \in [Sessions -> SUBSET Gens]
      /\ \A t \in Sessions : rows'[t] = IF t = s THEN rows[s] \union {latest[s] + 1} ELSE rows[t]
  BY Known, <1>1, <1>2 DEF TypeOK
<1>4. /\ latest' \in [Sessions -> 0..MaxGen]
      /\ \A t \in Sessions : /\ latest[t] \in Nat
                             /\ latest'[t] = IF t = s THEN latest[s] + 1 ELSE latest[t]
  BY Known, <1>1, <1>2 DEF TypeOK, Gens
<1>5. /\ held' \in [Sessions -> 0..MaxGen]
      /\ \A t \in Sessions : /\ held[t] \in Nat
                             /\ held'[t] = IF t = s /\ req[r].heard THEN latest[s] + 1 ELSE held[t]
  <2>1. CASE req[r].heard
    <3>1. held' = [held EXCEPT ![s] = latest[s] + 1]
      BY <2>1 DEF Issue
    <3> QED  BY Known, <1>1, <2>1, <3>1 DEF TypeOK, Gens
  <2>2. CASE ~req[r].heard
    BY Known, <2>2 DEF Issue, TypeOK
  <2> QED  BY <2>1, <2>2
<1>6. /\ uses' \in [Sessions -> [Gens -> Nat]]
      /\ \A t \in Sessions, g \in Gens :
            uses'[t][g] = IF t = s /\ g = n /\ req[r].op = "refresh" THEN uses[t][g] + 1 ELSE uses[t][g]
  <2>1. CASE req[r].op = "login"
    BY Known, <2>1 DEF Issue, TypeOK
  <2>2. CASE req[r].op = "refresh"
    <3>1. uses' = [uses EXCEPT ![s][n] = @ + 1] /\ uses \in [Sessions -> [Gens -> Nat]]
      BY Known, <2>2 DEF Issue, TypeOK
    <3>2. uses[s] \in [Gens -> Nat] /\ n \in Gens
      BY Known, <1>1, <1>4, <2>2, <3>1 DEF Fit, Holding, Gens, TypeOK
    <3>3. uses' = [uses EXCEPT ![s] = [uses[s] EXCEPT ![n] = uses[s][n] + 1]]
      BY <3>1, <3>2
    <3> QED  BY <1>1, <2>2, <3>1, <3>2, <3>3
  <2> QED  BY <1>1, <2>1, <2>2
<1>7. req' \in [Requests -> Request] /\ Only(r) /\ Ended(r)
  BY Known, <1>1, DoneFacts DEF Issue
<1>10. TypeOK'
  BY Known, <1>1, <1>2, <1>3, <1>4, <1>5, <1>6, <1>7 DEF TypeOK
<1>11. raced' \subseteq crossed'
  BY Known, <1>1, <1>2, <1>3, <1>4, <1>5, <1>6, <1>7
<1>12. \A q \in Requests : Fit(q)'
  <2>1. Fit(r)'
    BY Known, <1>1, <1>2, <1>3, <1>4, <1>5, <1>6, <1>7 DEF Fit, Ended, Holding
  <2>2. ASSUME NEW q \in Requests \ {r}, req[q].s \in Sessions PROVE Fit(q)'
    <3>1. req[q].op = "login" => req[q].s # s
      BY Known, <1>1, <1>2, <1>3, <1>4, <1>5, <1>6, <1>7, <2>2 DEF Fit, Apart, Holding
    <3> QED  BY Known, <1>1, <1>2, <1>3, <1>4, <1>5, <1>6, <1>7, <2>2, <3>1 DEF Fit, Only, Holding
  <2>3. ASSUME NEW q \in Requests \ {r}, req[q].s \notin Sessions PROVE Fit(q)'
    BY Known, <1>1, <1>2, <1>3, <1>4, <1>5, <1>6, <1>7, <2>3 DEF Fit, Only, Holding
  <2> QED  BY <2>1, <2>2, <2>3
<1>13. \A q \in Requests : Ready(q)'
  <2>1. Ready(r)'
    BY Known, <1>1, <1>2, <1>3, <1>4, <1>5, <1>6, <1>7 DEF Ready, Ended, Active
  <2>2. ASSUME NEW q \in Requests \ {r} PROVE Ready(q)'
    <3> SUFFICES ASSUME req[q].at \in Active, req[q].s \notin raced PROVE Ready(q)'
      BY Known, <1>1, <1>2, <1>3, <1>4, <1>5, <1>6, <1>7 DEF Ready, Only
    <3>1. req[q].s \in Sessions /\ req[q].s # s
      BY Known, <1>1, <1>2, <1>3, <1>4, <1>5, <1>6, <1>7 DEF Fit, Apart, Active
    <3>2. req[q].op = "refresh" => req[q].n > 0 /\ req[q].n <= latest[req[q].s]
      BY Known DEF Fit, Holding
    <3>3. latest[req[q].s] \in 0..MaxGen
      BY Known, <3>1 DEF TypeOK
    <3>4. req[q].op = "refresh" => req[q].n \in Gens
      BY Known, <3>2, <3>3 DEF Gens
    <3>5. Ready(q) /\ req'[q] = req[q]
      BY Known, <1>7 DEF Only
    <3> QED  BY <1>2, <1>3, <1>4, <1>6, <3>1, <3>4, <3>5 DEF Ready
  <2> QED  BY <2>1, <2>2
<1>14. \A q \in Requests : Stands(q)'
  <2>1. Stands(r)'
    BY Known, <1>1, <1>2, <1>3, <1>4, <1>5, <1>6, <1>7 DEF Stands, Fit, Failed, Moved, Sent, Ended, Active
  <2>2. ASSUME NEW q \in Requests \ {r} PROVE Stands(q)'
    BY Known, <1>1, <1>2, <1>3, <1>4, <1>5, <1>6, <1>7 DEF Stands, Only, Fit, Active
  <2> QED  BY <2>1, <2>2
<1>15. \A t \in Sessions : held'[t] = held[t] /\ held[t] # 0 /\ Waits(t) => Waits(t)'
  <2> SUFFICES ASSUME NEW t \in Sessions, held'[t] = held[t], held[t] # 0, NEW q \in Requests,
                      req[q].s = t, req[q].heard, req[q].op \in Holding
               PROVE  Waits(t)'
    BY DEF Waits
  <2>1. q # r
    BY Known, <1>1, <1>2, <1>3, <1>4, <1>5, <1>6, <1>7 DEF Sane
  <2> QED  BY Known, <1>1, <1>2, <1>3, <1>4, <1>5, <1>6, <1>7, <2>1 DEF Only, Waits
<1>16. \A q \in Requests : Heeded(q)'
  <2>1. Heeded(r)'
    BY Known, <1>1, <1>2, <1>3, <1>4, <1>5, <1>6, <1>7 DEF Heeded, Ended, Holding
  <2>2. ASSUME NEW q \in Requests \ {r}, req[q].op \in Holding PROVE Heeded(q)'
    <3>1. req[q].s \in Sessions /\ req[q].n <= latest[req[q].s] /\ req[q].n > 0 /\ req[q].n \in Nat
      BY Known, <1>1, <1>2, <1>3, <1>4, <1>5, <1>6, <1>7, <2>2 DEF Fit, Holding
    <3>2. req'[q] = req[q] /\ Heeded(q)
      BY Known, <1>1, <1>2, <1>3, <1>4, <1>5, <1>6, <1>7 DEF Only
    <3> QED  BY <1>1, <1>4, <1>5, <1>15, <2>2, <3>1, <3>2 DEF Heeded
  <2>3. ASSUME NEW q \in Requests \ {r}, req[q].op \notin Holding PROVE Heeded(q)'
    BY Known, <1>1, <1>2, <1>3, <1>4, <1>5, <1>6, <1>7, <2>3 DEF Heeded, Only
  <2> QED  BY <2>1, <2>2, <2>3
<1>17. \A q \in Requests : Clear(q)'
  <2>1. Clear(r)'
    BY Known, <1>1, <1>2, <1>3, <1>4, <1>5, <1>6, <1>7 DEF Clear, Ended
  <2>2. ASSUME NEW q \in Requests \ {r}, req[q].s \in Sessions \ crossed PROVE Clear(q)'
    <3>1. req[q].s # s
      BY Known, <1>1, <1>2, <1>3, <1>4, <1>5, <1>6, <1>7, <2>2 DEF Apart
    <3>2. Clear(q) /\ req'[q] = req[q]
      BY Known, <1>1, <1>2, <1>3, <1>4, <1>5, <1>6, <1>7 DEF Only
    <3> QED  BY <1>2, <1>3, <1>5, <2>2, <3>1, <3>2 DEF Clear
  <2>3. ASSUME NEW q \in Requests \ {r}, req[q].s \notin Sessions \ crossed PROVE Clear(q)'
    BY Known, <1>1, <1>2, <1>3, <1>4, <1>5, <1>6, <1>7, <2>3 DEF Clear, Only
  <2> QED  BY <2>1, <2>2, <2>3
<1>18. \A q, p \in Requests : Apart(q, p)'
  <2>1. req'[r].at \in Active => req[r].at \in Active
    BY Known, <1>1, <1>2, <1>3, <1>4, <1>5, <1>6, <1>7 DEF Failed, Moved, Sent, Ended, Active
  <2> QED  BY Known, <1>1, <1>2, <1>3, <1>4, <1>5, <1>6, <1>7, <2>1, ApartFacts DEF Fit, Apart, Failed, Moved, Sent, Ended, Active
<1>19. \A t \in Sessions : Sane(t)'
  <2> SUFFICES ASSUME NEW t \in Sessions PROVE Sane(t)'
    OBVIOUS
  <2>1. \A m \in rows[t] : m \in Nat
    BY Known DEF TypeOK, Gens
  <2>2. Sane(t) /\ latest[t] \in Nat /\ held[t] \in Nat
    BY Known, <1>1, <1>2, <1>3, <1>4, <1>5, <1>6, <1>7
  <2>3. CASE t # s
    BY <1>1, <1>2, <1>3, <1>4, <1>5, <1>6, <2>2, <2>3 DEF Sane
  <2>4. CASE t = s
    <3>1. owner[t] # Nobody
      BY Known, <1>1, <1>2, <1>3, <1>4, <1>5, <1>6, <1>7, <2>4 DEF Fit
    <3>2. req[r].op = "refresh" => n <= latest[t]
      BY Known, <1>1, <1>2, <1>3, <1>4, <1>5, <1>6, <1>7, <2>4 DEF Fit, Holding
    <3>3. rows'[t] = rows[t] \union {latest[t] + 1} /\ latest'[t] = latest[t] + 1
      BY <1>3, <1>4, <2>4
    <3>4. \A m \in rows'[t] : m <= latest'[t]
      BY <2>1, <2>2, <3>3 DEF Sane
    <3>5. held'[t] <= latest'[t]
      BY <1>5, <2>2, <2>4, <3>3 DEF Sane
    <3>6. \A m \in Gens : m > latest'[t] => uses'[t][m] = 0
      BY <1>6, <2>2, <2>4, <3>2, <3>3, Known DEF Sane, Gens
    <3> QED  BY <1>2, <2>2, <3>1, <3>4, <3>5, <3>6 DEF Sane
  <2> QED  BY <2>3, <2>4
<1>20. \A t \in Sessions : Single(t)'
  <2> SUFFICES ASSUME NEW t \in Sessions, t \notin raced PROVE Single(t)'
    BY <1>2 DEF Single
  <2>1. Single(t) /\ Sane(t)
    BY Known
  <2>2. CASE t # s
    BY <1>2, <1>3, <1>4, <1>6, <2>1, <2>2, Known DEF Single, TypeOK
  <2>3. CASE t = s
    <3>1. rows[t] = {} /\ (req[r].op = "refresh" => n = latest[t] /\ uses[t][n] = 0)
      BY Known, <1>1, <1>2, <1>3, <1>4, <1>5, <1>6, <1>7, <2>3 DEF Ready, Active
    <3>2. rows'[t] = {latest[t] + 1} /\ latest'[t] = latest[t] + 1
      BY <1>1, <1>3, <1>4, <2>3, <3>1
    <3>3. uses'[t][latest[t] + 1] = 0
      BY <1>1, <1>4, <1>6, <2>1, <2>3, <3>1 DEF Sane
    <3>4. \A g \in Gens : uses'[t][g] <= 1
      BY <1>6, <2>1, <2>3, <3>1 DEF Single
    <3> QED  BY <3>2, <3>3, <3>4 DEF Single
  <2> QED  BY <2>2, <2>3
<1>21. \A t \in Sessions : Stays(t)'
  BY Known, <1>1, <1>2, <1>3, <1>4, <1>5, <1>6, <1>7 DEF Stays, Stands, Active
<1>22. \A t \in Sessions : Told(t)'
  <2> SUFFICES ASSUME NEW t \in Sessions, held'[t] # 0 PROVE Told(t)'
    BY DEF Told
  <2>1. CASE t = s /\ req[r].heard
    BY Known, <1>1, <1>2, <1>3, <1>4, <1>5, <1>6, <1>7, <2>1 DEF Told
  <2>2. CASE ~(t = s /\ req[r].heard)
    BY Known, <1>1, <1>2, <1>3, <1>4, <1>5, <1>6, <1>7, <1>15, <2>2 DEF Told, Excused
  <2> QED  BY <2>1, <2>2
<1>23. \A t \in Sessions : Kept(t)'
  <2> SUFFICES ASSUME NEW t \in Sessions, t \notin crossed PROVE Kept(t)'
    BY <1>2 DEF Kept
  <2>1. Kept(t)
    BY Known
  <2>2. CASE t # s
    BY <1>2, <1>3, <1>5, <2>1, <2>2 DEF Kept
  <2>3. CASE t = s
    <3>1. rows[t] = {} /\ req[r].heard
      BY Known, <1>1, <1>2, <1>3, <1>4, <1>5, <1>6, <1>7, <2>3 DEF Ready, Clear, Active
    <3> QED  BY <1>3, <1>5, <2>3, <3>1 DEF Kept
  <2> QED  BY <2>2, <2>3
<1> QED
  BY <1>10, <1>11, <1>12, <1>13, <1>14, <1>16, <1>17, <1>18, <1>19, <1>20, <1>21, <1>22, <1>23 DEF Inv

\* A name is registered: sessions of an earlier registration stay excused.
LEMMA RegisterKeeps ==
  ASSUME Inv, NEW r \in Requests, NEW s \in Sessions, NEW u \in Users, Register(r, s, u)
  PROVE  Inv'
<1>1. /\ owner[s] = Nobody /\ latest[s] = 0 /\ rows[s] = {} /\ held[s] = 0
  BY Known DEF Register, Begin, Sane, TypeOK, Gens
<1>2. UNCHANGED <<rows, latest, lapsed, dead, held, crossed, straddled, raced, uses>>
  BY DEF Register
<1>3. /\ req' \in [Requests -> Request] /\ Only(r) /\ Sent(r, "login", "issue", s, 0)
      /\ req[r].op = "none" /\ req[r].s = NoSession /\ req[r].at = "none"
  BY Known, SendFacts DEF Register, Begin, NoToken, Points
<1>4. /\ owner' \in [Sessions -> Users \union {Nobody}]
      /\ \A t \in Sessions : owner'[t] = IF t = s THEN u ELSE owner[t]
  BY Known DEF Register, Begin, TypeOK
<1>5. /\ users' = users \union {u} /\ u \notin users
      /\ births' \in [Users -> 0..MaxBirths]
      /\ \A v \in Users : births'[v] = IF v = u THEN births[u] + 1 ELSE births[v]
  BY Known DEF Register, TypeOK
<1>6. /\ since' \in [Sessions -> 0..MaxBirths]
      /\ \A t \in Sessions : since'[t] = IF t = s THEN births[u] + 1 ELSE since[t]
  BY Known DEF Register, TypeOK
<1>7. \A q \in Requests : req[q].s # s
  BY Known, <1>1 DEF Fit
<1>8. \A t \in Sessions : since[t] \in Nat /\ (owner[t] \in Users => births[owner[t]] \in Nat)
  BY Known DEF TypeOK
<1>10. TypeOK'
  BY Known, <1>1, <1>2, <1>3, <1>4, <1>5, <1>6, <1>7, <1>8 DEF TypeOK
<1>11. raced' \subseteq crossed'
  BY Known, <1>1, <1>2, <1>3, <1>4, <1>5, <1>6, <1>7, <1>8
<1>12. \A q \in Requests : Fit(q)'
  <2>1. Fit(r)'
    BY Known, <1>1, <1>2, <1>3, <1>4, <1>5, <1>6, <1>7, <1>8 DEF Fit, Sent, Active, Holding
  <2>2. ASSUME NEW q \in Requests \ {r} PROVE Fit(q)'
    BY Known, <1>1, <1>2, <1>3, <1>4, <1>5, <1>6, <1>7, <1>8 DEF Fit, Only
  <2> QED  BY <2>1, <2>2
<1>13. \A q \in Requests : Ready(q)'
  <2>1. Ready(r)'
    BY Known, <1>1, <1>2, <1>3, <1>4, <1>5, <1>6, <1>7, <1>8 DEF Sent, Ready, Active
  <2>2. ASSUME NEW q \in Requests \ {r} PROVE Ready(q)'
    BY Known, <1>1, <1>2, <1>3, <1>4, <1>5, <1>6, <1>7, <1>8 DEF Ready, Only
  <2> QED  BY <2>1, <2>2
<1>14. \A q \in Requests : Stands(q)'
  <2>1. Stands(r)'
    BY Known, <1>1, <1>2, <1>3, <1>4, <1>5, <1>6, <1>7, <1>8 DEF Sent, Stands
  <2>2. ASSUME NEW q \in Requests \ {r}, req[q].at \in Active PROVE Stands(q)'
    <3>1. req[q].s \in Sessions /\ req'[q] = req[q] /\ Stands(q)
      BY Known, <1>1, <1>2, <1>3, <1>4, <1>5, <1>6, <1>7, <1>8, <2>2 DEF Fit, Only, Active
    <3>2. owner'[req[q].s] = owner[req[q].s] /\ since'[req[q].s] = since[req[q].s]
      BY <1>4, <1>6, <1>7, <3>1
    <3>3. owner[req[q].s] \in users => births'[owner[req[q].s]] = births[owner[req[q].s]] /\ owner[req[q].s] \in users'
      BY Known, <1>1, <1>2, <1>3, <1>4, <1>5, <1>6, <1>7, <1>8, <3>1 DEF TypeOK
    <3> QED  BY <1>2, <2>2, <3>1, <3>2, <3>3 DEF Stands
  <2>3. ASSUME NEW q \in Requests \ {r}, req[q].at \notin Active PROVE Stands(q)'
    BY Known, <1>1, <1>2, <1>3, <1>4, <1>5, <1>6, <1>7, <1>8, <2>3 DEF Stands, Only
  <2> QED  BY <2>1, <2>2, <2>3
<1>15. \A t \in Sessions : held[t] # 0 /\ Waits(t) => Waits(t)'
  BY Known, <1>1, <1>2, <1>3, <1>4, <1>5, <1>6, <1>7, <1>8 DEF Waits, Only, Failed, Moved, Sent, Ended, Holding, Fit
<1>16. \A q \in Requests : Heeded(q)'
  BY Known, <1>1, <1>2, <1>3, <1>4, <1>5, <1>6, <1>7, <1>8, <1>15 DEF Heeded, Only, Failed, Moved, Sent, Ended, Holding, Fit
<1>17. \A q \in Requests : Clear(q)'
  <2>1. Clear(r)'
    BY Known, <1>1, <1>2, <1>3, <1>4, <1>5, <1>6, <1>7, <1>8 DEF Clear, Sent, Holding
  <2>2. ASSUME NEW q \in Requests \ {r} PROVE Clear(q)'
    BY Known, <1>1, <1>2, <1>3, <1>4, <1>5, <1>6, <1>7, <1>8 DEF Clear, Only
  <2> QED  BY <2>1, <2>2
<1>18. \A q, p \in Requests : Apart(q, p)'
  <2> SUFFICES ASSUME NEW q \in Requests, NEW p \in Requests, q # p, req'[q].s = req'[p].s
               PROVE  /\ ~(req'[q].op = "login" /\ req'[p].op = "login")
                      /\ req'[q].at \in Active /\ req'[p].at \in Active => req'[q].s \in raced'
                      /\ req'[q].s \notin Sessions \ crossed'
    BY DEF Apart
  <2>1. q # r /\ p # r
    BY Known, <1>1, <1>2, <1>3, <1>4, <1>5, <1>6, <1>7, <1>8 DEF Sent, Only
  <2> QED  BY Known, <1>1, <1>2, <1>3, <1>4, <1>5, <1>6, <1>7, <1>8, <2>1 DEF Apart, Only
<1>19. \A t \in Sessions : Sane(t)'
  <2> SUFFICES ASSUME NEW t \in Sessions PROVE Sane(t)'
    OBVIOUS
  <2>1. CASE t = s
    BY Known, <1>1, <1>2, <1>3, <1>4, <1>5, <1>6, <1>7, <1>8, <2>1 DEF Sane, TypeOK
  <2>2. CASE t # s
    <3>1. owner'[t] = owner[t] /\ since'[t] = since[t] /\ owner[t] \in Users \union {Nobody}
      BY Known, <1>1, <1>2, <1>3, <1>4, <1>5, <1>6, <1>7, <1>8, <2>2 DEF TypeOK
    <3>2. owner[t] # Nobody => since[t] <= births[owner[t]] /\ births[owner[t]] <= births'[owner[t]]
      BY Known, <1>1, <1>2, <1>3, <1>4, <1>5, <1>6, <1>7, <1>8, <3>1 DEF Sane
    <3>3. owner[t] # Nobody => since'[t] <= births'[owner'[t]]
      BY Known, <1>1, <1>2, <1>3, <1>4, <1>5, <1>6, <1>7, <1>8, <3>1, <3>2 DEF TypeOK
    <3> QED  BY Known, <1>2, <3>1, <3>3 DEF Sane
  <2> QED  BY <2>1, <2>2
<1>20. \A t \in Sessions : Single(t)'
  BY Known, <1>1, <1>2, <1>3, <1>4, <1>5, <1>6, <1>7, <1>8 DEF Single
<1>21. \A t \in Sessions : Stays(t)'
  <2> SUFFICES ASSUME NEW t \in Sessions, rows[t] # {} PROVE Stays(t)'
    BY <1>2 DEF Stays
  <2>1. t # s /\ owner[t] \in users /\ Stays(t)
    BY Known, <1>1, <1>2, <1>3, <1>4, <1>5, <1>6, <1>7, <1>8 DEF Stays
  <2>2. owner'[t] = owner[t] /\ since'[t] = since[t] /\ births'[owner[t]] = births[owner[t]] /\ owner[t] \in users'
    BY Known, <1>1, <1>2, <1>3, <1>4, <1>5, <1>6, <1>7, <1>8, <2>1 DEF TypeOK
  <2> QED  BY <1>2, <2>1, <2>2 DEF Stays
<1>22. \A t \in Sessions : Told(t)'
  <2> SUFFICES ASSUME NEW t \in Sessions, held[t] # 0 PROVE Told(t)'
    BY <1>2 DEF Told
  <2>1. t # s /\ owner'[t] = owner[t] /\ since'[t] = since[t] /\ owner[t] \in Users \union {Nobody}
    BY Known, <1>1, <1>2, <1>3, <1>4, <1>5, <1>6, <1>7, <1>8 DEF TypeOK
  <2>2. owner[t] # Nobody
    BY Known, <2>1 DEF Sane, TypeOK
  <2>3. Told(t) /\ Sane(t)
    BY Known
  <2>4. Excused(t) => Excused(t)'
    <3>1. owner[t] \in users \/ owner[t] \notin users'
            \/ (births'[owner[t]] > births[owner[t]] /\ since[t] <= births[owner[t]])
      BY Known, <1>1, <1>2, <1>3, <1>4, <1>5, <1>6, <1>7, <1>8, <2>1, <2>2, <2>3 DEF Sane
    <3>2. births'[owner[t]] >= births[owner[t]] /\ births'[owner[t]] \in Nat
      BY Known, <1>1, <1>2, <1>3, <1>4, <1>5, <1>6, <1>7, <1>8, <2>1, <2>2 DEF TypeOK
    <3> QED  BY <1>2, <1>8, <2>1, <2>2, <3>1, <3>2 DEF Excused
  <2> QED  BY <1>2, <1>15, <2>3, <2>4 DEF Told
<1>23. \A t \in Sessions : Kept(t)'
  BY Known, <1>1, <1>2, <1>3, <1>4, <1>5, <1>6, <1>7, <1>8 DEF Kept
<1> QED
  BY <1>10, <1>11, <1>12, <1>13, <1>14, <1>16, <1>17, <1>18, <1>19, <1>20, <1>21, <1>22, <1>23 DEF Inv

\* A session begins.
LEMMA LoginKeeps ==
  ASSUME Inv, NEW r \in Requests, NEW s \in Sessions, NEW u \in Users, Login(r, s, u)
  PROVE  Inv'
<1>1. /\ owner[s] = Nobody /\ latest[s] = 0 /\ rows[s] = {} /\ held[s] = 0
  BY Known DEF Login, Begin, Sane, TypeOK, Gens
<1>2. UNCHANGED <<rows, latest, lapsed, dead, held, crossed, straddled, raced, uses>>
  BY DEF Login
<1>3. /\ req' \in [Requests -> Request] /\ Only(r) /\ Sent(r, "login", "issue", s, 0)
      /\ req[r].op = "none" /\ req[r].s = NoSession /\ req[r].at = "none"
  BY Known, SendFacts DEF Login, Begin, NoToken, Points
<1>4. /\ owner' \in [Sessions -> Users \union {Nobody}]
      /\ \A t \in Sessions : owner'[t] = IF t = s THEN u ELSE owner[t]
  BY Known DEF Login, Begin, TypeOK
<1>5. UNCHANGED <<users, births>> /\ u \in users
  BY DEF Login
<1>6. /\ since' \in [Sessions -> 0..MaxBirths]
      /\ \A t \in Sessions : since'[t] = IF t = s THEN births[u] ELSE since[t]
  BY Known DEF Login, TypeOK
<1>7. \A q \in Requests : req[q].s # s
  BY Known, <1>1 DEF Fit
<1>8. \A t \in Sessions : since[t] \in Nat /\ (owner[t] \in Users => births[owner[t]] \in Nat)
  BY Known DEF TypeOK
<1>10. TypeOK'
  BY Known, <1>1, <1>2, <1>3, <1>4, <1>5, <1>6, <1>7, <1>8 DEF TypeOK
<1>11. raced' \subseteq crossed'
  BY Known, <1>1, <1>2, <1>3, <1>4, <1>5, <1>6, <1>7, <1>8
<1>12. \A q \in Requests : Fit(q)'
  <2>1. Fit(r)'
    BY Known, <1>1, <1>2, <1>3, <1>4, <1>5, <1>6, <1>7, <1>8 DEF Fit, Sent, Active, Holding
  <2>2. ASSUME NEW q \in Requests \ {r} PROVE Fit(q)'
    BY Known, <1>1, <1>2, <1>3, <1>4, <1>5, <1>6, <1>7, <1>8 DEF Fit, Only
  <2> QED  BY <2>1, <2>2
<1>13. \A q \in Requests : Ready(q)'
  <2>1. Ready(r)'
    BY Known, <1>1, <1>2, <1>3, <1>4, <1>5, <1>6, <1>7, <1>8 DEF Sent, Ready, Active
  <2>2. ASSUME NEW q \in Requests \ {r} PROVE Ready(q)'
    BY Known, <1>1, <1>2, <1>3, <1>4, <1>5, <1>6, <1>7, <1>8 DEF Ready, Only
  <2> QED  BY <2>1, <2>2
<1>14. \A q \in Requests : Stands(q)'
  <2>1. Stands(r)'
    BY Known, <1>1, <1>2, <1>3, <1>4, <1>5, <1>6, <1>7, <1>8 DEF Sent, Stands
  <2>2. ASSUME NEW q \in Requests \ {r}, req[q].at \in Active PROVE Stands(q)'
    <3>1. req[q].s \in Sessions /\ req'[q] = req[q] /\ Stands(q)
      BY Known, <1>1, <1>2, <1>3, <1>4, <1>5, <1>6, <1>7, <1>8, <2>2 DEF Fit, Only, Active
    <3>2. owner'[req[q].s] = owner[req[q].s] /\ since'[req[q].s] = since[req[q].s]
      BY <1>4, <1>6, <1>7, <3>1
    <3>3. owner[req[q].s] \in users => births'[owner[req[q].s]] = births[owner[req[q].s]] /\ owner[req[q].s] \in users'
      BY Known, <1>1, <1>2, <1>3, <1>4, <1>5, <1>6, <1>7, <1>8, <3>1 DEF TypeOK
    <3> QED  BY <1>2, <2>2, <3>1, <3>2, <3>3 DEF Stands
  <2>3. ASSUME NEW q \in Requests \ {r}, req[q].at \notin Active PROVE Stands(q)'
    BY Known, <1>1, <1>2, <1>3, <1>4, <1>5, <1>6, <1>7, <1>8, <2>3 DEF Stands, Only
  <2> QED  BY <2>1, <2>2, <2>3
<1>15. \A t \in Sessions : held[t] # 0 /\ Waits(t) => Waits(t)'
  BY Known, <1>1, <1>2, <1>3, <1>4, <1>5, <1>6, <1>7, <1>8 DEF Waits, Only, Failed, Moved, Sent, Ended, Holding, Fit
<1>16. \A q \in Requests : Heeded(q)'
  BY Known, <1>1, <1>2, <1>3, <1>4, <1>5, <1>6, <1>7, <1>8, <1>15 DEF Heeded, Only, Failed, Moved, Sent, Ended, Holding, Fit
<1>17. \A q \in Requests : Clear(q)'
  <2>1. Clear(r)'
    BY Known, <1>1, <1>2, <1>3, <1>4, <1>5, <1>6, <1>7, <1>8 DEF Clear, Sent, Holding
  <2>2. ASSUME NEW q \in Requests \ {r} PROVE Clear(q)'
    BY Known, <1>1, <1>2, <1>3, <1>4, <1>5, <1>6, <1>7, <1>8 DEF Clear, Only
  <2> QED  BY <2>1, <2>2
<1>18. \A q, p \in Requests : Apart(q, p)'
  <2> SUFFICES ASSUME NEW q \in Requests, NEW p \in Requests, q # p, req'[q].s = req'[p].s
               PROVE  /\ ~(req'[q].op = "login" /\ req'[p].op = "login")
                      /\ req'[q].at \in Active /\ req'[p].at \in Active => req'[q].s \in raced'
                      /\ req'[q].s \notin Sessions \ crossed'
    BY DEF Apart
  <2>1. q # r /\ p # r
    BY Known, <1>1, <1>2, <1>3, <1>4, <1>5, <1>6, <1>7, <1>8 DEF Sent, Only
  <2> QED  BY Known, <1>1, <1>2, <1>3, <1>4, <1>5, <1>6, <1>7, <1>8, <2>1 DEF Apart, Only
<1>19. \A t \in Sessions : Sane(t)'
  <2> SUFFICES ASSUME NEW t \in Sessions PROVE Sane(t)'
    OBVIOUS
  <2>1. CASE t = s
    BY Known, <1>1, <1>2, <1>3, <1>4, <1>5, <1>6, <1>7, <1>8, <2>1 DEF Sane, TypeOK
  <2>2. CASE t # s
    <3>1. owner'[t] = owner[t] /\ since'[t] = since[t] /\ owner[t] \in Users \union {Nobody}
      BY Known, <1>1, <1>2, <1>3, <1>4, <1>5, <1>6, <1>7, <1>8, <2>2 DEF TypeOK
    <3>2. owner[t] # Nobody => since[t] <= births[owner[t]] /\ births[owner[t]] <= births'[owner[t]]
      BY Known, <1>1, <1>2, <1>3, <1>4, <1>5, <1>6, <1>7, <1>8, <3>1 DEF Sane
    <3>3. owner[t] # Nobody => since'[t] <= births'[owner'[t]]
      BY Known, <1>1, <1>2, <1>3, <1>4, <1>5, <1>6, <1>7, <1>8, <3>1, <3>2 DEF TypeOK
    <3> QED  BY Known, <1>2, <3>1, <3>3 DEF Sane
  <2> QED  BY <2>1, <2>2
<1>20. \A t \in Sessions : Single(t)'
  BY Known, <1>1, <1>2, <1>3, <1>4, <1>5, <1>6, <1>7, <1>8 DEF Single
<1>21. \A t \in Sessions : Stays(t)'
  <2> SUFFICES ASSUME NEW t \in Sessions, rows[t] # {} PROVE Stays(t)'
    BY <1>2 DEF Stays
  <2>1. t # s /\ owner[t] \in users /\ Stays(t)
    BY Known, <1>1, <1>2, <1>3, <1>4, <1>5, <1>6, <1>7, <1>8 DEF Stays
  <2>2. owner'[t] = owner[t] /\ since'[t] = since[t] /\ births'[owner[t]] = births[owner[t]] /\ owner[t] \in users'
    BY Known, <1>1, <1>2, <1>3, <1>4, <1>5, <1>6, <1>7, <1>8, <2>1 DEF TypeOK
  <2> QED  BY <1>2, <2>1, <2>2 DEF Stays
<1>22. \A t \in Sessions : Told(t)'
  <2> SUFFICES ASSUME NEW t \in Sessions, held[t] # 0 PROVE Told(t)'
    BY <1>2 DEF Told
  <2>1. t # s /\ owner'[t] = owner[t] /\ since'[t] = since[t] /\ owner[t] \in Users \union {Nobody}
    BY Known, <1>1, <1>2, <1>3, <1>4, <1>5, <1>6, <1>7, <1>8 DEF TypeOK
  <2>2. owner[t] # Nobody
    BY Known, <2>1 DEF Sane, TypeOK
  <2>3. Told(t) /\ Sane(t)
    BY Known
  <2>4. Excused(t) => Excused(t)'
    <3>1. owner[t] \in users \/ owner[t] \notin users'
            \/ (births'[owner[t]] > births[owner[t]] /\ since[t] <= births[owner[t]])
      BY Known, <1>1, <1>2, <1>3, <1>4, <1>5, <1>6, <1>7, <1>8, <2>1, <2>2, <2>3 DEF Sane
    <3>2. births'[owner[t]] >= births[owner[t]] /\ births'[owner[t]] \in Nat
      BY Known, <1>1, <1>2, <1>3, <1>4, <1>5, <1>6, <1>7, <1>8, <2>1, <2>2 DEF TypeOK
    <3> QED  BY <1>2, <1>8, <2>1, <2>2, <3>1, <3>2 DEF Excused
  <2> QED  BY <1>2, <1>15, <2>3, <2>4 DEF Told
<1>23. \A t \in Sessions : Kept(t)'
  BY Known, <1>1, <1>2, <1>3, <1>4, <1>5, <1>6, <1>7, <1>8 DEF Kept
<1> QED
  BY <1>10, <1>11, <1>12, <1>13, <1>14, <1>16, <1>17, <1>18, <1>19, <1>20, <1>21, <1>22, <1>23 DEF Inv

\* The client clears its store, or has none to clear.
LEMMA ClearsStoreKeeps ==
  ASSUME Inv, NEW r \in Requests, ClearsStore(r)
  PROVE  Inv'
<1> DEFINE s == req[r].s  n == req[r].n
<1>1. s \in Sessions /\ req[r].heard /\ req[r].op # "none"
  BY Known DEF ClearsStore, Fit
<1>2. /\ UNCHANGED <<users, births, rows, latest, owner, lapsed, dead, since, straddled, raced, uses>>
      /\ crossed' = crossed \union {s}
  BY DEF ClearsStore, tables
<1>3. /\ held' \in [Sessions -> 0..MaxGen]
      /\ \A t \in Sessions : /\ held[t] \in Nat
                             /\ held'[t] = IF t = s /\ req[r].op # "login" THEN 0 ELSE held[t]
  <2>1. CASE req[r].op = "login"
    BY Known, <2>1 DEF ClearsStore, TypeOK
  <2>2. CASE req[r].op # "login"
    <3>1. held' = [held EXCEPT ![s] = 0]
      BY <2>2 DEF ClearsStore
    <3> QED  BY Known, <1>1, <2>2, <3>1 DEF TypeOK
  <2> QED  BY <2>1, <2>2
<1>4. req' \in [Requests -> Request] /\ Only(r) /\ Muted(r)
  BY Known DEF ClearsStore, TypeOK, Request, Only, Muted
<1>10. TypeOK'
  BY Known, <1>1, <1>2, <1>3, <1>4 DEF TypeOK
<1>11. raced' \subseteq crossed'
  BY Known, <1>1, <1>2, <1>3, <1>4
<1>12. \A q \in Requests : Fit(q)'
  <2>1. Fit(r)'
    BY Known, <1>1, <1>2, <1>3, <1>4 DEF Fit, Muted
  <2>2. ASSUME NEW q \in Requests \ {r} PROVE Fit(q)'
    BY Known, <1>1, <1>2, <1>3, <1>4 DEF Fit, Only
  <2> QED  BY <2>1, <2>2
<1>13. \A q \in Requests : Ready(q)'
  <2>1. Ready(r)'
    <3>1. Ready(r)
      BY Known
    <3> QED  BY <1>2, <1>4, <3>1 DEF Ready, Muted
  <2>2. ASSUME NEW q \in Requests \ {r} PROVE Ready(q)'
    BY Known, <1>1, <1>2, <1>3, <1>4 DEF Ready, Only
  <2> QED  BY <2>1, <2>2
<1>14. \A q \in Requests : Stands(q)'
  <2>1. Stands(r)'
    BY Known, <1>1, <1>2, <1>3, <1>4 DEF Muted, Stands
  <2>2. ASSUME NEW q \in Requests \ {r} PROVE Stands(q)'
    BY Known, <1>1, <1>2, <1>3, <1>4 DEF Stands, Only
  <2> QED  BY <2>1, <2>2
<1>15. \A t \in Sessions : held'[t] # 0 /\ Waits(t) => Waits(t)'
  <2> SUFFICES ASSUME NEW t \in Sessions, held'[t] # 0, NEW q \in Requests,
                      req[q].s = t, req[q].heard, req[q].op \in Holding
               PROVE  Waits(t)'
    BY DEF Waits
  <2>1. q # r
    BY Known, <1>1, <1>2, <1>3, <1>4 DEF Holding
  <2> QED  BY Known, <1>1, <1>2, <1>3, <1>4, <2>1 DEF Only, Waits
<1>16. \A q \in Requests : Heeded(q)'
  <2>1. ASSUME NEW q \in Requests, req[q].op \in Holding, req'[q].op = req[q].op,
               req'[q].s = req[q].s, req'[q].n = req[q].n, ~req[q].heard \/ req[q].s = s
        PROVE  Heeded(q)'
    <3>1. req[q].s \in Sessions /\ req[q].n > 0
      BY Known, <1>1, <1>2, <1>3, <1>4, <2>1 DEF Fit, Holding
    <3>2. req[q].s = s => req[q].op # "login" /\ (held'[s] = 0 \/ req[r].op = "login")
      BY Known, <1>1, <1>2, <1>3, <1>4, <2>1, <3>1 DEF Holding
    <3>3. req[q].s = s => req[r].op # "login"
      BY Known, <1>1, <1>2, <1>3, <1>4, <2>1, <3>1 DEF Fit, Holding
    <3> QED  BY Known, <1>1, <1>2, <1>3, <1>4, <1>15, <2>1, <3>1, <3>2, <3>3 DEF Heeded
  <2>2. ASSUME NEW q \in Requests, ~(req[q].op \in Holding /\ (~req[q].heard \/ req[q].s = s))
        PROVE  Heeded(q)'
    BY Known, <1>1, <1>2, <1>3, <1>4, <2>2 DEF Heeded, Only, Muted
  <2>3. \A q \in Requests : req'[q].op = req[q].op /\ req'[q].s = req[q].s /\ req'[q].n = req[q].n
    BY <1>4 DEF Only, Muted
  <2> QED  BY <2>1, <2>2, <2>3
<1>17. \A q \in Requests : Clear(q)'
  <2>1. Clear(r)'
    BY Known, <1>1, <1>2, <1>3, <1>4 DEF Clear, Muted
  <2>2. ASSUME NEW q \in Requests \ {r} PROVE Clear(q)'
    BY Known, <1>1, <1>2, <1>3, <1>4 DEF Clear, Only
  <2> QED  BY <2>1, <2>2
<1>18. \A q, p \in Requests : Apart(q, p)'
  <2>1. \A q \in Requests : req'[q].op = req[q].op /\ req'[q].s = req[q].s /\ req'[q].at = req[q].at
    BY <1>4 DEF Only, Muted
  <2> QED  BY Known, <1>1, <1>2, <1>3, <1>4, <2>1 DEF Apart
<1>19. \A t \in Sessions : Sane(t)'
  <2> SUFFICES ASSUME NEW t \in Sessions PROVE Sane(t)'
    OBVIOUS
  <2>1. Sane(t) /\ latest[t] \in Nat
    BY Known DEF TypeOK
  <2>2. held'[t] <= latest[t]
    BY <1>3, <2>1 DEF Sane
  <2> QED  BY <1>2, <2>1, <2>2 DEF Sane
<1>20. \A t \in Sessions : Single(t)'
  BY Known, <1>1, <1>2, <1>3, <1>4 DEF Single
<1>21. \A t \in Sessions : Stays(t)'
  BY Known, <1>1, <1>2, <1>3, <1>4 DEF Stays
<1>22. \A t \in Sessions : Told(t)'
  BY Known, <1>1, <1>2, <1>3, <1>4, <1>15 DEF Told, Excused
<1>23. \A t \in Sessions : Kept(t)'
  BY Known, <1>1, <1>2, <1>3, <1>4 DEF Kept
<1> QED
  BY <1>10, <1>11, <1>12, <1>13, <1>14, <1>16, <1>17, <1>18, <1>19, <1>20, <1>21, <1>22, <1>23 DEF Inv

\* The client logs out instead.
LEMMA LogsOutInsteadKeeps ==
  ASSUME Inv, NEW r \in Requests, NEW q \in Requests, LogsOutInstead(r, q)
  PROVE  Inv'
<1> DEFINE s == req[r].s  n == req[r].n
<1>1. s \in Sessions /\ q # r /\ req[r].heard /\ req[r].op = "refresh"
       /\ held[s] \in 0..MaxGen /\ held[s] > 0
  BY Known DEF LogsOutInstead, Fit, None, TypeOK
<1>2. /\ UNCHANGED <<users, births, rows, latest, owner, lapsed, dead, held, since, straddled, raced, uses>>
      /\ crossed' = crossed \union {s}
  BY DEF LogsOutInstead, tables
<1>3. /\ req' \in [Requests -> Request] /\ Muted(r) /\ Sent(q, "quit", "erase", s, held[s])
      /\ \A p \in Requests \ {r, q} : req'[p] = req[p]
  <2> DEFINE new == [op |-> "quit", at |-> "erase", s |-> s, n |-> held[s], heard |-> TRUE]
             old == [req[r] EXCEPT !.heard = FALSE]
  <2>1. req' = [req EXCEPT ![r] = old, ![q] = new]
    BY DEF LogsOutInstead
  <2>2. new \in Request /\ old \in Request
    BY Known, <1>1 DEF Request, Points
  <2>3. /\ old.op = req[r].op /\ old.at = req[r].at /\ old.s = s /\ old.n = n /\ ~old.heard
        /\ new.op = "quit" /\ new.at = "erase" /\ new.s = s /\ new.n = held[s] /\ new.heard
    BY Known DEF Request
  <2> HIDE DEF new, old
  <2>4. req' \in [Requests -> Request] /\ req'[r] = old /\ req'[q] = new
        /\ \A p \in Requests \ {r, q} : req'[p] = req[p]
    <3>1. req \in [Requests -> Request] /\ q # r
      BY Known, <1>1 DEF TypeOK
    <3> QED  BY <2>1, <2>2, <3>1
  <2> QED  BY <2>3, <2>4 DEF Muted, Sent
<1>4. req[q].op = "none" /\ req[q].at = "none" /\ req[q].s = NoSession
  BY DEF LogsOutInstead, None
<1>10. TypeOK'
  BY Known, <1>1, <1>2, <1>3, <1>4 DEF TypeOK
<1>11. raced' \subseteq crossed'
  BY Known, <1>1, <1>2, <1>3, <1>4
<1>12. \A o \in Requests : Fit(o)'
  <2>1. Fit(r)'
    BY Known, <1>1, <1>2, <1>3, <1>4 DEF Fit, Muted
  <2>2. Fit(q)'
    BY Known, <1>1, <1>2, <1>3, <1>4 DEF Fit, Sent, Sane, TypeOK, Active, Holding
  <2>3. ASSUME NEW p \in Requests \ {r, q} PROVE Fit(p)'
    BY Known, <1>1, <1>2, <1>3, <1>4 DEF Fit
  <2> QED  BY <2>1, <2>2, <2>3
<1>13. \A o \in Requests : Ready(o)'
  <2>1. Ready(r)'
    <3>1. Ready(r)
      BY Known
    <3> QED  BY <1>2, <1>3, <3>1 DEF Ready, Muted
  <2>2. Ready(q)'
    BY Known, <1>1, <1>2, <1>3, <1>4 DEF Sent, Ready, Active
  <2>3. ASSUME NEW p \in Requests \ {r, q} PROVE Ready(p)'
    BY Known, <1>1, <1>2, <1>3, <1>4 DEF Ready
  <2> QED  BY <2>1, <2>2, <2>3
<1>14. \A o \in Requests : Stands(o)'
  <2>1. Stands(r)'
    <3>1. Stands(r)
      BY Known
    <3> QED  BY <1>2, <1>3, <3>1 DEF Stands, Muted
  <2>2. Stands(q)'
    BY Known, <1>1, <1>2, <1>3, <1>4 DEF Sent, Stands, Active
  <2>3. ASSUME NEW p \in Requests \ {r, q} PROVE Stands(p)'
    BY Known, <1>1, <1>2, <1>3, <1>4 DEF Stands
  <2> QED  BY <2>1, <2>2, <2>3
<1>15. \A t \in Sessions : held[t] # 0 /\ Waits(t) => Waits(t)'
  <2>1. ASSUME NEW t \in Sessions, t = s PROVE Waits(t)'
    BY Known, <1>1, <1>2, <1>3, <1>4, <2>1 DEF Waits, Sent, Holding
  <2>2. ASSUME NEW t \in Sessions, t # s, NEW p \in Requests,
               req[p].s = t, req[p].heard, req[p].op \in Holding
        PROVE  Waits(t)'
    BY Known, <1>1, <1>2, <1>3, <1>4, <2>2 DEF Waits, Holding
  <2> QED  BY <2>1, <2>2 DEF Waits
<1>16. \A o \in Requests : Heeded(o)'
  <2>1. Heeded(r)'
    BY Known, <1>1, <1>2, <1>3, <1>4 DEF Heeded, Muted, Waits, Sent, Holding
  <2>2. Heeded(q)'
    BY Known, <1>1, <1>2, <1>3, <1>4 DEF Heeded, Sent
  <2>3. ASSUME NEW p \in Requests \ {r, q}, req[p].op \in Holding, ~req[p].heard PROVE Heeded(p)'
    <3>1. req[p].s \in Sessions /\ req[p].n > 0 /\ req'[p] = req[p] /\ Heeded(p)
      BY Known, <1>1, <1>2, <1>3, <1>4, <2>3 DEF Fit, Holding
    <3> QED  BY <1>2, <1>15, <2>3, <3>1 DEF Heeded
  <2>4. ASSUME NEW p \in Requests \ {r, q}, ~(req[p].op \in Holding /\ ~req[p].heard) PROVE Heeded(p)'
    BY Known, <1>1, <1>2, <1>3, <1>4, <2>4 DEF Heeded
  <2> QED  BY <2>1, <2>2, <2>3, <2>4
<1>17. \A o \in Requests : Clear(o)'
  <2>1. Clear(r)'
    BY Known, <1>1, <1>2, <1>3, <1>4 DEF Clear, Muted
  <2>2. Clear(q)'
    BY Known, <1>1, <1>2, <1>3, <1>4 DEF Clear, Sent
  <2>3. ASSUME NEW p \in Requests \ {r, q} PROVE Clear(p)'
    BY Known, <1>1, <1>2, <1>3, <1>4 DEF Clear
  <2> QED  BY <2>1, <2>2, <2>3
<1>18. \A o, p \in Requests : Apart(o, p)'
  <2> SUFFICES ASSUME NEW o \in Requests, NEW p \in Requests, o # p, req'[o].s = req'[p].s
               PROVE  /\ ~(req'[o].op = "login" /\ req'[p].op = "login")
                      /\ req'[o].at \in Active /\ req'[p].at \in Active => req'[o].s \in raced'
                      /\ req'[o].s \notin Sessions \ crossed'
    BY DEF Apart
  <2>1. CASE o # q /\ p # q
    <3>1. /\ req'[o].op = req[o].op /\ req'[o].s = req[o].s /\ req'[o].at = req[o].at
          /\ req'[p].op = req[p].op /\ req'[p].s = req[p].s /\ req'[p].at = req[p].at
      BY <1>3, <2>1 DEF Muted
    <3>2. Apart(o, p)
      BY Known
    <3> QED  BY <1>2, <3>1, <3>2 DEF Apart
  <2>2. CASE o = q \/ p = q
    BY Known, <1>1, <1>2, <1>3, <1>4, <2>2 DEF Sent, Active
  <2> QED  BY <2>1, <2>2
<1>19. \A t \in Sessions : Sane(t)'
  BY Known, <1>1, <1>2, <1>3, <1>4 DEF Sane
<1>20. \A t \in Sessions : Single(t)'
  BY Known, <1>1, <1>2, <1>3, <1>4 DEF Single
<1>21. \A t \in Sessions : Stays(t)'
  BY Known, <1>1, <1>2, <1>3, <1>4 DEF Stays
<1>22. \A t \in Sessions : Told(t)'
  BY Known, <1>1, <1>2, <1>3, <1>4, <1>15 DEF Told, Excused
<1>23. \A t \in Sessions : Kept(t)'
  BY Known, <1>1, <1>2, <1>3, <1>4 DEF Kept
<1> QED
  BY <1>10, <1>11, <1>12, <1>13, <1>14, <1>16, <1>17, <1>18, <1>19, <1>20, <1>21, <1>22, <1>23 DEF Inv

\* The client stops waiting, in one of the two ways.
LEMMA GiveUpKeeps ==
  ASSUME Inv, NEW r \in Requests, GiveUp(r)
  PROVE  Inv'
<1>1. CASE \E q \in Requests : LogsOutInstead(r, q)
  BY <1>1, LogsOutInsteadKeeps
<1>2. CASE ~\E q \in Requests : LogsOutInstead(r, q)
  <2>1. req[r].heard /\ crossed' = crossed \union {req[r].s}
        /\ UNCHANGED <<tables, since, straddled, raced, uses>>
    BY DEF GiveUp
  <2>2. req' = [req EXCEPT ![r].heard = FALSE]
    BY <1>2 DEF GiveUp, LogsOutInstead, NoToken
  <2>3. req[r].op # "none" /\ held' = IF req[r].op = "login" THEN held ELSE [held EXCEPT ![req[r].s] = 0]
    BY <1>2 DEF GiveUp, LogsOutInstead, NoToken
  <2> QED  BY <2>1, <2>2, <2>3, ClearsStoreKeeps DEF ClearsStore
<1> QED  BY <1>1, <1>2

\* Nothing changes.
LEMMA StutterKeeps ==
  ASSUME Inv, UNCHANGED vars
  PROVE  Inv'
<1> USE DEF vars, tables, history
<1>1. TypeOK' /\ raced' \subseteq crossed'
  BY DEF Inv, TypeOK
<1>2. \A r \in Requests : Fit(r)' /\ Ready(r)' /\ Stands(r)' /\ Heeded(r)' /\ Clear(r)'
  BY DEF Inv, Fit, Ready, Stands, Heeded, Clear, Waits
<1>3. \A r, q \in Requests : Apart(r, q)'
  BY DEF Inv, Apart
<1>4. \A s \in Sessions : Sane(s)' /\ Single(s)' /\ Stays(s)' /\ Told(s)' /\ Kept(s)'
  BY DEF Inv, Sane, Single, Stays, Told, Kept, Waits, Excused
<1> QED  BY <1>1, <1>2, <1>3, <1>4 DEF Inv

\* At the start there is nothing but accounts.
LEMMA InitHolds == Init => Inv
<1> SUFFICES ASSUME Init PROVE Inv
  OBVIOUS
<1>1. /\ users = Admins /\ births = [u \in Users |-> IF u \in Admins THEN 1 ELSE 0]
      /\ rows = [s \in Sessions |-> {}] /\ owner = [s \in Sessions |-> Nobody]
      /\ latest = [s \in Sessions |-> 0] /\ lapsed = latest /\ dead = latest
      /\ held = latest /\ since = latest
      /\ crossed = {} /\ straddled = {} /\ raced = {}
      /\ uses = [s \in Sessions |-> [n \in Gens |-> 0]]
  BY DEF Init, NoToken
<1>2. \A r \in Requests : req[r].op = "none" /\ req[r].at = "none" /\ req[r].s = NoSession
  BY DEF Init, None
<1>3. TypeOK
  <2>1. req \in [Requests -> Request]
    BY NoneTyped DEF Init
  <2>2. births \in [Users -> 0..MaxBirths] /\ users \subseteq Users
    BY <1>1, Numbers, SessionAssumption
  <2>3. latest \in [Sessions -> 0..MaxGen] /\ since \in [Sessions -> 0..MaxBirths]
    BY <1>1, Numbers
  <2>4. uses \in [Sessions -> [Gens -> Nat]]
    BY <1>1
  <2>5. rows \in [Sessions -> SUBSET Gens] /\ owner \in [Sessions -> Users \union {Nobody}]
    BY <1>1
  <2> QED  BY <1>1, <2>1, <2>2, <2>3, <2>4, <2>5 DEF TypeOK
<1>4. \A r \in Requests : Fit(r) /\ Ready(r) /\ Stands(r) /\ Heeded(r) /\ Clear(r)
  BY <1>2, SessionAssumption DEF Fit, Ready, Stands, Heeded, Clear, Active, Holding
<1>5. \A r, q \in Requests : Apart(r, q)
  BY <1>2, SessionAssumption DEF Apart, Active
<1>6. \A s \in Sessions : Sane(s) /\ Single(s) /\ Stays(s) /\ Told(s) /\ Kept(s)
  BY <1>1 DEF Sane, Single, Stays, Told, Kept
<1> QED  BY <1>1, <1>3, <1>4, <1>5, <1>6 DEF Inv

\* Every step keeps the invariant.
LEMMA NextKeeps == Inv /\ [Next]_vars => Inv'
<1> SUFFICES ASSUME Inv, [Next]_vars PROVE Inv'
  OBVIOUS
<1>1. ASSUME NEW r \in Requests, Advance(r) PROVE Inv'
  BY <1>1, LookUpKeeps, DiscardKeeps, ReadAccountKeeps, ConsumeKeeps, IssueFailsKeeps,
     IssueStoresKeeps, EraseKeeps, LeaveKeeps DEF Advance
<1>2. ASSUME NEW r \in Requests, GiveUp(r) \/ Abort(r) PROVE Inv'
  BY <1>2, GiveUpKeeps, AbortKeeps
<1>3. ASSUME NEW r \in Requests, NEW s \in Sessions, Ask(r, s) PROVE Inv'
  BY <1>3, RegisterKeeps, LoginKeeps, RefreshKeeps, LogoutKeeps DEF Ask
<1>4. ASSUME NEW u \in Users, DeleteUser(u) PROVE Inv'
  BY <1>4, DeleteUserKeeps
<1>5. ASSUME NEW s \in Sessions, Expire(s) \/ Die(s) PROVE Inv'
  BY <1>5, ExpireKeeps, DieKeeps
<1>6. CASE CleanUp
  BY <1>6, CleanUpKeeps
<1>7. CASE UNCHANGED vars
  BY <1>7, StutterKeeps
<1> QED  BY <1>1, <1>2, <1>3, <1>4, <1>5, <1>6, <1>7 DEF Next

\* The invariant holds whatever the requests, clients and accounts do.
THEOREM InvHolds == Spec => []Inv
  BY InitHolds, NextKeeps, PTL DEF Spec

-----------------------------------------------------------------------------
(* What follows *)

\* Every variable of the sessions has its type.
THEOREM TypeCorrect == Spec => []TypeOK
<1>1. Inv => TypeOK
  BY DEF Inv
<1> QED  BY <1>1, InvHolds, PTL

\* A session has at most one stored token, its newest, unless two refreshes
\* raced for one: refresh_tokens deletes the old row before it stores the new.
THEOREM TokensAreSingle == Spec => []OneTokenPerSession
<1>1. Inv => OneTokenPerSession
  <2> SUFFICES ASSUME Inv, NEW s \in Sessions \ raced, NEW n \in rows[s]
               PROVE  n = latest[s] /\ n # 0
    BY DEF OneTokenPerSession, NoToken
  <2>1. n \in Gens
    BY Known DEF TypeOK
  <2> QED  BY Known, <2>1 DEF Single, Gens
<1> QED  BY <1>1, InvHolds, PTL

\* A token is exchanged for a new one at most once, unless two refreshes both
\* passed the lookup before either had deleted it.
THEOREM TokensAreUsedOnce == Spec => []SingleUse
<1>1. Inv => SingleUse
  BY Known DEF SingleUse, Single
<1> QED  BY <1>1, InvHolds, PTL

\* A client with a token and no request under way holds one that is stored,
\* unless it has expired or its account is gone, whatever answers were lost.
THEOREM HeldTokensAreStored == Spec => []HeldIsStored
<1>1. Inv => HeldIsStored
  <2> SUFFICES ASSUME Inv, NEW s \in Sessions, Quiet(s), held[s] # 0, held[s] \notin rows[s]
               PROVE  Excused(s)
    BY DEF HeldIsStored, Excused, NoToken, TypeOK, Inv
  <2>1. ~Waits(s)
    BY DEF Quiet, Of, Waits
  <2> QED  BY Known, <2>1 DEF Told
<1> QED  BY <1>1, InvHolds, PTL

\* After a logout that crossed no other request of the session nothing of the
\* session is stored that could still be used.
THEOREM LogoutEndsTheSession == Spec => []LogoutEnds
<1>1. Inv => LogoutEnds
  <2> SUFFICES ASSUME Inv, NEW s \in Sessions \ crossed, held[s] = 0, NEW n \in rows[s]
               PROVE  n <= dead[s]
    BY DEF LogoutEnds, NoToken
  <2>1. n # 0
    BY Known DEF TypeOK, Gens
  <2> QED  BY Known, <2>1 DEF Kept
<1> QED  BY <1>1, InvHolds, PTL

\* A stored token is of an account that exists, in the registration of the
\* name it was issued to, unless the account went under a running request.
THEOREM AccountsEndTheirSessions == Spec => []SessionsEndWithAccount
<1>1. Inv => SessionsEndWithAccount
  BY Known DEF SessionsEndWithAccount, Stays
<1> QED  BY <1>1, InvHolds, PTL
=============================================================================
