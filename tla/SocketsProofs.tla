--------------------------- MODULE SocketsProofs ----------------------------
(***************************************************************************)
(* What holds of Sockets for any users, any sockets and any number of      *)
(* commits.  The three invariants and AcceptingFresh are proved together:  *)
(* a client is current after a broadcast because every connected socket is *)
(* listed, and an accepted one because nothing was sent to it before.      *)
(***************************************************************************)
EXTENDS Sockets, SequenceTheorems, TLAPS

\* Nothing has been sent to a socket before it is accepted.
AcceptingFresh ==
    \A s \in Socks : at[s] = "accepting" => outbox[s] = <<>> /\ told[s] = 0

IInv == TypeOK /\ RegistrySound /\ AcceptingFresh /\ ViewsCurrent

-----------------------------------------------------------------------------
(* Lemmas about the snapshots scheduled for a socket *)

\* After an append the last snapshot is the one appended.
LEMMA LastAppended ==
    ASSUME NEW S, NEW q \in Seq(S), NEW v \in S
    PROVE  /\ Append(q, v) \in Seq(S)
           /\ Append(q, v) # <<>>
           /\ Append(q, v)[Len(Append(q, v))] = v
  OBVIOUS

\* Sending the first snapshot leaves the last one as it was, in the queue or,
\* when it was the only one, with the client.
LEMMA LastAfterTail ==
    ASSUME NEW S, NEW q \in Seq(S), q # <<>>
    PROVE  /\ Head(q) \in S
           /\ Tail(q) \in Seq(S)
           /\ q[Len(q)] \in S
           /\ Tail(q) = <<>> => Head(q) = q[Len(q)]
           /\ Tail(q) # <<>> => Tail(q)[Len(Tail(q))] = q[Len(q)]
  <1>1. Len(q) \in Nat \ {0}
    BY EmptySeq
  <1>2. q[Len(q)] \in S
    BY <1>1, ElementOfSeq
  <1>3. Head(q) = q[1] /\ Head(q) \in S /\ Tail(q) \in Seq(S)
    BY HeadTailProperties
  <1>4. Len(Tail(q)) = Len(q) - 1
    BY HeadTailProperties
  <1>5. \A i \in 1..Len(Tail(q)) : Tail(q)[i] = q[i + 1]
    BY HeadTailProperties
  <1>6. ASSUME Tail(q) = <<>> PROVE Head(q) = q[Len(q)]
    <2>1. Len(q) - 1 = 0
      BY <1>4, <1>6, EmptySeq
    <2>2. Len(q) = 1
      BY <1>1, <2>1
    <2> QED
      BY <1>3, <2>2
  <1>7. ASSUME Tail(q) # <<>> PROVE Tail(q)[Len(Tail(q))] = q[Len(q)]
    <2>1. Len(Tail(q)) \in Nat \ {0}
      BY <1>3, <1>7, EmptySeq
    <2>2. Len(Tail(q)) \in 1..Len(Tail(q)) /\ Len(Tail(q)) + 1 = Len(q)
      BY <1>1, <1>4, <2>1
    <2> QED
      BY <1>5, <2>2
  <1> QED
    BY <1>2, <1>3, <1>6, <1>7

\* A broadcast keeps the queues of snapshots typed.
LEMMA BroadcastTypes ==
    ASSUME outbox \in [Socks -> Seq(Versions)], NEW v \in Versions, Broadcast(v)
    PROVE  outbox' \in [Socks -> Seq(Versions)] /\ lost' \in BOOLEAN
  <1>1. CASE ~Nameless
    <2>1. \A s \in Socks : outbox[s] \in Seq(Versions) /\ Append(outbox[s], v) \in Seq(Versions)
      BY LastAppended
    <2> QED
      BY <1>1, <2>1 DEF Broadcast
  <1>2. CASE Nameless
    BY <1>2 DEF Broadcast
  <1> QED
    BY <1>1, <1>2

-----------------------------------------------------------------------------
\* Before the first connection there is nothing to be current about.
THEOREM InitInv == Init => IInv
  <1> SUFFICES ASSUME Init PROVE IInv
    OBVIOUS
  <1> USE SocketsAssumption DEF Init
  <1>1. TypeOK
    <2>1. <<>> \in Seq(Versions) /\ version \in Versions
      BY EmptySeq DEF Versions
    <2>2. outbox \in [Socks -> Seq(Versions)] /\ told \in [Socks -> 0..MaxVersion]
      BY <2>1
    <2>3. gone \subseteq {s \in Socks : at[s] = "running"}
      OBVIOUS
    <2> QED
      BY <2>1, <2>2, <2>3 DEF TypeOK
  <1>2. RegistrySound
    BY DEF RegistrySound, Connected
  <1>3. AcceptingFresh
    BY DEF AcceptingFresh
  <1>4. ViewsCurrent
    BY DEF ViewsCurrent, Watching, Connected
  <1> QED
    BY <1>1, <1>2, <1>3, <1>4 DEF IInv
-----------------------------------------------------------------------------
(* Every step *)

\* The types are inductive by themselves.
LEMMA TypeStep == TypeOK /\ [Next]_vars => TypeOK'
  <1> SUFFICES ASSUME TypeOK, [Next]_vars PROVE TypeOK'
    OBVIOUS
  <1> USE SocketsAssumption DEF TypeOK, Sessions
  <1>1. ASSUME NEW u \in Users, Register(u) PROVE TypeOK'
    BY <1>1 DEF Register, sockets
  <1>2. ASSUME NEW u \in Users, DeleteUser(u) PROVE TypeOK'
    BY <1>2 DEF DeleteUser, sockets
  <1>3. ASSUME NEW u \in Users, PickCommit(u) PROVE TypeOK'
    <2>1. version' \in Versions
      BY <1>3 DEF PickCommit, Versions
    <2> QED
      BY <1>3, <2>1 DEF PickCommit, sockets
  <1>4. ASSUME NEW u \in Users, NEW s \in Socks, PickSent(u, s) PROVE TypeOK'
    BY <1>4 DEF PickSent, sockets
  <1>5. ASSUME NEW u \in Users, NEW s \in Socks, PickSendFails(u, s) PROVE TypeOK'
    BY <1>5 DEF PickSendFails, Disconnect, sockets
  <1>6. ASSUME NEW u \in Users, PickAdmins(u) PROVE TypeOK'
    BY <1>6 DEF PickAdmins, sockets
  <1>7. ASSUME NEW u \in Users, PickStocks(u) PROVE TypeOK'
    <2>1. outbox' \in [Socks -> Seq(Versions)] /\ lost' \in BOOLEAN
      BY <1>7, BroadcastTypes DEF PickStocks
    <2> QED
      BY <1>7, <2>1 DEF PickStocks, sockets
  <1>8. ASSUME NEW u \in Users, NEW s \in Socks, Open(s, u) PROVE TypeOK'
    <2>1. at' \in [Socks -> {"off", "accepting", "running"}]
      BY <1>8 DEF Open
    <2>2. who' \in [Socks -> Users \cup {NoUser}] /\ told' \in [Socks -> 0..MaxVersion]
      BY <1>8 DEF Open
    <2>3. \A t \in Socks : at'[t] # "off" => who'[t] \in Users
      BY <1>8 DEF Open
    <2>4. gone' \subseteq {t \in Socks : at'[t] = "running"}
      BY <1>8 DEF Open, Fresh
    <2> QED
      BY <1>8, <2>1, <2>2, <2>3, <2>4 DEF Open
  <1>9. ASSUME NEW s \in Socks, Accepted(s) PROVE TypeOK'
    BY <1>9 DEF Accepted, sockets
  <1>10. ASSUME NEW s \in Socks, AcceptFails(s) PROVE TypeOK'
    BY <1>10 DEF AcceptFails, sockets
  <1>11. ASSUME NEW s \in Socks, Drop(s) PROVE TypeOK'
    BY <1>11 DEF Drop, Connected, sockets
  <1>12. ASSUME NEW s \in Socks, Command(s) PROVE TypeOK'
    <2>1. version \in 0..MaxVersion
      BY DEF Versions
    <2> QED
      BY <1>12, <2>1 DEF Command, sockets
  <1>13. ASSUME NEW s \in Socks, End(s) PROVE TypeOK'
    BY <1>13 DEF End, Disconnect, sockets
  <1>14. ASSUME NEW s \in Socks, Deliver(s) PROVE TypeOK'
    <2>1. /\ Head(outbox[s]) \in 0..MaxVersion
          /\ Tail(outbox[s]) \in Seq(Versions)
      BY <1>14, LastAfterTail DEF Deliver, Versions
    <2> QED
      BY <1>14, <2>1 DEF Deliver, sockets
  <1>15. ASSUME NEW s \in Socks, SendFails(s) PROVE TypeOK'
    <2>1. Tail(outbox[s]) \in Seq(Versions)
      BY <1>15, LastAfterTail DEF SendFails
    <2> QED
      BY <1>15, <2>1 DEF SendFails, Disconnect, sockets
  <1>16. ASSUME NEW s \in Socks, OtherSendFails(s) PROVE TypeOK'
    BY <1>16 DEF OtherSendFails, Disconnect, sockets
  <1>17. ASSUME Update PROVE TypeOK'
    <2>1. version' \in Versions
      BY <1>17 DEF Update, Versions
    <2>2. outbox' \in [Socks -> Seq(Versions)] /\ lost' \in BOOLEAN
      BY <1>17, <2>1, BroadcastTypes DEF Update
    <2> QED
      BY <1>17, <2>1, <2>2 DEF Update, sockets
  <1>18. ASSUME Restart PROVE TypeOK'
    <2>1. outbox' \in [Socks -> Seq(Versions)] /\ told' \in [Socks -> 0..MaxVersion]
      BY <1>18, EmptySeq DEF Restart
    <2>2. gone' \subseteq {s \in Socks : at'[s] = "running"}
      BY <1>18 DEF Restart
    <2>3. \A s \in Socks : at'[s] = "off"
      BY <1>18 DEF Restart
    <2> QED
      BY <1>18, <2>1, <2>2, <2>3 DEF Restart
  <1>19. CASE UNCHANGED vars
    BY <1>19 DEF vars, sockets
  <1> QED
    BY <1>1, <1>2, <1>3, <1>4, <1>5, <1>6, <1>7, <1>8, <1>9, <1>10,
       <1>11, <1>12, <1>13, <1>14, <1>15, <1>16, <1>17, <1>18, <1>19 DEF Next, PickGoesOn, Send

\* A socket leaves the registry only when it is not connected.
LEMMA RegistryStep == TypeOK /\ RegistrySound /\ [Next]_vars => RegistrySound'
  <1> SUFFICES ASSUME TypeOK /\ RegistrySound, [Next]_vars PROVE RegistrySound'
    OBVIOUS
  <1> USE DEF TypeOK, RegistrySound, Connected
  <1>1. ASSUME NEW u \in Users, Register(u) PROVE RegistrySound'
    BY <1>1 DEF Register, sockets
  <1>2. ASSUME NEW u \in Users, DeleteUser(u) PROVE RegistrySound'
    BY <1>2 DEF DeleteUser, sockets
  <1>3. ASSUME NEW u \in Users, PickCommit(u) PROVE RegistrySound'
    BY <1>3 DEF PickCommit, sockets
  <1>4. ASSUME NEW u \in Users, NEW s \in Socks, PickSent(u, s) PROVE RegistrySound'
    BY <1>4 DEF PickSent, sockets
  <1>5. ASSUME NEW u \in Users, NEW s \in Socks, PickSendFails(u, s) PROVE RegistrySound'
    BY <1>5 DEF PickSendFails, Disconnect, sockets
  <1>6. ASSUME NEW u \in Users, PickAdmins(u) PROVE RegistrySound'
    BY <1>6 DEF PickAdmins, sockets
  <1>7. ASSUME NEW u \in Users, PickStocks(u) PROVE RegistrySound'
    BY <1>7 DEF PickStocks, Broadcast, Nameless, sockets
  <1>8. ASSUME NEW u \in Users, NEW s \in Socks, Open(s, u) PROVE RegistrySound'
    BY <1>8 DEF Open, Fresh, sockets
  <1>9. ASSUME NEW s \in Socks, Accepted(s) PROVE RegistrySound'
    BY <1>9 DEF Accepted, sockets
  <1>10. ASSUME NEW s \in Socks, AcceptFails(s) PROVE RegistrySound'
    BY <1>10 DEF AcceptFails, sockets
  <1>11. ASSUME NEW s \in Socks, Drop(s) PROVE RegistrySound'
    BY <1>11 DEF Drop, sockets
  <1>12. ASSUME NEW s \in Socks, Command(s) PROVE RegistrySound'
    BY <1>12 DEF Command, sockets
  <1>13. ASSUME NEW s \in Socks, End(s) PROVE RegistrySound'
    BY <1>13 DEF End, Disconnect, sockets
  <1>14. ASSUME NEW s \in Socks, Deliver(s) PROVE RegistrySound'
    BY <1>14 DEF Deliver, sockets
  <1>15. ASSUME NEW s \in Socks, SendFails(s) PROVE RegistrySound'
    BY <1>15 DEF SendFails, Disconnect, sockets
  <1>16. ASSUME NEW s \in Socks, OtherSendFails(s) PROVE RegistrySound'
    BY <1>16 DEF OtherSendFails, Disconnect, sockets
  <1>17. ASSUME Update PROVE RegistrySound'
    BY <1>17 DEF Update, Broadcast, Nameless, sockets
  <1>18. ASSUME Restart PROVE RegistrySound'
    BY <1>18 DEF Restart, sockets
  <1>19. CASE UNCHANGED vars
    BY <1>19 DEF vars, sockets
  <1> QED
    BY <1>1, <1>2, <1>3, <1>4, <1>5, <1>6, <1>7, <1>8, <1>9, <1>10,
       <1>11, <1>12, <1>13, <1>14, <1>15, <1>16, <1>17, <1>18, <1>19 DEF Next, PickGoesOn, Send

\* Nothing is scheduled for, or sent to, a socket that is not listed.
LEMMA FreshStep == TypeOK /\ RegistrySound /\ AcceptingFresh /\ [Next]_vars => AcceptingFresh'
  <1> SUFFICES ASSUME TypeOK /\ RegistrySound /\ AcceptingFresh, [Next]_vars PROVE AcceptingFresh'
    OBVIOUS
  <1> USE DEF TypeOK, RegistrySound, AcceptingFresh, Connected
  <1>1. ASSUME NEW u \in Users, Register(u) PROVE AcceptingFresh'
    BY <1>1 DEF Register, sockets
  <1>2. ASSUME NEW u \in Users, DeleteUser(u) PROVE AcceptingFresh'
    BY <1>2 DEF DeleteUser, sockets
  <1>3. ASSUME NEW u \in Users, PickCommit(u) PROVE AcceptingFresh'
    BY <1>3 DEF PickCommit, sockets
  <1>4. ASSUME NEW u \in Users, NEW s \in Socks, PickSent(u, s) PROVE AcceptingFresh'
    BY <1>4 DEF PickSent, sockets
  <1>5. ASSUME NEW u \in Users, NEW s \in Socks, PickSendFails(u, s) PROVE AcceptingFresh'
    BY <1>5 DEF PickSendFails, Disconnect, sockets
  <1>6. ASSUME NEW u \in Users, PickAdmins(u) PROVE AcceptingFresh'
    BY <1>6 DEF PickAdmins, sockets
  <1>7. ASSUME NEW u \in Users, PickStocks(u) PROVE AcceptingFresh'
    BY <1>7 DEF PickStocks, Broadcast, Nameless, sockets
  <1>8. ASSUME NEW u \in Users, NEW s \in Socks, Open(s, u) PROVE AcceptingFresh'
    BY <1>8 DEF Open, Fresh, sockets
  <1>9. ASSUME NEW s \in Socks, Accepted(s) PROVE AcceptingFresh'
    BY <1>9 DEF Accepted, sockets
  <1>10. ASSUME NEW s \in Socks, AcceptFails(s) PROVE AcceptingFresh'
    BY <1>10 DEF AcceptFails, sockets
  <1>11. ASSUME NEW s \in Socks, Drop(s) PROVE AcceptingFresh'
    BY <1>11 DEF Drop, sockets
  <1>12. ASSUME NEW s \in Socks, Command(s) PROVE AcceptingFresh'
    BY <1>12 DEF Command, sockets
  <1>13. ASSUME NEW s \in Socks, End(s) PROVE AcceptingFresh'
    BY <1>13 DEF End, Disconnect, sockets
  <1>14. ASSUME NEW s \in Socks, Deliver(s) PROVE AcceptingFresh'
    BY <1>14 DEF Deliver, sockets
  <1>15. ASSUME NEW s \in Socks, SendFails(s) PROVE AcceptingFresh'
    BY <1>15 DEF SendFails, Disconnect, sockets
  <1>16. ASSUME NEW s \in Socks, OtherSendFails(s) PROVE AcceptingFresh'
    BY <1>16 DEF OtherSendFails, Disconnect, sockets
  <1>17. ASSUME Update PROVE AcceptingFresh'
    BY <1>17 DEF Update, Broadcast, Nameless, sockets
  <1>18. ASSUME Restart PROVE AcceptingFresh'
    BY <1>18 DEF Restart, sockets
  <1>19. CASE UNCHANGED vars
    BY <1>19 DEF vars, sockets
  <1> QED
    BY <1>1, <1>2, <1>3, <1>4, <1>5, <1>6, <1>7, <1>8, <1>9, <1>10,
       <1>11, <1>12, <1>13, <1>14, <1>15, <1>16, <1>17, <1>18, <1>19 DEF Next, PickGoesOn, Send

\* A broadcast that is not given up brings every connected socket up to date.
LEMMA BroadcastCurrent ==
    ASSUME TypeOK, RegistrySound, UNCHANGED <<at, gone, listed, told>>,
           version' \in Versions, Broadcast(version')
    PROVE  lost' \/ \A s \in Socks : Watching(s)' => Latest(s)' = version'
  <1> SUFFICES ASSUME ~lost', NEW s \in Socks, Watching(s)'
               PROVE  Latest(s)' = version'
    OBVIOUS
  <1>1. s \in listed
    BY DEF Watching, Connected, RegistrySound
  <1>2. outbox'[s] = Append(outbox[s], version')
    BY <1>1 DEF Broadcast
  <1>3. outbox[s] \in Seq(Versions)
    BY DEF TypeOK
  <1> QED
    BY <1>2, <1>3, LastAppended DEF Latest

\* Every change of the stock is announced, pending or given up, and nothing else
\* moves a client away from the last commit.
LEMMA CurrentStep == IInv /\ [Next]_vars => ViewsCurrent'
  <1> SUFFICES ASSUME IInv, [Next]_vars PROVE ViewsCurrent'
    OBVIOUS
  <1> USE DEF IInv
  <1>1. ASSUME NEW u \in Users, Register(u) PROVE ViewsCurrent'
    BY <1>1 DEF Register, ViewsCurrent, PickPending, Watching, Connected, Latest, sockets
  <1>2. ASSUME NEW u \in Users, DeleteUser(u) PROVE ViewsCurrent'
    BY <1>2 DEF DeleteUser, ViewsCurrent, PickPending, Watching, Connected, Latest, sockets
  <1>3. ASSUME NEW u \in Users, PickCommit(u) PROVE ViewsCurrent'
    <2>1. picking'[u] = "own"
      BY <1>3 DEF PickCommit, TypeOK
    <2> QED
      BY <2>1 DEF ViewsCurrent, PickPending
  <1>4. ASSUME NEW u \in Users, NEW s \in Socks, PickSent(u, s) PROVE ViewsCurrent'
    <2>1. UNCHANGED <<lost, version, picking>>
      BY <1>4 DEF PickSent
    <2>2. \A t \in Socks : Watching(t)' => Watching(t) /\ Latest(t)' = Latest(t)
      BY <1>4 DEF PickSent, Watching, Connected, Latest, sockets, TypeOK
    <2> QED
      BY <2>1, <2>2 DEF ViewsCurrent, PickPending
  <1>5. ASSUME NEW u \in Users, NEW s \in Socks, PickSendFails(u, s) PROVE ViewsCurrent'
    <2>1. lost' \/ UNCHANGED <<lost, picking>>
      BY <1>5 DEF PickSendFails
    <2>2. UNCHANGED <<version, at, gone, told, outbox>>
      BY <1>5 DEF PickSendFails, sockets
    <2> QED
      BY <2>1, <2>2 DEF ViewsCurrent, PickPending, Watching, Connected, Latest
  <1>6. ASSUME NEW u \in Users, PickAdmins(u) PROVE ViewsCurrent'
    <2>1. picking'[u] = "admins"
      BY <1>6 DEF PickAdmins, TypeOK
    <2> QED
      BY <2>1 DEF ViewsCurrent, PickPending
  <1>7. ASSUME NEW u \in Users, PickStocks(u) PROVE ViewsCurrent'
    <2>1. lost' \/ \A s \in Socks : Watching(s)' => Latest(s)' = version'
      BY <1>7, BroadcastCurrent DEF PickStocks, sockets, TypeOK
    <2> QED
      BY <2>1 DEF ViewsCurrent
  <1>8. ASSUME NEW u \in Users, NEW s \in Socks, Open(s, u) PROVE ViewsCurrent'
    <2>1. UNCHANGED <<lost, version, picking>>
      BY <1>8 DEF Open
    <2>2. \A t \in Socks : Watching(t)' => Watching(t) /\ Latest(t)' = Latest(t)
      BY <1>8 DEF Open, Watching, Connected, Latest, sockets, Fresh, TypeOK
    <2> QED
      BY <2>1, <2>2 DEF ViewsCurrent, PickPending
  <1>9. ASSUME NEW s \in Socks, Accepted(s) PROVE ViewsCurrent'
    <2>1. UNCHANGED <<lost, version, picking>>
      BY <1>9 DEF Accepted
    <2>2. Latest(s)' = 0
      BY <1>9 DEF Accepted, AcceptingFresh, Latest
    <2>3. \A t \in Socks : Watching(t)' => Watching(t) /\ Latest(t)' = Latest(t)
      BY <1>9, <2>2 DEF Accepted, TypeOK, Watching, Connected, Latest
    <2> QED
      BY <2>1, <2>3 DEF ViewsCurrent, PickPending
  <1>10. ASSUME NEW s \in Socks, AcceptFails(s) PROVE ViewsCurrent'
    <2>1. UNCHANGED <<lost, version, picking>>
      BY <1>10 DEF AcceptFails
    <2>2. \A t \in Socks : Watching(t)' => Watching(t) /\ Latest(t)' = Latest(t)
      BY <1>10 DEF AcceptFails, Watching, Connected, Latest, sockets, TypeOK
    <2> QED
      BY <2>1, <2>2 DEF ViewsCurrent, PickPending
  <1>11. ASSUME NEW s \in Socks, Drop(s) PROVE ViewsCurrent'
    <2>1. UNCHANGED <<lost, version, picking>>
      BY <1>11 DEF Drop
    <2>2. \A t \in Socks : Watching(t)' => Watching(t) /\ Latest(t)' = Latest(t)
      BY <1>11 DEF Drop, Watching, Connected, Latest, sockets, TypeOK
    <2> QED
      BY <2>1, <2>2 DEF ViewsCurrent, PickPending
  <1>12. ASSUME NEW s \in Socks, Command(s) PROVE ViewsCurrent'
    <2>1. UNCHANGED <<lost, version, picking, outbox>>
      BY <1>12 DEF Command
    <2>2. outbox[s] = <<>> => Latest(s)' = version'
      BY <1>12 DEF Command, TypeOK, Latest
    <2>3. outbox[s] # <<>> => Watching(s) /\ Latest(s)' = Latest(s)
      <3>1. outbox[s] # <<>> => Latest(s) \in Versions
        BY LastAfterTail DEF TypeOK, Latest
      <3>2. \A v \in Versions : v # 0
        BY SocketsAssumption DEF Versions
      <3> QED
        BY <1>12, <3>1, <3>2 DEF Command, Watching, Latest
    <2>4. \A t \in Socks \ {s} : Watching(t)' => Watching(t) /\ Latest(t)' = Latest(t)
      BY <1>12 DEF Command, TypeOK, Watching, Connected, Latest, sockets
    <2> QED
      BY <2>1, <2>2, <2>3, <2>4 DEF ViewsCurrent, PickPending
  <1>13. ASSUME NEW s \in Socks, End(s) PROVE ViewsCurrent'
    <2>1. UNCHANGED <<lost, version, picking>>
      BY <1>13 DEF End
    <2>2. \A t \in Socks : Watching(t)' => Watching(t) /\ Latest(t)' = Latest(t)
      BY <1>13 DEF End, Watching, Connected, Latest, sockets, TypeOK
    <2> QED
      BY <2>1, <2>2 DEF ViewsCurrent, PickPending
  <1>14. ASSUME NEW s \in Socks, Deliver(s) PROVE ViewsCurrent'
    <2>1. UNCHANGED <<lost, version, picking, at, gone>>
      BY <1>14 DEF Deliver, sockets
    <2>2. Latest(s)' = Latest(s)
      <3>1. told'[s] = Head(outbox[s]) /\ outbox'[s] = Tail(outbox[s])
        BY <1>14 DEF Deliver, TypeOK
      <3>2. outbox[s] \in Seq(Versions) /\ outbox[s] # <<>>
        BY <1>14 DEF Deliver, TypeOK
      <3> QED
        BY <3>1, <3>2, LastAfterTail DEF Latest
    <2>3. \A t \in Socks \ {s} : Latest(t)' = Latest(t)
      BY <1>14 DEF Deliver, TypeOK, Latest
    <2> QED
      BY <2>1, <2>2, <2>3 DEF ViewsCurrent, PickPending, Watching, Connected
  <1>15. ASSUME NEW s \in Socks, SendFails(s) PROVE ViewsCurrent'
    <2>1. UNCHANGED <<lost, version, picking>>
      BY <1>15 DEF SendFails
    <2>2. \A t \in Socks : Watching(t)' => Watching(t) /\ Latest(t)' = Latest(t)
      BY <1>15 DEF SendFails, Watching, Connected, Latest, sockets, TypeOK
    <2> QED
      BY <2>1, <2>2 DEF ViewsCurrent, PickPending
  <1>16. ASSUME NEW s \in Socks, OtherSendFails(s) PROVE ViewsCurrent'
    <2>1. UNCHANGED <<lost, version, picking>>
      BY <1>16 DEF OtherSendFails
    <2>2. \A t \in Socks : Watching(t)' => Watching(t) /\ Latest(t)' = Latest(t)
      BY <1>16 DEF OtherSendFails, Watching, Connected, Latest, sockets, TypeOK
    <2> QED
      BY <2>1, <2>2 DEF ViewsCurrent, PickPending
  <1>17. ASSUME Update PROVE ViewsCurrent'
    <2>1. version' \in Versions
      BY <1>17, SocketsAssumption DEF Update, Versions, TypeOK
    <2>2. lost' \/ \A s \in Socks : Watching(s)' => Latest(s)' = version'
      BY <1>17, <2>1, BroadcastCurrent DEF Update, sockets
    <2> QED
      BY <2>2 DEF ViewsCurrent
  <1>18. ASSUME Restart PROVE ViewsCurrent'
    <2>1. \A t \in Socks : ~Connected(t)'
      BY <1>18 DEF Restart, Connected
    <2> QED
      BY <2>1 DEF ViewsCurrent, Watching
  <1>19. CASE UNCHANGED vars
    BY <1>19 DEF vars, sockets, ViewsCurrent, PickPending, Watching, Connected, Latest
  <1> QED
    BY <1>1, <1>2, <1>3, <1>4, <1>5, <1>6, <1>7, <1>8, <1>9, <1>10,
       <1>11, <1>12, <1>13, <1>14, <1>15, <1>16, <1>17, <1>18, <1>19 DEF Next, PickGoesOn, Send

-----------------------------------------------------------------------------
(* The theorems *)

\* Every reachable state satisfies the conjunction.
THEOREM Inductive == Spec => []IInv
  <1>1. IInv /\ [Next]_vars => IInv'
    BY TypeStep, RegistryStep, FreshStep, CurrentStep DEF IInv
  <1> QED
    BY InitInv, <1>1, PTL DEF Spec

\* TypeOK for any users, sockets and commits.
THEOREM TypeCorrect == Spec => []TypeOK
  <1>1. IInv => TypeOK
    BY DEF IInv
  <1> QED
    BY Inductive, <1>1, PTL

\* The registry holds every connected socket and none whose endpoint has ended,
\* whatever sends and endpoints disconnect it, once or twice.
THEOREM RegistryIsSound == Spec => []RegistrySound
  <1>1. IInv => RegistrySound
    BY DEF IInv
  <1> QED
    BY Inductive, <1>1, PTL

\* The last snapshot on its way to a connected client is that of the last
\* commit, but for picks under way and a broadcast given up.
THEOREM ViewsAreCurrent == Spec => []ViewsCurrent
  <1>1. IInv => ViewsCurrent
    BY DEF IInv
  <1> QED
    BY Inductive, <1>1, PTL
=============================================================================
