------------------------------ MODULE Sockets -------------------------------
(***************************************************************************)
(* The open sockets and the stock snapshots sent over them: endpoints come *)
(* and go, adjustments and picks broadcast, sends fail, operators are      *)
(* deleted while they are connected.                                       *)
(*                                                                         *)
(* Source: services/managers/connection_manager.py, routers/websocket.py,  *)
(* and the notifications of services/{stock,pick_item,auth}_service.py.    *)
(* All of it runs on one event loop, so what lies between two awaits is    *)
(* one step.  A broadcast computes its snapshot and creates one task for   *)
(* each socket in a single step; the tasks run later, first come, first    *)
(* served, while the answer to a command is sent at once.  A snapshot is   *)
(* the number of commits to warehouse.stocks it was read after.            *)
(***************************************************************************)
EXTENDS Naturals, Sequences

CONSTANTS
    Users,        \* account names
    Admins,       \* those of scope "admin"; never deleted
    Socks,        \* WebSocket objects; bounds the sockets open at once
    MaxVersion,   \* bounds the commits to warehouse.stocks
    NoUser        \* a socket that has not been opened belongs to nobody

ASSUME SocketsAssumption ==
    /\ Admins \subseteq Users
    /\ NoUser \notin Users
    /\ MaxVersion \in Nat \ {0}

Versions == 1..MaxVersion

VARIABLES
    accounts,  \* registered users
    at,        \* where each socket's endpoint is
    who,       \* the user each endpoint serves, fixed when it is opened
    gone,      \* sockets whose client has left and whose endpoint runs still
    listed,    \* sockets in active_connections and user_scopes
    version,   \* commits to warehouse.stocks
    outbox,    \* snapshots scheduled for each socket and not sent yet
    told,      \* snapshot each socket was sent last; 0 for none
    picking,   \* where each user's pick request is
    waits,     \* sockets whose notification each user's pick awaits
    lost       \* the last broadcast of stocks was given up; no guard reads it

sockets == <<at, who, gone>>
vars == <<accounts, sockets, listed, version, outbox, told, picking, waits, lost>>

Connected(s) == at[s] = "running" /\ s \notin gone

Sessions(u) == {s \in listed : who[s] = u}

-----------------------------------------------------------------------------
(* The registry of sockets *)

\* Variant of Disconnect that forgets all the user's sockets.
DisconnectAll(s) == listed' = {t \in listed : who[t] # who[s]}

\* disconnect: taking a socket out of its user's list ...
Disconnect(s) == listed' = listed \ {s}

\* ... raises ValueError, and changes nothing, when it is not in the list that
\* the user's other sockets keep alive.
DisconnectRaises(s) == s \notin listed /\ Sessions(who[s]) # {}

\* _get_data raises ValueError for a name without an account.
Nameless == \E s \in listed : who[s] \notin accounts

\* broadcast(STOCKS): a snapshot for every listed socket, or for nobody.
Broadcast(v) ==
    \/ /\ ~Nameless
       /\ outbox' = [s \in Socks |-> IF s \in listed THEN Append(outbox[s], v)
                                                     ELSE outbox[s]]
       /\ lost' = FALSE
    \/ /\ Nameless
       /\ lost' = TRUE
       /\ UNCHANGED outbox

-----------------------------------------------------------------------------
(* Accounts *)

\* register_client
Register(u) ==
    /\ u \notin accounts
    /\ accounts' = accounts \cup {u}
    /\ UNCHANGED <<sockets, listed, version, outbox, told, picking, waits, lost>>

\* delete_user: the account goes, its sockets stay.
DeleteUser(u) ==
    /\ u \in accounts \ Admins
    /\ accounts' = accounts \ {u}
    /\ UNCHANGED <<sockets, listed, version, outbox, told, picking, waits, lost>>

-----------------------------------------------------------------------------
(* Endpoints *)

Fresh(s) ==
    /\ at[s] = "off"
    /\ outbox[s] = <<>>
    /\ \A u \in Users : s \notin waits[u]

\* Variant of Open that goes on without a name for its user.
OpenNameless(s, u) ==
    /\ Fresh(s)
    /\ at' = [at EXCEPT ![s] = "accepting"]
    /\ who' = [who EXCEPT ![s] = NoUser]
    /\ told' = [told EXCEPT ![s] = 0]
    /\ UNCHANGED <<accounts, gone, listed, version, outbox, picking, waits, lost>>

\* websocket_endpoint up to the await in connect: the ticket names a user and
\* the user has an account.
Open(s, u) ==
    /\ Fresh(s)
    /\ u \in accounts
    /\ at' = [at EXCEPT ![s] = "accepting"]
    /\ who' = [who EXCEPT ![s] = u]
    /\ told' = [told EXCEPT ![s] = 0]
    /\ UNCHANGED <<accounts, gone, listed, version, outbox, picking, waits, lost>>

\* connect after the await: registered, without another look at the account.
Accepted(s) ==
    /\ at[s] = "accepting"
    /\ at' = [at EXCEPT ![s] = "running"]
    /\ listed' = listed \cup {s}
    /\ UNCHANGED <<accounts, who, gone, version, outbox, told, picking, waits, lost>>

\* accept raises: the endpoint ends outside its try statement.
AcceptFails(s) ==
    /\ at[s] = "accepting"
    /\ at' = [at EXCEPT ![s] = "off"]
    /\ UNCHANGED <<accounts, who, gone, listed, version, outbox, told, picking, waits, lost>>

\* The client closes its socket or loses the connection.
Drop(s) ==
    /\ Connected(s)
    /\ gone' = gone \cup {s}
    /\ UNCHANGED <<accounts, at, who, listed, version, outbox, told, picking, waits, lost>>

\* get_stocks: read and sent in one step, ahead of the snapshots scheduled.
Command(s) ==
    /\ Connected(s)
    /\ who[s] \in accounts
    /\ told' = [told EXCEPT ![s] = version]
    /\ UNCHANGED <<accounts, sockets, listed, version, outbox, picking, waits, lost>>

\* The endpoint ends: receive_json reports that the client has left, or a
\* command of a user without an account raises.
End(s) ==
    /\ at[s] = "running"
    /\ s \in gone \/ who[s] \notin accounts
    /\ at' = [at EXCEPT ![s] = "off"]
    /\ gone' = gone \ {s}
    /\ Disconnect(s)
    /\ UNCHANGED <<accounts, who, version, outbox, told, picking, waits, lost>>

-----------------------------------------------------------------------------
(* Sends *)

\* _send_raw of the first snapshot scheduled for the socket.
Deliver(s) ==
    /\ outbox[s] # <<>>
    /\ Connected(s)
    /\ told' = [told EXCEPT ![s] = Head(outbox[s])]
    /\ outbox' = [outbox EXCEPT ![s] = Tail(@)]
    /\ UNCHANGED <<accounts, sockets, listed, version, picking, waits, lost>>

\* _send_raw to a client that has left: the socket is disconnected.  That this
\* may raise ends the handler that scheduled it, which has nothing left to do.
SendFails(s) ==
    /\ outbox[s] # <<>>
    /\ ~Connected(s)
    /\ outbox' = [outbox EXCEPT ![s] = Tail(@)]
    /\ Disconnect(s)
    /\ UNCHANGED <<accounts, sockets, version, told, picking, waits, lost>>

\* _send_raw of any other message to a client that has left.
OtherSendFails(s) ==
    /\ s \in gone
    /\ Disconnect(s)
    /\ UNCHANGED <<accounts, sockets, version, outbox, told, picking, waits, lost>>

-----------------------------------------------------------------------------
(* Changes of the stock *)

\* update_or_move_stock: commit and broadcast without an await in between.
Update ==
    /\ version < MaxVersion
    /\ version' = version + 1
    /\ Broadcast(version')
    /\ UNCHANGED <<accounts, sockets, listed, told, picking, waits>>

\* create_pick_item_entry: commit, then the user's own sockets are notified.
PickCommit(u) ==
    /\ picking[u] = "idle" /\ waits[u] = {}
    /\ u \in accounts
    /\ version < MaxVersion
    /\ version' = version + 1
    /\ picking' = [picking EXCEPT ![u] = "own"]
    /\ waits' = [waits EXCEPT ![u] = Sessions(u)]
    /\ UNCHANGED <<accounts, sockets, listed, outbox, told, lost>>

\* One of the notifications the pick awaits is sent.
PickSent(u, s) ==
    /\ s \in waits[u]
    /\ Connected(s)
    /\ waits' = [waits EXCEPT ![u] = @ \ {s}]
    /\ UNCHANGED <<accounts, sockets, listed, version, outbox, told, picking, lost>>

\* Variant of PickSendFails that goes on waiting for the send.
PickSendFailsWaiting(u, s) ==
    /\ s \in waits[u]
    /\ ~Connected(s)
    /\ Disconnect(s)
    /\ UNCHANGED <<accounts, sockets, version, outbox, told, picking, waits, lost>>

\* One of them fails.  When disconnect raises, so does gather, and the pick
\* ends without its broadcast of stocks; the other sends go on.
PickSendFails(u, s) ==
    /\ s \in waits[u]
    /\ ~Connected(s)
    /\ Disconnect(s)
    /\ waits' = [waits EXCEPT ![u] = @ \ {s}]
    /\ IF DisconnectRaises(s) /\ picking[u] # "idle"
       THEN picking' = [picking EXCEPT ![u] = "idle"] /\ lost' = TRUE
       ELSE UNCHANGED <<picking, lost>>
    /\ UNCHANGED <<accounts, sockets, version, outbox, told>>

\* broadcast(PICK_ITEM_ENTRIES, scope="admin")
PickAdmins(u) ==
    /\ picking[u] = "own" /\ waits[u] = {}
    /\ picking' = [picking EXCEPT ![u] = "admins"]
    /\ waits' = [waits EXCEPT ![u] = {s \in listed : who[s] \in Admins}]
    /\ UNCHANGED <<accounts, sockets, listed, version, outbox, told, lost>>

\* Variant of PickStocks that tells the administrators only.
PickStocksAdmins(u) ==
    /\ picking[u] = "admins" /\ waits[u] = {}
    /\ picking' = [picking EXCEPT ![u] = "idle"]
    /\ outbox' = [s \in Socks |-> IF s \in listed /\ who[s] \in Admins
                                  THEN Append(outbox[s], version) ELSE outbox[s]]
    /\ UNCHANGED <<accounts, sockets, listed, version, told, waits, lost>>

\* broadcast(STOCKS), with what is committed by then.
PickStocks(u) ==
    /\ picking[u] = "admins" /\ waits[u] = {}
    /\ picking' = [picking EXCEPT ![u] = "idle"]
    /\ Broadcast(version)
    /\ UNCHANGED <<accounts, sockets, listed, version, told, waits>>

\* The process restarts: only what is in the database remains.
Restart ==
    /\ at' = [s \in Socks |-> "off"]
    /\ gone' = {}
    /\ listed' = {}
    /\ outbox' = [s \in Socks |-> <<>>]
    /\ told' = [s \in Socks |-> 0]
    /\ picking' = [u \in Users |-> "idle"]
    /\ waits' = [u \in Users |-> {}]
    /\ lost' = FALSE
    /\ UNCHANGED <<accounts, who, version>>

-----------------------------------------------------------------------------
Init ==
    /\ accounts = Users
    /\ at = [s \in Socks |-> "off"]
    /\ who = [s \in Socks |-> NoUser]
    /\ gone = {}
    /\ listed = {}
    /\ version = 1
    /\ outbox = [s \in Socks |-> <<>>]
    /\ told = [s \in Socks |-> 0]
    /\ picking = [u \in Users |-> "idle"]
    /\ waits = [u \in Users |-> {}]
    /\ lost = FALSE

Send(s) == Deliver(s) \/ SendFails(s)

PickGoesOn(u) ==
    \/ \E s \in Socks : PickSent(u, s) \/ PickSendFails(u, s)
    \/ PickAdmins(u)
    \/ PickStocks(u)

Next ==
    \/ \E u \in Users : Register(u) \/ DeleteUser(u) \/ PickCommit(u) \/ PickGoesOn(u)
    \/ \E s \in Socks, u \in Users : Open(s, u)
    \/ \E s \in Socks :
          \/ Accepted(s) \/ AcceptFails(s) \/ Drop(s) \/ Command(s) \/ End(s)
          \/ Send(s) \/ OtherSendFails(s)
    \/ Update
    \/ Restart

Spec == Init /\ [][Next]_vars

\* The event loop runs every task that is ready, and a send ends with an
\* answer or an error.
Fairness ==
    /\ \A s \in Socks : WF_vars(Send(s))
    /\ \A u \in Users : WF_vars(PickGoesOn(u))

FairSpec == Spec /\ Fairness

-----------------------------------------------------------------------------
(* Properties *)

\* The state keeps its types; an endpoint under way serves a user, and only a
\* running one can have lost its client.
TypeOK ==
    /\ accounts \subseteq Users
    /\ at \in [Socks -> {"off", "accepting", "running"}]
    /\ who \in [Socks -> Users \cup {NoUser}]
    /\ \A s \in Socks : at[s] # "off" => who[s] \in Users
    /\ gone \subseteq {s \in Socks : at[s] = "running"}
    /\ listed \subseteq Socks
    /\ version \in Versions
    /\ outbox \in [Socks -> Seq(Versions)]
    /\ told \in [Socks -> 0..MaxVersion]
    /\ picking \in [Users -> {"idle", "own", "admins"}]
    /\ waits \in [Users -> SUBSET Socks]
    /\ lost \in BOOLEAN

\* The registry holds sockets whose endpoint runs, and every socket whose
\* client is there: no double disconnection, by a failed send and by the end of
\* the endpoint, takes out a socket of the same user that is alive, and none
\* that has ended stays behind to be broadcast to.
RegistrySound ==
    \A s \in Socks :
        /\ s \in listed => at[s] = "running"
        /\ Connected(s) => s \in listed

\* What a socket has been sent once all that is scheduled is sent.
Latest(s) == IF outbox[s] = <<>> THEN told[s] ELSE outbox[s][Len(outbox[s])]

\* A client that holds, or is about to hold, a snapshot.
Watching(s) == Connected(s) /\ Latest(s) # 0

PickPending == \E u \in Users : picking[u] # "idle"

\* Whatever the order of commits, scheduled sends and answers to commands, the
\* last snapshot on its way to a client is that of the last commit, unless a
\* pick has still to announce its own or the last broadcast was given up.
ViewsCurrent ==
    \/ lost
    \/ PickPending
    \/ \A s \in Socks : Watching(s) => Latest(s) = version

\* "Every mutation ... broadcasts the new inventory snapshot": as ViewsCurrent
\* for the clients of registered users, without the excuse.
EveryUpdateBroadcast ==
    \/ PickPending
    \/ \A s \in Socks : Watching(s) /\ who[s] \in accounts => Latest(s) = version

\* A client that stays connected is sent the last commit in the end, unless the
\* broadcast of it was given up.
ViewsSettle ==
    \A s \in Socks : []<>(Watching(s) /\ ~lost => told[s] = version)
=============================================================================
