---------------------------- MODULE Notifications ----------------------------
(***************************************************************************)
(* Client notifications of sideswap_manager: the per-connection tasks of   *)
(* src/sideswap_manager/src/ws_server.rs (handshake, ClientConnected,      *)
(* forwarding notifications to the socket, ClientDisconnected) and the     *)
(* worker's side in src/sideswap_manager/src/worker.rs: the clients table, *)
(* the replay of last_balances and peg_statuses to a new client,           *)
(* send_notifs, the peg-status pipeline (process_peg_status), the wallet   *)
(* Utxos event, new_peg, del_peg and the PegStatus re-query on Connected.  *)
(* The server's peg orders move through versions 1..MaxVersion; a peg      *)
(* status is abstracted to its version, a balance set to a model value.    *)
(***************************************************************************)
EXTENDS Naturals, Sequences, FiniteSets, SequencesExt

CONSTANTS
  MaxClients,   \* bound on accepted TCP connections (ClientId 1..MaxClients)
  Orders,       \* peg order ids the server may create
  MaxVersion,   \* bound on the status versions of an order
  Balances,     \* distinct BalancesNotif values
  NoBalance,    \* last_balances = None
  MaxQueue,     \* bound on undelivered server events
  MaxChan,      \* a wallet event is delivered only while every channel is shorter
  MaxDrops,     \* bound on link losses
  MaxCrashes    \* bound on process crashes

ASSUME MaxClients \in Nat \ {0}
ASSUME Orders \subseteq Nat
ASSUME MaxVersion \in Nat \ {0}
ASSUME NoBalance \notin Balances
ASSUME {MaxQueue, MaxChan, MaxDrops, MaxCrashes} \subseteq Nat

ClientIds == 1..MaxClients

VARIABLES
  lastId,        \* ws_server::run's last_id
  task,          \* per-connection task state
  cmdq,          \* the worker's command channel (client lifecycle commands)
  chan,          \* per-client notification channel, not yet written to the socket
  view,          \* what each client last received: per order, and balances
  clients,       \* keys of data.clients
  pegs,          \* data.pegs
  dbPegs,        \* the pegs table
  pegStatuses,   \* data.peg_statuses: order -> version, 0 if absent
  lastBalances,  \* data.last_balances
  srvVersion,    \* the server's current status version per order, 0: no order
  connected,     \* the server link is up
  pending,       \* orders with a PegStatus request awaiting its response
  wsq,           \* server events not yet received by the worker
  panicked,      \* the worker hit data.clients.remove(..).expect(..)
  drops,         \* link losses so far
  crashes        \* process crashes so far

vars == <<lastId, task, cmdq, chan, view, clients, pegs, dbPegs, pegStatuses,
          lastBalances, srvVersion, connected, pending, wsq, panicked, drops,
          crashes>>

worker == <<clients, pegs, dbPegs, pegStatuses, lastBalances, panicked>>
server == <<srvVersion, connected, pending, wsq, drops, crashes>>
gateway == <<lastId, task, cmdq, crashes>>

Notif == [k : {"Peg"}, o : Orders, v : 1..MaxVersion] \cup [k : {"Bal"}, b : Balances]
PegNotif(o, v) == [k |-> "Peg", o |-> o, v |-> v]
BalNotif(b) == [k |-> "Bal", b |-> b]

NoView == [peg |-> [o \in Orders |-> 0], bal |-> NoBalance]

-----------------------------------------------------------------------------
(* Worker helpers                                                          *)

\* A client's channel receiver is alive while its task is in client_loop;
\* sends to a dropped receiver are discarded (UncheckedUnboundedSender).
Push(ch, c, ns) == IF task[c] = "Loop" THEN ch[c] \o ns ELSE ch[c]

\* send_notifs: the notification goes to every client in data.clients.
SendNotifs(n) == chan' = [c \in ClientIds |-> IF c \in clients THEN Push(chan, c, <<n>>) ELSE chan[c]]

\* Mutant: the status is stored only for an order that has none yet.
StoreStatusIfAbsent(o, v) ==
  pegStatuses' = [pegStatuses EXCEPT ![o] = IF @ = 0 THEN v ELSE @]

\* data.peg_statuses.insert(status.order_id, status)
StoreStatus(o, v) == pegStatuses' = [pegStatuses EXCEPT ![o] = v]

\* process_peg_status: fan out first when the order is one of data.pegs,
\* then store. It is given the data.pegs it reads.
ProcessPegStatus(ps, o, v) ==
  /\ IF o \in ps THEN SendNotifs(PegNotif(o, v)) ELSE UNCHANGED chan
  /\ StoreStatus(o, v)

\* db.add_peg, then data.pegs.insert.
RecordPeg(o) ==
  /\ dbPegs' = dbPegs \cup {o}
  /\ pegs' = pegs \cup {o}

\* Mutant: Connected re-queries nothing.
RequeryPegsNone(ps) == UNCHANGED pending

\* Mutant: Connected re-queries the orders of data.peg_statuses.
RequeryStatusKeys(ps) ==
  pending' = IF connected THEN {o \in Orders : pegStatuses[o] > 0} ELSE pending

\* process_ws_connected: a PegStatus request for every order in data.pegs;
\* the requests reach the server only while the link is up.
RequeryPegs(ps) == pending' = IF connected THEN ps ELSE pending

\* The replay to a new client: last_balances if any, then every stored
\* status in key order.
Replay ==
  LET os == SetToSortSeq({o \in Orders : pegStatuses[o] > 0}, <)
  IN  (IF lastBalances = NoBalance THEN <<>> ELSE <<BalNotif(lastBalances)>>)
      \o [i \in 1..Len(os) |-> PegNotif(os[i], pegStatuses[os[i]])]

-----------------------------------------------------------------------------
(* ws_server: one task per accepted connection                             *)

\* The listener accepts a connection: last_id += 1 names it.
Accept ==
  /\ lastId < MaxClients
  /\ lastId' = lastId + 1
  /\ task' = [task EXCEPT ![lastId + 1] = "Handshake"]
  /\ UNCHANGED <<cmdq, chan, view>> /\ UNCHANGED worker /\ UNCHANGED server

\* Mutant: the failed handshake also reports ClientDisconnected.
HandshakeFailNotify(c) ==
  /\ task[c] = "Handshake"
  /\ task' = [task EXCEPT ![c] = "Exited"]
  /\ cmdq' = Append(cmdq, [type |-> "ClientDisconnected", c |-> c])
  /\ UNCHANGED <<lastId, chan, view>> /\ UNCHANGED worker /\ UNCHANGED server

\* accept_async fails: the task logs and returns, telling the worker nothing.
HandshakeFail(c) ==
  /\ task[c] = "Handshake"
  /\ task' = [task EXCEPT ![c] = "Exited"]
  /\ UNCHANGED <<lastId, cmdq, chan, view>> /\ UNCHANGED worker /\ UNCHANGED server

\* The handshake succeeds: the task creates its notification channel, sends
\* ClientConnected and enters client_loop.
HandshakeOk(c) ==
  /\ task[c] = "Handshake"
  /\ task' = [task EXCEPT ![c] = "Loop"]
  /\ cmdq' = Append(cmdq, [type |-> "ClientConnected", c |-> c])
  /\ UNCHANGED <<lastId, chan, view>> /\ UNCHANGED worker /\ UNCHANGED server

\* client_loop takes a notification from its channel and writes it to the
\* socket (send_notif).
ClientRecv(c) ==
  /\ task[c] = "Loop"
  /\ chan[c] # <<>>
  /\ LET n == Head(chan[c]) IN
       view' = [view EXCEPT ![c] =
                  IF n.k = "Peg" THEN [@ EXCEPT !.peg[n.o] = n.v] ELSE [@ EXCEPT !.bal = n.b]]
  /\ chan' = [chan EXCEPT ![c] = Tail(@)]
  /\ UNCHANGED gateway /\ UNCHANGED worker /\ UNCHANGED server

\* Mutant: the task ends without telling the worker.
ClientCloseSilent(c) ==
  /\ task[c] = "Loop"
  /\ task' = [task EXCEPT ![c] = "Exited"]
  /\ chan' = [chan EXCEPT ![c] = <<>>]
  /\ UNCHANGED <<lastId, cmdq, view>> /\ UNCHANGED worker /\ UNCHANGED server

\* The socket closes or errors: client_loop ends (its channel receiver and
\* anything queued in it are dropped) and the task sends ClientDisconnected.
ClientClose(c) ==
  /\ task[c] = "Loop"
  /\ task' = [task EXCEPT ![c] = "Exited"]
  /\ chan' = [chan EXCEPT ![c] = <<>>]
  /\ cmdq' = Append(cmdq, [type |-> "ClientDisconnected", c |-> c])
  /\ UNCHANGED <<lastId, view>> /\ UNCHANGED worker /\ UNCHANGED server

-----------------------------------------------------------------------------
(* The worker: one select-loop cycle per action                            *)

\* process_command for ClientConnected / ClientDisconnected.
ClientCommand ==
  /\ ~panicked
  /\ cmdq # <<>>
  /\ LET cm == Head(cmdq) IN
       \/ /\ cm.type = "ClientConnected"
          /\ chan' = [chan EXCEPT ![cm.c] = Push(chan, cm.c, Replay)]
          /\ clients' = clients \cup {cm.c}
          /\ UNCHANGED panicked
       \/ /\ cm.type = "ClientDisconnected"
          /\ clients' = clients \ {cm.c}
          /\ panicked' = (cm.c \notin clients)
          /\ UNCHANGED chan
  /\ cmdq' = Tail(cmdq)
  /\ UNCHANGED <<lastId, task, view, pegs, dbPegs, pegStatuses, lastBalances>>
  /\ UNCHANGED server

\* new_peg: the Peg request creates an order on the server; the PegStatus
\* request returns its status, which goes through process_peg_status
\* before the order is persisted and added to data.pegs. Either request may
\* fail (a failed PegStatus leaves the server's order unrecorded).
NewPeg(o) ==
  /\ ~panicked
  /\ srvVersion[o] = 0
  /\ \/ UNCHANGED <<srvVersion, chan, pegs, dbPegs, pegStatuses>>
     \/ /\ connected
        /\ srvVersion' = [srvVersion EXCEPT ![o] = 1]
        /\ UNCHANGED <<chan, pegs, dbPegs, pegStatuses>>
     \/ /\ connected
        /\ srvVersion' = [srvVersion EXCEPT ![o] = 1]
        /\ ProcessPegStatus(pegs, o, 1)
        /\ RecordPeg(o)
  /\ UNCHANGED <<connected, pending, wsq, drops>>
  /\ UNCHANGED gateway /\ UNCHANGED <<view, clients, lastBalances, panicked>>

\* del_peg: the order is deleted from the database only.
DelPeg(o) ==
  /\ ~panicked
  /\ dbPegs' = dbPegs \ {o}
  /\ UNCHANGED gateway /\ UNCHANGED server
  /\ UNCHANGED <<chan, view, clients, pegs, pegStatuses, lastBalances, panicked>>

\* process_ws_event: a PegStatus (response or notification) goes through
\* process_peg_status; Connected sends a PegStatus request for every order
\* in data.pegs (and ListMarkets); Disconnected changes nothing.
WsEvent ==
  /\ ~panicked
  /\ wsq # <<>>
  /\ LET ev == Head(wsq) IN
       \/ /\ ev.type = "PegStatus"
          /\ ProcessPegStatus(pegs, ev.o, ev.v)
          /\ UNCHANGED pending
       \/ /\ ev.type = "Connected"
          /\ RequeryPegs(pegs)
          /\ UNCHANGED <<chan, pegStatuses>>
       \/ /\ ev.type = "Disconnected"
          /\ UNCHANGED <<chan, pegStatuses, pending>>
  /\ wsq' = Tail(wsq)
  /\ UNCHANGED gateway
  /\ UNCHANGED <<view, clients, pegs, dbPegs, lastBalances, panicked, srvVersion, connected, drops>>

\* process_wallet_event for Utxos: the balances are recomputed; when they
\* differ from last_balances they are sent to every client and stored.
WalletUtxos(b) ==
  /\ ~panicked
  /\ \A c \in ClientIds : Len(chan[c]) < MaxChan
  /\ lastBalances # b
  /\ SendNotifs(BalNotif(b))
  /\ lastBalances' = b
  /\ UNCHANGED gateway /\ UNCHANGED server
  /\ UNCHANGED <<view, clients, pegs, dbPegs, pegStatuses, panicked>>

-----------------------------------------------------------------------------
(* The server and the link                                                 *)

\* An order's status changes; the server pushes it while the link is up.
ServerPegUpdate(o) ==
  /\ srvVersion[o] \in 1..(MaxVersion - 1)
  /\ Len(wsq) < MaxQueue
  /\ srvVersion' = [srvVersion EXCEPT ![o] = @ + 1]
  /\ wsq' = IF connected THEN Append(wsq, [type |-> "PegStatus", o |-> o, v |-> srvVersion[o] + 1])
                         ELSE wsq
  /\ UNCHANGED <<connected, pending, drops>>
  /\ UNCHANGED gateway /\ UNCHANGED worker /\ UNCHANGED <<chan, view>>

\* The server answers a PegStatus request with the order's current status.
ServerPegReply(o) ==
  /\ connected
  /\ o \in pending
  /\ Len(wsq) < MaxQueue
  /\ pending' = pending \ {o}
  /\ wsq' = Append(wsq, [type |-> "PegStatus", o |-> o, v |-> srvVersion[o]])
  /\ UNCHANGED <<srvVersion, connected, drops>>
  /\ UNCHANGED gateway /\ UNCHANGED worker /\ UNCHANGED <<chan, view>>

\* ws::auto loses the link (pending requests are lost) or re-establishes it.
LinkDown ==
  /\ connected
  /\ drops < MaxDrops /\ Len(wsq) < MaxQueue
  /\ drops' = drops + 1
  /\ connected' = FALSE
  /\ pending' = {}
  /\ wsq' = Append(wsq, [type |-> "Disconnected"])
  /\ UNCHANGED srvVersion
  /\ UNCHANGED gateway /\ UNCHANGED worker /\ UNCHANGED <<chan, view>>

LinkUp ==
  /\ ~connected
  /\ Len(wsq) < MaxQueue
  /\ connected' = TRUE
  /\ wsq' = Append(wsq, [type |-> "Connected"])
  /\ UNCHANGED <<srvVersion, pending, drops>>
  /\ UNCHANGED gateway /\ UNCHANGED worker /\ UNCHANGED <<chan, view>>

-----------------------------------------------------------------------------
(* A crash and restart                                                     *)

\* Mutant: run() starts with an empty data.pegs instead of the pegs table.
LoadPegsNone(db) == {}

\* run(): db.load_pegs() collected into data.pegs.
LoadPegs(db) == db

\* The process dies at any point between select cycles (an await inside a
\* handler is covered by the failure branches of NewPeg) and run() starts
\* again: data.pegs is reloaded from the pegs table, every other field of
\* Data starts empty, the listener starts with last_id = 0 and no task,
\* and ws::auto starts a new link, so the server forgets the old one's
\* requests and undelivered events. The server's orders survive.
Restart ==
  /\ crashes < MaxCrashes
  /\ crashes' = crashes + 1
  /\ pegs' = LoadPegs(dbPegs)
  /\ pegStatuses' = [o \in Orders |-> 0]
  /\ lastBalances' = NoBalance
  /\ clients' = {}
  /\ panicked' = FALSE
  /\ lastId' = 0
  /\ task' = [c \in ClientIds |-> "None"]
  /\ cmdq' = <<>>
  /\ chan' = [c \in ClientIds |-> <<>>]
  /\ view' = [c \in ClientIds |-> NoView]
  /\ connected' = FALSE
  /\ pending' = {}
  /\ wsq' = <<>>
  /\ UNCHANGED <<dbPegs, srvVersion, drops>>

-----------------------------------------------------------------------------

Init ==
  /\ lastId = 0
  /\ task = [c \in ClientIds |-> "None"]
  /\ cmdq = <<>>
  /\ chan = [c \in ClientIds |-> <<>>]
  /\ view = [c \in ClientIds |-> NoView]
  /\ clients = {}
  /\ pegs = {}
  /\ dbPegs = {}
  /\ pegStatuses = [o \in Orders |-> 0]
  /\ lastBalances = NoBalance
  /\ srvVersion = [o \in Orders |-> 0]
  /\ connected = TRUE
  /\ pending = {}
  /\ wsq = <<>>
  /\ panicked = FALSE
  /\ drops = 0
  /\ crashes = 0

Next ==
  \/ Accept
  \/ \E c \in ClientIds : HandshakeFail(c) \/ HandshakeOk(c) \/ ClientRecv(c) \/ ClientClose(c)
  \/ ClientCommand \/ WsEvent \/ LinkDown \/ LinkUp
  \/ \E o \in Orders : NewPeg(o) \/ DelPeg(o) \/ ServerPegUpdate(o) \/ ServerPegReply(o)
  \/ \E b \in Balances : WalletUtxos(b)
  \/ Restart

Spec == Init /\ [][Next]_vars

\* The worker's select loop takes every queued command and server event
\* (run() is one task tokio keeps polling), and the server answers every
\* PegStatus request it received on a live link. Clients, the wallet and
\* the link are not forced to do anything.
Fairness ==
  /\ WF_vars(ClientCommand) /\ WF_vars(WsEvent)
  /\ \A o \in Orders : WF_vars(ServerPegReply(o))

LiveSpec == Spec /\ Fairness

-----------------------------------------------------------------------------
(* Properties                                                              *)

TypeOK ==
  /\ lastId \in 0..MaxClients
  /\ task \in [ClientIds -> {"None", "Handshake", "Loop", "Exited"}]
  /\ cmdq \in Seq([type : {"ClientConnected", "ClientDisconnected"}, c : ClientIds])
  /\ chan \in [ClientIds -> Seq(Notif)]
  /\ view \in [ClientIds -> [peg : [Orders -> 0..MaxVersion], bal : Balances \cup {NoBalance}]]
  /\ clients \subseteq ClientIds
  /\ pegs \subseteq Orders /\ dbPegs \subseteq Orders
  /\ pegStatuses \in [Orders -> 0..MaxVersion]
  /\ lastBalances \in Balances \cup {NoBalance}
  /\ srvVersion \in [Orders -> 0..MaxVersion]
  /\ connected \in BOOLEAN /\ pending \subseteq pegs
  /\ panicked \in BOOLEAN
  /\ drops \in 0..MaxDrops
  /\ crashes \in 0..MaxCrashes

\* Every order in the pegs table is monitored: it is in data.pegs, so its
\* statuses are fanned out and re-queried on Connected. new_peg persists
\* before it inserts, del_peg removes the row only, and a restart rebuilds
\* data.pegs from the table.
PersistedPegsMonitored == dbPegs \subseteq pegs

\* A registered client, still in client_loop, whose channel has been
\* drained holds, for every order of data.pegs it has heard of, the status
\* the worker currently stores, and the worker's current balances: the
\* replay on ClientConnected and the
\* fan-out of every later change, in one select cycle each, leave no
\* client with a stale value (the spec's "fan-out before store" ordering).
ClientViewsCurrent ==
  \A c \in clients :
    task[c] = "Loop" /\ chan[c] = <<>> =>
      /\ \A o \in pegs : view[c].peg[o] > 0 => view[c].peg[o] = pegStatuses[o]
      /\ view[c].bal = lastBalances

\* The worker never processes ClientDisconnected for a client it does not
\* know (data.clients.remove(..).expect("must not fail")): every task sends
\* ClientConnected before ClientDisconnected on the same channel, a
\* failed handshake sends neither, and no ClientId is reused.
NoDisconnectPanic == ~panicked

\* Once the link stays up, the worker's stored status of every order in
\* data.pegs catches up with the server's current one and stays there:
\* pushes the server made while the link was down are lost, and only the
\* PegStatus re-query of process_ws_connected on the next Connected event
\* repairs them.
PegStatusesConverge ==
  <>[]connected =>
    \A o \in Orders : <>[](o \in pegs => pegStatuses[o] = srvVersion[o])

\* Every client whose task has ended is eventually removed from
\* data.clients, so the worker stops cloning notifications into a dropped
\* channel and the table does not grow with dead clients: client_run
\* sends ClientDisconnected after client_loop returns, whatever ended it,
\* and the worker handles it (the client is in the table by then, since
\* ClientConnected went first on the same channel).
ClientsReleased == \A c \in ClientIds : task[c] = "Exited" ~> c \notin clients

\* Section 8, property 5 and scenario S6: every client that is connected,
\* in client_loop and has drained its channel has received the stored status of every
\* order in data.pegs.
PegStatusDelivered ==
  \A c \in clients :
    task[c] = "Loop" /\ chan[c] = <<>> => \A o \in pegs : view[c].peg[o] = pegStatuses[o]

=============================================================================
