------------------------------ MODULE Broadcast ------------------------------
(***************************************************************************)
(* Transaction submission by the sideswap_manager worker                   *)
(* (src/sideswap_manager/src/worker.rs): create_tx drafts a transaction    *)
(* into data.created_txs; send_tx checks its inputs against utxo_data and  *)
(* with the server (CheckOutpoints), persists a MonitoredTx, broadcasts    *)
(* through the server and then through the wallet, and clears              *)
(* created_txs; accept_quote persists a MonitoredTx for a stored quote     *)
(* before TakerSign hands the signed PSET to the server. Every await is a  *)
(* point where the process may crash; run() reloads monitored_txs from     *)
(* the database on restart, while created_txs and quotes live in memory    *)
(* only.                                                                   *)
(***************************************************************************)
EXTENDS Naturals, Sequences, FiniteSets

CONSTANTS
  Txids,        \* transaction ids
  NoTx,         \* no transaction
  MaxCrashes    \* bound on process crashes

ASSUME NoTx \notin Txids
ASSUME MaxCrashes \in Nat

VARIABLES
  pc,            \* [op, tx, k]: the command in progress and its next step
  created,       \* keys of data.created_txs
  quotes,        \* txids of the quotes in data.quotes
  monitored,     \* keys of data.monitored_txs
  dbMonitored,   \* rows of the monitored_txs table
  usedTx,        \* txids drafted so far (wallet or server)
  serverSeen,    \* txids that reached the server (BroadcastTx or TakerSign)
  walletSeen,    \* txids the wallet broadcast
  rebroadcast,   \* txids sent in a BroadcastTx after the server had it (history)
  walletTxs,     \* txids the wallet's GetTxs knows (seen on the network)
  confirmed,     \* those of walletTxs with a height
  report,        \* the last GetMonitoredTxs reply: txid -> SwapStatus
  crashes

vars == <<pc, created, quotes, monitored, dbMonitored, usedTx,
          serverSeen, walletSeen, rebroadcast, walletTxs, confirmed, report, crashes>>

Idle == [op |-> "Idle", tx |-> NoTx, k |-> 0]
Down == [op |-> "Down", tx |-> NoTx, k |-> 0]

-----------------------------------------------------------------------------
(* The awaits of send_tx and accept_quote, in the order the code runs them *)

\* Mutant: the server broadcast before the MonitoredTx is persisted.
SendTxStepsBroadcastFirst ==
  <<"CheckOutpoints", "BroadcastServer", "Persist", "BroadcastWallet">>

SendTxSteps == <<"CheckOutpoints", "Persist", "BroadcastServer", "BroadcastWallet">>

AcceptQuoteSteps == <<"Persist", "TakerSign">>

Steps(op) == IF op = "SendTx" THEN SendTxSteps ELSE AcceptQuoteSteps

\* Mutant: the MonitoredTx goes into memory without its database row.
NewMonitoredTxMemOnly(t) ==
  /\ monitored' = monitored \cup {t}
  /\ UNCHANGED dbMonitored

\* new_monitored_tx: db.add_monitored_tx, then data.monitored_txs.insert.
NewMonitoredTx(t) ==
  /\ dbMonitored' = dbMonitored \cup {t}
  /\ monitored' = monitored \cup {t}

\* data.created_txs.clear()
ClearCreated(c) == {}

\* Mutant: CheckOutpoints passes whatever the server knows.
OutpointsUnspentAlways(t) == TRUE

\* The server's CheckOutpoints fails once it has accepted a transaction
\* spending the same outpoints, t itself included.
OutpointsUnspent(t) == t \notin serverSeen

-----------------------------------------------------------------------------
(* Commands                                                                *)

\* create_tx: the wallet builds and returns a new transaction (or fails:
\* unknown ticker, lossy amount, wallet error) and it is kept in
\* created_txs with its note.
CreateTx ==
  /\ pc = Idle
  /\ \E t \in Txids \ usedTx :
       /\ usedTx' = usedTx \cup {t}
       /\ created' = created \cup {t}
  /\ UNCHANGED <<pc, quotes, monitored, dbMonitored, serverSeen, walletSeen, rebroadcast, walletTxs, confirmed, report, crashes>>

\* get_quote, abstracted to its outcome: a signed quote stored in
\* data.quotes (the Quotes module models how it gets there).
GetQuote ==
  /\ pc = Idle
  /\ \E t \in Txids \ usedTx :
       /\ usedTx' = usedTx \cup {t}
       /\ quotes' = quotes \cup {t}
  /\ UNCHANGED <<pc, created, monitored, dbMonitored, serverSeen, walletSeen, rebroadcast, walletTxs, confirmed, report, crashes>>

\* send_tx up to its first await: NoCreatedTx if the txid is not in
\* created_txs; UtxoCheckFailed when utxo_data is None or lacks one of the
\* inputs (both depend on wallet events, so either outcome is possible).
SendTx(t) ==
  /\ pc = Idle
  /\ \/ t \notin created /\ UNCHANGED pc
     \/ t \in created /\ UNCHANGED pc
     \/ t \in created /\ pc' = [op |-> "SendTx", tx |-> t, k |-> 1]
  /\ UNCHANGED <<created, quotes, monitored, dbMonitored, usedTx,
                 serverSeen, walletSeen, rebroadcast, walletTxs, confirmed, report, crashes>>

\* accept_quote up to its first await: NoQuote / QuoteExpired (the Quotes
\* module models the TTL) or on to persisting the MonitoredTx.
AcceptQuote(t) ==
  /\ pc = Idle
  /\ \/ UNCHANGED pc
     \/ t \in quotes /\ pc' = [op |-> "AcceptQuote", tx |-> t, k |-> 1]
  /\ UNCHANGED <<created, quotes, monitored, dbMonitored, usedTx,
                 serverSeen, walletSeen, rebroadcast, walletTxs, confirmed, report, crashes>>

\* One await of send_tx or accept_quote.
\*  CheckOutpoints: the server may refuse (UtxoCheckFailed) and end send_tx.
\*  Persist: new_monitored_tx awaits db.add_monitored_tx, then inserts.
\*  BroadcastServer: BroadcastTx is sent; it may be lost before the server
\*    or accepted; its result only goes into the reply.
\*  TakerSign: as BroadcastServer; a failure ends accept_quote.
\*  BroadcastWallet: the wallet broadcasts (or reports an error); then
\*    created_txs is cleared. If the wallet's command channel is closed,
\*    send_tx returns the error at once and created_txs stays.
\* After the last step the reply is sent and the command ends.
Step ==
  /\ pc.op \in {"SendTx", "AcceptQuote"}
  /\ LET t    == pc.tx
         step == Steps(pc.op)[pc.k]
         last == pc.k = Len(Steps(pc.op))
         next == IF last THEN Idle ELSE [pc EXCEPT !.k = @ + 1]
     IN
     \/ /\ step = "CheckOutpoints"
        /\ pc' \in IF OutpointsUnspent(t) THEN {Idle, next} ELSE {Idle}
        /\ UNCHANGED <<created, monitored, dbMonitored, serverSeen, walletSeen, rebroadcast>>
     \/ /\ step = "Persist"
        /\ NewMonitoredTx(t)
        /\ pc' = next
        /\ UNCHANGED <<created, serverSeen, walletSeen, rebroadcast>>
     \/ /\ step = "BroadcastServer"
        /\ rebroadcast' = IF t \in serverSeen THEN rebroadcast \cup {t} ELSE rebroadcast
        /\ serverSeen' \in {serverSeen, serverSeen \cup {t}}
        /\ pc' = next
        /\ UNCHANGED <<created, monitored, dbMonitored, walletSeen>>
     \/ /\ step = "TakerSign"
        /\ serverSeen' \in {serverSeen, serverSeen \cup {t}}
        /\ pc' = next
        /\ UNCHANGED <<created, monitored, dbMonitored, walletSeen, rebroadcast>>
     \/ /\ step = "BroadcastWallet"
        /\ walletSeen' \in {walletSeen, walletSeen \cup {t}}
        /\ created' = ClearCreated(created)
        /\ pc' = next
        /\ UNCHANGED <<monitored, dbMonitored, serverSeen, rebroadcast>>
     \/ /\ step = "BroadcastWallet"
        /\ pc' = Idle
        /\ UNCHANGED <<created, monitored, dbMonitored, serverSeen, walletSeen, rebroadcast>>
  /\ UNCHANGED <<quotes, usedTx, walletTxs, confirmed, report, crashes>>

\* The process dies; memory is lost, the database and the network keep
\* what they have.
Crash ==
  /\ pc # Down
  /\ crashes < MaxCrashes
  /\ pc' = Down
  /\ created' = {}
  /\ quotes' = {}
  /\ monitored' = {}
  /\ crashes' = crashes + 1
  /\ UNCHANGED <<dbMonitored, usedTx, serverSeen, walletSeen, rebroadcast, walletTxs, confirmed, report>>

\* Mutant: run() starts with an empty data.monitored_txs.
LoadMonitoredNone(db) == {}

\* run(): db.load_monitored_txs() collected into data.monitored_txs.
LoadMonitored(db) == db

\* run() starts again: monitored_txs is loaded; quotes and created_txs
\* start empty.
Restart ==
  /\ pc = Down
  /\ pc' = Idle
  /\ monitored' = LoadMonitored(dbMonitored)
  /\ UNCHANGED <<created, quotes, dbMonitored, usedTx, serverSeen, walletSeen, rebroadcast, walletTxs, confirmed, report, crashes>>

\* Mutant: the height test inverted.
SwapStatusHeightInverted(t) ==
  IF t \in walletTxs THEN IF t \in confirmed THEN "Mempool" ELSE "Confirmed"
                     ELSE "NotFound"

\* The status of one monitored tx: Confirmed if the wallet's copy has a
\* height, Mempool if it has none, NotFound if GetTxs did not return it.
SwapStatus(t) ==
  IF t \in walletTxs THEN IF t \in confirmed THEN "Confirmed" ELSE "Mempool"
                     ELSE "NotFound"

\* get_monitored_txs: asks the wallet (GetTxs) about every key of
\* monitored_txs and replies with one status per monitored tx. A closed
\* wallet channel or a dropped reply sender ends it with an error.
GetMonitoredTxs ==
  /\ pc = Idle
  /\ \/ report' = [t \in monitored |-> SwapStatus(t)]
     \/ UNCHANGED report
  /\ UNCHANGED <<pc, created, quotes, monitored, dbMonitored, usedTx,
                 serverSeen, walletSeen, rebroadcast, walletTxs, confirmed, crashes>>

\* The wallet (outside this repository) learns of a transaction once the
\* server or the wallet broadcast it, and sees it confirmed later; its
\* history survives a crash of the manager.
WalletSync ==
  /\ \E t \in (serverSeen \cup walletSeen) \ walletTxs : walletTxs' = walletTxs \cup {t}
  /\ UNCHANGED <<pc, created, quotes, monitored, dbMonitored, usedTx,
                 serverSeen, walletSeen, rebroadcast, confirmed, report, crashes>>

Confirm ==
  /\ \E t \in walletTxs \ confirmed : confirmed' = confirmed \cup {t}
  /\ UNCHANGED <<pc, created, quotes, monitored, dbMonitored, usedTx,
                 serverSeen, walletSeen, rebroadcast, walletTxs, report, crashes>>

-----------------------------------------------------------------------------

Init ==
  /\ pc = Idle
  /\ created = {}
  /\ quotes = {}
  /\ monitored = {}
  /\ dbMonitored = {}
  /\ usedTx = {}
  /\ serverSeen = {}
  /\ walletSeen = {}
  /\ rebroadcast = {}
  /\ walletTxs = {}
  /\ confirmed = {}
  /\ report = [t \in {} |-> "NotFound"]
  /\ crashes = 0

Next ==
  \/ CreateTx \/ GetQuote \/ Step \/ Crash \/ Restart
  \/ GetMonitoredTxs \/ WalletSync \/ Confirm
  \/ \E t \in Txids : SendTx(t) \/ AcceptQuote(t)

Spec == Init /\ [][Next]_vars

-----------------------------------------------------------------------------
(* Properties                                                              *)

TypeOK ==
  /\ pc \in {Idle, Down}
            \cup [op : {"SendTx"}, tx : Txids, k : 1..Len(SendTxSteps)]
            \cup [op : {"AcceptQuote"}, tx : Txids, k : 1..Len(AcceptQuoteSteps)]
  /\ created \subseteq usedTx /\ quotes \subseteq usedTx
  /\ monitored \subseteq dbMonitored /\ dbMonitored \subseteq usedTx
  /\ usedTx \subseteq Txids
  /\ serverSeen \subseteq usedTx /\ walletSeen \subseteq usedTx
  /\ rebroadcast \subseteq serverSeen
  /\ walletTxs \subseteq usedTx /\ confirmed \subseteq walletTxs
  /\ DOMAIN report \subseteq usedTx
  /\ \A t \in DOMAIN report : report[t] \in {"Confirmed", "Mempool", "NotFound"}
  /\ crashes \in 0..MaxCrashes

Ledger == INSTANCE MonitoredLedger WITH rows <- dbMonitored, sent <- serverSeen \cup walletSeen

\* send_tx and accept_quote implement the monitored-transaction ledger:
\* no step removes a row of the monitored_txs table, and a transaction
\* reaches the server or the wallet for broadcast only once its row is in
\* the table, whatever crash happened between their awaits (section 4.6.3,
\* step 4: persist before broadcasting, so that it stays traceable).
LedgerRefined == Ledger!Spec

\* Every transaction that reached the server or the wallet is listed by
\* get_monitored_txs, which reads data.monitored_txs (worker.rs 703-742),
\* whenever the process is up: new_monitored_tx inserts it in memory
\* before either broadcast, and run() reloads the table after a crash.
BroadcastTraceable == pc # Down => serverSeen \cup walletSeen \subseteq monitored

\* send_tx never asks the server to broadcast a transaction the server
\* has already accepted. created_txs is cleared after a completed send,
\* but not when the wallet channel is closed (the `?` on the wallet
\* command) or the process crashes mid-send, so a client may retry a
\* transaction that went out; the server's CheckOutpoints must stop it.
NoRebroadcast == rebroadcast = {}

\* Once get_monitored_txs has reported a transaction as Confirmed, every
\* later report lists it as Confirmed again, across crashes and restarts:
\* the row survives in the database, run() reloads it, and the status
\* comes from the wallet's height.
ConfirmedStaysConfirmed ==
  [][\A t \in DOMAIN report :
       report[t] = "Confirmed" => t \in DOMAIN report' /\ report'[t] = "Confirmed"]_vars

\* Section 8, property 7: once send_tx has passed its broadcasts and
\* returns, created_txs is empty, whatever the two broadcasts gave. The
\* `?` on the wallet command (worker.rs 377) returns before the clear.
CreatedClearedAfterSend ==
  [][pc.op = "SendTx" /\ SendTxSteps[pc.k] = "BroadcastWallet" /\ pc' = Idle
       => created' = {}]_vars

=============================================================================
