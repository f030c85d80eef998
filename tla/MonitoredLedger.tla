--------------------------- MODULE MonitoredLedger ---------------------------
(***************************************************************************)
(* What the sideswap_manager promises about the monitored_txs table       *)
(* (spec section 4.6.3 step 4 and section 8 property 4): a row, once      *)
(* written, is never removed, and a transaction goes out for broadcast    *)
(* (to the server or to the wallet) only after its row exists. The        *)
(* Broadcast module implements it with rows as the database table and     *)
(* sent as the transactions the server or the wallet has received.        *)
(***************************************************************************)
CONSTANTS Txids

VARIABLES rows, sent

ledgerVars == <<rows, sent>>

LedgerInit == rows = {} /\ sent = {}

\* A MonitoredTx row is written.
Persist(t) == rows' = rows \cup {t} /\ UNCHANGED sent

\* A transaction with a row is handed to the server or the wallet.
Send(t) == t \in rows /\ sent' = sent \cup {t} /\ UNCHANGED rows

LedgerNext == \E t \in Txids : Persist(t) \/ Send(t)

Spec == LedgerInit /\ [][LedgerNext]_ledgerVars

=============================================================================
