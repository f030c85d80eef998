------------------------------- MODULE Markets -------------------------------
(***************************************************************************)
(* The worker's copy of the server's market table                          *)
(* (src/sideswap_manager/src/worker.rs): on every Connected event          *)
(* process_ws_connected sends ListMarkets; the response replaces           *)
(* data.markets wholesale (process_market_resp); MarketAdded appends and   *)
(* MarketRemoved filters by asset pair (process_market_notif); Disconnected *)
(* changes nothing. The server side (not in this repository) owns the      *)
(* table, notifies changes while the link is up and answers ListMarkets    *)
(* with a snapshot. A market is its asset pair and its fee asset.          *)
(***************************************************************************)
EXTENDS Naturals, Sequences, SequencesExt, FiniteSets

CONSTANTS
  Pairs,        \* asset pairs
  MaxChanges,   \* bound on the server's market additions and removals
  MaxQueue      \* bound on undelivered server events

ASSUME MaxChanges \in Nat /\ MaxQueue \in Nat \ {0}

Fees == {"Base", "Quote"}          \* AssetType of fee_asset
Market == [pair : Pairs, fee : Fees]
NoMarket == "None"

VARIABLES
  srv,        \* the server's table: pair -> fee asset, or NoMarket
  markets,    \* data.markets (a Vec)
  connected,  \* the server link is up
  pending,    \* a ListMarkets request is outstanding on the current link
  wsq,        \* server events not yet received by the worker
  changes     \* server table changes so far

vars == <<srv, markets, connected, pending, wsq, changes>>

SrvMarkets == {[pair |-> p, fee |-> srv[p]] : p \in {x \in Pairs : srv[x] # NoMarket}}

Event ==
       [type : {"Connected", "Disconnected"}]
  \cup [type : {"MarketAdded"}, market : Market]
  \cup [type : {"MarketRemoved"}, pair : Pairs]
  \cup [type : {"ListMarkets"}, markets : Seq(Market)]

\* The server notifies a change only while the link is up.
Notify(ev) == wsq' = IF connected THEN Append(wsq, ev) ELSE wsq

-----------------------------------------------------------------------------
(* The server and the link                                                 *)

AddMarket(p, f) ==
  /\ srv[p] = NoMarket /\ changes < MaxChanges /\ Len(wsq) < MaxQueue
  /\ srv' = [srv EXCEPT ![p] = f]
  /\ Notify([type |-> "MarketAdded", market |-> [pair |-> p, fee |-> f]])
  /\ changes' = changes + 1
  /\ UNCHANGED <<markets, connected, pending>>

RemoveMarket(p) ==
  /\ srv[p] # NoMarket /\ changes < MaxChanges /\ Len(wsq) < MaxQueue
  /\ srv' = [srv EXCEPT ![p] = NoMarket]
  /\ Notify([type |-> "MarketRemoved", pair |-> p])
  /\ changes' = changes + 1
  /\ UNCHANGED <<markets, connected, pending>>

\* The server answers ListMarkets with its current table.
ListMarketsReply ==
  /\ connected /\ pending /\ Len(wsq) < MaxQueue
  /\ wsq' = Append(wsq, [type |-> "ListMarkets", markets |-> SetToSeq(SrvMarkets)])
  /\ pending' = FALSE
  /\ UNCHANGED <<srv, markets, connected, changes>>

\* ws::auto loses the link (the outstanding request with it) or
\* re-establishes it.
LinkDown ==
  /\ connected /\ Len(wsq) < MaxQueue
  /\ connected' = FALSE
  /\ pending' = FALSE
  /\ wsq' = Append(wsq, [type |-> "Disconnected"])
  /\ UNCHANGED <<srv, markets, changes>>

LinkUp ==
  /\ ~connected /\ Len(wsq) < MaxQueue
  /\ connected' = TRUE
  /\ wsq' = Append(wsq, [type |-> "Connected"])
  /\ UNCHANGED <<srv, markets, pending, changes>>

-----------------------------------------------------------------------------
(* The worker                                                              *)

\* data.ws.send_request(ListMarkets): the request reaches the server only
\* if the link is up.
SendListMarkets == pending' = connected

\* Mutant: the ListMarkets response is appended to the old table.
ReplaceMarketsAppend(old, new) == old \o new

\* data.markets = resp.markets
ReplaceMarkets(old, new) == new

\* process_ws_event for the events that touch the market table.
WsEvent ==
  /\ wsq # <<>>
  /\ LET ev == Head(wsq) IN
       \/ /\ ev.type = "Connected"
          /\ SendListMarkets
          /\ UNCHANGED markets
       \/ /\ ev.type = "Disconnected"
          /\ UNCHANGED <<markets, pending>>
       \/ /\ ev.type = "ListMarkets"
          /\ markets' = ReplaceMarkets(markets, ev.markets)
          /\ UNCHANGED pending
       \/ /\ ev.type = "MarketAdded"
          /\ markets' = Append(markets, ev.market)
          /\ UNCHANGED pending
       \/ /\ ev.type = "MarketRemoved"
          /\ markets' = SelectSeq(markets, LAMBDA m : m.pair # ev.pair)
          /\ UNCHANGED pending
  /\ wsq' = Tail(wsq)
  /\ UNCHANGED <<srv, connected, changes>>

-----------------------------------------------------------------------------

\* run() starts with an empty table and the link not yet up; the server
\* has some table already.
Init ==
  /\ srv \in [Pairs -> Fees \cup {NoMarket}]
  /\ markets = <<>>
  /\ connected = FALSE
  /\ pending = FALSE
  /\ wsq = <<>>
  /\ changes = 0

Next ==
  \/ \E p \in Pairs : RemoveMarket(p) \/ \E f \in Fees : AddMarket(p, f)
  \/ ListMarketsReply \/ LinkDown \/ LinkUp \/ WsEvent

Spec == Init /\ [][Next]_vars

\* The worker's select loop takes every queued event (weak fairness of
\* WsEvent), and the server answers a ListMarkets request on a live link.
\* Changes of the table and of the link are not forced.
LiveSpec == Spec /\ WF_vars(WsEvent) /\ WF_vars(ListMarketsReply)

-----------------------------------------------------------------------------
(* Properties                                                              *)

TypeOK ==
  /\ srv \in [Pairs -> Fees \cup {NoMarket}]
  /\ markets \in Seq(Market)
  /\ connected \in BOOLEAN
  /\ pending \in BOOLEAN /\ (pending => connected)
  /\ wsq \in Seq(Event) /\ Len(wsq) <= MaxQueue
  /\ changes \in 0..MaxChanges

\* data.markets holds exactly the server's markets, each once.
MarketsCurrent == ToSet(markets) = SrvMarkets /\ Len(markets) = Cardinality(SrvMarkets)

\* Once the link stays up, data.markets ends up equal to the server's table
\* and stays so: the ListMarkets sent on every Connected repairs whatever
\* notifications were lost while the link was down, and the notifications
\* that follow its response keep the copy current.
MarketsConverge == <>[]connected => <>[]MarketsCurrent

\* Spec section 3: "(base, quote) is a unique key within markets".
MarketsUniqueKey ==
  \A i, j \in DOMAIN markets : i # j => markets[i].pair # markets[j].pair

=============================================================================
