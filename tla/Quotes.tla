------------------------------- MODULE Quotes -------------------------------
(***************************************************************************)
(* The quote state machine of the sideswap_manager worker                  *)
(* (src/sideswap_manager/src/worker.rs): get_quote, which subscribes to    *)
(* quotes with StartQuotes and then drains the server event stream until   *)
(* a Quote notification for its own quote_sub_id, a Disconnected event or  *)
(* the 15 s deadline; accept_quote, which TakerSigns a stored quote while  *)
(* its TTL is valid; the TTL sweep that run() performs after every cycle   *)
(* of its select loop; and the server side of the link: live quote         *)
(* subscriptions, which the worker never stops, and disconnects.           *)
(*                                                                         *)
(* Time is discrete: Tick lowers every remaining time (quote TTLs and the  *)
(* GetQuote deadline) by one, so a remaining time of 0 means               *)
(* Instant::now() >= expires_at.                                           *)
(***************************************************************************)
EXTENDS Naturals, Sequences, FiniteSets, FiniteSetsExt

CONSTANTS
  SubIds,         \* quote_sub_id values the server hands out
  QuoteIds,       \* quote_id values the server hands out
  NoSub,          \* no subscription (the worker is not inside get_quote)
  NoQid,          \* the quote_id field of a Quote notif that is no Success
  QUOTE_TIMEOUT,  \* the get_quote deadline, in ticks (15 s in the code)
  TTLs,           \* ttl values of GetQuote responses, in ticks
  MaxQueue        \* bound on undelivered server events

ASSUME NoSub \notin SubIds /\ NoQid \notin QuoteIds
ASSUME QUOTE_TIMEOUT \in Nat \ {0}
ASSUME TTLs \subseteq Nat \ {0} /\ TTLs # {}
ASSUME MaxQueue \in Nat \ {0}

MaxTTL == Max(TTLs)

VARIABLES
  wsq,        \* server events not yet received by the worker (data.ws.recv())
  connected,  \* the server link is up
  liveSubs,   \* subscriptions for which the server still sends Quote notifs
  usedSubs,   \* sub ids handed out so far
  usedQids,   \* quote ids handed out so far
  cmd,        \* the command in progress: Idle, get_quote's wait loop, or
              \* accept_quote between its TTL check and TakerSign
  quotes,     \* data.quotes: quote_id -> stored quote
  takeCount   \* TakerSign requests sent per quote (history, capped at 2)

vars == <<wsq, connected, liveSubs, usedSubs, usedQids, cmd, quotes, takeCount>>

QuoteStatuses == {"Success", "LowBalance", "Error"}

Event ==
       [type : {"Quote"}, sub : SubIds, status : QuoteStatuses, qid : QuoteIds \cup {NoQid}]
  \cup [type : {"Connected", "Disconnected"}]

\* A stored Quote, reduced to its remaining TTL (expires_at - now).
StoredQuote == [left : 0..MaxTTL]

Idle == [pc |-> "Idle", sub |-> NoSub, left |-> 0, qid |-> NoQid]

-----------------------------------------------------------------------------
(* Helpers                                                                 *)

\* data.quotes.retain(|_, quote| quote.ttl_valid()), run after every cycle.
Sweep(qs) == [q \in {x \in DOMAIN qs : qs[x].left > 0} |-> qs[q]]

\* BTreeMap::insert of a new quote.
Insert(qs, q, v) == [x \in DOMAIN qs \cup {q} |-> IF x = q THEN v ELSE qs[x]]

\* A remaining time one tick later; 0 is Instant::now() >= expires_at.
Dec(n) == IF n > 0 THEN n - 1 ELSE 0

\* Ends the command: the reply is sent and run() sweeps expired quotes.
Finish(qs) == /\ cmd' = Idle
              /\ quotes' = Sweep(qs)

-----------------------------------------------------------------------------
(* The server and the link                                                 *)

\* The server pushes a quote for a live subscription; a Success carries a
\* fresh quote_id.
ServerQuote ==
  /\ connected
  /\ Len(wsq) < MaxQueue
  /\ \E s \in liveSubs :
       \/ \E q \in QuoteIds \ usedQids :
            /\ wsq' = Append(wsq, [type |-> "Quote", sub |-> s, status |-> "Success", qid |-> q])
            /\ usedQids' = usedQids \cup {q}
       \/ \E st \in QuoteStatuses \ {"Success"} :
            /\ wsq' = Append(wsq, [type |-> "Quote", sub |-> s, status |-> st, qid |-> NoQid])
            /\ UNCHANGED usedQids
  /\ UNCHANGED <<connected, liveSubs, usedSubs, cmd, quotes, takeCount>>

\* The link drops: the server forgets the session's subscriptions and
\* ws::auto reports Disconnected.
Disconnect ==
  /\ connected
  /\ Len(wsq) < MaxQueue
  /\ connected' = FALSE
  /\ liveSubs' = {}
  /\ wsq' = Append(wsq, [type |-> "Disconnected"])
  /\ UNCHANGED <<usedSubs, usedQids, cmd, quotes, takeCount>>

Reconnect ==
  /\ ~connected
  /\ Len(wsq) < MaxQueue
  /\ connected' = TRUE
  /\ wsq' = Append(wsq, [type |-> "Connected"])
  /\ UNCHANGED <<liveSubs, usedSubs, usedQids, cmd, quotes, takeCount>>

\* Time passes: every TTL and the get_quote deadline come one tick closer.
Tick ==
  /\ quotes' = [q \in DOMAIN quotes |-> [quotes[q] EXCEPT !.left = Dec(@)]]
  /\ cmd' = [cmd EXCEPT !.left = Dec(@)]
  /\ UNCHANGED <<wsq, connected, liveSubs, usedSubs, usedQids, takeCount>>

-----------------------------------------------------------------------------
(* The worker                                                              *)

\* get_quote up to the wait loop. It fails before StartQuotes (unknown
\* ticker, no market, bad amount, wallet error, NoUtxos, NotEnoughAmount)
\* or in StartQuotes itself; or StartQuotes succeeds, the server opens a
\* subscription and the worker sets deadline = now + 15 s.
GetQuoteStart ==
  /\ cmd.pc = "Idle"
  /\ \/ /\ Finish(quotes)
        /\ UNCHANGED <<liveSubs, usedSubs>>
     \/ /\ connected
        /\ \E s \in SubIds \ usedSubs :
             /\ usedSubs' = usedSubs \cup {s}
             /\ liveSubs' = liveSubs \cup {s}
             /\ cmd' = [pc |-> "WaitQuote", sub |-> s, left |-> QUOTE_TIMEOUT, qid |-> NoQid]
        /\ UNCHANGED quotes
  /\ UNCHANGED <<wsq, connected, usedQids, takeCount>>

\* Does a received event end get_quote's wait loop?
MatchesQuote(ev, sub) == ev.type = "Quote" /\ ev.sub = sub

\* One iteration of get_quote's loop that receives an event (timeout_at
\* polls data.ws.recv() before the deadline, so a ready event is taken
\* even after the deadline). The event goes through process_ws_event, which
\* ignores Quote notifications. A Disconnected aborts; a Quote for the
\* request's own subscription ends the wait: on Success, if the amounts
\* match send_amount and the GetQuote request succeeds, the signed quote is
\* stored with expires_at = now + ttl; any other status aborts.
QuoteRecv ==
  /\ cmd.pc = "WaitQuote"
  /\ wsq # <<>>
  /\ LET ev == Head(wsq) IN
       /\ wsq' = Tail(wsq)
       /\ \/ /\ ev.type = "Disconnected"
             /\ Finish(quotes)
          \/ /\ MatchesQuote(ev, cmd.sub)
             /\ \/ Finish(quotes)
                \/ /\ ev.status = "Success"
                   /\ connected
                   /\ \E ttl \in TTLs :
                        Finish(Insert(quotes, ev.qid, [left |-> ttl]))
          \/ /\ ev.type # "Disconnected"
             /\ ~MatchesQuote(ev, cmd.sub)
             /\ UNCHANGED <<cmd, quotes>>
  /\ UNCHANGED <<connected, liveSubs, usedSubs, usedQids, takeCount>>

\* timeout_at elapses: WsError(Timeout). Timeout polls data.ws.recv()
\* first, but it polls its delay as well once recv has used up the task's
\* coop budget, so past the deadline the timeout may fire whether or not
\* an event is ready. No StopQuotes is sent, so the subscription stays
\* live on the server.
QuoteTimeout ==
  /\ cmd.pc = "WaitQuote"
  /\ cmd.left = 0
  /\ Finish(quotes)
  /\ UNCHANGED <<wsq, connected, liveSubs, usedSubs, usedQids, takeCount>>

AcceptQuote(q) ==
  /\ cmd.pc = "Idle"
  /\ \/ /\ ~(q \in DOMAIN quotes /\ quotes[q].left > 0)
        /\ Finish(quotes)
        /\ UNCHANGED takeCount
     \/ /\ q \in DOMAIN quotes /\ quotes[q].left > 0
        /\ cmd' = [Idle EXCEPT !.pc = "Accept", !.qid = q]
        /\ takeCount' = [takeCount EXCEPT ![q] = IF @ < 2 THEN @ + 1 ELSE 2]
        /\ UNCHANGED quotes
  /\ UNCHANGED <<wsq, connected, liveSubs, usedSubs, usedQids>>

\* The persist has completed; TakerSign is sent (it fails without reaching
\* the server while the link is down) and its reply ends the command; then
\* run() sweeps. Time may have passed since the TTL check.
TakerSign ==
  /\ cmd.pc = "Accept"
  /\ Finish(quotes)
  /\ UNCHANGED <<wsq, connected, liveSubs, usedSubs, usedQids, takeCount>>

\* run(): a server event taken by the select loop outside any command.
WsEvent ==
  /\ cmd.pc = "Idle"
  /\ wsq # <<>>
  /\ wsq' = Tail(wsq)
  /\ Finish(quotes)
  /\ UNCHANGED <<connected, liveSubs, usedSubs, usedQids, takeCount>>

-----------------------------------------------------------------------------

Init ==
  /\ wsq = <<>>
  /\ connected = TRUE
  /\ liveSubs = {}
  /\ usedSubs = {}
  /\ usedQids = {}
  /\ cmd = Idle
  /\ quotes = [q \in {} |-> Idle]
  /\ takeCount = [q \in QuoteIds |-> 0]

Next ==
  \/ ServerQuote \/ Disconnect \/ Reconnect \/ Tick
  \/ GetQuoteStart \/ QuoteRecv \/ QuoteTimeout \/ WsEvent \/ TakerSign
  \/ \E q \in QuoteIds : AcceptQuote(q)

Spec == Init /\ [][Next]_vars

-----------------------------------------------------------------------------
(* Properties                                                              *)

\* The type of every variable; an accept_quote in progress refers to a
\* quote that data.quotes holds.
TypeOK ==
  /\ wsq \in Seq(Event) /\ Len(wsq) <= MaxQueue
  /\ connected \in BOOLEAN
  /\ liveSubs \subseteq usedSubs /\ usedSubs \subseteq SubIds
  /\ usedQids \subseteq QuoteIds
  /\ cmd \in {Idle}
             \cup [pc : {"WaitQuote"}, sub : SubIds, left : 0..QUOTE_TIMEOUT, qid : {NoQid}]
             \cup [pc : {"Accept"}, sub : {NoSub}, left : {0}, qid : DOMAIN quotes]
  /\ DOMAIN quotes \subseteq usedQids
  /\ \A q \in DOMAIN quotes : quotes[q] \in StoredQuote
  /\ takeCount \in [QuoteIds -> 0..2]

\* Spec section 8, property 3: AcceptQuote succeeds only while
\* now < expires_at, so TakerSign reaches the server only for a quote
\* whose TTL has not run out. The TTL is checked (worker.rs 617) before the
\* new_monitored_tx await and TakerSign is sent after it (632).
TakerSignBeforeExpiry ==
  [][cmd.pc = "Accept" /\ cmd'.pc = "Idle" /\ connected => quotes[cmd.qid].left > 0]_vars

=============================================================================
