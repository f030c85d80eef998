# TLA+ models of the sideswap_manager worker

These modules model the `sideswap_manager` service of this repository:
- `src/sideswap_manager/src/worker.rs`, the coordinator;
- `src/sideswap_manager/src/ws_server.rs`, the client WebSocket gateway.

Two helpers elsewhere in the repository are modelled as pure operators:
- `src/sideswap_common/src/cipher/aes.rs`, the AES-GCM-SIV frame cipher;
- `get_assets` in `src/sideswap_client/src/worker/assets_registry.rs`.

Each module is checked with TLC. What is not modelled is listed at the end with the reason.

## 1. The system

`worker::run` (worker.rs 953-1053) is one task running a `tokio::select!` loop over four sources:
- wallet events (`process_wallet_event`);
- client commands (`process_command`);
- server WebSocket events (`process_ws_event`);
- the termination signal.

After every cycle it drops expired quotes (`data.quotes.retain(ttl_valid)`, 1049). All mutable state lives in `Data` (113-145).

Only one cycle runs at a time. Inside a cycle, a command handler may await:
- database writes: `new_monitored_tx`, `add_address`, `add_peg`;
- wallet calls: `get_new_address`, `BroadcastTx`;
- server requests: `make_market_request!`, `make_request!`.

Nothing else touches `Data` during those awaits, with one exception. `get_quote` drains the server stream itself (481-509) and passes every event to `process_ws_event`. The process can also die at any await. `run` then reloads pegs, monitored txs and addresses from the database (985-1004); everything else starts empty.

`ws_server::run` (201-216) accepts TCP connections and numbers them with `last_id += 1`. It spawns one `client_run` task per connection. That task:
1. performs the handshake (a failure returns silently, 170-176);
2. sends `ClientConnected` with an unbounded notification sender;
3. forwards notifications to the socket in `client_loop`;
4. sends `ClientDisconnected` when the loop ends.

The worker answers `ClientConnected` with a replay of `last_balances` and every stored peg status (786-799). It then fans out every later change with `send_notifs` (158-162).

Spec components (spec.md section 2) and where they are modelled:

| Component | Code | Module(s) | Status |
|---|---|---|---|
| C1 Persistence port | Db calls in worker.rs | Addresses, Broadcast, Notifications, MonitoredLedger (abstract) | partly: the tables that survive a crash |
| C2 Wallet port | wallet_command_sender, wallet events | Addresses, Broadcast, Notifications | partly: the outcomes of each call |
| C3 Server WS port | data.ws, make_request! | Quotes, Notifications, Broadcast, Markets | partly: event queue, link up/down, request outcomes |
| C4 Client gateway | ws_server.rs | Notifications | partly: lifecycle and notification channels |
| C5 State store | Data | all | partly: utxo_data is not modelled |
| C6 Command dispatcher | process_command | Addresses, Broadcast, Quotes, Notifications | modelled: every command, get_monitored_txs included |
| C7 Quote state machine | get_quote, accept_quote | Quotes, FeeTable | modelled |
| C8 Event coordinator | run | every module, one cycle per action | partly: not composed into one loop yet |
| Market table | data.markets, 807-932 | Markets | modelled: every change to the table; get_quote's read of it is a failure branch in Quotes |
| AES cipher | cipher/aes.rs | Cipher | modelled: encrypt and decrypt over an ideal AEAD |
| Asset registry | assets_registry.rs | AssetsRegistry | partly: get_assets; init and refresh only call gdk_registry |
| DB models | models.rs | Broadcast, Notifications | partly: a row is its key (txid, order id) |

## 2. Modules

Every module takes one select-loop cycle as one atomic step. Where the handler awaits something that can fail, be lost or be interrupted by a crash, the handler is split at that await. Data is abstracted to what the properties distinguish:
- ids are model values or small integers;
- a peg status is its version number;
- a balance is a model value;
- a transaction is its txid.

### Quotes (C7, with the parts of C3 and C8 it uses)

**State:**
- `wsq`, the undelivered server events;
- `connected`;
- `liveSubs`, the subscriptions the server still quotes for;
- `cmd`, the Idle state or get_quote's wait loop with its subscription and remaining deadline;
- `quotes`, mapping a quote id to its remaining TTL;
- `takeCount`, the TakerSign requests sent per quote (a history variable).

Time is discrete: `Tick` lowers every remaining time by one. A remaining time of 0 means `Instant::now() >= expires_at`.

**Actions:**

| Action | Code it models |
|---|---|
| `GetQuoteStart` | get_quote up to the deadline (402-479); every early failure ends the command |
| `QuoteRecv` | one iteration of the wait loop that receives an event, including the sub-id match (492), the Disconnected abort and the storing of a Success quote (574-582) |
| `QuoteTimeout` | `timeout_at` elapsing once the deadline has passed (507), whether or not an event is ready |
| `AcceptQuote` | accept_quote up to the `new_monitored_tx` await (611-628): NoQuote, QuoteExpired, or the quote is accepted |
| `TakerSign` | the rest of accept_quote (630-645): TakerSign is sent if the link is up, and the command ends |
| `WsEvent` | a server event taken by the select loop outside a command |

`Tick` can fall between `AcceptQuote` and `TakerSign`, as time passes during the database write. Every action that ends a cycle also applies the sweep (`Finish`). The server side is `ServerQuote`, `Disconnect` and `Reconnect`. `Disconnect` makes the server forget subscriptions; the worker never sends StopQuotes.

**The timeout.** `Timeout` polls `data.ws.recv()` before its delay, but tokio's cooperative budget makes `recv` return Pending after about 128 ready receives in one poll, and the delay is then polled. A stream that is always busy therefore delays the timeout by a bounded number of events, not forever. In the model, `QuoteTimeout` is enabled as soon as the deadline has passed, even with events queued.

### FeeTable (get_quote's fee table, 526-541)

A pure operator, `QuoteAmounts(dir, fee, base, quote, total)`, for the match on `(base_trade_dir, fee_asset)`. It uses u64 `saturating_add`/`saturating_sub` at a width of `WIDTH` bits (`SatAdd`, `SatSub`). `TotalFee` is the plain `server_fee + fixed_fee`, which wraps at `2^WIDTH`; that is the release-build behaviour. Every input is an initial state, and the model has no steps.

`ReferenceAmounts` says what the table means:
- the user sends the base asset when selling it, and the quote asset otherwise;
- the fee goes on the send side when it is paid in the send asset;
- otherwise the fee comes off the receive side.

### Markets (the market table, worker.rs 807-932)

**State:**
- `srv`, the server's table, mapping a pair to its fee asset;
- `markets`, `data.markets` as a sequence;
- `connected`;
- `pending`, an outstanding ListMarkets request;
- `wsq`, the undelivered events;
- `changes`, a bound counter.

**Worker action:** `WsEvent` models process_ws_event for market events:
- Connected sends ListMarkets (process_ws_connected);
- the response replaces the table (process_market_resp);
- MarketAdded appends and MarketRemoved filters by pair (process_market_notif);
- Disconnected changes nothing.

**Server and link actions:**
- `AddMarket` / `RemoveMarket`, which notify only while the link is up;
- `ListMarketsReply`, a snapshot of the server's table;
- `LinkDown`, which also loses an outstanding request;
- `LinkUp`.

The server side is not in this repository and is modelled from spec section 4.5.

**Fairness** (`LiveSpec`): `WsEvent` and `ListMarketsReply` are weakly fair.

### Addresses (new_address, C1/C2)

**State:**
- the wallet's first unused index;
- `dbAddrs`, the persisted indices;
- `addresses`, the in-memory indices;
- the point reached in new_address;
- `replies`, the issued indices in order (a history variable).

**Actions:**
- `NewAddressIndex`: the first wallet call, `first_unused_db`, `max` and the gap check (241-248).
- `NewAddressStore`: the second wallet call, `add_address`, the insert and the reply (250-264).
- `WalletUse`: funds reaching some address.
- `Crash` / `Restart`: a crash, and the reload in run (999-1004).

The gap check at 248 is a guard of `NewAddressIndex` (`WithinGap`). No property restates it. Spec section 1 excludes gap-limit recovery after wallet activity the worker did not observe, so nothing is claimed about the wallet's index moving during the await at 250.

### Broadcast (create_tx, send_tx, accept_quote persistence, C1/C2/C3)

send_tx and accept_quote are sequences of awaits, listed in `SendTxSteps` and `AcceptQuoteSteps`:
- send_tx: CheckOutpoints, then persist the MonitoredTx, then server BroadcastTx, then wallet BroadcastTx and clear created_txs;
- accept_quote: persist, then TakerSign.

`Step` runs one await. Each step may fail, and a message to the server may be lost.

`GetMonitoredTxs` is get_monitored_txs (703-742): the wallet's GetTxs for every key of `data.monitored_txs`, and one `SwapStatus` per row (Confirmed with a height, Mempool without, NotFound if the wallet does not know the tx). The reply is kept in `report`. Either wallet call may fail, and the command then ends with an error. The wallet itself is environment: `WalletSync` lets it learn of a transaction once the server or the wallet broadcast it, and `Confirm` gives that transaction a height. Both survive a crash of the manager. The wallet step has a second branch, the `?` at 377, that returns without clearing `created_txs`. `Crash` can strike between any two steps. `Restart` reloads monitored txs only (`LoadMonitored`, 992-997). The spec says the two broadcasts run concurrently. The code runs them one after the other (364-378), and the model follows the code.

**Refinement.** `MonitoredLedger` is the abstract promise of the monitored_txs table. It has two variables, `rows` and `sent`, and two actions:
- `Persist` adds a row;
- `Send` hands over a transaction that already has a row.

Broadcast maps onto it with `INSTANCE MonitoredLedger WITH rows <- dbMonitored, sent <- serverSeen \cup walletSeen`. `LedgerRefined` (the abstract `Spec`) is checked as a PROPERTY.

### FeeTable, Cipher and AssetsRegistry (pure operators)

Each module declares its inputs as variables that Init enumerates and no step changes; the properties compare the operators with a reference over every input.
- **FeeTable**: get_quote's fee table (526-541) with u64 saturating arithmetic at `WIDTH` bits and the wrapping `total_fee` sum.
- **Cipher**: `Encrypt` is nonce ++ sealed data; `Decrypt` returns an error for a frame shorter than a nonce, otherwise splits it at the nonce length and opens the rest. The length check is a guard a unit test reaches, so only the round trip is checked. The aes_gcm_siv crate is outside the repository. It is modelled as an ideal AEAD: `Seal` XORs the data with a keystream of (key, nonce, position) and appends a tag of (key, nonce, data); `Open` inverts the XOR and checks the tag. Bytes are 2 bits, the nonce 2 bytes and the tag 1 byte; the code depends on the sizes only through the split.
- **AssetsRegistry**: `GetAssets` is the registry call (which may fail), then `CollectAssets`, the filter_map over the requested ids in order. Each hit becomes an Asset with the registry's ticker or the default ticker (the id's first `TickerLen` characters, 4 in the code), and a precision above 8 makes the `expect` panic.

MCAlgorithms checks all three in one run: each initial state is an input of one of them, with the other two at fixed inputs.

### Notifications (C4 and the worker's fan-out, C5/C6/C8)

**Gateway side** (ws_server.rs):
- `Accept` (last_id);
- `HandshakeFail` / `HandshakeOk` (170-188);
- `ClientRecv`, client_loop writing one notification;
- `ClientClose`, the socket ending the loop: the channel is dropped and ClientDisconnected is sent.

**Worker side** (worker.rs):
- `ClientCommand`: the replay and registration, or the remove with `expect` (786-803);
- `NewPeg`: the Peg request, the PegStatus request, process_peg_status, then add_peg and pegs.insert. Either request may fail.
- `DelPeg`: deletes the database row only.
- `WsEvent`: a PegStatus is passed to process_peg_status; Connected re-queries every peg.
- `WalletUtxos`: the balances are sent and stored when they change.
- `RequeryPegs` is part of `WsEvent`: on Connected it sends PegStatus for every order in `data.pegs` (process_ws_connected, 813-820).

**Server side:**
- `ServerPegUpdate`: the server pushes a new status version;
- `ServerPegReply`: the reply to a re-query;
- `LinkDown` / `LinkUp`.

**Crash:** `Restart` is a process crash at any point between cycles followed by run():
- `data.pegs` is reloaded from the pegs table (`LoadPegs`, 985-990);
- peg_statuses, last_balances and clients start empty;
- ws_server starts again with `last_id = 0` and no tasks;
- the new link has no outstanding requests or queued events, and starts down.

The server's orders survive. A crash inside new_peg's awaits leaves the same state as one of NewPeg's failure branches.

A notification sent to a client whose task has left client_loop is discarded (`Push`), as the dropped unbounded receiver does.

The environment's bounds are guards on the environment's own actions, never state constraints, so liveness checks stay sound:
- `MaxQueue` bounds the server queue;
- `MaxChan` bounds each client channel;
- `MaxDrops` bounds the number of link drops;
- `MaxCrashes` bounds the number of restarts.

**Fairness** (`LiveSpec`): weak fairness of `ClientCommand` and `WsEvent`, and of the server's reply to each re-query (`ServerPegReply(o)`).

## 3. Runs

| Run | Checks | Result |
|---|---|---|
| quotes | TypeOK | pass (216,810 states) |
| quotes_late_sign | TakerSignBeforeExpiry | violation |
| algorithms | TableMatchesReference, CipherRoundTrip, GetAssetsFollowsRequest | pass (44,494 states) |
| markets | MarketsConverge (LiveSpec) | pass (515,188 states, about 30 s) |
| markets_unique | MarketsUniqueKey | violation |
| addresses | TypeOK, IssuedIncreasing | pass (328 states) |
| addresses_dense | AddressesDense | violation |
| broadcast | TypeOK, LedgerRefined, NoRebroadcast, BroadcastTraceable, ConfirmedStaysConfirmed | pass (185,537 states) |
| broadcast_created_cleared | CreatedClearedAfterSend | violation |
| notifications | TypeOK, PersistedPegsMonitored, ClientViewsCurrent, NoDisconnectPanic | pass (2,273,024 states, about 70 s) |
| notifications_live | PegStatusesConverge, ClientsReleased (LiveSpec) | pass (109,674 states) |
| notifications_peg_delivered | PegStatusDelivered | violation |

What the passing runs show:

- **TypeOK (quotes).** Besides the types, an accept_quote that passed its TTL check refers to a quote that `data.quotes` still holds when TakerSign runs. This holds for every interleaving of server events, disconnects, get_quote calls and ticks.
- **TableMatchesReference.** Each of the four rows of the fee table puts the fee on the right side. This includes the saturating edges, where the receive amount is below the fee or the send amount reaches the maximum.
- **MarketsConverge.** Market notifications sent while the link is down are lost. The ListMarkets sent on every Connected makes `data.markets` equal to the server's table once the link stays up, and the notifications that follow keep it equal.
- **PegStatusesConverge.** The same holds for peg statuses. Once the link stays up, the stored status of every peg in `data.pegs` catches up with the server's, thanks to the re-query in process_ws_connected. This includes statuses lost in a restart.
- **ClientsReleased.** Every client whose connection task ended is eventually removed from `data.clients`. client_run sends ClientDisconnected whatever ended client_loop, so the table does not keep dead senders.
- **PersistedPegsMonitored.** Every order in the pegs table is in `data.pegs`, before and after a restart: new_peg persists before it inserts, del_peg only deletes the row, and run() reloads the table.
- **IssuedIncreasing.** Issued indices strictly increase, so no address is handed out twice. This holds across crashes at either await and across wallet activity between the two wallet calls.
- **LedgerRefined.** Broadcast implements MonitoredLedger. No step removes a MonitoredTx row, and every transaction that reached the server or the wallet already had its row, whatever crash happened. The row must be in the database, not just in memory.
- **BroadcastTraceable.** Whenever the process is up, such a transaction is also in `data.monitored_txs`, which is what get_monitored_txs reports. This needs the reload of the table in run().
- **ConfirmedStaysConfirmed.** A transaction reported Confirmed is reported Confirmed by every later get_monitored_txs, across crashes: its row survives, run() reloads it, and the status comes from the wallet's height.
- **CipherRoundTrip.** decrypt returns exactly the data encrypt sealed, for every key, nonce and data: the nonce-first layout and the split agree.
- **GetAssetsFollowsRequest.** get_assets returns one Asset per requested id the registry knows, in request order and with repeats, with the registry's ticker or the default one. It panics exactly when one of those ids has a precision out of range.
- **NoRebroadcast.** The server never receives a BroadcastTx for a transaction it has already accepted. created_txs survives a closed wallet channel, so a client can retry; CheckOutpoints must stop the retry.
- **ClientViewsCurrent.** A live client whose channel is drained holds the current balances and the current status of every order in data.pegs it has heard of.
- **NoDisconnectPanic.** The `expect` at 802 never fires.

The violation runs and what each one shows:
- **quotes_late_sign:** spec section 8 property 3 says AcceptQuote succeeds only while `now < expires_at`. accept_quote checks the TTL at 617 and then awaits the database write of the MonitoredTx. It sends TakerSign at 632 without checking again. In the trace, a quote with one tick left is accepted, the tick passes during the write, and TakerSign goes to the server for the expired quote. Whether the swap then happens rests on the server.
- **broadcast_created_cleared:** spec section 8 property 7 says created_txs is empty after SendTx returns, whatever the two sides gave. Section 9 says the table is cleared after any attempt. If the wallet's command channel is closed, the `?` at 377 returns after BroadcastTx went to the server but before `data.created_txs.clear()` at 380. The drafted transaction stays sendable, and only the server's CheckOutpoints stops a retry (NoRebroadcast).
- **markets_unique:** spec section 3 says `(base, quote)` is a unique key of `markets`. The trace is:
  1. a market is removed while the link is down;
  2. the link comes back up;
  3. the market is re-added before the ListMarkets response arrives;
  4. the response already contains the market, and MarketAdded appends it a second time (process_market_notif, 868).
- **addresses_dense:** persisted indices need not start at 0 or be contiguous. Spec section 3, invariant 1, says they are dense.
- **notifications_peg_delivered:** new_peg fans out the first status before `pegs.insert`, so clients connected at that moment never get it. Spec section 8 property 5 and scenario S6 do not cover this case.

Every property of a passing run has a mutant in PROJECT.json: a plausible bug in the code that TLC finds. Examples:
- accept_quote without its NoQuote lookup;
- the Buy/Base fee row adding the fee;
- the ListMarkets response appended instead of replacing the table;
- no re-query on Connected;
- a restart that does not reload the pegs or monitored txs tables;
- a re-query over peg_statuses instead of data.pegs;
- a client task that exits without ClientDisconnected;
- first_unused_db without its + 1;
- a broadcast before the persist;
- an inverted height test;
- the nonce appended after the ciphertext;
- get_assets iterating the registry's map instead of the request;
- a failed handshake that reports ClientDisconnected.

## 4. Bounds

| Model | Bounds | Why they are enough |
|---|---|---|
| MCQuotes | three subscription ids, two quote ids, deadline 1 tick, TTLs {1, 2}, queue of 2 | A stale subscription quoting into a later call needs two calls and one leftover subscription; a third id covers a disconnect in between. A quote that expires between cycles needs one tick. |
| MCAlgorithms | fee table: WIDTH 3, amounts and fees 0..7; cipher: keys {0, 1}, 2-bit bytes, 2-byte nonce, 1-byte tag, data up to 2 bytes; registry: three ids (two share their default ticker), precisions {0, 8, 9}, requests up to 3 ids | Every fee row hits both saturation edges and the fee sum wraps. Every nonce is combined with empty, one-byte and two-byte data, so the keystream position and the split are exercised at each length. Requests with repeats and out-of-order ids, and precisions at and past the limit, are all reached. |
| MCMarkets | three pairs, four server changes, queue of 3 (the unique-key run: two pairs, two changes) | A remove while down, then a re-add, then a stale response needs two changes and three queued events. The pass run allows two such episodes across three pairs. |
| MCAddresses | GAP_LIMIT 2, wallet index up to 3, one crash | The gap boundary is reached, and a crash can fall at either await. |
| MCBroadcast | three txids, one crash, symmetry | A retry after a failure and a crash at each step are both reachable, as is a report before and after a crash, with a confirmation in between. |
| MCNotifications | two clients (one in the liveness run), one order with versions 1..3, two balances, channels and server queue of 2, two link drops, one restart | One client connecting while another is live, a reconnect re-query racing a push, a failed handshake, and a restart after a del_peg are all reachable. |

MCNotifications uses one order because the replay order across orders is a sort of the status map, and the properties do not depend on it. Two orders multiplied the state space by 25 for no new behaviour.

## 5. Fairness

`worker::run` is one task that loops forever, so its own steps are weakly fair: taking a queued server event or client command (Markets, Notifications). The Quotes and Broadcast runs check only safety properties and assume no fairness. The server answers a request on a live link (ListMarkets, PegStatus). Nothing forces clients to connect or send commands, the link to change, or the server to change its tables. Every liveness property is therefore stated for behaviours in which the link eventually stays up.

Symmetry is used only in runs without liveness properties. MCBroadcast uses it with the action properties LedgerRefined and ConfirmedStaysConfirmed. This is sound because both are safety properties and treat every txid alike. The violation run MCBroadcastCleared does not use symmetry. Deadlock checking is on for every run. Each model always has an enabled step; in MCAlgorithms the only step is a stutter.

## 6. Not modelled, and why

- **get_quote's market lookup** (412-434). The market is read before the drain loop and used after it, so the fee asset is read stale at 423. What fee asset the server applies to a live subscription after the market changes is in neither the repository nor the spec. A property here would rest on a guess about the server, so Quotes keeps the lookup as a nondeterministic NoMarket failure.
- **Quote consumption** (615). Spec section 3 calls AcceptQuote destructive, while section 4.6.5 step 5 keeps the quote until the sweep on purpose. The model follows the code: the quote stays, and `takeCount` counts acceptances.
- **The worker's panics on peer misbehaviour** (378: the wallet drops a reply sender; 641: the server signs a different txid). Both depend on peers that are not in this repository.
- **utxo_data** and the balances it yields (convert_balances, 194-209). The UTXO set is wallet data; Notifications models the balances as model values.
- **ws_server's request path** (process_ws_req, 47-55). It sends `Command::Request`, which the worker's `Command` enum does not define. Requests reach the worker's typed commands in the modules directly.
- **The termination signal.** It ends the loop; no property depends on it.
- **assets_registry.rs init and refresh.** They call into gdk_registry (outside the repository); refresh runs it on a detached thread. How that thread and get_assets share the registry is gdk_registry's business, so each get_assets call is taken against one registry state. Two ids without a ticker that share their first four characters get the same default ticker. Nothing requires tickers to be distinct, and nothing in the code depends on it.
- **The AEAD's security.** The ideal AEAD has a 2-bit tag, so forgeries exist in the model. The code adds only the nonce layout and the split, which CipherRoundTrip checks.
- **models.rs fields.** models.rs defines `MonitoredTx{txid, note}` and no `Address`, while worker.rs reads `description`, `user_note` and `models::Address`. The file is not the one the worker compiles against, so rows are abstracted to their keys.

## 7. Plan for later sittings

1. Compose Quotes and Broadcast through accept_quote into one coordinator module, so the TTL and the persisted row are in one state.
2. An abstract client view that Notifications refines: per client, the sequence of values it has received.
3. Let the client gateway's request path block notification forwarding, if `Command::Request` gets a worker counterpart.
