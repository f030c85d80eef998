------------------------------ MODULE FeeTable ------------------------------
(***************************************************************************)
(* get_quote's fee table (src/sideswap_manager/src/worker.rs 526-541):     *)
(* from a Success quote (base_amount, quote_amount, server_fee, fixed_fee) *)
(* the worker derives what the user sends and receives, given the trade    *)
(* direction of the base asset and the market's fee asset, with u64        *)
(* saturating arithmetic (the verify! of the send amount that follows is   *)
(* modelled in Quotes). Amounts are WIDTH-bit unsigned integers.           *)
(* The table is checked against a reference definition that states what    *)
(* it means: the send side is the base asset when selling it, and the fee  *)
(* is added to the send side when it is paid in the send asset, otherwise  *)
(* taken from the receive side.                                            *)
(***************************************************************************)
EXTENDS Naturals

CONSTANTS WIDTH   \* bits of the amounts (64 in the code)

ASSUME WIDTH \in Nat \ {0}

MaxAmount == 2^WIDTH - 1
Amounts == 0..MaxAmount
Dirs == {"Sell", "Buy"}       \* TradeDir of the base asset
Fees == {"Base", "Quote"}     \* AssetType of fee_asset

\* u64::saturating_add and u64::saturating_sub.
SatAdd(a, b) == IF a + b > MaxAmount THEN MaxAmount ELSE a + b
SatSub(a, b) == IF a < b THEN 0 ELSE a - b

\* total_fee = server_fee + fixed_fee, a plain u64 addition: it wraps in a
\* release build (overflow checks off) and panics in a debug build; the
\* model takes the release behaviour.
TotalFee(serverFee, fixedFee) == (serverFee + fixedFee) % (MaxAmount + 1)

\* Mutant: the Buy/Base row adds the fee instead of subtracting it.
QuoteAmountsBuyBaseAdd(dir, fee, base, quote, total) ==
  CASE dir = "Sell" /\ fee = "Base"  -> <<SatAdd(base, total), quote>>
    [] dir = "Sell" /\ fee = "Quote" -> <<base, SatSub(quote, total)>>
    [] dir = "Buy"  /\ fee = "Base"  -> <<quote, SatAdd(base, total)>>
    [] dir = "Buy"  /\ fee = "Quote" -> <<SatAdd(quote, total), base>>

\* (quote_send_amount, quote_recv_amount), the match on
\* (base_trade_dir, fee_asset).
QuoteAmounts(dir, fee, base, quote, total) ==
  CASE dir = "Sell" /\ fee = "Base"  -> <<SatAdd(base, total), quote>>
    [] dir = "Sell" /\ fee = "Quote" -> <<base, SatSub(quote, total)>>
    [] dir = "Buy"  /\ fee = "Base"  -> <<quote, SatSub(base, total)>>
    [] dir = "Buy"  /\ fee = "Quote" -> <<SatAdd(quote, total), base>>

\* The reference: which asset the user sends, and on which side the fee
\* falls.
ReferenceAmounts(dir, fee, base, quote, total) ==
  LET sendIsBase == dir = "Sell"
      sendAmt    == IF sendIsBase THEN base ELSE quote
      recvAmt    == IF sendIsBase THEN quote ELSE base
      feeOnSend  == (fee = "Base") = sendIsBase
  IN  IF feeOnSend THEN <<SatAdd(sendAmt, total), recvAmt>>
                   ELSE <<sendAmt, SatSub(recvAmt, total)>>

VARIABLES dir, fee, base, quote, serverFee, fixedFee

vars == <<dir, fee, base, quote, serverFee, fixedFee>>

\* Every combination of trade direction, fee asset and Success amounts.
Init ==
  /\ dir \in Dirs /\ fee \in Fees
  /\ base \in Amounts /\ quote \in Amounts
  /\ serverFee \in Amounts /\ fixedFee \in Amounts

Next == UNCHANGED vars

Spec == Init /\ [][Next]_vars

-----------------------------------------------------------------------------
(* Properties                                                              *)

\* The worker's table gives, for every direction, fee asset and amounts,
\* the send and receive amounts of the reference definition.
TableMatchesReference ==
  LET total == TotalFee(serverFee, fixedFee) IN
  QuoteAmounts(dir, fee, base, quote, total) = ReferenceAmounts(dir, fee, base, quote, total)

=============================================================================
