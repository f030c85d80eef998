--------------------------- MODULE AssetsRegistry ---------------------------
(***************************************************************************)
(* get_assets (src/sideswap_client/src/worker/assets_registry.rs 27-76):   *)
(* the client asks the GDK registry (outside the repository) for a list   *)
(* of asset ids and turns every id the registry knows into an Asset, in   *)
(* the order of the request: the registry's ticker or, when it has none,  *)
(* the first characters of the id ("{:0.4}"), and its precision, which   *)
(* AssetPrecision::new must accept (0..8) or the expect panics. A failing *)
(* registry call is returned as the error. Icons, names, contract and     *)
(* issuance fields are copied data and are left out.                      *)
(* An asset id is a sequence of digits; the default ticker is its first   *)
(* TickerLen digits (4 characters in the code).                            *)
(***************************************************************************)
EXTENDS Naturals, Sequences, SequencesExt

CONSTANTS
  AssetIds,      \* asset ids, as digit sequences
  Tickers,       \* tickers the registry may hold
  NoTicker,      \* the registry entry has no ticker
  TickerLen,     \* characters kept by the default ticker (4 in the code)
  MaxPrecision,  \* largest precision AssetPrecision::new accepts (8)
  Precisions,    \* precisions the registry entries may carry
  MaxRequest     \* bound on the length of the requested id list

ASSUME NoTicker \notin Tickers /\ TickerLen \in Nat /\ MaxPrecision \in Nat
ASSUME Precisions \subseteq Nat

Entries == [ticker : Tickers \cup {NoTicker}, precision : Precisions]

Assets(s)      == [r |-> "Ok", assets |-> s]
FetchErr       == [r |-> "Err", assets |-> <<>>]
PrecisionPanic == [r |-> "Panic", assets |-> <<>>]

\* default_ticker: format!("{:0.4}", asset_id.to_string()).
DefaultTicker(a) == SubSeq(a, 1, TickerLen)

\* The Asset built from one registry entry.
MakeAsset(a, v) ==
  [id        |-> a,
   ticker    |-> IF v.ticker = NoTicker THEN DefaultTicker(a) ELSE v.ticker,
   precision |-> v.precision]

PrecisionOk(v) == v.precision <= MaxPrecision

\* Mutant: the assets are collected by iterating the registry's map (in
\* its own order, once each) instead of the request.
GetAssetsFromRegistry(ok, ids, reg) ==
  LET found == {a \in DOMAIN reg : \E i \in DOMAIN ids : ids[i] = a}
      order == SetToSeq(found)
  IN  IF ~ok THEN FetchErr
      ELSE IF \E a \in found : ~PrecisionOk(reg[a]) THEN PrecisionPanic
      ELSE Assets([i \in DOMAIN order |-> MakeAsset(order[i], reg[order[i]])])

\* get_assets: the registry call (ok = FALSE: it returned an error), then
\* filter_map over the requested ids, in order, keeping the ids the
\* registry has.
RECURSIVE CollectAssets(_, _)
CollectAssets(ids, reg) ==
  IF ids = <<>> THEN Assets(<<>>)
  ELSE LET a    == Head(ids)
           rest == CollectAssets(Tail(ids), reg)
       IN  CASE a \notin DOMAIN reg   -> rest
             [] ~PrecisionOk(reg[a])  -> PrecisionPanic
             [] rest = PrecisionPanic -> PrecisionPanic
             [] OTHER                 -> Assets(<<MakeAsset(a, reg[a])>> \o rest.assets)

GetAssets(ok, ids, reg) == IF ~ok THEN FetchErr ELSE CollectAssets(ids, reg)

-----------------------------------------------------------------------------
(* Inputs: whether the registry call succeeds, the requested ids (with    *)
(* repeats, in any order) and the registry's entries.                     *)

VARIABLES fetchOk, requested, registry

registryVars == <<fetchOk, requested, registry>>

RegistryInit ==
  /\ fetchOk \in BOOLEAN
  /\ requested \in BoundedSeq(AssetIds, MaxRequest)
  /\ registry \in UNION {[D -> Entries] : D \in SUBSET AssetIds}

RegistrySpec == RegistryInit /\ [][UNCHANGED registryVars]_registryVars

-----------------------------------------------------------------------------
(* Properties                                                              *)

\* get_assets answers a successful registry call with one Asset for every
\* requested id the registry knows, in the order and with the repeats of
\* the request, or panics exactly when one of them has a precision out of
\* range; a failed call is an error.
GetAssetsFollowsRequest ==
  LET known == SelectSeq(requested, LAMBDA a : a \in DOMAIN registry)
      res   == GetAssets(fetchOk, requested, registry)
  IN  CASE ~fetchOk -> res = FetchErr
        [] \E i \in DOMAIN known : ~PrecisionOk(registry[known[i]]) -> res = PrecisionPanic
        [] OTHER -> /\ res.r = "Ok"
                    /\ Len(res.assets) = Len(known)
                    /\ \A i \in DOMAIN known :
                         /\ res.assets[i].id = known[i]
                         /\ res.assets[i].precision = registry[known[i]].precision
                         /\ res.assets[i].ticker =
                              IF registry[known[i]].ticker # NoTicker
                              THEN registry[known[i]].ticker ELSE DefaultTicker(known[i])

=============================================================================
