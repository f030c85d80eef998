---------------------------- MODULE MCAlgorithms ----------------------------
(***************************************************************************)
(* Model-checking instance of the pure operators: FeeTable (3-bit         *)
(* amounts, so that saturation and the wrapping fee sum are reached),     *)
(* Cipher (2-bit bytes, 2-byte nonce, 1-byte tag, data up to 2 bytes)    *)
(* and AssetsRegistry (three ids, two of which share their default      *)
(* ticker, requests of up to three ids with repeats). Each state is one   *)
(* input of one of them; the inputs of the other two keep fixed values.   *)
(***************************************************************************)
EXTENDS FeeTable, Cipher, AssetsRegistry

MCAssetIds == {<<0, 0, 1>>, <<0, 0, 2>>, <<1, 2, 0>>}
MCTickers  == {<<7, 7>>}

FeeDefault ==
  /\ dir = "Sell" /\ fee = "Base"
  /\ base = 0 /\ quote = 0 /\ serverFee = 0 /\ fixedFee = 0

CipherDefault ==
  /\ key = 0 /\ nonce = [i \in 1..NonceLen |-> 0] /\ plain = <<>>

RegistryDefault ==
  /\ fetchOk = FALSE /\ requested = <<>> /\ registry = [a \in {} |-> 0]

allVars == <<vars, cipherVars, registryVars>>

AlgorithmsInit ==
  \/ Init /\ CipherDefault /\ RegistryDefault
  \/ FeeDefault /\ CipherInit /\ RegistryDefault
  \/ FeeDefault /\ CipherDefault /\ RegistryInit

AlgorithmsSpec == AlgorithmsInit /\ [][UNCHANGED allVars]_allVars
=============================================================================
