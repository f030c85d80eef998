------------------------------ MODULE Addresses ------------------------------
(***************************************************************************)
(* Receive-address issuance of the sideswap_manager worker                 *)
(* (src/sideswap_manager/src/worker.rs): new_address asks the wallet for   *)
(* its first unused index, takes the larger of it and one past the         *)
(* highest index in data.addresses, refuses when that is GAP_LIMIT or more *)
(* past the wallet's first unused index, asks the wallet for the address   *)
(* at the index, persists it and inserts it in memory. run() loads the     *)
(* addresses from the database at start; the process may crash at any      *)
(* await and restart. The wallet's first unused index grows when an        *)
(* address, issued by this worker or not, receives funds.                  *)
(***************************************************************************)
EXTENDS Integers, Sequences, FiniteSets, FiniteSetsExt

CONSTANTS
  GAP_LIMIT,    \* GAP_LIMIT (20 in the code)
  MaxUsed,      \* bound on the wallet's first unused index
  MaxCrashes    \* bound on process crashes

ASSUME GAP_LIMIT \in Nat \ {0}
ASSUME MaxUsed \in Nat /\ MaxCrashes \in Nat

Indices == 0..(MaxUsed + GAP_LIMIT)

VARIABLES
  walletFirstUnused,  \* the wallet's first unused external index
  dbAddrs,            \* indices in the addresses table
  addresses,          \* data.addresses (indices)
  pc,                 \* "Idle", "Store" between the two wallet calls, or "Down"
  newIndex,           \* new_index while pc = "Store"
  replies,            \* indices returned to clients, in order (history)
  crashes

vars == <<walletFirstUnused, dbAddrs, addresses, pc, newIndex, replies, crashes>>

-----------------------------------------------------------------------------

\* Mutant: the last key itself, without the + 1.
FirstUnusedDbNoInc(addrs) ==
  IF addrs = {} THEN 0 ELSE Max(addrs)

\* first_unused_db: one past the last key of data.addresses, 0 if empty.
FirstUnusedDb(addrs) ==
  IF addrs = {} THEN 0 ELSE Max(addrs) + 1

\* verify!(new_index - first_unused_wallet < GAP_LIMIT, Error::GapLimit)
WithinGap(index, firstUnusedWallet) == index - firstUnusedWallet < GAP_LIMIT

\* Mutant: the address is inserted in memory but never persisted.
AddAddressMemOnly(i) ==
  /\ addresses' = addresses \cup {i}
  /\ UNCHANGED dbAddrs

\* db.add_address, then data.addresses.insert.
AddAddress(i) ==
  /\ dbAddrs' = dbAddrs \cup {i}
  /\ addresses' = addresses \cup {i}

\* new_address up to the second wallet call: get_new_address(false, None)
\* returns the wallet's first unused index (or fails); the new index is
\* the larger of it and first_unused_db; GapLimit is returned past the gap.
NewAddressIndex ==
  /\ pc = "Idle"
  /\ LET w == walletFirstUnused
         i == Max({w, FirstUnusedDb(addresses)})
     IN  \/ UNCHANGED <<pc, newIndex>>
         \/ /\ WithinGap(i, w)
            /\ pc' = "Store"
            /\ newIndex' = i
  /\ UNCHANGED <<walletFirstUnused, dbAddrs, addresses, replies, crashes>>

\* get_new_address(false, Some(new_index)) (or a wallet error), then
\* db.add_address, data.addresses.insert and the reply.
NewAddressStore ==
  /\ pc = "Store"
  /\ pc' = "Idle"
  /\ \/ UNCHANGED <<dbAddrs, addresses, replies>>
     \/ /\ AddAddress(newIndex)
        /\ replies' = Append(replies, newIndex)
  /\ UNCHANGED <<walletFirstUnused, newIndex, crashes>>

\* Funds arrive at some external address at index i >= the first unused one,
\* issued by this worker or reached by another copy of the wallet.
WalletUse ==
  /\ \E i \in walletFirstUnused..(MaxUsed - 1) : walletFirstUnused' = i + 1
  /\ UNCHANGED <<dbAddrs, addresses, pc, newIndex, replies, crashes>>

\* The process dies at an await; everything in memory is lost.
Crash ==
  /\ pc # "Down"
  /\ crashes < MaxCrashes
  /\ pc' = "Down"
  /\ addresses' = {}
  /\ crashes' = crashes + 1
  /\ UNCHANGED <<walletFirstUnused, dbAddrs, newIndex, replies>>

\* run(): data.addresses is loaded from db.load_addresses().
Restart ==
  /\ pc = "Down"
  /\ pc' = "Idle"
  /\ addresses' = dbAddrs
  /\ UNCHANGED <<walletFirstUnused, dbAddrs, newIndex, replies, crashes>>

-----------------------------------------------------------------------------

\* The wallet may already have used addresses when the worker first starts
\* with an empty database (a restored mnemonic).
Init ==
  /\ walletFirstUnused \in 0..MaxUsed
  /\ dbAddrs = {}
  /\ addresses = {}
  /\ pc = "Idle"
  /\ newIndex = 0
  /\ replies = <<>>
  /\ crashes = 0

Next ==
  \/ NewAddressIndex \/ NewAddressStore \/ WalletUse \/ Crash \/ Restart

Spec == Init /\ [][Next]_vars

-----------------------------------------------------------------------------
(* Properties                                                              *)

TypeOK ==
  /\ walletFirstUnused \in 0..MaxUsed
  /\ dbAddrs \subseteq Indices /\ addresses \subseteq dbAddrs
  /\ pc \in {"Idle", "Store", "Down"}
  /\ newIndex \in Indices
  /\ replies \in Seq(Indices)
  /\ crashes \in 0..MaxCrashes

\* Successive new_address replies carry strictly increasing indices, also
\* across crashes and restarts (section 8, property 2): no address is
\* handed out twice.
IssuedIncreasing ==
  \A k \in 1..(Len(replies) - 1) : replies[k] < replies[k + 1]

\* Spec section 3, invariant 1: the persisted address indices are dense,
\* a prefix of the naturals.
AddressesDense == dbAddrs = 0..(Cardinality(dbAddrs) - 1)

=============================================================================
