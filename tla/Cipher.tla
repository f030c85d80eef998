------------------------------- MODULE Cipher -------------------------------
(***************************************************************************)
(* AesCipher (src/sideswap_common/src/cipher/aes.rs): encrypt draws a     *)
(* fresh random nonce, seals the data with AES-256-GCM-SIV and returns    *)
(* nonce ++ ciphertext; decrypt rejects a frame shorter than a nonce,      *)
(* splits it at the nonce length and opens the rest.                      *)
(*                                                                         *)
(* The AEAD itself (the aes_gcm_siv crate) is outside the repository and  *)
(* is modelled as an ideal one over small bytes: the body is the data     *)
(* XORed with a keystream of (key, nonce, position), followed by a tag of *)
(* (key, nonce, data); opening recomputes the data and checks the tag.    *)
(* Lengths are scaled down (NonceLen for the 12-byte nonce, TagLen for    *)
(* the 16-byte tag); the code only depends on them through the split.     *)
(***************************************************************************)
EXTENDS Naturals, Sequences, Bitwise, Functions

CONSTANTS
  Keys,       \* keys, as naturals
  ByteBits,   \* bits of a byte (8 in the code)
  NonceLen,   \* size_of::<Nonce>() (12 in the code)
  TagLen,     \* length of the AEAD tag (16 in the code)
  MaxPlain    \* bound on the length of the data encrypted

ASSUME Keys \subseteq Nat /\ ByteBits \in Nat \ {0}
ASSUME NonceLen \in Nat \ {0} /\ TagLen \in Nat \ {0}

Bytes == 0..(2^ByteBits - 1)

\* A position-weighted sum of a byte string, the input of the ideal AEAD.
SeqSum(s) == FoldFunction(+, 0, [i \in DOMAIN s |-> s[i] * (i + 1)])

Ok(d)  == [r |-> "Ok", data |-> d]
Err    == [r |-> "Err", data |-> <<>>]

-----------------------------------------------------------------------------
(* The ideal AEAD (Aes256GcmSiv::encrypt / decrypt)                        *)

KeyStream(k, n, i) == (k + 3 * SeqSum(n) + i) % 2^ByteBits

Tag(k, n, d) ==
  [j \in 1..TagLen |-> (k + 5 * SeqSum(n) + 7 * SeqSum(d) + Len(d) + j) % 2^ByteBits]

KeyXor(k, n, s) == [i \in DOMAIN s |-> s[i] ^^ KeyStream(k, n, i)]

Seal(k, n, d) == KeyXor(k, n, d) \o Tag(k, n, d)

Open(k, n, c) ==
  IF Len(c) < TagLen THEN Err
  ELSE LET d == KeyXor(k, n, SubSeq(c, 1, Len(c) - TagLen))
       IN  IF SubSeq(c, Len(c) - TagLen + 1, Len(c)) = Tag(k, n, d)
           THEN Ok(d) ELSE Err

-----------------------------------------------------------------------------
(* AesCipher                                                               *)

\* Mutant: the nonce is appended after the ciphertext.
EncryptNonceLast(k, nonce, data) == Seal(k, nonce, data) \o nonce

\* encrypt: output = nonce, then the ciphertext. The nonce is the random
\* one generate_nonce drew; the caller picks it from Bytes^NonceLen.
Encrypt(k, nonce, data) == nonce \o Seal(k, nonce, data)

\* decrypt: Err for a frame shorter than a nonce, else split at the nonce
\* length and open the rest.
Decrypt(k, data) ==
  IF Len(data) < NonceLen THEN Err
  ELSE Open(k, SubSeq(data, 1, NonceLen), SubSeq(data, NonceLen + 1, Len(data)))

-----------------------------------------------------------------------------
(* Inputs: a key, the nonce encrypt draws and the data.                    *)

VARIABLES key, nonce, plain

cipherVars == <<key, nonce, plain>>

SeqsUpTo(n) == UNION {[1..l -> Bytes] : l \in 0..n}

CipherInit ==
  /\ key \in Keys
  /\ nonce \in [1..NonceLen -> Bytes]
  /\ plain \in SeqsUpTo(MaxPlain)

CipherSpec == CipherInit /\ [][UNCHANGED cipherVars]_cipherVars

-----------------------------------------------------------------------------
(* Properties                                                              *)

\* decrypt gives back exactly the data encrypt sealed, whatever nonce
\* encrypt drew: the frame layout (nonce first) and the split in decrypt
\* agree.
CipherRoundTrip == Decrypt(key, Encrypt(key, nonce, plain)) = Ok(plain)

=============================================================================
