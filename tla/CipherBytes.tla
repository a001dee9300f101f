---------------------------- MODULE CipherBytes ----------------------------
(***************************************************************************)
(* What the two sealed layouts of iedb-crypto share (crypto.rs, aead.rs):  *)
(* a fresh random nonce and a ChaCha20-Poly1305 ciphertext.                *)
(*                                                                         *)
(* A byte is a tuple that says where it comes from: which field of which   *)
(* seal, and its place there; two fields of random or of sealed bytes      *)
(* never agree by chance.  The lengths are parameters, and every offset of *)
(* the code is kept.                                                       *)
(***************************************************************************)
EXTENDS Integers, Sequences

CONSTANTS
  NonceLen,
  CiphertextLen,   \* of the sealed plaintext and its tag
  Nothing

ASSUME CipherAssumption == {NonceLen, CiphertextLen} \subseteq Nat \ {0}

Field(name, len, s) == [i \in 1..len |-> <<name, s, i>>]
NonceBytes(s) == Field("nonce", NonceLen, s)
Ciphertext(s) == Field("ciphertext", CiphertextLen, s)
Zeros(len) == [i \in 1..len |-> <<"zero">>]
=============================================================================
