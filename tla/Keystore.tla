------------------------------ MODULE Keystore ------------------------------
(***************************************************************************)
(* The encrypted keystore (EncryptedKeystore in                            *)
(* src/core/iedb-crypto/src/crypto.rs): a blob that seals an identity's    *)
(* seed under a passphrase, and the same bytes read back later, after what *)
(* may happen to bytes at rest: a write torn by a crash, a truncation, a   *)
(* flipped bit.                                                            *)
(*                                                                         *)
(* Bytes are those of module CipherBytes; the cipher and Argon2 are        *)
(* symbolic.                                                               *)
(***************************************************************************)
EXTENDS CipherBytes

CONSTANTS
  Seals,        \* calls of EncryptedKeystore::seal
  Seeds,        \* identities, named by their seed
  Passphrases,
  SaltLen

HeaderLen == 1 + SaltLen + NonceLen
BlobLen == HeaderLen + CiphertextLen

ASSUME SaltAssumption == SaltLen \in Nat \ {0}
ASSUME SealAssumption == Nothing \notin [seed : Seeds, pass : Passphrases]

VARIABLES
  sealed,   \* the seed and passphrase of each call of seal
  disk,     \* the bytes its caller keeps
  opened    \* the last call of open: its passphrase and its result

keystoreVars == <<sealed, disk, opened>>

---------------------------------------------------------------------------
(* The blob: version(1) || salt || nonce || ciphertext.                    *)

KeystoreVersion == <<"version 2">>
Salt(s) == Field("salt", SaltLen, s)

BlobZeroed(s) ==
  Zeros(HeaderLen) \o <<KeystoreVersion>> \o Salt(s) \o NonceBytes(s) \o Ciphertext(s)
BlobNonceFirst(s) == <<KeystoreVersion>> \o NonceBytes(s) \o Salt(s) \o Ciphertext(s)
Blob(s) == <<KeystoreVersion>> \o Salt(s) \o NonceBytes(s) \o Ciphertext(s)

DeriveKey(pass, salt) == <<pass, salt>>

\* ChaCha20Poly1305: what a key, a nonce and a ciphertext that belong together hold.
Decrypted(key, nonce, ciphertext) ==
  {sealed[s].seed : s \in {s \in Seals :
     /\ sealed[s] # Nothing
     /\ key = DeriveKey(sealed[s].pass, Salt(s))
     /\ nonce = NonceBytes(s)
     /\ ciphertext = Ciphertext(s)}}

Malformed(blob) == Len(blob) <= HeaderLen \/ blob[1] # KeystoreVersion

\* EncryptedKeystore::open.
OpenBlob(blob, pass) ==
  IF Malformed(blob) THEN <<"malformed">>
  ELSE LET salt == SubSeq(blob, 2, 1 + SaltLen)
           nonce == SubSeq(blob, 2 + SaltLen, HeaderLen)
           ciphertext == SubSeq(blob, HeaderLen + 1, Len(blob))
           plain == Decrypted(DeriveKey(pass, salt), nonce, ciphertext)
       IN IF plain = {} THEN <<"seal failed">>
          ELSE <<"identity", CHOOSE seed \in plain : TRUE>>

---------------------------------------------------------------------------
KeystoreInit == /\ sealed = [s \in Seals |-> Nothing]
                /\ disk = <<>>
                /\ opened = Nothing

\* EncryptedKeystore::seal, each with its own salt and nonce.
Seal(s, seed, pass) ==
  /\ sealed[s] = Nothing
  /\ sealed' = [sealed EXCEPT ![s] = [seed |-> seed, pass |-> pass]]
  /\ UNCHANGED <<disk, opened>>

\* The caller writes the blob over what it kept before; a crash may stop it anywhere.
Write(s, n) ==
  /\ sealed[s] # Nothing
  /\ n \in 0..Len(Blob(s))
  /\ disk' = SubSeq(Blob(s), 1, n) \o SubSeq(disk, n + 1, Len(disk))
  /\ opened' = Nothing
  /\ UNCHANGED sealed

\* The end of the blob is lost.
Truncate(n) ==
  /\ n < Len(disk)
  /\ disk' = SubSeq(disk, 1, n)
  /\ opened' = Nothing
  /\ UNCHANGED sealed

\* A byte is no longer what was written.
Flip(i) ==
  /\ i \in DOMAIN disk
  /\ disk' = [disk EXCEPT ![i] = <<"flipped">>]
  /\ opened' = Nothing
  /\ UNCHANGED sealed

Open(pass) ==
  /\ opened' = [pass |-> pass, result |-> OpenBlob(disk, pass)]
  /\ UNCHANGED <<sealed, disk>>

KeystoreNext ==
  \/ \E s \in Seals, seed \in Seeds, pass \in Passphrases : Seal(s, seed, pass)
  \/ \E s \in Seals, n \in 0..BlobLen : Write(s, n)
  \/ \E n \in 0..BlobLen : Truncate(n) \/ Flip(n)
  \/ \E pass \in Passphrases : Open(pass)

KeystoreSpec == KeystoreInit /\ [][KeystoreNext]_keystoreVars

---------------------------------------------------------------------------
(* Properties.                                                             *)

\* What is kept is never longer than the layout of crypto.rs:164.
KeystoreTypeOK ==
  /\ sealed \in [Seals -> [seed : Seeds, pass : Passphrases] \union {Nothing}]
  /\ Len(disk) <= BlobLen
  /\ opened = Nothing \/ opened.pass \in Passphrases

\* The seal whose blob the disk holds, whole and unmixed.
Intact(s) == sealed[s] # Nothing /\ disk = Blob(s)

\* open gives an identity exactly when every byte is that of one seal and the passphrase
\* is the one of that seal, and then it is the identity that was sealed: no prefix, no
\* mixture of two seals and no single byte of another opens (crypto.rs:193-215).
OpensIffIntact ==
  opened # Nothing =>
    \A seed \in Seeds :
      opened.result = <<"identity", seed>> <=>
        \E s \in Seals : Intact(s) /\ sealed[s] = [seed |-> seed, pass |-> opened.pass]
=============================================================================
