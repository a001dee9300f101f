----------------------------- MODULE IedbCrypto -----------------------------
(***************************************************************************)
(* The crate src/core/iedb-crypto (src/lib.rs): its parts side by side.    *)
(*                                                                         *)
(* No part calls another and none shares state, so what one does is the    *)
(* same whatever the others have done.  A behaviour uses one part, and the *)
(* others stay as they began; their product would add states and nothing   *)
(* to see.                                                                 *)
(***************************************************************************)
EXTENDS TokenLedger, MerkleRange, Jcs, Keystore, SealedBox

crateVars == <<ledgerVars, merkleVars, jcsVars, keystoreVars, boxVars>>

CrateInit == LedgerInit /\ MerkleInit /\ JcsInit /\ KeystoreInit /\ BoxInit

CrateNext ==
  \/ /\ MerkleInit /\ JcsInit /\ KeystoreInit /\ BoxInit
     /\ LedgerNext
     /\ UNCHANGED <<merkleVars, jcsVars, keystoreVars, boxVars>>
  \/ /\ LedgerInit /\ JcsInit /\ KeystoreInit /\ BoxInit
     /\ MerkleNext
     /\ UNCHANGED <<ledgerVars, jcsVars, keystoreVars, boxVars>>
  \/ /\ LedgerInit /\ MerkleInit /\ KeystoreInit /\ BoxInit
     /\ JcsNext
     /\ UNCHANGED <<ledgerVars, merkleVars, keystoreVars, boxVars>>
  \/ /\ LedgerInit /\ MerkleInit /\ JcsInit /\ BoxInit
     /\ KeystoreNext
     /\ UNCHANGED <<ledgerVars, merkleVars, jcsVars, boxVars>>
  \/ /\ LedgerInit /\ MerkleInit /\ JcsInit /\ KeystoreInit
     /\ BoxNext
     /\ UNCHANGED <<ledgerVars, merkleVars, jcsVars, keystoreVars>>

CrateSpec == CrateInit /\ [][CrateNext]_crateVars

\* The type invariant of every part: among others a token's id is that of its content,
\* the two counts of the leaves agree, a signed message is made of bytes, and no blob
\* is longer than its layout (tokens/mod.rs:96-103, merkle/mod.rs:34-41, jcs.rs:39,
\* crypto.rs:164, aead.rs:33-34).
CrateTypeOK == TokenTypeOK /\ MerkleTypeOK /\ JcsTypeOK /\ KeystoreTypeOK /\ BoxTypeOK
=============================================================================
