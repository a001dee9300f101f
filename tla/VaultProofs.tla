---------------------------- MODULE VaultProofs ----------------------------
(***************************************************************************)
(* What the verifiers accept, for any number of mints and of replaced      *)
(* fields, any set of payloads, any integer width and any TTL.             *)
(***************************************************************************)
EXTENDS Vault, TLAPS

\* The signature an envelope carries was made by a mint, or by a stranger with a key
\* of its own, or will not verify.
SignatureWasMade ==
  cred # Nothing => cred.signature \in Made \union Forged \union {Garbage, Nothing}

\* AcceptedIsAuthentic follows from it, and is not inductive without it: an accepted
\* envelope says nothing about the one that is refused and then repaired.
VaultInv == VaultTypeOK /\ SignatureWasMade /\ PaidIntentMints

---------------------------------------------------------------------------

\* Wrapping addition stays in the width...
LEMMA PlusInRange ==
  ASSUME NEW a \in Timestamp, NEW b \in (-MaxInt)..MaxInt
  PROVE  Plus(a, b) \in Timestamp
BY VaultAssumption DEF Plus, Timestamp, MinInt, Span

\* ... and a window that contains a moment not before it begins has not wrapped.
LEMMA WindowIsExact ==
  ASSUME NEW t \in Timestamp, NEW now \in Timestamp, now >= t, now < Plus(t, TTL)
  PROVE  now - t < TTL
BY VaultAssumption DEF Plus, Timestamp, MinInt, Span

\* What the envelope's verifier accepts passed every one of its checks.
LEMMA AcceptedPasses ==
  ASSUME NEW c, NEW p, NEW now
  PROVE  EnvelopeVerify(c, p, now) = "ok" <=>
           /\ c.public_key # Nothing /\ c.signature # Nothing
           /\ Canonicalizable(p)
           /\ p = c.digest
           /\ c.expires_at = Plus(c.issued_at, TTL)
           /\ now >= c.issued_at /\ now < c.expires_at
           /\ c.signature = SignPayload(c.public_key, p, c.issued_at)
BY DEF EnvelopeVerify, VerifyHandoff, StrictTtl, InWindow, Decodes

\* And so did what the vault's verifier accepts: they are the same checks.
LEMMA VaultAcceptedPasses ==
  ASSUME NEW c, NEW p, NEW now
  PROVE  VaultVerify(c, p, now) = "ok" <=>
           /\ c.public_key # Nothing /\ c.signature # Nothing
           /\ Canonicalizable(p)
           /\ p = c.digest
           /\ c.expires_at = Plus(c.issued_at, TTL)
           /\ now >= c.issued_at /\ now < c.expires_at
           /\ c.signature = SignPayload(c.public_key, p, c.issued_at)
BY DEF VaultVerify, StrictTtl, InWindow, Decodes, VerifyPayload

\* A mint of an intent's payload always passes its own chaos test.
LEMMA IntentsAreReleasable ==
  ASSUME NEW m \in Mints, NEW p \in IntentPayload, NEW now \in Timestamp
  PROVE  Releasable(m, p, now)
<1>1. p \in Payload /\ Canonicalizable(p)
  BY DEF IntentPayload, Canonicalizable
<1>2. Tampered(p) # p
  <2>1. Tampered(p).marked = TRUE
    BY <1>1 DEF Tampered, Payload
  <2>2. p.marked # TRUE
    BY DEF IntentPayload
  <2> QED BY <2>1, <2>2
<1>3. Plus(now, 1) # now /\ Plus(now, -1) # now
  BY VaultAssumption DEF Plus, Timestamp, MinInt, Span
<1>4. \A q, t : SignPayload(m, p, now) = SignPayload(m, q, t) => q = p /\ t = now
  BY DEF SignPayload, CanonicalMessage
<1> QED BY <1>1, <1>2, <1>3, <1>4 DEF Releasable, AllClear, VerifyPayload

---------------------------------------------------------------------------

\* The vault starts in the invariant.
LEMMA VaultInitEstablishes == VaultInit => VaultInv
<1> SUFFICES ASSUME VaultInit PROVE VaultInv
  OBVIOUS
<1>1. Nothing \notin IntentPayload
  BY NothingAssumption DEF IntentPayload
<1> QED BY <1>1 DEF VaultInit, VaultInv, VaultTypeOK, SignatureWasMade, PaidIntentMints

\* A mint adds to what was made, and sends out a credential signed with it.
LEMMA MintPreserves ==
  ASSUME VaultInv, NEW m \in Mints, NEW p \in Payload, NEW now \in Timestamp, Mint(m, p, now)
  PROVE  VaultInv'
<1>1. p \in Digests
  BY DEF Mint, Releasable, Digests
<1>2. CanonicalMessage(p, now) \in Message /\ SignPayload(m, p, now) \in Signature
  BY <1>1 DEF CanonicalMessage, SignPayload, Message, Signature, Keys
<1>3. NewCredential(m, p, now) \in Credential
  BY <1>1, <1>2, PlusInRange, VaultAssumption DEF NewCredential, Credential, Keys
<1>4. VaultTypeOK'
  BY <1>2, <1>3 DEF Mint, VaultInv, VaultTypeOK
<1>5. SignatureWasMade'
  <2>1. minted'[m] = CanonicalMessage(p, now) /\ minted'[m] # Nothing
    BY <1>2, NothingAssumption DEF Mint, VaultInv, VaultTypeOK
  <2>2. SignPayload(m, p, now) \in Made'
    BY <2>1 DEF Made, SignPayload
  <2> QED BY <2>2 DEF Mint, NewCredential, SignatureWasMade
<1>6. PaidIntentMints'
  BY DEF Mint, VaultInv, PaidIntentMints
<1> QED BY <1>4, <1>5, <1>6 DEF VaultInv

\* A refused payload is not an intent's.
LEMMA RefusePreserves ==
  ASSUME VaultInv, NEW m \in Mints, NEW p \in Payload, NEW now \in Timestamp, Refuse(m, p, now)
  PROVE  VaultInv'
<1>1. p \notin IntentPayload
  BY IntentsAreReleasable DEF Refuse
<1>2. VaultTypeOK' /\ SignatureWasMade' /\ PaidIntentMints'
  BY <1>1 DEF Refuse, VaultInv, VaultTypeOK, SignatureWasMade, Made, PaidIntentMints
<1> QED BY <1>2 DEF VaultInv

\* Whatever is replaced in transit, a signature comes from a mint or from a stranger,
\* or verifies nothing.
LEMMA TransitPreserves ==
  ASSUME VaultInv, Transit
  PROVE  VaultInv'
<1>1. minted' = minted /\ refused' = refused /\ Made' = Made
  BY DEF Transit, Made
<1>2. Made \subseteq Signature /\ Forged \subseteq Signature
  BY DEF Made, Forged, Signature, Keys, VaultInv, VaultTypeOK
<1>3. cred \in Credential
  BY DEF Transit, VaultInv, VaultTypeOK
<1>4. CASE \E p \in Payload : ReplacePayload(p)
  BY <1>1, <1>4 DEF ReplacePayload, VaultInv, VaultTypeOK, SignatureWasMade, PaidIntentMints
<1>5. CASE ReplaceField
  <2>1. payload' = payload
    BY <1>5 DEF ReplaceField
  <2>2. cred' \in Credential
    BY <1>2, <1>3, <1>5 DEF ReplaceField, Credential
  <2>3. cred'.signature \in Made \union Forged \union {Garbage, Nothing}
    BY <1>3, <1>5, CredentialAssumption DEF ReplaceField, Credential, VaultInv, SignatureWasMade
  <2> QED BY <1>1, <2>1, <2>2, <2>3 DEF VaultInv, VaultTypeOK, SignatureWasMade, PaidIntentMints
<1> QED BY <1>4, <1>5 DEF Transit

\* Every step preserves the invariant.
LEMMA VaultNextPreserves == VaultInv /\ [VaultNext]_vaultVars => VaultInv'
<1> SUFFICES ASSUME VaultInv, [VaultNext]_vaultVars PROVE VaultInv'
  OBVIOUS
<1>1. CASE UNCHANGED vaultVars
  BY <1>1 DEF vaultVars, VaultInv, VaultTypeOK, SignatureWasMade, Made, PaidIntentMints
<1> QED BY <1>1, MintPreserves, RefusePreserves, TransitPreserves DEF VaultNext

\* The inductive invariant holds of every behaviour.
THEOREM VaultInvariant == VaultSpec => []VaultInv
  BY VaultInitEstablishes, VaultNextPreserves, PTL DEF VaultSpec

\* The vault's variables keep their types; the wrapped expiry is an integer of the
\* same width (vault::mint).
THEOREM VaultTypeCorrect == VaultSpec => []VaultTypeOK
<1>1. VaultInv => VaultTypeOK
  BY DEF VaultInv
<1> QED BY <1>1, VaultInvariant, PTL

\* An envelope is accepted less than TTL after the time it says it was issued, and if
\* it names the key of a mint it carries what that mint signed, with that time
\* (SettlementParams::verify): no replaced field, no stranger's signature and no
\* overflow of issued_at + TTL buys a mint's credential another second or payload.
THEOREM OnlyAuthenticIsAccepted == VaultSpec => []AcceptedIsAuthentic
<1>1. VaultInv => AcceptedIsAuthentic
  <2> SUFFICES ASSUME VaultInv, cred # Nothing, NEW now \in Timestamp,
                      EnvelopeVerify(cred, payload, now) = "ok"
               PROVE  /\ now >= cred.issued_at
                      /\ now - cred.issued_at < TTL
                      /\ cred.public_key \in Mints =>
                           minted[cred.public_key] = CanonicalMessage(payload, cred.issued_at)
    BY DEF AcceptedIsAuthentic
  <2>1. /\ cred.signature # Nothing /\ cred.public_key # Nothing
        /\ now >= cred.issued_at /\ now < Plus(cred.issued_at, TTL)
        /\ cred.signature = SignPayload(cred.public_key, payload, cred.issued_at)
    BY AcceptedPasses
  <2>2. cred.issued_at \in Timestamp
    BY DEF VaultInv, VaultTypeOK, Credential
  <2>3. now - cred.issued_at < TTL
    BY <2>1, <2>2, WindowIsExact
  <2>4. ASSUME cred.public_key \in Mints
        PROVE  minted[cred.public_key] = CanonicalMessage(payload, cred.issued_at)
    <3>1. cred.signature.key = cred.public_key
      BY <2>1 DEF SignPayload
    <3>2. cred.signature # Garbage
      BY <2>1, <3>1 DEF Garbage
    <3>3. cred.signature \notin Forged
      BY <2>4, <3>1, StrangersAssumption DEF Forged
    <3>4. cred.signature \in Made
      BY <2>1, <3>2, <3>3 DEF VaultInv, SignatureWasMade
    <3>5. PICK m \in Mints : cred.signature = [key |-> m, msg |-> minted[m]]
      BY <3>4 DEF Made
    <3>6. m = cred.public_key /\ minted[m] = CanonicalMessage(payload, cred.issued_at)
      BY <2>1, <3>5 DEF SignPayload
    <3> QED BY <3>6
  <2> QED BY <2>1, <2>3, <2>4
<1> QED BY <1>1, VaultInvariant, PTL

\* The two verifiers, written apart, accept the same envelopes at the same times
\* (vault::verify, SettlementParams::verify).
THEOREM TheVerifiersAgree == VaultSpec => []VerifiersAgree
<1>1. VerifiersAgree
  BY AcceptedPasses, VaultAcceptedPasses DEF VerifiersAgree
<1> QED BY <1>1, PTL

\* No mint of an AgentIntent's payload is refused (vault::mint, chaos_test).
THEOREM PaidIntentsMint == VaultSpec => []PaidIntentMints
<1>1. VaultInv => PaidIntentMints
  BY DEF VaultInv
<1> QED BY <1>1, VaultInvariant, PTL

\* An untouched envelope is accepted in all of its window, if the expiry fits the
\* width (OneShotEnvelope::package, SettlementParams::verify).
THEOREM HonestEnvelopesAreAccepted == VaultSpec => []HonestEnvelopeAccepted
<1>1. VaultTypeOK => HonestEnvelopeAccepted
  <2> SUFFICES ASSUME VaultTypeOK, NEW m \in Mints, minted[m] # Nothing,
                      NEW now \in Timestamp,
                      now >= minted[m].timestamp, now - minted[m].timestamp < TTL,
                      minted[m].timestamp + TTL <= MaxInt
               PROVE  EnvelopeVerify(NewCredential(m, minted[m].canonical, minted[m].timestamp),
                                     minted[m].canonical, now) = "ok"
    BY DEF HonestEnvelopeAccepted
  <2> DEFINE p == minted[m].canonical
             t == minted[m].timestamp
             c == NewCredential(m, p, t)
  <2>1. p \in Digests /\ t \in Timestamp
    BY DEF VaultTypeOK, Message
  <2>2. m # Nothing /\ SignPayload(m, p, t) # Nothing
    <3>1. SignPayload(m, p, t) \in Signature
      BY <2>1 DEF SignPayload, CanonicalMessage, Signature, Message, Keys
    <3> QED BY <3>1, NothingAssumption DEF Keys
  <2>3. Plus(t, TTL) = t + TTL
    BY <2>1, VaultAssumption DEF Plus, Timestamp, MinInt
  <2>4. /\ c.public_key = m /\ c.signature = SignPayload(m, p, t) /\ c.digest = p
        /\ c.issued_at = t /\ c.expires_at = Plus(t, TTL)
    BY DEF NewCredential
  <2>5. now < Plus(t, TTL)
    BY <2>1, <2>3, VaultAssumption DEF Timestamp
  <2>6. Canonicalizable(p)
    BY <2>1 DEF Digests
  <2> HIDE DEF c
  <2>7. EnvelopeVerify(c, p, now) = "ok"
    BY <2>2, <2>4, <2>5, <2>6, AcceptedPasses
  <2> QED BY <2>7 DEF c
<1> QED BY <1>1, VaultTypeCorrect, PTL
=============================================================================
