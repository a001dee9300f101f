------------------------------- MODULE Vault -------------------------------
(***************************************************************************)
(* The Handshake vault and the settlement envelope                         *)
(* (src/desktop/hammurabi-handoff/src/{vault,settlement}.rs): a credential *)
(* is minted for a payload, packaged, and travels to a verifier that knows *)
(* nothing but the envelope.  On the way any field may be replaced.        *)
(*                                                                         *)
(* The verifier takes the public key from the envelope (settlement.rs:     *)
(* 193-209) and trusts no key beforehand, and anybody can generate a key:  *)
(* strangers sign what they like, and what they sign verifies under their  *)
(* own keys.  What acceptance says, it says of the key the envelope names. *)
(*                                                                         *)
(* Cryptography (src/core/iedb-crypto) is symbolic: a signature is the     *)
(* pair of its key and its message, a digest is what it digests, and       *)
(* nobody makes a signature without the key.  A mint's key is named by the *)
(* mint; it is dropped with the mint's stack frame.  Timestamps are        *)
(* two's-complement integers up to MaxInt, which wrap around as i64 does   *)
(* in a release build.                                                     *)
(***************************************************************************)
EXTENDS Integers

CONSTANTS
  Mints,     \* calls of vault::mint; also the ephemeral keys they generate
  Strangers, \* keys that no mint generated
  Bodies,    \* what two payloads may differ in
  TTL,       \* CREDENTIAL_TTL_SECS
  MaxInt,    \* i64::MAX
  Nothing

MinInt == -MaxInt - 1
Span == 2 * (MaxInt + 1)
Timestamp == MinInt..MaxInt

ASSUME VaultAssumption == MaxInt \in Nat /\ TTL \in 1..MaxInt
ASSUME StrangersAssumption == Mints \intersect Strangers = {}

Keys == Mints \union Strangers

\* i64 addition without overflow checks.
PlusUnbounded(a, b) == a + b
Plus(a, b) == LET s == a + b IN IF s > MaxInt THEN s - Span
                                ELSE IF s < MinInt THEN s + Span ELSE s

\* A JSON payload, as far as the vault tells two apart: whether it holds a float, and
\* whether it already is marked as the chaos test marks a payload.
Payload == [body : Bodies, float : BOOLEAN, marked : BOOLEAN]

\* What AgentIntent::payload can be: typed integer fields, and no stray key.
IntentPayload == {p \in Payload : ~p.float /\ ~p.marked}

Canonicalizable(p) == ~p.float
Digests == {p \in Payload : Canonicalizable(p)}

Message == [canonical : Digests, timestamp : Timestamp]
Signature == [key : Keys, msg : Message]
Garbage == [key |-> Nothing, msg |-> Nothing]     \* what a flipped bit makes

\* Nothing is no value of the program.
ASSUME NothingAssumption ==
  Nothing \notin Keys \union Payload \union Message \union Signature \union {Garbage}

\* The public fields of EphemeralCredential that verification reads.  Nothing stands
\* for hex that does not decode.
Credential == [public_key : Keys \union {Nothing},
               signature : Signature \union {Garbage, Nothing},
               digest : Digests, issued_at : Timestamp, expires_at : Timestamp]

ASSUME CredentialAssumption == Nothing \notin Credential

VARIABLES
  minted,    \* the payload and the time of each mint that released a credential
  refused,   \* the payload of each mint that did not
  payload,   \* the envelope in transit: the intent it carries...
  cred       \* ... and the fields of the credential that unlocks it

vaultVars == <<minted, refused, payload, cred>>

VaultTypeOK ==
  /\ minted \in [Mints -> Message \union {Nothing}]
  /\ refused \in [Mints -> Payload \union {Nothing}]
  /\ payload \in Payload \union {Nothing}
  /\ cred \in Credential \union {Nothing}

VaultInit == /\ minted = [m \in Mints |-> Nothing]
             /\ refused = [m \in Mints |-> Nothing]
             /\ payload = Nothing
             /\ cred = Nothing

---------------------------------------------------------------------------
(* jcs: the signed message and its verification.                           *)

CanonicalMessage(p, t) == [canonical |-> p, timestamp |-> t]

SignPayload(key, p, t) == [key |-> key, msg |-> CanonicalMessage(p, t)]

VerifyPayload(key, p, t, sig) == Canonicalizable(p) /\ sig = SignPayload(key, p, t)

---------------------------------------------------------------------------
(* vault::mint                                                             *)

\* The chaos test writes its marker key, whatever the payload has there.
KeepMark(p) == p
Tampered(p) == [p EXCEPT !.marked = TRUE]

\* ChaosReport::all_clear.  A flipped bit never verifies and neither does another key,
\* so those two probes add nothing here; the others depend on the payload.
AllClear(key, p, now, sig) ==
  /\ VerifyPayload(key, p, now, sig)
  /\ ~VerifyPayload(key, Tampered(p), now, sig)
  /\ ~VerifyPayload(key, p, Plus(now, 1), sig)
  /\ ~VerifyPayload(key, p, Plus(now, -1), sig)

Releasable(key, p, now) ==
  Canonicalizable(p) /\ AllClear(key, p, now, SignPayload(key, p, now))

NewCredential(m, p, now) ==
  [public_key |-> m, signature |-> SignPayload(m, p, now), digest |-> p,
   issued_at |-> now, expires_at |-> Plus(now, TTL)]

Fresh(m) == minted[m] = Nothing /\ refused[m] = Nothing

\* A mint releases a credential, and the envelope sets out.
Mint(m, p, now) ==
  /\ Fresh(m)
  /\ Releasable(m, p, now)
  /\ minted' = [minted EXCEPT ![m] = CanonicalMessage(p, now)]
  /\ payload' = p
  /\ cred' = NewCredential(m, p, now)
  /\ UNCHANGED refused

\* A mint that cannot canonicalize, or whose chaos test misbehaves, releases nothing.
Refuse(m, p, now) ==
  /\ Fresh(m)
  /\ ~Releasable(m, p, now)
  /\ refused' = [refused EXCEPT ![m] = p]
  /\ UNCHANGED <<minted, payload, cred>>

---------------------------------------------------------------------------
(* In transit, a field is replaced: by anything that needs no key, by a    *)
(* signature some mint made, or by one that a stranger makes.              *)

Forged == [key : Strangers, msg : Message]
Made == {[key |-> m, msg |-> minted[m]] : m \in {n \in Mints : minted[n] # Nothing}}

ReplacePayload(p) == payload' = p /\ UNCHANGED cred

ReplaceField ==
  /\ UNCHANGED payload
  /\ \/ \E k \in Keys \union {Nothing} : cred' = [cred EXCEPT !.public_key = k]
     \/ \E s \in Made \union Forged \union {Garbage, Nothing} : cred' = [cred EXCEPT !.signature = s]
     \/ \E p \in Digests : cred' = [cred EXCEPT !.digest = p]
     \/ \E t \in Timestamp : cred' = [cred EXCEPT !.issued_at = t]
     \/ \E t \in Timestamp : cred' = [cred EXCEPT !.expires_at = t]

Transit ==
  /\ cred # Nothing
  /\ ReplaceField \/ \E p \in Payload : ReplacePayload(p)
  /\ UNCHANGED <<minted, refused>>

VaultNext ==
  \/ \E m \in Mints, p \in Payload, now \in Timestamp : Mint(m, p, now) \/ Refuse(m, p, now)
  \/ Transit

VaultSpec == VaultInit /\ [][VaultNext]_vaultVars

---------------------------------------------------------------------------
(* The two verifiers: vault::verify, and SettlementParams::verify over     *)
(* verify_handoff.  They run the same checks in different orders.          *)

AnyTtl(c) == TRUE
StrictTtl(c) == c.expires_at = Plus(c.issued_at, TTL)

Decodes(c) == c.public_key # Nothing /\ c.signature # Nothing

InWindowOpen(c, now) == now > c.issued_at /\ now < c.expires_at
InWindow(c, now) == now >= c.issued_at /\ now < c.expires_at

VaultVerify(c, p, now) ==
  IF ~StrictTtl(c) THEN "malformed_ttl"
  ELSE IF ~InWindow(c, now) THEN "outside_validity"
  ELSE IF ~Canonicalizable(p) THEN "canonicalization"
  ELSE IF p # c.digest THEN "digest_mismatch"
  ELSE IF ~Decodes(c) THEN "malformed"
  ELSE IF ~VerifyPayload(c.public_key, p, c.issued_at, c.signature) THEN "signature_invalid"
  ELSE "ok"

VerifyHandoff(key, sig, canonical, issued, expires, now) ==
  LET c == [issued_at |-> issued, expires_at |-> expires]
  IN  IF ~StrictTtl(c) THEN "malformed_ttl"
      ELSE IF ~InWindow(c, now) THEN "outside_validity"
      ELSE IF sig # SignPayload(key, canonical, issued) THEN "signature_invalid"
      ELSE "ok"

EnvelopeNoDigest(c, p, now) ==
  IF ~Decodes(c) \/ ~Canonicalizable(p) THEN "malformed"
  ELSE VerifyHandoff(c.public_key, c.signature, p, c.issued_at, c.expires_at, now)

EnvelopeVerify(c, p, now) ==
  IF ~Decodes(c) \/ ~Canonicalizable(p) THEN "malformed"
  ELSE IF p # c.digest THEN "digest_mismatch"
  ELSE VerifyHandoff(c.public_key, c.signature, p, c.issued_at, c.expires_at, now)

---------------------------------------------------------------------------
(* Properties.                                                             *)

\* The credential is "bound to exactly one payload and one instant" and "expires 60
\* seconds after issued_at" (vault.rs:8-19): whatever was replaced in transit, a
\* verifier that accepts at time now does so less than TTL after issued_at, in exact
\* arithmetic, although expires_at is not signed and issued_at + TTL may wrap around;
\* and an envelope that names a mint's key carries what that mint signed, with that
\* time.  One that names a stranger's key may carry anything.
AcceptedIsAuthentic == cred # Nothing => \A now \in Timestamp :
  EnvelopeVerify(cred, payload, now) = "ok" =>
    /\ now >= cred.issued_at
    /\ now - cred.issued_at < TTL
    /\ cred.public_key \in Mints =>
         minted[cred.public_key] = CanonicalMessage(payload, cred.issued_at)

\* The envelope is verified "exactly as the on-chain Stylus contract would"
\* (settlement.rs:109-110): the vault's verifier and the envelope's accept the same
\* credentials at the same times, in whatever order they find a fault.
VerifiersAgree == cred # Nothing => \A now \in Timestamp :
  VaultVerify(cred, payload, now) = "ok" <=> EnvelopeVerify(cred, payload, now) = "ok"

\* An intent that was paid for is not lost to the vault: a mint whose payload is a
\* serialized AgentIntent is never refused, at any time (intent.rs:78-83,
\* server.rs:186-205).  An arbitrary JSON payload may be: a float, or the marker the
\* chaos test writes.
PaidIntentMints == \A m \in Mints : refused[m] \notin IntentPayload

\* A credential works in all of its window: an envelope nobody touched is accepted
\* from issued_at until TTL later, unless the addition overflows.
HonestEnvelopeAccepted == \A m \in Mints : minted[m] # Nothing =>
  LET p == minted[m].canonical
      t == minted[m].timestamp
  IN  \A now \in Timestamp :
        now >= t /\ now - t < TTL /\ t + TTL <= MaxInt =>
          EnvelopeVerify(NewCredential(m, p, t), p, now) = "ok"
============================================================================
