----------------------------- MODULE SealedBox -----------------------------
(***************************************************************************)
(* Sealed messages (src/core/iedb-crypto/src/aead.rs): a box sealed with   *)
(* the stable keys of two parties, as it travels to the one that opens it. *)
(* On the way it may lose its end, have a byte flipped, or be joined with  *)
(* another box.  Bytes are those of module CipherBytes; the key agreement  *)
(* is symbolic.                                                            *)
(***************************************************************************)
EXTENDS CipherBytes

CONSTANTS
  Boxes,      \* calls of seal
  Parties,    \* identities; each has a secret, an address and what they derive
  Texts       \* plaintexts

BoxLen == NonceLen + CiphertextLen

ASSUME BoxAssumption == Nothing \notin [from : Parties, to : Parties, text : Texts]

VARIABLES
  boxed,      \* sender, receiver and plaintext of each call of seal
  transit,    \* the bytes under way
  unboxed     \* the last call of open and its result

boxVars == <<boxed, transit, unboxed>>

---------------------------------------------------------------------------
(* Identity: the X25519 secret comes from the seed, the public key from    *)
(* the Ed25519 address, and the two belong together.                       *)

X25519Secret(p) == <<"secret", p>>
X25519Public(p) == <<"public", p>>

\* ChaChaBox::new: what a secret and a public key agree on, from either end.
SenderFirst(public, secret) == <<secret[2], public[2]>>
Agreed(public, secret) == {secret[2], public[2]}

BoxZeroed(b) == Zeros(NonceLen) \o NonceBytes(b) \o Ciphertext(b)
Box(b) == NonceBytes(b) \o Ciphertext(b)

BoxKey(m) == Agreed(X25519Public(m.to), X25519Secret(m.from))

Unboxed(key, nonce, ciphertext) ==
  {boxed[b].text : b \in {b \in Boxes :
     /\ boxed[b] # Nothing
     /\ key = BoxKey(boxed[b])
     /\ nonce = NonceBytes(b)
     /\ ciphertext = Ciphertext(b)}}

TooShort(bytes) == Len(bytes) < NonceLen

\* aead::open.
OpenBytes(bytes, secret, public) ==
  IF TooShort(bytes) THEN <<"seal failed">>
  ELSE LET text == Unboxed(Agreed(public, secret), SubSeq(bytes, 1, NonceLen),
                           SubSeq(bytes, NonceLen + 1, Len(bytes)))
       IN IF text = {} THEN <<"seal failed">> ELSE <<"text", CHOOSE t \in text : TRUE>>

---------------------------------------------------------------------------
BoxInit == /\ boxed = [b \in Boxes |-> Nothing]
           /\ transit = <<>>
           /\ unboxed = Nothing

\* aead::seal, each box with its own nonce.
SealBox(b, from, to, text) ==
  /\ boxed[b] = Nothing
  /\ boxed' = [boxed EXCEPT ![b] = [from |-> from, to |-> to, text |-> text]]
  /\ UNCHANGED <<transit, unboxed>>

\* A sealed box arrives: all of it, its start only, or its start before the end of what
\* arrived earlier.
Deliver(b, n) ==
  /\ boxed[b] # Nothing
  /\ n \in 0..Len(Box(b))
  /\ \E rest \in {<<>>, SubSeq(transit, n + 1, Len(transit))} :
       transit' = SubSeq(Box(b), 1, n) \o rest
  /\ unboxed' = Nothing
  /\ UNCHANGED boxed

FlipByte(i) ==
  /\ i \in DOMAIN transit
  /\ transit' = [transit EXCEPT ![i] = <<"flipped">>]
  /\ unboxed' = Nothing
  /\ UNCHANGED boxed

OpenBox(receiver, sender) ==
  /\ unboxed' = [receiver |-> receiver, sender |-> sender,
                result |-> OpenBytes(transit, X25519Secret(receiver), X25519Public(sender))]
  /\ UNCHANGED <<boxed, transit>>

BoxNext ==
  \/ \E b \in Boxes, from, to \in Parties, text \in Texts : SealBox(b, from, to, text)
  \/ \E b \in Boxes, n \in 0..BoxLen : Deliver(b, n)
  \/ \E i \in 1..BoxLen : FlipByte(i)
  \/ \E receiver, sender \in Parties : OpenBox(receiver, sender)

BoxSpec == BoxInit /\ [][BoxNext]_boxVars

---------------------------------------------------------------------------
(* Properties.                                                             *)

\* No more bytes travel than the wire layout of aead.rs:33-34 has.
BoxTypeOK ==
  /\ boxed \in [Boxes -> [from : Parties, to : Parties, text : Texts] \union {Nothing}]
  /\ Len(transit) <= BoxLen
  /\ unboxed = Nothing \/ {unboxed.receiver, unboxed.sender} \subseteq Parties

\* A whole box opens to its text for the two parties it was sealed between, at either
\* end since their shared secret is the same (aead.rs:55-58); nothing else ever opens: no
\* other party, no truncation, no mixture and no flipped byte.
OpensForItsPair ==
  unboxed # Nothing =>
    \A text \in Texts :
      unboxed.result = <<"text", text>> <=>
        \E b \in Boxes : /\ boxed[b] # Nothing
                         /\ transit = Box(b)
                         /\ boxed[b].text = text
                         /\ {unboxed.receiver, unboxed.sender} = {boxed[b].from, boxed[b].to}
=============================================================================
