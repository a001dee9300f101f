-------------------------- MODULE IedbCryptoProofs ---------------------------
(***************************************************************************)
(* What opens, opens to what was sealed, and nothing else opens: for the   *)
(* encrypted keystore and for the sealed box, for any lengths of their     *)
(* fields, any number of seals, and any history of torn writes, cuts,      *)
(* splices and flipped bytes.  And the crate: each of its parts runs in it *)
(* as it does alone.                                                       *)
(***************************************************************************)
EXTENDS IedbCrypto, TokenLedgerProofs, MerkleProofs, JcsProofs

\* The bytes of seal s.
SealBytes(s) == {"salt", "nonce", "ciphertext"} \X {s} \X Nat

\* A field is a sequence of bytes of its seal, of its length.
LEMMA FieldBytes ==
  ASSUME NEW s, NEW name \in {"salt", "nonce", "ciphertext"}, NEW len \in Nat
  PROVE  /\ Field(name, len, s) \in Seq(SealBytes(s))
         /\ Len(Field(name, len, s)) = len
         /\ \A i \in 1..len : Field(name, len, s)[i] = <<name, s, i>>
<1>1. \A i \in 1..len : <<name, s, i>> \in SealBytes(s)
  BY DEF SealBytes
<1> QED BY <1>1 DEF Field

\* The nonce and the ciphertext.
LEMMA CommonFields ==
  ASSUME NEW s
  PROVE  /\ NonceBytes(s) \in Seq(SealBytes(s)) /\ Ciphertext(s) \in Seq(SealBytes(s))
         /\ Len(NonceBytes(s)) = NonceLen /\ Len(Ciphertext(s)) = CiphertextLen
         /\ \A i \in 1..NonceLen : NonceBytes(s)[i] = <<"nonce", s, i>>
         /\ \A i \in 1..CiphertextLen : Ciphertext(s)[i] = <<"ciphertext", s, i>>
  BY FieldBytes, CipherAssumption DEF NonceBytes, Ciphertext

---------------------------------------------------------------------------
(* Bytes joined and bytes cut, every place counted from a length.          *)

Joint(a, b) == a \o b

LEMMA JointBytes ==
  ASSUME NEW B, NEW a \in Seq(B), NEW b \in Seq(B)
  PROVE  /\ Joint(a, b) \in Seq(B)
         /\ Len(Joint(a, b)) = Len(a) + Len(b)
         /\ \A i \in 1..Len(a) : Joint(a, b)[i] = a[i]
         /\ \A i \in (Len(a) + 1)..(Len(a) + Len(b)) : Joint(a, b)[i] = b[i - Len(a)]
  BY DEF Joint

---------------------------------------------------------------------------
(* The keystore.                                                           *)

\* The bytes the disk may hold: of what was sealed so far, the version byte, and what a
\* flip leaves.
DiskBytes == {KeystoreVersion, <<"flipped">>}
               \union UNION {SealBytes(s) : s \in {s \in Seals : sealed[s] # Nothing}}

\* Nothing is on the disk that was not sealed before, so a seal made later cannot make an
\* earlier answer of open wrong.
KeystoreInv ==
  /\ KeystoreTypeOK
  /\ disk \in Seq(DiskBytes)
  /\ OpensIffIntact

LEMMA SaltBytes ==
  ASSUME NEW s
  PROVE  /\ Salt(s) \in Seq(SealBytes(s)) /\ Len(Salt(s)) = SaltLen
         /\ \A i \in 1..SaltLen : Salt(s)[i] = <<"salt", s, i>>
  BY FieldBytes, SaltAssumption DEF Salt

\* The layout of crypto.rs:164, offset by offset.
LEMMA BlobLayout ==
  ASSUME NEW s
  PROVE  /\ Blob(s) \in Seq({KeystoreVersion} \union SealBytes(s))
         /\ Len(Blob(s)) = BlobLen
         /\ Blob(s)[1] = KeystoreVersion
         /\ \A i \in 1..SaltLen : Blob(s)[1 + i] = <<"salt", s, i>>
         /\ \A i \in 1..NonceLen : Blob(s)[(1 + SaltLen) + i] = <<"nonce", s, i>>
         /\ \A i \in 1..CiphertextLen : Blob(s)[HeaderLen + i] = <<"ciphertext", s, i>>
<1>0. /\ SaltLen \in Nat /\ NonceLen \in Nat /\ CiphertextLen \in Nat
      /\ HeaderLen \in Nat /\ 1 + SaltLen \in Nat
      /\ HeaderLen = (1 + SaltLen) + NonceLen /\ BlobLen = HeaderLen + CiphertextLen
  BY SaltAssumption, CipherAssumption DEF HeaderLen, BlobLen
<1> DEFINE B == {KeystoreVersion} \union SealBytes(s)
           version == <<KeystoreVersion>>
           b1 == Joint(version, Salt(s))
           b2 == Joint(b1, NonceBytes(s))
           b3 == Joint(b2, Ciphertext(s))
<1>1. Blob(s) = b3
  BY DEF Blob, Joint
<1>2. Salt(s) \in Seq(B) /\ NonceBytes(s) \in Seq(B) /\ Ciphertext(s) \in Seq(B)
  BY SealBytes(s) \subseteq B, SaltBytes, CommonFields, SeqMonotonic
<1>3. version \in Seq(B) /\ Len(version) = 1 /\ version[1] = KeystoreVersion
  OBVIOUS
<1> HIDE DEF B, version
<1>4. /\ b1 \in Seq(B) /\ Len(b1) = (1 + SaltLen)
      /\ \A i \in 1..1 : b1[i] = version[i]
      /\ \A i \in (1 + 1)..(1 + SaltLen) : b1[i] = Salt(s)[i - 1]
  <2>1. /\ b1 \in Seq(B) /\ Len(b1) = Len(version) + Len(Salt(s))
        /\ \A i \in 1..Len(version) : b1[i] = version[i]
        /\ \A i \in (Len(version) + 1)..(Len(version) + Len(Salt(s))) :
             b1[i] = Salt(s)[i - Len(version)]
    <3>1. version \in Seq(B) /\ Salt(s) \in Seq(B)
      BY <1>2, <1>3
    <3> QED BY <3>1, JointBytes
  <2>2. Len(version) = 1 /\ Len(Salt(s)) = SaltLen
    BY <1>2, <1>3, SaltBytes
  <2> QED BY <1>0, <2>1, <2>2
<1> HIDE DEF b1
<1>5. /\ b2 \in Seq(B) /\ Len(b2) = HeaderLen
      /\ \A i \in 1..(1 + SaltLen) : b2[i] = b1[i]
      /\ \A i \in ((1 + SaltLen) + 1)..HeaderLen : b2[i] = NonceBytes(s)[i - (1 + SaltLen)]
  <2>1. /\ b2 \in Seq(B) /\ Len(b2) = Len(b1) + Len(NonceBytes(s))
        /\ \A i \in 1..Len(b1) : b2[i] = b1[i]
        /\ \A i \in (Len(b1) + 1)..(Len(b1) + Len(NonceBytes(s))) :
             b2[i] = NonceBytes(s)[i - Len(b1)]
    BY <1>2, <1>4, JointBytes
  <2>2. Len(b1) = (1 + SaltLen) /\ Len(NonceBytes(s)) = NonceLen
    BY <1>2, <1>4, CommonFields
  <2> QED BY <1>0, <2>1, <2>2
<1> HIDE DEF b2
<1>6. /\ b3 \in Seq(B) /\ Len(b3) = BlobLen
      /\ \A i \in 1..HeaderLen : b3[i] = b2[i]
      /\ \A i \in (HeaderLen + 1)..BlobLen : b3[i] = Ciphertext(s)[i - HeaderLen]
  <2>1. /\ b3 \in Seq(B) /\ Len(b3) = Len(b2) + Len(Ciphertext(s))
        /\ \A i \in 1..Len(b2) : b3[i] = b2[i]
        /\ \A i \in (Len(b2) + 1)..(Len(b2) + Len(Ciphertext(s))) :
             b3[i] = Ciphertext(s)[i - Len(b2)]
    BY <1>2, <1>5, JointBytes
  <2>2. Len(b2) = HeaderLen /\ Len(Ciphertext(s)) = CiphertextLen
    BY <1>2, <1>5, CommonFields
  <2> QED BY <1>0, <2>1, <2>2
<1> HIDE DEF b3
<1>7. b3[1] = KeystoreVersion
  <2>1. 1 \in 1..1 /\ 1 \in 1..(1 + SaltLen) /\ 1 \in 1..HeaderLen
    BY <1>0
  <2> QED BY <1>3, <1>4, <1>5, <1>6, <2>1
<1>8. ASSUME NEW i \in 1..SaltLen  PROVE b3[1 + i] = <<"salt", s, i>>
  <2>1. /\ 1 + i \in 2..(1 + SaltLen) /\ 1 + i \in 1..(1 + SaltLen)
        /\ 1 + i \in 1..HeaderLen /\ (1 + i) - 1 = i
    BY <1>0
  <2>2. b3[1 + i] = Salt(s)[i]
    BY <2>1, <1>4, <1>5, <1>6
  <2> QED BY <2>2, SaltBytes
<1>9. ASSUME NEW i \in 1..NonceLen  PROVE b3[(1 + SaltLen) + i] = <<"nonce", s, i>>
  <2>1. /\ (1 + SaltLen) + i \in ((1 + SaltLen) + 1)..HeaderLen
        /\ (1 + SaltLen) + i \in 1..HeaderLen /\ ((1 + SaltLen) + i) - (1 + SaltLen) = i
    BY <1>0
  <2>2. b3[(1 + SaltLen) + i] = NonceBytes(s)[i]
    BY <2>1, <1>5, <1>6
  <2> QED BY <2>2, CommonFields
<1>10. ASSUME NEW i \in 1..CiphertextLen
       PROVE  b3[HeaderLen + i] = <<"ciphertext", s, i>>
  <2>1. HeaderLen + i \in (HeaderLen + 1)..BlobLen /\ (HeaderLen + i) - HeaderLen = i
    BY <1>0
  <2> QED BY <2>1, <1>6, CommonFields
<1> QED BY <1>1, <1>6, <1>7, <1>8, <1>9, <1>10, Zenon DEF B

\* A sequence is its fields: same length, same byte at each place.
LEMMA SamePlaces ==
  ASSUME NEW A, NEW B, NEW a \in Seq(A), NEW b \in Seq(B), Len(a) = Len(b),
         \A i \in 1..Len(a) : a[i] = b[i]
  PROVE  a = b
<1>1. a \in Seq(A \union B) /\ b \in Seq(A \union B)
  BY SeqMonotonic
<1> QED BY <1>1, SeqEqual

\* What open cuts out of a blob ...
SaltIn(blob) == SubSeq(blob, 2, 1 + SaltLen)
NonceIn(blob) == SubSeq(blob, 2 + SaltLen, HeaderLen)
CiphertextIn(blob) == SubSeq(blob, HeaderLen + 1, Len(blob))

LEMMA PartsCut ==
  ASSUME NEW B, NEW blob \in Seq(B), Len(blob) >= HeaderLen
  PROVE  /\ SaltIn(blob) \in Seq(B) /\ Len(SaltIn(blob)) = SaltLen
         /\ \A i \in 1..SaltLen : SaltIn(blob)[i] = blob[1 + i]
         /\ NonceIn(blob) \in Seq(B) /\ Len(NonceIn(blob)) = NonceLen
         /\ \A i \in 1..NonceLen : NonceIn(blob)[i] = blob[(1 + SaltLen) + i]
         /\ CiphertextIn(blob) \in Seq(B) /\ Len(CiphertextIn(blob)) = Len(blob) - HeaderLen
         /\ \A i \in 1..(Len(blob) - HeaderLen) : CiphertextIn(blob)[i] = blob[HeaderLen + i]
<1>0. /\ SaltLen \in Nat /\ NonceLen \in Nat /\ 1 + SaltLen \in Nat /\ HeaderLen \in Nat
      /\ HeaderLen = (1 + SaltLen) + NonceLen /\ (1 + SaltLen) + 1 = 2 + SaltLen
      /\ Len(blob) \in Nat /\ Len(blob) - HeaderLen \in Nat
      /\ HeaderLen + (Len(blob) - HeaderLen) = Len(blob)
      /\ 1 + SaltLen <= Len(blob)
  BY SaltAssumption, CipherAssumption DEF HeaderLen
<1>1. /\ SaltIn(blob) \in Seq(B) /\ Len(SaltIn(blob)) = SaltLen
      /\ \A i \in 1..SaltLen : SaltIn(blob)[i] = blob[1 + i]
  BY <1>0 DEF SaltIn
<1>2. /\ NonceIn(blob) \in Seq(B) /\ Len(NonceIn(blob)) = NonceLen
      /\ \A i \in 1..NonceLen : NonceIn(blob)[i] = blob[(1 + SaltLen) + i]
  BY <1>0 DEF NonceIn
<1>3. /\ CiphertextIn(blob) \in Seq(B) /\ Len(CiphertextIn(blob)) = Len(blob) - HeaderLen
      /\ \A i \in 1..(Len(blob) - HeaderLen) : CiphertextIn(blob)[i] = blob[HeaderLen + i]
  BY <1>0 DEF CiphertextIn
<1> QED BY <1>1, <1>2, <1>3

\* ... are the parts it was sealed from ...
LEMMA PartsOfBlob ==
  ASSUME NEW s
  PROVE  /\ ~Malformed(Blob(s))
         /\ SaltIn(Blob(s)) = Salt(s)
         /\ NonceIn(Blob(s)) = NonceBytes(s)
         /\ CiphertextIn(Blob(s)) = Ciphertext(s)
<1>0. /\ CiphertextLen \in Nat \ {0} /\ HeaderLen \in Nat
      /\ BlobLen = HeaderLen + CiphertextLen /\ BlobLen - HeaderLen = CiphertextLen
  BY SaltAssumption, CipherAssumption DEF HeaderLen, BlobLen
<1>1. PICK B, blob : blob \in Seq(B) /\ blob = Blob(s)
  BY BlobLayout
<1>2. /\ Len(blob) = BlobLen /\ blob[1] = KeystoreVersion
      /\ \A i \in 1..SaltLen : blob[1 + i] = <<"salt", s, i>>
      /\ \A i \in 1..NonceLen : blob[(1 + SaltLen) + i] = <<"nonce", s, i>>
      /\ \A i \in 1..CiphertextLen : blob[HeaderLen + i] = <<"ciphertext", s, i>>
  BY <1>1, BlobLayout
<1>3. Len(blob) > HeaderLen /\ Len(blob) >= HeaderLen
  BY <1>0, <1>2
<1>4. SaltIn(blob) = Salt(s)
  <2>1. \A i \in 1..SaltLen : SaltIn(blob)[i] = Salt(s)[i]
    BY <1>1, <1>2, <1>3, PartsCut, SaltBytes
  <2>2. SaltIn(blob) \in Seq(B) /\ Salt(s) \in Seq(SealBytes(s))
        /\ Len(SaltIn(blob)) = SaltLen /\ Len(Salt(s)) = SaltLen
    BY <1>1, <1>3, PartsCut, SaltBytes
  <2> QED BY <2>1, <2>2, SamePlaces
<1>5. NonceIn(blob) = NonceBytes(s)
  <2>1. \A i \in 1..NonceLen : NonceIn(blob)[i] = NonceBytes(s)[i]
    BY <1>1, <1>2, <1>3, PartsCut, CommonFields
  <2>2. NonceIn(blob) \in Seq(B) /\ NonceBytes(s) \in Seq(SealBytes(s))
        /\ Len(NonceIn(blob)) = NonceLen /\ Len(NonceBytes(s)) = NonceLen
    BY <1>1, <1>3, PartsCut, CommonFields
  <2> QED BY <2>1, <2>2, SamePlaces
<1>6. CiphertextIn(blob) = Ciphertext(s)
  <2>1. \A i \in 1..CiphertextLen : CiphertextIn(blob)[i] = Ciphertext(s)[i]
    <3>1. Len(blob) - HeaderLen = CiphertextLen
      BY <1>0, <1>2
    <3> QED BY <1>1, <1>2, <1>3, <3>1, PartsCut, CommonFields
  <2>2. CiphertextIn(blob) \in Seq(B) /\ Ciphertext(s) \in Seq(SealBytes(s))
        /\ Len(CiphertextIn(blob)) = CiphertextLen /\ Len(Ciphertext(s)) = CiphertextLen
    <3>1. Len(blob) - HeaderLen = CiphertextLen
      BY <1>0, <1>2
    <3> QED BY <1>1, <1>3, <3>1, PartsCut, CommonFields
  <2> QED BY <2>1, <2>2, SamePlaces
<1>7. ~Malformed(blob)
  BY <1>0, <1>2, <1>3 DEF Malformed
<1> QED BY <1>1, <1>4, <1>5, <1>6, <1>7

\* ... and bytes with these parts are the blob: no offset is left unread.
LEMMA BlobOfParts ==
  ASSUME NEW s, NEW B, NEW blob \in Seq(B), ~Malformed(blob),
         SaltIn(blob) = Salt(s), NonceIn(blob) = NonceBytes(s),
         CiphertextIn(blob) = Ciphertext(s)
  PROVE  blob = Blob(s)
<1>0. /\ SaltLen \in Nat /\ NonceLen \in Nat /\ CiphertextLen \in Nat
      /\ HeaderLen \in Nat /\ HeaderLen = 1 + SaltLen + NonceLen
      /\ BlobLen = HeaderLen + CiphertextLen /\ Len(blob) \in Nat
  BY SaltAssumption, CipherAssumption DEF HeaderLen, BlobLen
<1>1. Len(blob) > HeaderLen /\ Len(blob) >= HeaderLen /\ blob[1] = KeystoreVersion
  BY <1>0 DEF Malformed
<1>3. /\ \A i \in 1..SaltLen : Salt(s)[i] = blob[1 + i]
      /\ \A i \in 1..NonceLen : NonceBytes(s)[i] = blob[(1 + SaltLen) + i]
      /\ Len(Ciphertext(s)) = Len(blob) - HeaderLen
      /\ \A i \in 1..(Len(blob) - HeaderLen) : Ciphertext(s)[i] = blob[HeaderLen + i]
  BY <1>1, PartsCut
<1>5. Len(blob) = BlobLen /\ Len(blob) - HeaderLen = CiphertextLen
  <2>1. CiphertextLen = Len(blob) - HeaderLen
    BY <1>3, CommonFields
  <2> QED BY <1>0, <2>1
<1>6. PICK A, whole : whole \in Seq(A) /\ whole = Blob(s)
  BY BlobLayout
<1>7. /\ Len(whole) = BlobLen /\ whole[1] = KeystoreVersion
      /\ \A i \in 1..SaltLen : whole[1 + i] = Salt(s)[i]
      /\ \A i \in 1..NonceLen : whole[(1 + SaltLen) + i] = NonceBytes(s)[i]
      /\ \A i \in 1..CiphertextLen : whole[HeaderLen + i] = Ciphertext(s)[i]
  BY <1>6, BlobLayout, SaltBytes, CommonFields
<1>8. ASSUME NEW i \in 1..BlobLen  PROVE blob[i] = whole[i]
  <2>1. CASE i = 1
    BY <1>1, <1>7, <2>1
  <2>2. CASE i \in 2..(1 + SaltLen)
    <3>1. i - 1 \in 1..SaltLen /\ 1 + (i - 1) = i
      BY <1>0, <2>2
    <3> QED BY <1>3, <1>7, <3>1
  <2>3. CASE i \in (2 + SaltLen)..HeaderLen
    <3>1. i - (1 + SaltLen) \in 1..NonceLen /\ (1 + SaltLen) + (i - (1 + SaltLen)) = i
      BY <1>0, <2>3
    <3> QED BY <1>3, <1>7, <3>1
  <2>4. CASE i \in (HeaderLen + 1)..BlobLen
    <3>1. i - HeaderLen \in 1..CiphertextLen /\ HeaderLen + (i - HeaderLen) = i
      BY <1>0, <2>4
    <3> QED BY <1>3, <1>5, <1>7, <3>1
  <2> QED BY <1>0, <2>1, <2>2, <2>3, <2>4
<1> QED BY <1>5, <1>6, <1>7, <1>8, SamePlaces

\* The first n bytes, and those after them.
Start(a, n) == SubSeq(a, 1, n)
Rest(a, n) == SubSeq(a, n + 1, Len(a))

LEMMA EndsCut ==
  ASSUME NEW B, NEW a \in Seq(B), NEW n \in Nat
  PROVE  /\ n <= Len(a) => Start(a, n) \in Seq(B) /\ Len(Start(a, n)) = n
         /\ Rest(a, n) \in Seq(B)
         /\ Len(Rest(a, n)) = IF n < Len(a) THEN Len(a) - n ELSE 0
<1>1. n <= Len(a) => Start(a, n) \in Seq(B) /\ Len(Start(a, n)) = n
  BY DEF Start
<1>2. Rest(a, n) \in Seq(B)
  BY DEF Rest
<1>3. Len(Rest(a, n)) = IF n < Len(a) THEN Len(a) - n ELSE 0
  BY DEF Rest
<1> QED BY <1>1, <1>2, <1>3

\* The blob of a seal is nothing but bytes of that seal, the first of its salt among them.
LEMMA NotYetSealed ==
  ASSUME NEW s \in Seals, sealed[s] = Nothing, disk \in Seq(DiskBytes)
  PROVE  disk # Blob(s)
<1> SUFFICES ASSUME disk = Blob(s) PROVE FALSE
  OBVIOUS
<1>1. 1 \in 1..SaltLen /\ 1 + 1 \in 1..BlobLen
  BY SaltAssumption, CipherAssumption DEF BlobLen, HeaderLen
<1>2. disk[1 + 1] = <<"salt", s, 1>> /\ Len(disk) = BlobLen
  BY <1>1, BlobLayout
<1>3. <<"salt", s, 1>> \in DiskBytes
  BY <1>1, <1>2, ElementOfSeq
<1>4. <<"salt", s, 1>> # KeystoreVersion /\ <<"salt", s, 1>> # <<"flipped">>
  BY DEF KeystoreVersion
<1>5. ASSUME NEW t, <<"salt", s, 1>> \in SealBytes(t)  PROVE t = s
  BY <1>5 DEF SealBytes
<1> QED BY <1>3, <1>4, <1>5 DEF DiskBytes

\* open answers with an identity exactly for a whole blob and its passphrase.
LEMMA OpenAnswers ==
  ASSUME KeystoreTypeOK, disk \in Seq(DiskBytes),
         NEW pass \in Passphrases, NEW seed \in Seeds
  PROVE  OpenBlob(disk, pass) = <<"identity", seed>>
           <=> \E s \in Seals : Intact(s) /\ sealed[s] = [seed |-> seed, pass |-> pass]
<1> DEFINE plain == Decrypted(DeriveKey(pass, SaltIn(disk)), NonceIn(disk), CiphertextIn(disk))
<1>0. HeaderLen \in Nat /\ Len(disk) \in Nat /\ NonceLen \in Nat \ {0}
  BY SaltAssumption, CipherAssumption DEF HeaderLen
<1>1. OpenBlob(disk, pass) =
        IF Malformed(disk) THEN <<"malformed">>
        ELSE IF plain = {} THEN <<"seal failed">>
        ELSE <<"identity", CHOOSE x \in plain : TRUE>>
  <2>2. CASE Malformed(disk)
    BY <2>2 DEF OpenBlob
  <2>3. CASE ~Malformed(disk)
    <3>1. OpenBlob(disk, pass) =
            IF plain = {} THEN <<"seal failed">> ELSE <<"identity", CHOOSE x \in plain : TRUE>>
      BY <2>3, Zenon DEF OpenBlob, SaltIn, NonceIn, CiphertextIn
    <3> HIDE DEF plain
    <3> QED BY <2>3, <3>1
  <2> QED BY <2>2, <2>3
<1>2. ASSUME OpenBlob(disk, pass) = <<"identity", seed>>
      PROVE  \E s \in Seals : Intact(s) /\ sealed[s] = [seed |-> seed, pass |-> pass]
  <2>1. ~Malformed(disk) /\ plain # {} /\ seed = CHOOSE x \in plain : TRUE
    <3>1. <<"identity", seed>> # <<"malformed">> /\ <<"identity", seed>> # <<"seal failed">>
      OBVIOUS
    <3>2. \A x : <<"identity", x>> = <<"identity", seed>> => x = seed
      OBVIOUS
    <3> HIDE DEF plain
    <3> QED BY <1>1, <1>2, <3>1, <3>2, Zenon
  <2>2. seed \in plain
    BY <2>1
  <2>3. PICK s \in Seals : /\ sealed[s] # Nothing /\ seed = sealed[s].seed
                           /\ DeriveKey(pass, SaltIn(disk)) = DeriveKey(sealed[s].pass, Salt(s))
                           /\ NonceIn(disk) = NonceBytes(s)
                           /\ CiphertextIn(disk) = Ciphertext(s)
    BY <2>2 DEF Decrypted
  <2>4. pass = sealed[s].pass /\ SaltIn(disk) = Salt(s)
    BY <2>3 DEF DeriveKey
  <2>5. disk = Blob(s)
    BY <2>1, <2>3, <2>4, BlobOfParts
  <2>6. sealed[s] = [seed |-> seed, pass |-> pass]
    BY <2>3, <2>4 DEF KeystoreTypeOK
  <2> QED BY <2>3, <2>5, <2>6 DEF Intact
<1>3. ASSUME NEW s \in Seals, Intact(s), sealed[s] = [seed |-> seed, pass |-> pass]
      PROVE  OpenBlob(disk, pass) = <<"identity", seed>>
  <2>1. /\ ~Malformed(disk) /\ SaltIn(disk) = Salt(s)
        /\ NonceIn(disk) = NonceBytes(s) /\ CiphertextIn(disk) = Ciphertext(s)
    BY <1>3, PartsOfBlob DEF Intact
  <2>2. ASSUME NEW t, NonceBytes(t) = NonceBytes(s)  PROVE t = s
    <3>1. 1 \in 1..NonceLen
      BY <1>0
    <3>2. NonceBytes(t)[1] = <<"nonce", t, 1>> /\ NonceBytes(s)[1] = <<"nonce", s, 1>>
      BY <3>1, CommonFields
    <3> QED BY <2>2, <3>2
  <2>3. plain \subseteq {seed}
    BY <1>3, <2>1, <2>2 DEF Decrypted
  <2>4. seed \in plain
    BY <1>3, <2>1 DEF Decrypted, DeriveKey, Intact
  <2>5. (CHOOSE x \in plain : TRUE) = seed
    BY <2>3, <2>4
  <2> QED BY <1>1, <2>1, <2>4, <2>5
<1> QED BY <1>2, <1>3

LEMMA KeystoreInitInv == KeystoreInit => KeystoreInv
<1> SUFFICES ASSUME KeystoreInit PROVE KeystoreInv
  OBVIOUS
<1>1. BlobLen \in Nat
  BY SaltAssumption, CipherAssumption DEF BlobLen, HeaderLen
<1>2. disk \in Seq(DiskBytes) /\ Len(disk) = 0
  BY DEF KeystoreInit
<1> QED BY <1>1, <1>2 DEF KeystoreInit, KeystoreInv, KeystoreTypeOK, OpensIffIntact

LEMMA KeystoreStep == KeystoreInv /\ [KeystoreNext]_keystoreVars => KeystoreInv'
<1> SUFFICES ASSUME KeystoreInv, [KeystoreNext]_keystoreVars PROVE KeystoreInv'
  OBVIOUS
<1> USE DEF KeystoreInv
<1>0. BlobLen \in Nat /\ Len(disk) \in Nat /\ Len(disk) <= BlobLen
  BY SaltAssumption, CipherAssumption DEF BlobLen, HeaderLen, KeystoreTypeOK
<1>1. ASSUME NEW s \in Seals, NEW seed \in Seeds, NEW pass \in Passphrases, Seal(s, seed, pass)
      PROVE  KeystoreInv'
  <2>1. KeystoreTypeOK'
    BY <1>1 DEF Seal, KeystoreTypeOK
  <2>2. \A t \in Seals : sealed[t] # Nothing => sealed'[t] = sealed[t]
    BY <1>1 DEF Seal, KeystoreTypeOK
  <2>3. disk' \in Seq(DiskBytes')
    <3>1. DiskBytes \subseteq DiskBytes'
      BY <2>2 DEF DiskBytes
    <3> QED BY <1>1, <3>1, SeqMonotonic DEF Seal
  <2>4. disk # Blob(s)
    BY <1>1, NotYetSealed DEF Seal
  <2>5. \A t \in Seals : t # s => sealed'[t] = sealed[t]
    BY <1>1 DEF Seal, KeystoreTypeOK
  <2>6. \A t \in Seals : /\ Intact(t)' <=> Intact(t)
                         /\ Intact(t) => sealed'[t] = sealed[t]
    BY <1>1, <2>4, <2>5 DEF Intact, Seal
  <2>7. OpensIffIntact'
    BY <1>1, <2>6 DEF OpensIffIntact, Seal
  <2> QED BY <1>1, <2>1, <2>3, <2>7 DEF Seal
<1>2. ASSUME NEW s \in Seals, NEW n \in 0..BlobLen, Write(s, n)
      PROVE  KeystoreInv'
  <2>1. Blob(s) \in Seq(DiskBytes) /\ Len(Blob(s)) = BlobLen
    <3>1. {KeystoreVersion} \union SealBytes(s) \subseteq DiskBytes
      BY <1>2 DEF Write, DiskBytes
    <3> QED BY <3>1, BlobLayout, SeqMonotonic
  <2>2. PICK start : start = Start(Blob(s), n)
    OBVIOUS
  <2>3. PICK rest : rest = Rest(disk, n)
    OBVIOUS
  <2>4. start \in Seq(DiskBytes) /\ Len(start) = n
    <3>1. n \in Nat /\ n <= Len(Blob(s))
      BY <1>0, <2>1
    <3> QED BY <2>1, <2>2, <3>1, EndsCut
  <2>5. rest \in Seq(DiskBytes) /\ Len(rest) = IF n < Len(disk) THEN Len(disk) - n ELSE 0
    <3>1. n \in Nat
      BY <1>0
    <3> QED BY <2>3, <3>1, EndsCut
  <2>6. Joint(start, rest) \in Seq(DiskBytes) /\ Len(Joint(start, rest)) = Len(start) + Len(rest)
    BY <2>4, <2>5, JointBytes
  <2>7. disk' = Joint(start, rest)
    BY <1>2, <2>2, <2>3 DEF Write, Joint, Start, Rest
  <2>8. Len(disk') <= BlobLen
    BY <1>0, <2>4, <2>5, <2>6, <2>7
  <2>9. disk' \in Seq(DiskBytes')
    BY <1>2, <2>6, <2>7 DEF Write, DiskBytes
  <2> QED BY <1>2, <2>8, <2>9 DEF Write, KeystoreTypeOK, OpensIffIntact
<1>3. ASSUME NEW n \in 0..BlobLen, Truncate(n)
      PROVE  KeystoreInv'
  <2>1. disk' \in Seq(DiskBytes) /\ Len(disk') = n
    <3>1. n \in Nat /\ n <= Len(disk) /\ disk' = Start(disk, n)
      BY <1>0, <1>3 DEF Truncate, Start
    <3> QED BY <3>1, EndsCut
  <2>2. disk' \in Seq(DiskBytes')
    BY <1>3, <2>1 DEF Truncate, DiskBytes
  <2> QED BY <1>0, <1>3, <2>1, <2>2 DEF Truncate, KeystoreTypeOK, OpensIffIntact
<1>4. ASSUME NEW i \in 0..BlobLen, Flip(i)
      PROVE  KeystoreInv'
  <2>1. <<"flipped">> \in DiskBytes
    BY DEF DiskBytes
  <2>2. i \in 1..Len(disk)
    BY <1>4 DEF Flip
  <2>3. disk' \in Seq(DiskBytes) /\ Len(disk') = Len(disk)
    BY <1>4, <2>1, <2>2, ExceptSeq DEF Flip
  <2>4. disk' \in Seq(DiskBytes')
    BY <1>4, <2>3 DEF Flip, DiskBytes
  <2> QED BY <1>0, <1>4, <2>3, <2>4 DEF Flip, KeystoreTypeOK, OpensIffIntact
<1>5. ASSUME NEW pass \in Passphrases, Open(pass)
      PROVE  KeystoreInv'
  <2>1. opened'.pass = pass /\ opened'.result = OpenBlob(disk, pass)
    BY <1>5 DEF Open
  <2>2. KeystoreTypeOK'
    BY <1>5, <2>1 DEF Open, KeystoreTypeOK
  <2>3. disk' \in Seq(DiskBytes')
    BY <1>5 DEF Open, DiskBytes
  <2>4. \A s : Intact(s)' <=> Intact(s)
    BY <1>5 DEF Open, Intact
  <2>5. OpensIffIntact'
    BY <1>5, <2>1, <2>4, OpenAnswers DEF Open, OpensIffIntact
  <2> QED BY <2>2, <2>3, <2>5
<1>6. CASE UNCHANGED keystoreVars
  BY <1>6 DEF keystoreVars, KeystoreTypeOK, DiskBytes, OpensIffIntact, Intact
<1> QED BY <1>1, <1>2, <1>3, <1>4, <1>5, <1>6 DEF KeystoreNext

\* Through every history of seals, torn writes, cuts and flips, the keystore keeps the
\* invariant.
THEOREM KeystoreKeepsInv == KeystoreSpec => []KeystoreInv
  BY KeystoreInitInv, KeystoreStep, PTL DEF KeystoreSpec

THEOREM KeystoreTyped == KeystoreSpec => []KeystoreTypeOK
<1>1. KeystoreInv => KeystoreTypeOK
  BY DEF KeystoreInv
<1> QED BY <1>1, KeystoreKeepsInv, PTL

\* EncryptedKeystore::open gives back an identity exactly when the bytes are one whole
\* blob and the passphrase is its own, and then the identity that was sealed.
THEOREM KeystoreOpensIffIntact == KeystoreSpec => []OpensIffIntact
<1>1. KeystoreInv => OpensIffIntact
  BY DEF KeystoreInv
<1> QED BY <1>1, KeystoreKeepsInv, PTL

---------------------------------------------------------------------------
(* The sealed box.                                                         *)

\* The bytes that may be under way: of boxes sealed so far, and what a flip leaves.
TransitBytes == {<<"flipped">>}
                  \union UNION {SealBytes(b) : b \in {b \in Boxes : boxed[b] # Nothing}}

BoxInv ==
  /\ BoxTypeOK
  /\ transit \in Seq(TransitBytes)
  /\ OpensForItsPair

\* The layout of aead.rs:33-34.
LEMMA BoxLayout ==
  ASSUME NEW b
  PROVE  /\ Box(b) \in Seq(SealBytes(b)) /\ Len(Box(b)) = BoxLen
         /\ \A i \in 1..NonceLen : Box(b)[i] = NonceBytes(b)[i]
         /\ \A i \in (NonceLen + 1)..BoxLen : Box(b)[i] = Ciphertext(b)[i - NonceLen]
<1>1. Box(b) = Joint(NonceBytes(b), Ciphertext(b))
  BY DEF Box, Joint
<1>2. NonceBytes(b) \in Seq(SealBytes(b)) /\ Ciphertext(b) \in Seq(SealBytes(b))
  BY CommonFields
<1>3. Len(NonceBytes(b)) = NonceLen /\ Len(Ciphertext(b)) = CiphertextLen
  BY CommonFields
<1> DEFINE box == Joint(NonceBytes(b), Ciphertext(b))
<1>4. /\ box \in Seq(SealBytes(b)) /\ Len(box) = Len(NonceBytes(b)) + Len(Ciphertext(b))
      /\ \A i \in 1..Len(NonceBytes(b)) : box[i] = NonceBytes(b)[i]
      /\ \A i \in (Len(NonceBytes(b)) + 1)..(Len(NonceBytes(b)) + Len(Ciphertext(b))) :
           box[i] = Ciphertext(b)[i - Len(NonceBytes(b))]
  BY <1>2, JointBytes
<1> QED BY <1>1, <1>3, <1>4 DEF BoxLen

\* What open cuts out of a box are its nonce and its ciphertext ...
LEMMA BoxCut ==
  ASSUME NEW b
  PROVE  /\ ~TooShort(Box(b))
         /\ Start(Box(b), NonceLen) = NonceBytes(b)
         /\ Rest(Box(b), NonceLen) = Ciphertext(b)
<1>0. NonceLen \in Nat \ {0} /\ CiphertextLen \in Nat \ {0} /\ BoxLen = NonceLen + CiphertextLen
  BY CipherAssumption DEF BoxLen
<1>1. PICK box \in Seq(SealBytes(b)) : box = Box(b)
  BY BoxLayout
<1>2. /\ Len(box) = BoxLen
      /\ \A i \in 1..NonceLen : box[i] = NonceBytes(b)[i]
      /\ \A i \in (NonceLen + 1)..BoxLen : box[i] = Ciphertext(b)[i - NonceLen]
  BY <1>1, BoxLayout
<1>3. Start(box, NonceLen) = NonceBytes(b)
  <2>1. \A i \in 1..NonceLen : Start(box, NonceLen)[i] = box[i]
    BY <1>0, <1>1, <1>2 DEF Start
  <2>2. Start(box, NonceLen) \in Seq(SealBytes(b)) /\ Len(Start(box, NonceLen)) = NonceLen
    <3>1. NonceLen \in Nat /\ NonceLen <= Len(box)
      BY <1>0, <1>2
    <3> QED BY <1>1, <3>1, EndsCut
  <2>3. \A i \in 1..NonceLen : Start(box, NonceLen)[i] = NonceBytes(b)[i]
    BY <1>2, <2>1
  <2> QED BY <2>2, <2>3, CommonFields, SamePlaces
<1>4. Rest(box, NonceLen) = Ciphertext(b)
  <2>1. \A i \in 1..CiphertextLen : Rest(box, NonceLen)[i] = box[NonceLen + i]
    BY <1>0, <1>1, <1>2 DEF Rest
  <2>2. Rest(box, NonceLen) \in Seq(SealBytes(b)) /\ Len(Rest(box, NonceLen)) = CiphertextLen
    <3>1. NonceLen \in Nat /\ NonceLen < Len(box) /\ Len(box) - NonceLen = CiphertextLen
      BY <1>0, <1>2
    <3> QED BY <1>1, <3>1, EndsCut
  <2>3. ASSUME NEW i \in 1..CiphertextLen  PROVE Rest(box, NonceLen)[i] = Ciphertext(b)[i]
    <3>1. NonceLen + i \in (NonceLen + 1)..BoxLen /\ (NonceLen + i) - NonceLen = i
      BY <1>0
    <3> QED BY <1>2, <2>1, <3>1
  <2> QED BY <2>2, <2>3, CommonFields, SamePlaces
<1>5. ~TooShort(box)
  BY <1>0, <1>2 DEF TooShort
<1> QED BY <1>1, <1>3, <1>4, <1>5

\* ... and bytes cut into these are the box.
LEMMA BoxOfParts ==
  ASSUME NEW b, NEW B, NEW bytes \in Seq(B), ~TooShort(bytes),
         Start(bytes, NonceLen) = NonceBytes(b), Rest(bytes, NonceLen) = Ciphertext(b)
  PROVE  bytes = Box(b)
<1>0. /\ NonceLen \in Nat \ {0} /\ CiphertextLen \in Nat \ {0}
      /\ BoxLen = NonceLen + CiphertextLen /\ Len(bytes) \in Nat
  BY CipherAssumption DEF BoxLen
<1>1. NonceLen <= Len(bytes)
  BY <1>0 DEF TooShort
<1>2. Len(bytes) = BoxLen
  <2>1. Len(Rest(bytes, NonceLen)) = IF NonceLen < Len(bytes) THEN Len(bytes) - NonceLen ELSE 0
    BY <1>0, EndsCut
  <2> QED BY <1>0, <1>1, <2>1, CommonFields
<1>3. \A i \in 1..NonceLen : Start(bytes, NonceLen)[i] = bytes[i]
  BY <1>0, <1>1 DEF Start
<1>4. \A i \in 1..CiphertextLen : Rest(bytes, NonceLen)[i] = bytes[NonceLen + i]
  BY <1>0, <1>2 DEF Rest
<1>5. PICK box \in Seq(SealBytes(b)) : box = Box(b)
  BY BoxLayout
<1>6. /\ Len(box) = BoxLen
      /\ \A i \in 1..NonceLen : box[i] = NonceBytes(b)[i]
      /\ \A i \in (NonceLen + 1)..BoxLen : box[i] = Ciphertext(b)[i - NonceLen]
  BY <1>5, BoxLayout
<1>7. ASSUME NEW i \in 1..BoxLen  PROVE bytes[i] = box[i]
  <2>1. CASE i \in 1..NonceLen
    BY <1>3, <1>6, <2>1
  <2>2. CASE i \in (NonceLen + 1)..BoxLen
    <3>1. i - NonceLen \in 1..CiphertextLen /\ NonceLen + (i - NonceLen) = i
      BY <1>0, <2>2
    <3> QED BY <1>4, <1>6, <2>2, <3>1
  <2> QED BY <1>0, <2>1, <2>2
<1> QED BY <1>2, <1>5, <1>6, <1>7, SamePlaces

LEMMA NotYetBoxed ==
  ASSUME NEW b \in Boxes, boxed[b] = Nothing, transit \in Seq(TransitBytes)
  PROVE  transit # Box(b)
<1> SUFFICES ASSUME transit = Box(b) PROVE FALSE
  OBVIOUS
<1>1. 1 \in 1..NonceLen /\ 1 \in 1..BoxLen
  BY CipherAssumption DEF BoxLen
<1>2. transit[1] = <<"nonce", b, 1>> /\ Len(transit) = BoxLen
  BY <1>1, BoxLayout, CommonFields
<1>3. <<"nonce", b, 1>> \in TransitBytes
  BY <1>1, <1>2, ElementOfSeq
<1>4. <<"nonce", b, 1>> # <<"flipped">>
  OBVIOUS
<1>5. ASSUME NEW t, <<"nonce", b, 1>> \in SealBytes(t)  PROVE t = b
  BY <1>5 DEF SealBytes
<1> QED BY <1>3, <1>4, <1>5 DEF TransitBytes

\* What is under way is a whole box with this text, between these two.
Whole(receiver, sender, text) ==
  \E b \in Boxes : /\ boxed[b] # Nothing
                   /\ transit = Box(b)
                   /\ boxed[b].text = text
                   /\ {receiver, sender} = {boxed[b].from, boxed[b].to}

\* open gives a text exactly for a whole box and the pair it was sealed between.
LEMMA UnboxAnswers ==
  ASSUME BoxTypeOK, transit \in Seq(TransitBytes),
         NEW receiver \in Parties, NEW sender \in Parties, NEW text \in Texts
  PROVE  OpenBytes(transit, X25519Secret(receiver), X25519Public(sender)) = <<"text", text>>
           <=> Whole(receiver, sender, text)
<1> DEFINE key == Agreed(X25519Public(sender), X25519Secret(receiver))
           plain == Unboxed(key, Start(transit, NonceLen), Rest(transit, NonceLen))
           result == OpenBytes(transit, X25519Secret(receiver), X25519Public(sender))
<1>0. NonceLen \in Nat \ {0} /\ Len(transit) \in Nat
  BY CipherAssumption
<1>1. result = IF TooShort(transit) THEN <<"seal failed">>
               ELSE IF plain = {} THEN <<"seal failed">>
               ELSE <<"text", CHOOSE t \in plain : TRUE>>
  <2>2. CASE TooShort(transit)
    BY <2>2 DEF OpenBytes
  <2>3. CASE ~TooShort(transit)
    <3>1. result = IF plain = {} THEN <<"seal failed">> ELSE <<"text", CHOOSE t \in plain : TRUE>>
      BY <2>3, Zenon DEF OpenBytes, Start, Rest
    <3> QED BY <2>3, <3>1, Zenon
  <2> QED BY <2>2, <2>3
<1>2. key = {receiver, sender}
  BY DEF Agreed, X25519Public, X25519Secret
<1>3. ASSUME NEW b \in Boxes, boxed[b] # Nothing
      PROVE  /\ BoxKey(boxed[b]) = {boxed[b].from, boxed[b].to}
             /\ boxed[b].text \in Texts
  BY <1>3 DEF BoxKey, Agreed, X25519Public, X25519Secret, BoxTypeOK
<1> HIDE DEF key, result
<1>4. ASSUME result = <<"text", text>>
      PROVE  \E b \in Boxes : /\ boxed[b] # Nothing /\ transit = Box(b)
                              /\ boxed[b].text = text
                              /\ {receiver, sender} = {boxed[b].from, boxed[b].to}
  <2>1. ~TooShort(transit) /\ plain # {} /\ text = CHOOSE t \in plain : TRUE
    <3>1. /\ <<"text", text>> # <<"seal failed">>
          /\ \A t : <<"text", t>> = <<"text", text>> => t = text
      OBVIOUS
    <3> HIDE DEF plain
    <3> QED BY <1>1, <1>4, <3>1, Zenon
  <2>2. text \in plain
    BY <2>1
  <2>3. PICK b \in Boxes : /\ boxed[b] # Nothing /\ text = boxed[b].text
                          /\ key = BoxKey(boxed[b])
                          /\ Start(transit, NonceLen) = NonceBytes(b)
                          /\ Rest(transit, NonceLen) = Ciphertext(b)
    BY <2>2 DEF Unboxed
  <2>4. transit = Box(b)
    BY <2>1, <2>3, BoxOfParts
  <2> QED BY <1>2, <1>3, <2>3, <2>4
<1>5. ASSUME NEW b \in Boxes, boxed[b] # Nothing, transit = Box(b), boxed[b].text = text,
             {receiver, sender} = {boxed[b].from, boxed[b].to}
      PROVE  result = <<"text", text>>
  <2>1. /\ ~TooShort(transit) /\ Start(transit, NonceLen) = NonceBytes(b)
        /\ Rest(transit, NonceLen) = Ciphertext(b)
    BY <1>5, BoxCut
  <2>2. ASSUME NEW t, NonceBytes(t) = NonceBytes(b)  PROVE t = b
    <3>1. 1 \in 1..NonceLen
      BY <1>0
    <3>2. NonceBytes(t)[1] = <<"nonce", t, 1>> /\ NonceBytes(b)[1] = <<"nonce", b, 1>>
      BY <3>1, CommonFields
    <3> QED BY <2>2, <3>2
  <2>3. plain \subseteq {text}
    BY <1>5, <2>1, <2>2 DEF Unboxed
  <2>4. key = BoxKey(boxed[b])
    BY <1>2, <1>3, <1>5
  <2>5. text \in plain
    BY <1>5, <2>1, <2>4 DEF Unboxed
  <2>6. (CHOOSE t \in plain : TRUE) = text
    BY <2>3, <2>5
  <2> QED BY <1>1, <2>1, <2>5, <2>6
<1> QED BY <1>4, <1>5, Zenon DEF result, Whole

LEMMA BoxInitInv == BoxInit => BoxInv
<1> SUFFICES ASSUME BoxInit PROVE BoxInv
  OBVIOUS
<1>1. BoxLen \in Nat
  BY CipherAssumption DEF BoxLen
<1>2. transit \in Seq(TransitBytes) /\ Len(transit) = 0
  BY DEF BoxInit
<1> QED BY <1>1, <1>2 DEF BoxInit, BoxInv, BoxTypeOK, OpensForItsPair

LEMMA BoxStep == BoxInv /\ [BoxNext]_boxVars => BoxInv'
<1> SUFFICES ASSUME BoxInv, [BoxNext]_boxVars PROVE BoxInv'
  OBVIOUS
<1> USE DEF BoxInv
<1>0. BoxLen \in Nat /\ Len(transit) \in Nat /\ Len(transit) <= BoxLen
  BY CipherAssumption DEF BoxLen, BoxTypeOK
<1>1. ASSUME NEW b \in Boxes, NEW from \in Parties, NEW to \in Parties, NEW text \in Texts,
             SealBox(b, from, to, text)
      PROVE  BoxInv'
  <2>1. BoxTypeOK'
    BY <1>1 DEF SealBox, BoxTypeOK
  <2>2. \A c \in Boxes : c # b => boxed'[c] = boxed[c]
    BY <1>1 DEF SealBox, BoxTypeOK
  <2>3. transit' \in Seq(TransitBytes')
    <3>1. TransitBytes \subseteq TransitBytes'
      BY <1>1, <2>2 DEF TransitBytes, SealBox
    <3> QED BY <1>1, <3>1, SeqMonotonic DEF SealBox
  <2>4. transit # Box(b) /\ boxed[b] = Nothing
    BY <1>1, NotYetBoxed DEF SealBox
  <2>5. /\ transit' = transit /\ unboxed' = unboxed
        /\ \A c \in Boxes : transit = Box(c) => boxed'[c] = boxed[c]
    BY <1>1, <2>2, <2>4 DEF SealBox
  <2>6. OpensForItsPair'
    <3> SUFFICES ASSUME unboxed # Nothing, NEW t \in Texts
                 PROVE  unboxed.result = <<"text", t>> <=>
                          \E c \in Boxes : /\ boxed'[c] # Nothing
                                           /\ transit = Box(c)
                                           /\ boxed'[c].text = t
                                           /\ {unboxed.receiver, unboxed.sender}
                                                = {boxed'[c].from, boxed'[c].to}
      BY <2>5 DEF OpensForItsPair
    <3>1. unboxed.result = <<"text", t>> <=>
            \E c \in Boxes : /\ boxed[c] # Nothing
                             /\ transit = Box(c)
                             /\ boxed[c].text = t
                             /\ {unboxed.receiver, unboxed.sender} = {boxed[c].from, boxed[c].to}
      BY DEF OpensForItsPair
    <3> QED BY <2>5, <3>1, Zenon
  <2> QED BY <1>1, <2>1, <2>3, <2>6 DEF SealBox
<1>2. ASSUME NEW b \in Boxes, NEW n \in 0..BoxLen, Deliver(b, n)
      PROVE  BoxInv'
  <2>1. Box(b) \in Seq(TransitBytes) /\ Len(Box(b)) = BoxLen
    <3>1. SealBytes(b) \subseteq TransitBytes
      BY <1>2 DEF Deliver, TransitBytes
    <3> QED BY <3>1, BoxLayout, SeqMonotonic
  <2>2. PICK start : start = Start(Box(b), n)
    OBVIOUS
  <2>3. PICK rest \in {<<>>, Rest(transit, n)} : transit' = Joint(start, rest)
    BY <1>2, <2>2 DEF Deliver, Joint, Start, Rest
  <2>4. start \in Seq(TransitBytes) /\ Len(start) = n
    <3>1. n \in Nat /\ n <= Len(Box(b))
      BY <1>0, <2>1
    <3> QED BY <2>1, <2>2, <3>1, EndsCut
  <2>5. rest \in Seq(TransitBytes) /\ Len(rest) <= IF n < Len(transit) THEN Len(transit) - n ELSE 0
    <3>1. CASE rest = <<>>
      <4>1. Len(rest) = 0 /\ rest \in Seq(TransitBytes)
        BY <3>1
      <4> QED BY <1>0, <4>1
    <3>2. CASE rest = Rest(transit, n)
      <4>1. n \in Nat
        BY <1>0
      <4>2. /\ rest \in Seq(TransitBytes)
            /\ Len(rest) = IF n < Len(transit) THEN Len(transit) - n ELSE 0
        BY <3>2, <4>1, EndsCut
      <4> QED BY <1>0, <4>1, <4>2
    <3> QED BY <2>3, <3>1, <3>2
  <2>6. Joint(start, rest) \in Seq(TransitBytes) /\ Len(Joint(start, rest)) = Len(start) + Len(rest)
    BY <2>4, <2>5, JointBytes
  <2>7. Len(transit') <= BoxLen
    <3>1. Len(rest) \in Nat
      BY <2>5
    <3> QED BY <1>0, <2>3, <2>4, <2>5, <2>6, <3>1
  <2>8. transit' \in Seq(TransitBytes')
    BY <1>2, <2>3, <2>6 DEF Deliver, TransitBytes
  <2> QED BY <1>2, <2>7, <2>8 DEF Deliver, BoxTypeOK, OpensForItsPair
<1>3. ASSUME NEW i \in 1..BoxLen, FlipByte(i)
      PROVE  BoxInv'
  <2>1. <<"flipped">> \in TransitBytes
    BY DEF TransitBytes
  <2>2. i \in 1..Len(transit)
    BY <1>3 DEF FlipByte
  <2>3. transit' \in Seq(TransitBytes) /\ Len(transit') = Len(transit)
    BY <1>3, <2>1, <2>2, ExceptSeq DEF FlipByte
  <2>4. transit' \in Seq(TransitBytes')
    BY <1>3, <2>3 DEF FlipByte, TransitBytes
  <2> QED BY <1>0, <1>3, <2>3, <2>4 DEF FlipByte, BoxTypeOK, OpensForItsPair
<1>4. ASSUME NEW receiver \in Parties, NEW sender \in Parties, OpenBox(receiver, sender)
      PROVE  BoxInv'
  <2>1. /\ unboxed'.receiver = receiver /\ unboxed'.sender = sender
        /\ unboxed'.result = OpenBytes(transit, X25519Secret(receiver), X25519Public(sender))
    BY <1>4 DEF OpenBox
  <2>2. BoxTypeOK'
    BY <1>4, <2>1 DEF OpenBox, BoxTypeOK
  <2>3. transit' \in Seq(TransitBytes')
    BY <1>4 DEF OpenBox, TransitBytes
  <2>4. OpensForItsPair'
    <3> SUFFICES ASSUME NEW t \in Texts
                 PROVE  unboxed'.result = <<"text", t>> <=>
                          \E b \in Boxes : /\ boxed[b] # Nothing
                                           /\ transit = Box(b)
                                           /\ boxed[b].text = t
                                           /\ {unboxed'.receiver, unboxed'.sender}
                                                = {boxed[b].from, boxed[b].to}
      BY <1>4 DEF OpenBox, OpensForItsPair
    <3>1. BoxTypeOK /\ transit \in Seq(TransitBytes)
      OBVIOUS
    <3>2. OpenBytes(transit, X25519Secret(receiver), X25519Public(sender)) = <<"text", t>>
            <=> Whole(receiver, sender, t)
      BY <3>1, UnboxAnswers, Zenon
    <3> QED BY <2>1, <3>2, Zenon DEF Whole
  <2> QED BY <2>2, <2>3, <2>4
<1>5. CASE UNCHANGED boxVars
  BY <1>5 DEF boxVars, BoxTypeOK, TransitBytes, OpensForItsPair
<1> QED BY <1>1, <1>2, <1>3, <1>4, <1>5 DEF BoxNext

\* Through every history of boxes cut, joined and flipped on the way, the invariant holds.
THEOREM BoxKeepsInv == BoxSpec => []BoxInv
  BY BoxInitInv, BoxStep, PTL DEF BoxSpec

THEOREM BoxTyped == BoxSpec => []BoxTypeOK
<1>1. BoxInv => BoxTypeOK
  BY DEF BoxInv
<1> QED BY <1>1, BoxKeepsInv, PTL

\* aead::open gives the text of a whole box to the two parties it was sealed between, and
\* nothing to anyone else.
THEOREM BoxOpensForItsPair == BoxSpec => []OpensForItsPair
<1>1. BoxInv => OpensForItsPair
  BY DEF BoxInv
<1> QED BY <1>1, BoxKeepsInv, PTL


---------------------------------------------------------------------------
(* The crate.                                                              *)

\* In the crate each part runs as it does alone, so what is proved of a part holds of the
\* crate (lib.rs:25-31).
THEOREM CrateRunsItsParts ==
  CrateSpec => LedgerSpec /\ MerkleSpec /\ JcsSpec /\ KeystoreSpec /\ BoxSpec
<1>1. CrateInit => LedgerInit /\ MerkleInit /\ JcsInit /\ KeystoreInit /\ BoxInit
  BY DEF CrateInit
<1>2. [CrateNext]_crateVars =>
        /\ [LedgerNext]_ledgerVars /\ [MerkleNext]_merkleVars /\ [JcsNext]_jcsVars
        /\ [KeystoreNext]_keystoreVars /\ [BoxNext]_boxVars
  BY Zenon DEF CrateNext, crateVars
<1> QED BY <1>1, <1>2, PTL DEF CrateSpec, LedgerSpec, MerkleSpec, JcsSpec, KeystoreSpec, BoxSpec

\* The type invariant of every part, at once (tokens/mod.rs:96-103, merkle/mod.rs:34-41,
\* jcs.rs:39, crypto.rs:164, aead.rs:33-34).
THEOREM CrateTypeCorrect == CrateSpec => []CrateTypeOK
<1>1. TokenTypeOK /\ MerkleTypeOK /\ JcsTypeOK /\ KeystoreTypeOK /\ BoxTypeOK => CrateTypeOK
  BY DEF CrateTypeOK
<1> QED BY <1>1, CrateRunsItsParts, LedgerTypeCorrect, MerkleTypeCorrect, JcsTyped,
           KeystoreTyped, BoxTyped, PTL
=============================================================================
