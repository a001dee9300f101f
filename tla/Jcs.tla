-------------------------------- MODULE Jcs --------------------------------
(***************************************************************************)
(* The canonical signing seam (src/core/iedb-crypto/src/jcs.rs): the bytes *)
(* a JSON payload is signed over, and what survives the hops between the   *)
(* signer and the verifier.  A document on the wire is parsed by           *)
(* serde_json into a value, the value is written in canonical form, and    *)
(* that form with the timestamp is the message.                            *)
(*                                                                         *)
(* Here strings are sequences of code points and the output is a sequence  *)
(* of bytes.  Integers have the widths MinSigned..MaxUnsigned instead of   *)
(* i64 and u64, a timestamp has two bytes instead of eight, and a          *)
(* signature is the message it was made for (module Vault has the keys).   *)
(***************************************************************************)
EXTENDS Integers, SequencesExt

CONSTANTS
  Documents,    \* the JSON documents that travel
  Stamps,       \* the timestamps that travel with them
  MinSigned,    \* i64::MIN
  MaxUnsigned,  \* u64::MAX
  MaxDepth      \* bound: how deep documents are nested

ASSUME WidthAssumption == /\ MinSigned \in Int /\ MaxUnsigned \in Int /\ MaxDepth \in Nat
                          /\ MinSigned < 0 /\ MaxUnsigned > 0

ASSUME StampAssumption == \A t \in Stamps : t \in Int /\ -32768 <= t /\ t < 32768

VARIABLES
  sent,       \* the document and timestamp handed to sign_payload
  signature,  \* what sign_payload returned
  arrived,    \* the document and timestamp as they reach the verifier
  verdict     \* what verify_payload returned

jcsVars == <<sent, signature, arrived, verdict>>

None == <<>>
Pending == "pending"

---------------------------------------------------------------------------
(* Documents and values.  A document has what was written, a value what    *)
(* serde_json makes of it: an object becomes a map, in which the last of   *)
(* two members with the same key stays; a number that fits neither u64 nor *)
(* i64 becomes a float.                                                    *)

\* char: the code points but the surrogates.
Chars == {c \in Nat : c <= 1114111 /\ c \notin 55296..57343}
Strings == Seq(Chars)

Scalars == [kind : {"null"}]
             \union [kind : {"bool"}, is : BOOLEAN]
             \union [kind : {"number"}, of : Int, float : BOOLEAN]
             \union [kind : {"string"}, text : Strings]

DocsAround(inner) ==
  Scalars \union [kind : {"array"}, items : Seq(inner)]
          \union [kind : {"object"}, fields : Seq([key : Strings, value : inner])]
Docs[depth \in 0..MaxDepth] == IF depth = 0 THEN Scalars ELSE DocsAround(Docs[depth - 1])

ASSUME DocumentsAssumption == Documents \subseteq Docs[MaxDepth]

Parser(doc, inner) ==
  CASE doc.kind = "array" -> [kind |-> "array", items |-> [i \in DOMAIN doc.items |-> inner[doc.items[i]]]]
    [] doc.kind = "object" ->
         LET last == {i \in DOMAIN doc.fields :
                        \A j \in DOMAIN doc.fields :
                          doc.fields[j].key = doc.fields[i].key => j <= i}
         IN  [kind |-> "object",
              map  |-> {[key   |-> doc.fields[i].key,
                         value |-> inner[doc.fields[i].value]] : i \in last}]
    [] doc.kind = "number" ->
         [doc EXCEPT !.float = doc.float \/ doc.of \notin MinSigned..MaxUnsigned]
    [] OTHER -> doc
Parsed[depth \in 0..MaxDepth] ==
  [doc \in Docs[depth] |-> Parser(doc, IF depth = 0 THEN None ELSE Parsed[depth - 1])]
Parse(doc) == Parsed[MaxDepth][doc]

\* A map is the set of its members, one for each key.
Maps(inner) ==
  {map \in SUBSET [key : Strings, value : inner] :
     /\ IsFiniteSet(map)
     /\ \A m, n \in map : m.key = n.key => m = n}

ValuesAround(inner) ==
  Scalars \union [kind : {"array"}, items : Seq(inner)]
          \union [kind : {"object"}, map : Maps(inner)]
Values[depth \in 0..MaxDepth] == IF depth = 0 THEN Scalars ELSE ValuesAround(Values[depth - 1])

---------------------------------------------------------------------------
(* Characters.                                                             *)

Quote == 34        \* "
Backslash == 92    \* \

\* String::push: the UTF-8 bytes of a code point.
Latin1(c) == <<c>>
Utf8(c) ==
  LET tail(shift) == 128 + ((c \div shift) % 64)
  IN CASE c < 128 -> <<c>>
       [] c >= 128 /\ c < 2048 -> <<192 + c \div 64, tail(1)>>
       [] c >= 2048 /\ c < 65536 -> <<224 + c \div 4096, tail(64), tail(1)>>
       [] c >= 65536 -> <<240 + c \div 262144, tail(4096), tail(64), tail(1)>>

\* str::encode_utf16: one unit, or a surrogate pair.
CodePoint(c) == <<c>>
Utf16(c) == IF c < 65536 THEN <<c>>
            ELSE <<55296 + (c - 65536) \div 1024, 56320 + ((c - 65536) % 1024)>>

Utf16Units(s) == FlattenSeq([i \in DOMAIN s |-> Utf16(s[i])])

\* Slices and iterators compare lexicographically.
Precedes(s, t) ==
  \/ IsStrictPrefix(s, t)
  \/ \E i \in DOMAIN s \intersect DOMAIN t :
       s[i] < t[i] /\ \A j \in 1..(i - 1) : s[j] = t[j]

Utf16Cmp(a, b) == Precedes(Utf16Units(a), Utf16Units(b))

HexDigit(n) == IF n < 10 THEN 48 + n ELSE 87 + n
EscapeQuotes(c) == IF c \in {Quote, Backslash} THEN <<Backslash, c>> ELSE Utf8(c)
EscapeControls(c) ==
  IF c < 32 THEN <<Backslash, 117, 48, 48, HexDigit(c \div 16), HexDigit(c % 16)>> ELSE Utf8(c)
Escape(c) ==
  CASE c \in {Quote, Backslash} -> <<Backslash, c>>
    [] c = 8  -> <<Backslash, 98>>      \* \b
    [] c = 12 -> <<Backslash, 102>>     \* \f
    [] c = 10 -> <<Backslash, 110>>     \* \n
    [] c = 13 -> <<Backslash, 114>>     \* \r
    [] c = 9  -> <<Backslash, 116>>     \* \t
    [] c < 32 /\ c \notin {8, 9, 10, 12, 13} ->
         <<Backslash, 117, 48, 48, HexDigit(c \div 16), HexDigit(c % 16)>>
    [] OTHER -> Utf8(c)

---------------------------------------------------------------------------
(* The canonical form.  Err is no byte: it stands for the error that a `?` *)
(* carries out of the recursion.                                           *)

Err == -1
Refused == <<Err>>

WriteString(s) == <<Quote>> \o FlattenSeq([i \in DOMAIN s |-> Escape(s[i])]) \o <<Quote>>

Digits[n \in Nat] == IF n < 10 THEN <<48 + n>> ELSE Append(Digits[n \div 10], 48 + (n % 10))
Decimal(n) == IF n < 0 THEN <<45>> \o Digits[-n] ELSE Digits[n]

WriteNumberRounded(n) == Decimal(n.of)
WriteNumber(n) == IF n.float THEN Refused ELSE Decimal(n.of)

\* The separators push(',') writes between the parts of an array or object.
Commas(parts) ==
  FlattenSeq([i \in DOMAIN parts |-> (IF i > 1 THEN <<44>> ELSE <<>>) \o parts[i]])

Keys(map) ==
  LET keys     == {m.key : m \in map}
      Place(k) == Cardinality({x \in keys : x = k \/ Utf16Cmp(x, k)})
  IN  [i \in 1..Cardinality(keys) |-> CHOOSE k \in keys : Place(k) = i]
Get(map, k) == (CHOOSE m \in map : m.key = k).value

Writer(v, inner) ==
  CASE v.kind = "null"   -> <<110, 117, 108, 108>>
    [] v.kind = "bool"   -> IF v.is THEN <<116, 114, 117, 101>> ELSE <<102, 97, 108, 115, 101>>
    [] v.kind = "number" -> WriteNumber(v)
    [] v.kind = "string" -> WriteString(v.text)
    [] v.kind = "array"  -> <<91>> \o Commas([i \in DOMAIN v.items |-> inner[v.items[i]]]) \o <<93>>
    [] v.kind = "object" ->
         LET keys == Keys(v.map)
             member(k) == WriteString(k) \o <<58>> \o inner[Get(v.map, k)]
         IN  <<123>> \o Commas([i \in DOMAIN keys |-> member(keys[i])]) \o <<125>>
Written[depth \in 0..MaxDepth] ==
  [v \in Values[depth] |-> Writer(v, IF depth = 0 THEN None ELSE Written[depth - 1])]
WriteValue(v) == Written[MaxDepth][v]

Canonicalize(v) == LET out == WriteValue(v) IN IF Contains(out, Err) THEN Refused ELSE out

\* i64::to_le_bytes, at two bytes.
LittleEndian(t) == <<t % 256, (t \div 256) % 256>>

CanonicalMessage(v, t) ==
  LET canonical == Canonicalize(v)
  IN IF canonical = Refused THEN Refused ELSE canonical \o <<0>> \o LittleEndian(t)

SignPayload(v, t) == CanonicalMessage(v, t)

VerifyPayload(v, t, sig) ==
  LET msg == CanonicalMessage(v, t)
  IN CASE msg = Refused -> "canonicalization"
       [] msg # Refused /\ msg = sig -> "ok"
       [] OTHER -> "signature invalid"

---------------------------------------------------------------------------
Travelling == [doc : Documents, stamp : Stamps]

JcsInit == /\ sent = None
           /\ signature = None
           /\ arrived = None
           /\ verdict = Pending

\* The signer parses its payload and signs it; the document sets out.
Sign(m) ==
  /\ sent = None
  /\ sent' = m
  /\ signature' = SignPayload(Parse(m.doc), m.stamp)
  /\ arrived' = IF signature' = Refused THEN None ELSE m
  /\ UNCHANGED verdict

InTransit == arrived # None /\ arrived = sent /\ verdict = Pending

\* A router parses the document and emits the same value in another order of members.
Reemit(doc) ==
  /\ InTransit
  /\ doc # arrived.doc /\ Parse(doc) = Parse(arrived.doc)
  /\ arrived' = [arrived EXCEPT !.doc = doc]
  /\ UNCHANGED <<sent, signature, verdict>>

\* What arrives is something else.
Alter(m) ==
  /\ InTransit
  /\ m.stamp # sent.stamp \/ Parse(m.doc) # Parse(sent.doc)
  /\ arrived' = m
  /\ UNCHANGED <<sent, signature, verdict>>

Receive ==
  /\ arrived # None
  /\ verdict = Pending
  /\ verdict' = VerifyPayload(Parse(arrived.doc), arrived.stamp, signature)
  /\ UNCHANGED <<sent, signature, arrived>>

JcsNext == \/ \E m \in Travelling : Sign(m) \/ Alter(m)
           \/ \E doc \in Documents : Reemit(doc)
           \/ Receive

JcsSpec == JcsInit /\ [][JcsNext]_jcsVars

---------------------------------------------------------------------------
(* Properties.                                                             *)

\* Everything that is signed is a sequence of bytes (jcs.rs:39 makes bytes of a String,
\* so each code point must have been encoded in UTF-8).
JcsTypeOK ==
  /\ sent \in Travelling \union {None}
  /\ arrived \in Travelling \union {None}
  /\ signature # Refused => \A i \in DOMAIN signature : signature[i] \in 0..255
  /\ verdict \in {Pending, "ok", "signature invalid", "canonicalization"}

\* The reason the module exists (jcs.rs:3-7): what is accepted is exactly what was
\* signed, as a JSON value, at the same time; no order of members in transit breaks a
\* signature, and no two different values share one.
AcceptedIffSame ==
  verdict # Pending =>
    (verdict = "ok" <=> /\ Parse(arrived.doc) = Parse(sent.doc)
                        /\ arrived.stamp = sent.stamp)

\* A value and what it has inside.
PartsOf(v, inner) ==
  {v} \union CASE v.kind = "array"  -> UNION {inner[v.items[i]] : i \in DOMAIN v.items}
               [] v.kind = "object" -> UNION {inner[m.value] : m \in v.map}
               [] OTHER -> {}
Parts[depth \in 0..MaxDepth] ==
  [v \in Values[depth] |-> PartsOf(v, IF depth = 0 THEN None ELSE Parts[depth - 1])]
HasFloat(v) == \E part \in Parts[MaxDepth][v] : part.kind = "number" /\ part.float

\* A float at any depth refuses the payload, and nothing else does (jcs.rs:22-24); a
\* float that a later member with the same key replaced is not part of the value.
FloatsAreRefused ==
  /\ sent # None => (signature = Refused <=> HasFloat(Parse(sent.doc)))
  /\ verdict # Pending => (verdict = "canonicalization" <=> HasFloat(Parse(arrived.doc)))

\* Canonical JSON holds no NUL, so the byte 0 ends it (jcs.rs:133-134).
NulSeparates ==
  sent # None /\ signature # Refused =>
    LET canonical == Canonicalize(Parse(sent.doc))
    IN ~Contains(canonical, 0) /\ IsPrefix(canonical \o <<0>>, signature)

\* UTF-16 order without UTF-16: the code points above the basic plane come just before
\* U+E000, where the surrogates are.
Rank(c) == CASE c < 57344 -> c
             [] c >= 57344 /\ c < 65536 -> c + 1048576
             [] OTHER -> c - 65536 + 57344

KeysSorted(map) ==
  LET keys == Keys(map)
      ranks(i) == [n \in DOMAIN keys[i] |-> Rank(keys[i][n])]
  IN  \A i, j \in DOMAIN keys : i < j => Precedes(ranks(i), ranks(j))

\* The members of every object come in the order RFC 8785 asks for, on and off the
\* basic plane (jcs.rs:18, 122-124): another implementation gets the same bytes.
MembersInUtf16Order ==
  sent # None =>
    \A part \in Parts[MaxDepth][Parse(sent.doc)] : part.kind = "object" => KeysSorted(part.map)
=============================================================================
