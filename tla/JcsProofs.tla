------------------------------ MODULE JcsProofs ------------------------------
(***************************************************************************)
(* The bytes that are signed tell the value, for documents of any size and *)
(* depth, any characters, any integers and any widths: a reader who knows  *)
(* where a value begins finds where it ends, and no two values are written *)
(* the same.  The members of an object come in the order of their UTF-16   *)
(* units, which no order of the document changes.                          *)
(***************************************************************************)
EXTENDS Jcs, DataInduction

---------------------------------------------------------------------------
(* The recursions over the depth of a document.                            *)

\* The bound of the depth is a number.
LEMMA DepthIsNat == MaxDepth \in Nat
BY WidthAssumption

\* The equations of the documents of each depth.
LEMMA DocsUnfold ==
  /\ Docs[0] = Scalars
  /\ \A d \in 0..(MaxDepth - 1) : Docs[d + 1] = DocsAround(Docs[d])
<1> DEFINE Next(f, d) == IF d = 0 THEN Scalars ELSE DocsAround(f[d - 1])
           Some == {n \in Nat : \E f : f = [d \in 0..n |-> Next(f, d)]}
<1>1. 0 \in Some
  <2> DEFINE f == [d \in 0..0 |-> Scalars]
  <2>1. f = [d \in 0..0 |-> Next(f, d)]
    OBVIOUS
  <2> HIDE DEF f
  <2> QED BY <2>1
<1>2. ASSUME NEW n \in Nat, n \in Some  PROVE n + 1 \in Some
  <2>1. PICK f : f = [d \in 0..n |-> Next(f, d)]
    BY <1>2
  <2> DEFINE g == [d \in 0..(n + 1) |-> IF d = n + 1 THEN Next(f, d) ELSE f[d]]
  <2>2. ASSUME NEW d \in 0..(n + 1)  PROVE g[d] = Next(g, d)
    <3>1. g[d] = Next(f, d)
      <4> HIDE DEF Next
      <4>1. d # n + 1 => f[d] = Next(f, d)
        BY <2>1
      <4> QED BY <4>1
    <3>2. d # 0 => g[d - 1] = f[d - 1]
      OBVIOUS
    <3> HIDE DEF g
    <3>3. Next(g, d) = Next(f, d)
      BY <3>2, Zenon
    <3> HIDE DEF Next
    <3> QED BY <3>1, <3>3
  <2>3. g = [d \in 0..(n + 1) |-> g[d]]
    OBVIOUS
  <2> HIDE DEF g, Next
  <2>4. g = [d \in 0..(n + 1) |-> Next(g, d)]
    BY <2>2, <2>3
  <2> QED BY <2>4
<1>3. \E f : f = [d \in 0..MaxDepth |-> Next(f, d)]
  <2>1. MaxDepth \in Some
    <3> HIDE DEF Some
    <3> QED BY <1>1, <1>2, DepthIsNat, NatSetInduction
  <2> QED BY <2>1
<1>4. Docs = [d \in 0..MaxDepth |-> Next(Docs, d)]
  BY <1>3, Zenon DEF Docs
<1>5. \A d \in 0..MaxDepth : Docs[d] = Next(Docs, d)
  <2> HIDE DEF Next
  <2> QED BY <1>4
<1>6. Docs[0] = Scalars
  <2>1. Docs[0] = Next(Docs, 0)
    <3> HIDE DEF Next
    <3> QED BY <1>5, DepthIsNat
  <2> QED BY <2>1, Zenon
<1>7. ASSUME NEW d \in 0..(MaxDepth - 1)  PROVE Docs[d + 1] = DocsAround(Docs[d])
  <2>1. Docs[d + 1] = Next(Docs, d + 1) /\ d + 1 # 0 /\ (d + 1) - 1 = d
    <3> HIDE DEF Next
    <3> QED BY <1>5, DepthIsNat
  <2> QED BY <2>1, Zenon
<1> QED BY <1>6, <1>7

\* The equations of the values of each depth.
LEMMA ValuesUnfold ==
  /\ Values[0] = Scalars
  /\ \A d \in 0..(MaxDepth - 1) : Values[d + 1] = ValuesAround(Values[d])
<1> DEFINE Next(f, d) == IF d = 0 THEN Scalars ELSE ValuesAround(f[d - 1])
           Some == {n \in Nat : \E f : f = [d \in 0..n |-> Next(f, d)]}
<1>1. 0 \in Some
  <2> DEFINE f == [d \in 0..0 |-> Scalars]
  <2>1. f = [d \in 0..0 |-> Next(f, d)]
    OBVIOUS
  <2> HIDE DEF f
  <2> QED BY <2>1
<1>2. ASSUME NEW n \in Nat, n \in Some  PROVE n + 1 \in Some
  <2>1. PICK f : f = [d \in 0..n |-> Next(f, d)]
    BY <1>2
  <2> DEFINE g == [d \in 0..(n + 1) |-> IF d = n + 1 THEN Next(f, d) ELSE f[d]]
  <2>2. ASSUME NEW d \in 0..(n + 1)  PROVE g[d] = Next(g, d)
    <3>1. g[d] = Next(f, d)
      <4> HIDE DEF Next
      <4>1. d # n + 1 => f[d] = Next(f, d)
        BY <2>1
      <4> QED BY <4>1
    <3>2. d # 0 => g[d - 1] = f[d - 1]
      OBVIOUS
    <3> HIDE DEF g
    <3>3. Next(g, d) = Next(f, d)
      BY <3>2, Zenon
    <3> HIDE DEF Next
    <3> QED BY <3>1, <3>3
  <2>3. g = [d \in 0..(n + 1) |-> g[d]]
    OBVIOUS
  <2> HIDE DEF g, Next
  <2>4. g = [d \in 0..(n + 1) |-> Next(g, d)]
    BY <2>2, <2>3
  <2> QED BY <2>4
<1>3. \E f : f = [d \in 0..MaxDepth |-> Next(f, d)]
  <2>1. MaxDepth \in Some
    <3> HIDE DEF Some
    <3> QED BY <1>1, <1>2, DepthIsNat, NatSetInduction
  <2> QED BY <2>1
<1>4. Values = [d \in 0..MaxDepth |-> Next(Values, d)]
  BY <1>3, Zenon DEF Values
<1>5. \A d \in 0..MaxDepth : Values[d] = Next(Values, d)
  <2> HIDE DEF Next
  <2> QED BY <1>4
<1>6. Values[0] = Scalars
  <2>1. Values[0] = Next(Values, 0)
    <3> HIDE DEF Next
    <3> QED BY <1>5, DepthIsNat
  <2> QED BY <2>1, Zenon
<1>7. ASSUME NEW d \in 0..(MaxDepth - 1)  PROVE Values[d + 1] = ValuesAround(Values[d])
  <2>1. Values[d + 1] = Next(Values, d + 1) /\ d + 1 # 0 /\ (d + 1) - 1 = d
    <3> HIDE DEF Next
    <3> QED BY <1>5, DepthIsNat
  <2> QED BY <2>1, Zenon
<1> QED BY <1>6, <1>7

\* The equations of the parser.
LEMMA ParsedUnfold ==
  /\ \A x \in Docs[0] : Parsed[0][x] = Parser(x, None)
  /\ \A d \in 0..(MaxDepth - 1) : \A x \in Docs[d + 1] :
       Parsed[d + 1][x] = Parser(x, Parsed[d])
<1> DEFINE Next(f, d) == [x \in Docs[d] |-> Parser(x, IF d = 0 THEN None ELSE f[d - 1])]
           Some == {n \in Nat : \E f : f = [d \in 0..n |-> Next(f, d)]}
<1>1. 0 \in Some
  <2> DEFINE f == [d \in 0..0 |-> [x \in Docs[0] |-> Parser(x, None)]]
  <2>1. f = [d \in 0..0 |-> Next(f, d)]
    OBVIOUS
  <2> HIDE DEF f
  <2> QED BY <2>1
<1>2. ASSUME NEW n \in Nat, n \in Some  PROVE n + 1 \in Some
  <2>1. PICK f : f = [d \in 0..n |-> Next(f, d)]
    BY <1>2
  <2> DEFINE g == [d \in 0..(n + 1) |-> IF d = n + 1 THEN Next(f, d) ELSE f[d]]
  <2>2. ASSUME NEW d \in 0..(n + 1)  PROVE g[d] = Next(g, d)
    <3>1. g[d] = Next(f, d)
      <4> HIDE DEF Next
      <4>1. d # n + 1 => f[d] = Next(f, d)
        BY <2>1
      <4> QED BY <4>1
    <3>2. d # 0 => g[d - 1] = f[d - 1]
      OBVIOUS
    <3> HIDE DEF g
    <3>3. Next(g, d) = Next(f, d)
      BY <3>2, Zenon
    <3> HIDE DEF Next
    <3> QED BY <3>1, <3>3
  <2>3. g = [d \in 0..(n + 1) |-> g[d]]
    OBVIOUS
  <2> HIDE DEF g, Next
  <2>4. g = [d \in 0..(n + 1) |-> Next(g, d)]
    BY <2>2, <2>3
  <2> QED BY <2>4
<1>3. \E f : f = [d \in 0..MaxDepth |-> Next(f, d)]
  <2>1. MaxDepth \in Some
    <3> HIDE DEF Some
    <3> QED BY <1>1, <1>2, DepthIsNat, NatSetInduction
  <2> QED BY <2>1
<1>4. Parsed = [d \in 0..MaxDepth |-> Next(Parsed, d)]
  BY <1>3, Zenon DEF Parsed
<1>5. \A d \in 0..MaxDepth : Parsed[d] = Next(Parsed, d)
  <2> HIDE DEF Next
  <2> QED BY <1>4
<1>6. ASSUME NEW x \in Docs[0]  PROVE Parsed[0][x] = Parser(x, None)
  <2>1. Parsed[0] = Next(Parsed, 0)
    <3> HIDE DEF Next
    <3> QED BY <1>5, DepthIsNat
  <2>2. Parsed[0] = [y \in Docs[0] |-> Parser(y, None)]
    BY <2>1, Zenon
  <2> QED BY <2>2, Zenon
<1>7. ASSUME NEW d \in 0..(MaxDepth - 1), NEW x \in Docs[d + 1]
      PROVE  Parsed[d + 1][x] = Parser(x, Parsed[d])
  <2>1. Parsed[d + 1] = Next(Parsed, d + 1) /\ d + 1 # 0 /\ (d + 1) - 1 = d
    <3> HIDE DEF Next
    <3> QED BY <1>5, DepthIsNat
  <2>2. Parsed[d + 1] = [y \in Docs[d + 1] |-> Parser(y, Parsed[d])]
    BY <2>1, Zenon
  <2> QED BY <2>2, Zenon
<1> QED BY <1>6, <1>7

\* The equations of write_value.
LEMMA WrittenUnfold ==
  /\ \A x \in Values[0] : Written[0][x] = Writer(x, None)
  /\ \A d \in 0..(MaxDepth - 1) : \A x \in Values[d + 1] :
       Written[d + 1][x] = Writer(x, Written[d])
<1> DEFINE Next(f, d) == [x \in Values[d] |-> Writer(x, IF d = 0 THEN None ELSE f[d - 1])]
           Some == {n \in Nat : \E f : f = [d \in 0..n |-> Next(f, d)]}
<1>1. 0 \in Some
  <2> DEFINE f == [d \in 0..0 |-> [x \in Values[0] |-> Writer(x, None)]]
  <2>1. f = [d \in 0..0 |-> Next(f, d)]
    OBVIOUS
  <2> HIDE DEF f
  <2> QED BY <2>1
<1>2. ASSUME NEW n \in Nat, n \in Some  PROVE n + 1 \in Some
  <2>1. PICK f : f = [d \in 0..n |-> Next(f, d)]
    BY <1>2
  <2> DEFINE g == [d \in 0..(n + 1) |-> IF d = n + 1 THEN Next(f, d) ELSE f[d]]
  <2>2. ASSUME NEW d \in 0..(n + 1)  PROVE g[d] = Next(g, d)
    <3>1. g[d] = Next(f, d)
      <4> HIDE DEF Next
      <4>1. d # n + 1 => f[d] = Next(f, d)
        BY <2>1
      <4> QED BY <4>1
    <3>2. d # 0 => g[d - 1] = f[d - 1]
      OBVIOUS
    <3> HIDE DEF g
    <3>3. Next(g, d) = Next(f, d)
      BY <3>2, Zenon
    <3> HIDE DEF Next
    <3> QED BY <3>1, <3>3
  <2>3. g = [d \in 0..(n + 1) |-> g[d]]
    OBVIOUS
  <2> HIDE DEF g, Next
  <2>4. g = [d \in 0..(n + 1) |-> Next(g, d)]
    BY <2>2, <2>3
  <2> QED BY <2>4
<1>3. \E f : f = [d \in 0..MaxDepth |-> Next(f, d)]
  <2>1. MaxDepth \in Some
    <3> HIDE DEF Some
    <3> QED BY <1>1, <1>2, DepthIsNat, NatSetInduction
  <2> QED BY <2>1
<1>4. Written = [d \in 0..MaxDepth |-> Next(Written, d)]
  BY <1>3, Zenon DEF Written
<1>5. \A d \in 0..MaxDepth : Written[d] = Next(Written, d)
  <2> HIDE DEF Next
  <2> QED BY <1>4
<1>6. ASSUME NEW x \in Values[0]  PROVE Written[0][x] = Writer(x, None)
  <2>1. Written[0] = Next(Written, 0)
    <3> HIDE DEF Next
    <3> QED BY <1>5, DepthIsNat
  <2>2. Written[0] = [y \in Values[0] |-> Writer(y, None)]
    BY <2>1, Zenon
  <2> QED BY <2>2, Zenon
<1>7. ASSUME NEW d \in 0..(MaxDepth - 1), NEW x \in Values[d + 1]
      PROVE  Written[d + 1][x] = Writer(x, Written[d])
  <2>1. Written[d + 1] = Next(Written, d + 1) /\ d + 1 # 0 /\ (d + 1) - 1 = d
    <3> HIDE DEF Next
    <3> QED BY <1>5, DepthIsNat
  <2>2. Written[d + 1] = [y \in Values[d + 1] |-> Writer(y, Written[d])]
    BY <2>1, Zenon
  <2> QED BY <2>2, Zenon
<1> QED BY <1>6, <1>7

\* The equations of the parts of a value.
LEMMA PartsUnfold ==
  /\ \A x \in Values[0] : Parts[0][x] = PartsOf(x, None)
  /\ \A d \in 0..(MaxDepth - 1) : \A x \in Values[d + 1] :
       Parts[d + 1][x] = PartsOf(x, Parts[d])
<1> DEFINE Next(f, d) == [x \in Values[d] |-> PartsOf(x, IF d = 0 THEN None ELSE f[d - 1])]
           Some == {n \in Nat : \E f : f = [d \in 0..n |-> Next(f, d)]}
<1>1. 0 \in Some
  <2> DEFINE f == [d \in 0..0 |-> [x \in Values[0] |-> PartsOf(x, None)]]
  <2>1. f = [d \in 0..0 |-> Next(f, d)]
    OBVIOUS
  <2> HIDE DEF f
  <2> QED BY <2>1
<1>2. ASSUME NEW n \in Nat, n \in Some  PROVE n + 1 \in Some
  <2>1. PICK f : f = [d \in 0..n |-> Next(f, d)]
    BY <1>2
  <2> DEFINE g == [d \in 0..(n + 1) |-> IF d = n + 1 THEN Next(f, d) ELSE f[d]]
  <2>2. ASSUME NEW d \in 0..(n + 1)  PROVE g[d] = Next(g, d)
    <3>1. g[d] = Next(f, d)
      <4> HIDE DEF Next
      <4>1. d # n + 1 => f[d] = Next(f, d)
        BY <2>1
      <4> QED BY <4>1
    <3>2. d # 0 => g[d - 1] = f[d - 1]
      OBVIOUS
    <3> HIDE DEF g
    <3>3. Next(g, d) = Next(f, d)
      BY <3>2, Zenon
    <3> HIDE DEF Next
    <3> QED BY <3>1, <3>3
  <2>3. g = [d \in 0..(n + 1) |-> g[d]]
    OBVIOUS
  <2> HIDE DEF g, Next
  <2>4. g = [d \in 0..(n + 1) |-> Next(g, d)]
    BY <2>2, <2>3
  <2> QED BY <2>4
<1>3. \E f : f = [d \in 0..MaxDepth |-> Next(f, d)]
  <2>1. MaxDepth \in Some
    <3> HIDE DEF Some
    <3> QED BY <1>1, <1>2, DepthIsNat, NatSetInduction
  <2> QED BY <2>1
<1>4. Parts = [d \in 0..MaxDepth |-> Next(Parts, d)]
  BY <1>3, Zenon DEF Parts
<1>5. \A d \in 0..MaxDepth : Parts[d] = Next(Parts, d)
  <2> HIDE DEF Next
  <2> QED BY <1>4
<1>6. ASSUME NEW x \in Values[0]  PROVE Parts[0][x] = PartsOf(x, None)
  <2>1. Parts[0] = Next(Parts, 0)
    <3> HIDE DEF Next
    <3> QED BY <1>5, DepthIsNat
  <2>2. Parts[0] = [y \in Values[0] |-> PartsOf(y, None)]
    BY <2>1, Zenon
  <2> QED BY <2>2, Zenon
<1>7. ASSUME NEW d \in 0..(MaxDepth - 1), NEW x \in Values[d + 1]
      PROVE  Parts[d + 1][x] = PartsOf(x, Parts[d])
  <2>1. Parts[d + 1] = Next(Parts, d + 1) /\ d + 1 # 0 /\ (d + 1) - 1 = d
    <3> HIDE DEF Next
    <3> QED BY <1>5, DepthIsNat
  <2>2. Parts[d + 1] = [y \in Values[d + 1] |-> PartsOf(y, Parts[d])]
    BY <2>1, Zenon
  <2> QED BY <2>2, Zenon
<1> QED BY <1>6, <1>7

---------------------------------------------------------------------------
(* Values and their parts.                                                 *)

\* The scalars, kind by kind.
LEMMA ScalarKinds ==
  ASSUME NEW v \in Scalars
  PROVE  \/ v.kind = "null" /\ v = [kind |-> "null"]
         \/ v.kind = "bool" /\ v.is \in BOOLEAN /\ v = [kind |-> "bool", is |-> v.is]
         \/ /\ v.kind = "number" /\ v.of \in Int /\ v.float \in BOOLEAN
            /\ v = [kind |-> "number", of |-> v.of, float |-> v.float]
         \/ v.kind = "string" /\ v.text \in Strings /\ v = [kind |-> "string", text |-> v.text]
<1>1. CASE v \in [kind : {"null"}]
  BY <1>1
<1>2. CASE v \in [kind : {"bool"}, is : BOOLEAN]
  BY <1>2
<1>3. CASE v \in [kind : {"number"}, of : Int, float : BOOLEAN]
  BY <1>3
<1>4. CASE v \in [kind : {"string"}, text : Strings]
  BY <1>4
<1> QED BY <1>1, <1>2, <1>3, <1>4 DEF Scalars

\* A value nested around others is a scalar, an array or an object.
LEMMA ValueKinds ==
  ASSUME NEW inner, NEW v \in ValuesAround(inner)
  PROVE  \/ v \in Scalars
         \/ v.kind = "array" /\ v.items \in Seq(inner) /\ v = [kind |-> "array", items |-> v.items]
         \/ v.kind = "object" /\ v.map \in Maps(inner) /\ v = [kind |-> "object", map |-> v.map]
<1>1. CASE v \in [kind : {"array"}, items : Seq(inner)]
  BY <1>1
<1>2. CASE v \in [kind : {"object"}, map : Maps(inner)]
  BY <1>2
<1> QED BY <1>1, <1>2 DEF ValuesAround

\* And so is a document.
LEMMA DocKinds ==
  ASSUME NEW inner, NEW doc \in DocsAround(inner)
  PROVE  \/ doc \in Scalars
         \/ doc.kind = "array" /\ doc.items \in Seq(inner)
         \/ doc.kind = "object" /\ doc.fields \in Seq([key : Strings, value : inner])
<1>1. CASE doc \in [kind : {"array"}, items : Seq(inner)]
  BY <1>1
<1>2. CASE doc \in [kind : {"object"}, fields : Seq([key : Strings, value : inner])]
  BY <1>2
<1> QED BY <1>1, <1>2 DEF DocsAround

\* The parser makes a scalar of a scalar.
LEMMA ScalarIsParsed ==
  ASSUME NEW doc \in Scalars, NEW inner
  PROVE  Parser(doc, inner) \in Scalars
<1>1. CASE doc.kind = "number"
  <2>1. doc.of \in Int /\ doc = [kind |-> "number", of |-> doc.of, float |-> doc.float]
    BY <1>1, ScalarKinds
  <2>2. Parser(doc, inner) = [doc EXCEPT !.float = doc.float \/ doc.of \notin MinSigned..MaxUnsigned]
    BY <1>1 DEF Parser
  <2>3. Parser(doc, inner) = [kind |-> "number", of |-> doc.of,
                              float |-> doc.float \/ doc.of \notin MinSigned..MaxUnsigned]
    BY <2>1, <2>2
  <2>4. (doc.float \/ doc.of \notin MinSigned..MaxUnsigned) \in BOOLEAN
    OBVIOUS
  <2>5. Parser(doc, inner) \in [kind : {"number"}, of : Int, float : BOOLEAN]
    BY <2>1, <2>3, <2>4
  <2> QED BY <2>5 DEF Scalars
<1>2. CASE doc.kind # "number"
  <2>1. Parser(doc, inner) = doc
    BY <1>2, ScalarKinds DEF Parser
  <2> QED BY <2>1
<1> QED BY <1>1, <1>2

\* The members of an object that stay.
Stay(fields, parsed, last) ==
  {[key |-> fields[i].key, value |-> parsed[fields[i].value]] : i \in last}

\* The parser makes a map of them.
LEMMA FieldsMakeAMap ==
  ASSUME NEW docs, NEW values, NEW parsed, \A x \in docs : parsed[x] \in values,
         NEW fields \in Seq([key : Strings, value : docs]),
         NEW last \in SUBSET DOMAIN fields,
         \A i \in last : \A j \in DOMAIN fields : fields[j].key = fields[i].key => j <= i
  PROVE  Stay(fields, parsed, last) \in Maps(values)
<1> DEFINE Member(i) == [key |-> fields[i].key, value |-> parsed[fields[i].value]]
           map == {Member(i) : i \in last}
<1>0. PICK members : members = [key : Strings, value : docs]
  OBVIOUS
<1>1. /\ fields \in Seq(members) /\ Len(fields) \in Nat /\ DOMAIN fields = 1..Len(fields)
      /\ \A i \in last : i \in 1..Len(fields) /\ fields[i] \in members
  <2>1. fields \in Seq(members)
    BY <1>0
  <2> QED BY <2>1
<1>2. IsFiniteSet(last)
  <2>1. IsFiniteSet(1..Len(fields))
    BY <1>1, FS_Interval
  <2>2. last \in SUBSET (1..Len(fields))
    BY <1>1
  <2> QED BY <2>1, <2>2, FS_Subset
<1>3. IsFiniteSet(map)
  <2> DEFINE f == [i \in last |-> Member(i)]
  <2>1. f \in Surjection(last, map)
    BY DEF Surjection
  <2> HIDE DEF f, map
  <2> QED BY <1>2, <2>1, FS_Surjection
<1>4. ASSUME NEW i \in last
      PROVE  /\ Member(i) \in [key : Strings, value : values]
             /\ Member(i).key = fields[i].key
  <2>1. fields[i].key \in Strings /\ fields[i].value \in docs
    BY <1>0, <1>1
  <2>2. parsed[fields[i].value] \in values
    BY <2>1
  <2> QED BY <2>1, <2>2
<1>5. ASSUME NEW i \in last, NEW j \in last, Member(i).key = Member(j).key
      PROVE  Member(i) = Member(j)
  <2>1. fields[i].key = fields[j].key
    BY <1>4, <1>5
  <2>2. i <= j /\ j <= i /\ i \in 1..Len(fields) /\ j \in 1..Len(fields)
    BY <1>1, <2>1
  <2>3. i = j
    BY <1>1, <2>2
  <2> QED BY <2>3
<1>6. map \in SUBSET [key : Strings, value : values]
  BY <1>4
<1>7. \A m, n \in map : m.key = n.key => m = n
  BY <1>5
<1>8. map \in Maps(values)
  <2> HIDE DEF map
  <2> QED BY <1>3, <1>6, <1>7 DEF Maps
<1>9. Stay(fields, parsed, last) = map
  BY DEF Stay
<1> HIDE DEF map
<1> QED BY <1>8, <1>9

\* What the parser makes of a document is a value as deep.
LEMMA ParsedIsValue ==
  \A d \in 0..MaxDepth : \A doc \in Docs[d] : Parsed[d][doc] \in Values[d]
<1> DEFINE P == {d \in Nat : d <= MaxDepth => \A doc \in Docs[d] : Parsed[d][doc] \in Values[d]}
<1>1. 0 \in P
  <2> SUFFICES ASSUME NEW doc \in Docs[0]  PROVE Parsed[0][doc] \in Values[0]
    OBVIOUS
  <2> QED BY DocsUnfold, ValuesUnfold, ParsedUnfold, ScalarIsParsed
<1>2. ASSUME NEW d \in Nat, d \in P  PROVE d + 1 \in P
  <2> SUFFICES ASSUME d + 1 <= MaxDepth, NEW doc \in Docs[d + 1]
               PROVE  Parsed[d + 1][doc] \in Values[d + 1]
    OBVIOUS
  <2>1. d \in 0..(MaxDepth - 1)
    BY DepthIsNat
  <2>2. \A x \in Docs[d] : Parsed[d][x] \in Values[d]
    BY <1>2, <2>1, DepthIsNat
  <2>3. Parsed[d + 1][doc] = Parser(doc, Parsed[d])
    BY <2>1, ParsedUnfold
  <2>4. doc \in DocsAround(Docs[d]) /\ Values[d + 1] = ValuesAround(Values[d])
    BY <2>1, DocsUnfold, ValuesUnfold
  <2>5. CASE doc \in Scalars
    BY <2>3, <2>4, <2>5, ScalarIsParsed DEF ValuesAround
  <2>6. CASE doc.kind = "array" /\ doc.items \in Seq(Docs[d])
    <3> DEFINE items == [i \in DOMAIN doc.items |-> Parsed[d][doc.items[i]]]
    <3>1. Parser(doc, Parsed[d]) = [kind |-> "array", items |-> items]
      BY <2>6 DEF Parser
    <3>2. items \in Seq(Values[d])
      <4>1. Len(doc.items) \in Nat /\ DOMAIN doc.items = 1..Len(doc.items)
        BY <2>6
      <4>2. \A i \in 1..Len(doc.items) : Parsed[d][doc.items[i]] \in Values[d]
        BY <2>2, <2>6
      <4> QED BY <4>1, <4>2
    <3> HIDE DEF items
    <3>3. [kind |-> "array", items |-> items] \in [kind : {"array"}, items : Seq(Values[d])]
      BY <3>2
    <3> QED BY <2>3, <2>4, <3>1, <3>3 DEF ValuesAround
  <2>7. CASE doc.kind = "object" /\ doc.fields \in Seq([key : Strings, value : Docs[d]])
    <3> DEFINE last == {i \in DOMAIN doc.fields :
                          \A j \in DOMAIN doc.fields :
                            doc.fields[j].key = doc.fields[i].key => j <= i}
               map == {[key |-> doc.fields[i].key, value |-> Parsed[d][doc.fields[i].value]] : i \in last}
    <3>1. Parser(doc, Parsed[d]) = [kind |-> "object", map |-> map]
      BY <2>7, Zenon DEF Parser
    <3>2. map \in Maps(Values[d])
      <4>1. /\ last \in SUBSET DOMAIN doc.fields
            /\ \A i \in last : \A j \in DOMAIN doc.fields :
                 doc.fields[j].key = doc.fields[i].key => j <= i
        OBVIOUS
      <4>2. doc.fields \in Seq([key : Strings, value : Docs[d]])
        BY <2>7
      <4> HIDE DEF last
      <4>3. PICK fields, docs, values, parsed :
              /\ fields = doc.fields /\ docs = Docs[d] /\ values = Values[d] /\ parsed = Parsed[d]
        OBVIOUS
      <4>4. /\ \A x \in docs : parsed[x] \in values
            /\ fields \in Seq([key : Strings, value : docs])
            /\ last \in SUBSET DOMAIN fields
            /\ \A i \in last : \A j \in DOMAIN fields : fields[j].key = fields[i].key => j <= i
        BY <2>2, <4>1, <4>2, <4>3
      <4>5. Stay(fields, parsed, last) \in Maps(values)
        BY <4>4, FieldsMakeAMap
      <4> QED BY <4>3, <4>5 DEF Stay
    <3> HIDE DEF map
    <3>3. [kind |-> "object", map |-> map] \in [kind : {"object"}, map : Maps(Values[d])]
      BY <3>2
    <3> QED BY <2>3, <2>4, <3>1, <3>3 DEF ValuesAround
  <2> QED BY <2>4, <2>5, <2>6, <2>7, DocKinds
<1>3. Nat \subseteq P
  <2> HIDE DEF P
  <2> QED BY <1>1, <1>2, NatSetInduction
<1> QED BY <1>3, DepthIsNat

---------------------------------------------------------------------------
(* Bytes in their places.                                                  *)

\* b has w behind its first p bytes.
Holds(b, p, w) == p + Len(w) <= Len(b) /\ \A i \in 1..Len(w) : b[p + i] = w[i]

\* A concatenation is one part behind the other.
LEMMA HoldsConcat ==
  ASSUME NEW V, NEW u \in Seq(V), NEW w \in Seq(V), NEW x, x = u \o w,
         NEW b, Len(b) \in Nat, NEW p \in Nat
  PROVE  Holds(b, p, x) <=> Holds(b, p, u) /\ Holds(b, p + Len(u), w)
<1>1. PICK m \in Nat, n \in Nat, k \in Nat : m = Len(u) /\ n = Len(w) /\ k = Len(b)
  OBVIOUS
<1>3. /\ Len(x) = m + n
      /\ \A i \in 1..m : x[i] = u[i]
      /\ \A i \in 1..n : x[m + i] = w[i]
  BY <1>1
<1>4. ASSUME Holds(b, p, x)  PROVE Holds(b, p, u) /\ Holds(b, p + m, w)
  <2>1. p + (m + n) <= k /\ \A i \in 1..(m + n) : b[p + i] = x[i]
    BY <1>1, <1>3, <1>4 DEF Holds
  <2>2. ASSUME NEW i \in 1..m  PROVE b[p + i] = u[i]
    <3>1. i \in 1..(m + n)
      OBVIOUS
    <3> QED BY <1>3, <2>1, <3>1
  <2>3. ASSUME NEW i \in 1..n  PROVE b[(p + m) + i] = w[i]
    <3>1. m + i \in 1..(m + n) /\ p + (m + i) = (p + m) + i
      OBVIOUS
    <3>2. b[p + (m + i)] = x[m + i]
      BY <2>1, <3>1
    <3> QED BY <1>3, <3>1, <3>2
  <2> QED BY <1>1, <2>1, <2>2, <2>3 DEF Holds
<1>5. ASSUME Holds(b, p, u), Holds(b, p + m, w)  PROVE Holds(b, p, x)
  <2>1. (p + m) + n <= k /\ p + (m + n) <= k
    BY <1>1, <1>5 DEF Holds
  <2>2. ASSUME NEW i \in 1..(m + n)  PROVE b[p + i] = x[i]
    <3>1. CASE i \in 1..m
      BY <1>1, <1>3, <1>5, <3>1 DEF Holds
    <3>2. CASE i \notin 1..m
      <4>1. i - m \in 1..n /\ m + (i - m) = i /\ (p + m) + (i - m) = p + i
        BY <3>2
      <4>2. b[(p + m) + (i - m)] = w[i - m] /\ x[m + (i - m)] = w[i - m]
        BY <1>1, <1>3, <1>5, <4>1 DEF Holds
      <4> QED BY <4>1, <4>2
    <3> QED BY <3>1, <3>2
  <2> QED BY <1>1, <1>3, <2>1, <2>2 DEF Holds
<1> QED BY <1>1, <1>4, <1>5

\* Bytes are where they are.
LEMMA HoldsItself ==
  ASSUME NEW V, NEW w \in Seq(V)
  PROVE  Holds(w, 0, w)
BY DEF Holds

\* Two words of one length in one place are equal.
LEMMA HoldsOne ==
  ASSUME NEW V, NEW u \in Seq(V), NEW w \in Seq(V), NEW b, NEW p \in Nat,
         Holds(b, p, u), Holds(b, p, w), Len(u) = Len(w)
  PROVE  u = w
<1>1. PICK n \in Nat : n = Len(u) /\ n = Len(w)
  OBVIOUS
<1>2. \A i \in 1..n : u[i] = w[i]
  BY <1>1 DEF Holds
<1>3. u = [i \in 1..n |-> u[i]] /\ w = [i \in 1..n |-> w[i]]
  BY <1>1
<1> QED BY <1>2, <1>3

\* Joined words: where each one begins.
IsJoined(seqs, off) ==
  /\ off \in [0..Len(seqs) -> Nat] /\ off[0] = 0
  /\ \A i \in 1..Len(seqs) : off[i] = off[i - 1] + Len(seqs[i])
  /\ Len(FlattenSeq(seqs)) = off[Len(seqs)]
  /\ \A b, p : p \in Nat /\ Len(b) \in Nat /\ Holds(b, p, FlattenSeq(seqs)) =>
       \A i \in 1..Len(seqs) : Holds(b, p + off[i - 1], seqs[i])

\* FlattenSeq joins, and adds nothing.
LEMMA FlattenJoins ==
  ASSUME NEW V, NEW seqs \in Seq(Seq(V))
  PROVE  FlattenSeq(seqs) \in Seq(V) /\ \E off : IsJoined(seqs, off)
<1>1. PICK n \in Nat : n = Len(seqs)
  OBVIOUS
<1>2. PICK flat \in [0..n -> Seq(V)] :
         /\ flat[0] = <<>>
         /\ \A i \in 1..n : flat[i] = flat[i - 1] \o seqs[i]
         /\ FlattenSeq(seqs) = flat[n]
  BY <1>1, FlattenOneByOne
<1>3. ASSUME NEW i \in 1..n
      PROVE  seqs[i] \in Seq(V) /\ flat[i] \in Seq(V) /\ flat[i - 1] \in Seq(V)
  <2>1. i \in 0..n /\ i - 1 \in 0..n
    OBVIOUS
  <2>2. seqs[i] \in Seq(V)
    BY <1>1
  <2> QED BY <2>1, <2>2
<1> DEFINE off == [i \in 0..n |-> Len(flat[i])]
<1>4. off \in [0..n -> Nat] /\ off[0] = 0
  <2>1. ASSUME NEW i \in 0..n  PROVE Len(flat[i]) \in Nat
    <3>1. flat[i] \in Seq(V)
      OBVIOUS
    <3> QED BY <3>1
  <2>2. Len(flat[0]) = 0 /\ 0 \in 0..n
    BY <1>2
  <2> QED BY <2>1, <2>2
<1>5. ASSUME NEW i \in 1..n  PROVE off[i] = off[i - 1] + Len(seqs[i])
  <2>1. PICK x \in Seq(V), y \in Seq(V) : x = flat[i - 1] /\ y = seqs[i] /\ flat[i] = x \o y
    BY <1>2, <1>3
  <2>2. Len(flat[i]) = Len(x) + Len(y)
    BY <2>1
  <2>3. off[i] = Len(flat[i]) /\ off[i - 1] = Len(flat[i - 1])
    OBVIOUS
  <2> HIDE DEF off
  <2> QED BY <2>1, <2>2, <2>3
<1>6. ASSUME NEW b, NEW p \in Nat, Len(b) \in Nat, Holds(b, p, flat[n])
      PROVE  \A i \in 1..n : Holds(b, p + off[i - 1], seqs[i])
  <2> DEFINE P == {k \in Nat : k <= n => Holds(b, p, flat[n - k])}
  <2>1. ASSUME NEW i \in 1..n, Holds(b, p, flat[i])
        PROVE  Holds(b, p, flat[i - 1]) /\ Holds(b, p + off[i - 1], seqs[i])
    <3>1. PICK x \in Seq(V), y \in Seq(V) : x = flat[i - 1] /\ y = seqs[i] /\ flat[i] = x \o y
      BY <1>2, <1>3
    <3>2. Holds(b, p, x) /\ Holds(b, p + Len(x), y)
      BY <1>6, <2>1, <3>1, HoldsConcat
    <3>3. off[i - 1] = Len(x)
      BY <3>1
    <3> HIDE DEF off
    <3> QED BY <3>1, <3>2, <3>3
  <2>2. 0 \in P
    BY <1>6
  <2>3. ASSUME NEW k \in Nat, k \in P  PROVE k + 1 \in P
    <3> SUFFICES ASSUME k + 1 <= n  PROVE Holds(b, p, flat[n - (k + 1)])
      OBVIOUS
    <3>1. n - k \in 1..n /\ (n - k) - 1 = n - (k + 1) /\ Holds(b, p, flat[n - k])
      BY <2>3
    <3> HIDE DEF off
    <3>2. Holds(b, p, flat[(n - k) - 1])
      BY <2>1, <3>1
    <3> QED BY <3>1, <3>2
  <2>4. Nat \subseteq P
    <3> HIDE DEF P
    <3> QED BY <2>2, <2>3, NatSetInduction
  <2>5. ASSUME NEW i \in 1..n  PROVE Holds(b, p, flat[i])
    <3>1. n - i \in Nat /\ n - i <= n /\ n - (n - i) = i
      OBVIOUS
    <3>2. n - i \in P
      BY <2>4, <3>1
    <3> QED BY <3>1, <3>2
  <2> HIDE DEF P, off
  <2> QED BY <2>1, <2>5
<1>7. Len(FlattenSeq(seqs)) = off[n] /\ FlattenSeq(seqs) \in Seq(V)
  BY <1>2
<1>8. IsJoined(seqs, off)
  <2> HIDE DEF off
  <2> QED BY <1>1, <1>2, <1>4, <1>5, <1>6, <1>7 DEF IsJoined
<1> QED BY <1>7, <1>8

---------------------------------------------------------------------------
(* Characters and strings.                                                 *)

Bytes == 1..255

\* The kinds of character that write_string tells apart.
LEMMA EscapeKinds ==
  ASSUME NEW c \in Chars
  PROVE  /\ c \in {34, 92} => Escape(c) = <<92, c>>
         /\ c = 8 => Escape(c) = <<92, 98>>
         /\ c = 12 => Escape(c) = <<92, 102>>
         /\ c = 10 => Escape(c) = <<92, 110>>
         /\ c = 13 => Escape(c) = <<92, 114>>
         /\ c = 9 => Escape(c) = <<92, 116>>
         /\ c < 32 /\ c \notin {8, 9, 10, 12, 13} =>
              Escape(c) = <<92, 117, 48, 48, HexDigit(c \div 16), HexDigit(c % 16)>>
         /\ c >= 32 /\ c < 128 /\ c \notin {34, 92} => Escape(c) = <<c>>
         /\ c >= 128 /\ c < 2048 => Escape(c) = <<192 + (c \div 64), 128 + (c % 64)>>
         /\ c >= 2048 /\ c < 65536 =>
              Escape(c) = <<224 + (c \div 4096), 128 + ((c \div 64) % 64), 128 + (c % 64)>>
         /\ c >= 65536 =>
              Escape(c) = <<240 + (c \div 262144), 128 + ((c \div 4096) % 64),
                            128 + ((c \div 64) % 64), 128 + (c % 64)>>
<1>0. c \in Nat /\ c <= 1114111
  BY SMT DEF Chars
<1>1. c \in {34, 92} => Escape(c) = <<92, c>>
  BY SMT DEF Escape, Quote, Backslash
<1>2. /\ c = 8 => Escape(c) = <<92, 98>>
      /\ c = 12 => Escape(c) = <<92, 102>>
      /\ c = 10 => Escape(c) = <<92, 110>>
      /\ c = 13 => Escape(c) = <<92, 114>>
      /\ c = 9 => Escape(c) = <<92, 116>>
  BY SMT DEF Escape, Quote, Backslash
<1>3. c < 32 /\ c \notin {8, 9, 10, 12, 13} =>
        Escape(c) = <<92, 117, 48, 48, HexDigit(c \div 16), HexDigit(c % 16)>>
  BY <1>0, SMT DEF Escape, Quote, Backslash
<1>4. c >= 32 /\ c \notin {34, 92} => Escape(c) = Utf8(c)
  BY <1>0, SMT DEF Escape, Quote, Backslash
<1>5. c \div 1 = c
  BY <1>0, SMT
<1>6. c < 128 => Utf8(c) = <<c>>
  BY <1>0, SMT DEF Utf8
<1>7. c >= 128 /\ c < 2048 => Utf8(c) = <<192 + (c \div 64), 128 + (c % 64)>>
  BY <1>0, <1>5, SMT DEF Utf8
<1>8. c >= 2048 /\ c < 65536 =>
        Utf8(c) = <<224 + (c \div 4096), 128 + ((c \div 64) % 64), 128 + (c % 64)>>
  BY <1>0, <1>5, SMT DEF Utf8
<1>9. c >= 65536 =>
        Utf8(c) = <<240 + (c \div 262144), 128 + ((c \div 4096) % 64),
                    128 + ((c \div 64) % 64), 128 + (c % 64)>>
  BY <1>0, <1>5, SMT DEF Utf8
<1>10. c >= 32 /\ c < 128 /\ c \notin {34, 92} => Escape(c) = <<c>>
  BY <1>4, <1>6, SMT
<1>11. c >= 128 /\ c < 2048 => c >= 32 /\ c \notin {34, 92}
  BY <1>0, SMT
<1>12. c >= 2048 /\ c < 65536 => c >= 32 /\ c \notin {34, 92}
  BY <1>0, SMT
<1>13. c >= 65536 => c >= 32 /\ c \notin {34, 92}
  BY <1>0, SMT
<1>14. c >= 128 /\ c < 2048 => Escape(c) = <<192 + (c \div 64), 128 + (c % 64)>>
  BY <1>4, <1>7, <1>11, SMT
<1>15. c >= 2048 /\ c < 65536 =>
         Escape(c) = <<224 + (c \div 4096), 128 + ((c \div 64) % 64), 128 + (c % 64)>>
  BY <1>4, <1>8, <1>12, SMT
<1>16. c >= 65536 =>
         Escape(c) = <<240 + (c \div 262144), 128 + ((c \div 4096) % 64),
                       128 + ((c \div 64) % 64), 128 + (c % 64)>>
  BY <1>4, <1>9, <1>13, SMT
<1> QED BY <1>1, <1>2, <1>3, <1>10, <1>14, <1>15, <1>16, SMT

\* And each character is of one of these kinds.
LEMMA CharKinds ==
  ASSUME NEW c \in Chars
  PROVE  \/ c \in {34, 92} \/ c \in {8, 9, 10, 12, 13}
         \/ (c < 32 /\ c \notin {8, 9, 10, 12, 13})
         \/ (c >= 32 /\ c < 128 /\ c \notin {34, 92})
         \/ (c >= 128 /\ c < 2048) \/ (c >= 2048 /\ c < 65536) \/ c >= 65536
BY SMT DEF Chars

\* What stands for a character starts with no quote, and has no byte 0.
LEMMA EscapeBytes ==
  ASSUME NEW c \in Chars
  PROVE  Escape(c) \in Seq(Bytes) /\ Len(Escape(c)) >= 1 /\ Escape(c)[1] # Quote
<1>0. c \in Nat /\ c <= 1114111
  BY SMT DEF Chars
<1> DEFINE Fine(w) == w \in Seq(Bytes) /\ Len(w) >= 1 /\ w[1] # 34
<1>1. ASSUME NEW x \in Bytes, x # 34  PROVE Fine(<<x>>)
  BY <1>1, SMT
<1>2. ASSUME NEW x \in Bytes, NEW y \in Bytes, x # 34  PROVE Fine(<<x, y>>)
  BY <1>2, SMT
<1>3. ASSUME NEW x \in Bytes, NEW y \in Bytes, NEW z \in Bytes, x # 34  PROVE Fine(<<x, y, z>>)
  BY <1>3, SMT
<1>4. ASSUME NEW x \in Bytes, NEW y \in Bytes, NEW z \in Bytes, NEW t \in Bytes, x # 34
      PROVE  Fine(<<x, y, z, t>>)
  BY <1>4, SMT
<1>5. ASSUME NEW x \in Bytes, NEW y \in Bytes  PROVE Fine(<<92, 117, 48, 48, x, y>>)
  <2>1. 92 \in Bytes /\ 117 \in Bytes /\ 48 \in Bytes
    BY SMT DEF Bytes
  <2> QED BY <2>1, SMT
<1> HIDE DEF Fine
<1>6. c < 128 /\ Escape(c) = <<c>> /\ c >= 32 /\ c # 34 => Fine(Escape(c))
  <2>1. c < 128 /\ c >= 32 => c \in Bytes
    BY <1>0, SMT DEF Bytes
  <2> QED BY <1>1, <2>1
<1>7. ASSUME NEW x \in Bytes, Escape(c) = <<92, x>>  PROVE Fine(Escape(c))
  <2>1. 92 \in Bytes /\ 92 # 34
    BY SMT DEF Bytes
  <2> QED BY <1>2, <1>7, <2>1
<1>8. ASSUME c < 32, Escape(c) = <<92, 117, 48, 48, HexDigit(c \div 16), HexDigit(c % 16)>>
      PROVE  Fine(Escape(c))
  <2>1. HexDigit(c \div 16) \in Bytes /\ HexDigit(c % 16) \in Bytes
    BY <1>0, <1>8, SMT DEF HexDigit, Bytes
  <2> QED BY <1>5, <1>8, <2>1, SMT
<1>9. ASSUME c >= 128, c < 2048, Escape(c) = <<192 + (c \div 64), 128 + (c % 64)>>
      PROVE  Fine(Escape(c))
  <2>1. 192 + (c \div 64) \in Bytes /\ 128 + (c % 64) \in Bytes /\ 192 + (c \div 64) # 34
    BY <1>0, <1>9, SMT DEF Bytes
  <2> QED BY <1>2, <1>9, <2>1, SMT
<1>10. ASSUME c >= 2048, c < 65536,
              Escape(c) = <<224 + (c \div 4096), 128 + ((c \div 64) % 64), 128 + (c % 64)>>
       PROVE  Fine(Escape(c))
  <2>1. /\ 224 + (c \div 4096) \in Bytes /\ 128 + ((c \div 64) % 64) \in Bytes
        /\ 128 + (c % 64) \in Bytes /\ 224 + (c \div 4096) # 34
    BY <1>0, <1>10, SMT DEF Bytes
  <2> QED BY <1>3, <1>10, <2>1, SMT
<1>11. ASSUME c >= 65536,
              Escape(c) = <<240 + (c \div 262144), 128 + ((c \div 4096) % 64),
                            128 + ((c \div 64) % 64), 128 + (c % 64)>>
       PROVE  Fine(Escape(c))
  <2>1. /\ 240 + (c \div 262144) \in Bytes /\ 128 + ((c \div 4096) % 64) \in Bytes
        /\ 128 + ((c \div 64) % 64) \in Bytes /\ 128 + (c % 64) \in Bytes
        /\ 240 + (c \div 262144) # 34
    BY <1>0, <1>11, SMT DEF Bytes
  <2> QED BY <1>4, <1>11, <2>1, SMT
<1>12. \A x \in {34, 92, 98, 102, 110, 114, 116} : x \in Bytes
  BY SMT DEF Bytes
<1>13. Fine(Escape(c))
  <2>1. CASE c \in {34, 92}
    BY <1>7, <1>12, <2>1, EscapeKinds, SMT
  <2>2. CASE c \in {8, 9, 10, 12, 13}
    BY <1>7, <1>12, <2>2, EscapeKinds, SMT
  <2>3. CASE c < 32 /\ c \notin {8, 9, 10, 12, 13}
    BY <1>8, <2>3, EscapeKinds, SMT
  <2>4. CASE c >= 32 /\ c < 128 /\ c \notin {34, 92}
    BY <1>6, <2>4, EscapeKinds, SMT
  <2>5. CASE c >= 128 /\ c < 2048
    BY <1>9, <2>5, EscapeKinds, SMT
  <2>6. CASE c >= 2048 /\ c < 65536
    BY <1>10, <2>6, EscapeKinds, SMT
  <2>7. CASE c >= 65536
    BY <1>11, <2>7, EscapeKinds, SMT
  <2> QED BY <2>1, <2>2, <2>3, <2>4, <2>5, <2>6, <2>7, CharKinds, SMT
<1> QED BY <1>13, SMT DEF Fine, Quote

\* A reader of one character.
Unhex(x) == IF x < 58 THEN x - 48 ELSE x - 87
Decode(b, p) ==
  CASE b[p + 1] = 92 /\ b[p + 2] \in {34, 92} -> b[p + 2]
    [] b[p + 1] = 92 /\ b[p + 2] = 98  -> 8
    [] b[p + 1] = 92 /\ b[p + 2] = 102 -> 12
    [] b[p + 1] = 92 /\ b[p + 2] = 110 -> 10
    [] b[p + 1] = 92 /\ b[p + 2] = 114 -> 13
    [] b[p + 1] = 92 /\ b[p + 2] = 116 -> 9
    [] b[p + 1] = 92 /\ b[p + 2] = 117 -> (16 * Unhex(b[p + 5])) + Unhex(b[p + 6])
    [] b[p + 1] < 128 /\ b[p + 1] # 92 -> b[p + 1]
    [] b[p + 1] \in 128..223 -> (64 * (b[p + 1] - 192)) + (b[p + 2] - 128)
    [] b[p + 1] \in 224..239 ->
         (4096 * (b[p + 1] - 224)) + (64 * (b[p + 2] - 128)) + (b[p + 3] - 128)
    [] b[p + 1] >= 240 ->
         (262144 * (b[p + 1] - 240)) + (4096 * (b[p + 2] - 128)) + (64 * (b[p + 3] - 128))
           + (b[p + 4] - 128)

\* What was escaped can be read back: no character is the start of another.
LEMMA EscapeDecodes ==
  ASSUME NEW c \in Chars, NEW b, NEW p \in Nat, Holds(b, p, Escape(c))
  PROVE  Decode(b, p) = c
<1>0. c \in Nat /\ c <= 1114111
  BY SMT DEF Chars
<1>1. ASSUME NEW x, NEW w, w = <<92, x>>, Holds(b, p, w)  PROVE b[p + 1] = 92 /\ b[p + 2] = x
  <2>1. Len(w) = 2 /\ w[1] = 92 /\ w[2] = x
    BY <1>1, SMT
  <2> QED BY <1>1, <2>1, SMT DEF Holds
<1>2. CASE c \in {34, 92} /\ Escape(c) = <<92, c>>
  BY <1>1, <1>2, SMT DEF Decode
<1>3. CASE c = 8 /\ Escape(c) = <<92, 98>>
  BY <1>1, <1>3, SMT DEF Decode
<1>4. CASE c = 12 /\ Escape(c) = <<92, 102>>
  BY <1>1, <1>4, SMT DEF Decode
<1>5. CASE c = 10 /\ Escape(c) = <<92, 110>>
  BY <1>1, <1>5, SMT DEF Decode
<1>6. CASE c = 13 /\ Escape(c) = <<92, 114>>
  BY <1>1, <1>6, SMT DEF Decode
<1>7. CASE c = 9 /\ Escape(c) = <<92, 116>>
  BY <1>1, <1>7, SMT DEF Decode
<1>8. CASE c < 32 /\ Escape(c) = <<92, 117, 48, 48, HexDigit(c \div 16), HexDigit(c % 16)>>
  <2>1. PICK x \in Nat, y \in Nat : /\ x = c \div 16 /\ y = c % 16
                                    /\ x < 16 /\ y < 16 /\ c = (16 * x) + y
    BY <1>0, <1>8, SMT
  <2>2. PICK w : w = Escape(c) /\ w = <<92, 117, 48, 48, HexDigit(x), HexDigit(y)>>
    BY <1>8, <2>1, SMT
  <2>3. /\ Len(w) = 6 /\ w[1] = 92 /\ w[2] = 117
        /\ w[5] = HexDigit(x) /\ w[6] = HexDigit(y)
    BY <2>2, SMT
  <2>4. Holds(b, p, w)
    BY <2>2, SMT
  <2>5. /\ b[p + 1] = 92 /\ b[p + 2] = 117
        /\ b[p + 5] = HexDigit(x) /\ b[p + 6] = HexDigit(y)
    BY <2>3, <2>4, SMT DEF Holds
  <2>6. Unhex(HexDigit(x)) = x /\ Unhex(HexDigit(y)) = y
    BY <2>1, SMT DEF Unhex, HexDigit
  <2>7. Decode(b, p) = (16 * Unhex(b[p + 5])) + Unhex(b[p + 6])
    BY <2>5, SMT DEF Decode
  <2> QED BY <2>1, <2>5, <2>6, <2>7, SMT
<1>9. CASE c >= 32 /\ c < 128 /\ c \notin {34, 92} /\ Escape(c) = <<c>>
  <2>1. PICK w : w = Escape(c) /\ Len(w) = 1 /\ w[1] = c
    BY <1>9, SMT
  <2>2. b[p + 1] = c
    BY <2>1, SMT DEF Holds
  <2> QED BY <1>0, <1>9, <2>2, SMT DEF Decode
<1>10. CASE c >= 128 /\ c < 2048 /\ Escape(c) = <<192 + (c \div 64), 128 + (c % 64)>>
  <2>1. PICK x \in Nat, y \in Nat : /\ x = c \div 64 /\ y = c % 64
                                    /\ x < 32 /\ y < 64 /\ c = (64 * x) + y
    BY <1>0, <1>10, SMT
  <2>2. PICK w : w = Escape(c) /\ Len(w) = 2 /\ w[1] = 192 + x /\ w[2] = 128 + y
    BY <1>10, <2>1, SMT
  <2>3. b[p + 1] = 192 + x /\ b[p + 2] = 128 + y
    BY <2>2, SMT DEF Holds
  <2>4. Decode(b, p) = (64 * (b[p + 1] - 192)) + (b[p + 2] - 128)
    <3>1. b[p + 1] \in 192..223
      BY <2>1, <2>3, SMT
    <3> QED BY <3>1, SMT DEF Decode
  <2> QED BY <2>1, <2>3, <2>4, SMT
<1>11. CASE /\ c >= 2048 /\ c < 65536
            /\ Escape(c) = <<224 + (c \div 4096), 128 + ((c \div 64) % 64), 128 + (c % 64)>>
  <2>1. PICK x \in Nat, y \in Nat, z \in Nat :
               /\ x = c \div 4096 /\ y = (c \div 64) % 64 /\ z = c % 64
               /\ x < 16 /\ c = (4096 * x) + (64 * y) + z
    <3>1. /\ c \div 4096 \in Nat /\ (c \div 64) % 64 \in Nat /\ c % 64 \in Nat
          /\ c \div 4096 < 16
          /\ c = (4096 * (c \div 4096)) + (64 * ((c \div 64) % 64)) + (c % 64)
      BY <1>0, <1>11, SMT
    <3> QED BY <3>1, SMT
  <2>2. PICK w : w = Escape(c) /\ Len(w) = 3 /\ w[1] = 224 + x /\ w[2] = 128 + y /\ w[3] = 128 + z
    BY <1>11, <2>1, SMT
  <2>3. b[p + 1] = 224 + x /\ b[p + 2] = 128 + y /\ b[p + 3] = 128 + z
    BY <2>2, SMT DEF Holds
  <2>4. Decode(b, p) = (4096 * (b[p + 1] - 224)) + (64 * (b[p + 2] - 128)) + (b[p + 3] - 128)
    <3>1. b[p + 1] \in 224..239
      BY <2>1, <2>3, SMT
    <3> QED BY <3>1, SMT DEF Decode
  <2> QED BY <2>1, <2>3, <2>4, SMT
<1>12. CASE /\ c >= 65536
            /\ Escape(c) = <<240 + (c \div 262144), 128 + ((c \div 4096) % 64),
                             128 + ((c \div 64) % 64), 128 + (c % 64)>>
  <2>1. PICK x \in Nat, y \in Nat, z \in Nat, t \in Nat :
               /\ x = c \div 262144 /\ y = (c \div 4096) % 64 /\ z = (c \div 64) % 64 /\ t = c % 64
               /\ c = (262144 * x) + (4096 * y) + (64 * z) + t
    <3>1. /\ c \div 262144 \in Nat /\ (c \div 4096) % 64 \in Nat
          /\ (c \div 64) % 64 \in Nat /\ c % 64 \in Nat
          /\ c = (262144 * (c \div 262144)) + (4096 * ((c \div 4096) % 64))
                 + (64 * ((c \div 64) % 64)) + (c % 64)
      BY <1>0, SMT
    <3> QED BY <3>1, SMT
  <2>2. PICK w : /\ w = Escape(c) /\ Len(w) = 4 /\ w[1] = 240 + x
                 /\ w[2] = 128 + y /\ w[3] = 128 + z /\ w[4] = 128 + t
    BY <1>12, <2>1, SMT
  <2>3. b[p + 1] = 240 + x /\ b[p + 2] = 128 + y /\ b[p + 3] = 128 + z /\ b[p + 4] = 128 + t
    BY <2>2, SMT DEF Holds
  <2>4. Decode(b, p) = (262144 * (b[p + 1] - 240)) + (4096 * (b[p + 2] - 128))
                         + (64 * (b[p + 3] - 128)) + (b[p + 4] - 128)
    <3>1. b[p + 1] \in Nat /\ b[p + 1] >= 240
      BY <2>3, SMT
    <3> QED BY <3>1, SMT DEF Decode
  <2> QED BY <2>1, <2>3, <2>4, SMT
<1>13. CASE c \in {34, 92}
  BY <1>2, <1>13, EscapeKinds, SMT
<1>14. CASE c \in {8, 9, 10, 12, 13}
  BY <1>3, <1>4, <1>5, <1>6, <1>7, <1>14, EscapeKinds, SMT
<1>15. CASE c < 32 /\ c \notin {8, 9, 10, 12, 13}
  BY <1>8, <1>15, EscapeKinds, SMT
<1>16. CASE c >= 32 /\ c < 128 /\ c \notin {34, 92}
  BY <1>9, <1>16, EscapeKinds, SMT
<1>17. CASE c >= 128 /\ c < 2048
  BY <1>10, <1>17, EscapeKinds, SMT
<1>18. CASE c >= 2048 /\ c < 65536
  BY <1>11, <1>18, EscapeKinds, SMT
<1>19. CASE c >= 65536
  BY <1>12, <1>19, EscapeKinds, SMT
<1> QED BY <1>13, <1>14, <1>15, <1>16, <1>17, <1>18, <1>19, CharKinds, SMT

---------------------------------------------------------------------------
(* Rows of words in front of an end.                                       *)

\* b has w behind its first p bytes, and behind w a byte of stop.
Reads(b, p, w, stop) == Holds(b, p, w) /\ p + Len(w) < Len(b) /\ b[(p + Len(w)) + 1] \in stop

\* Words no one takes for the end; those behind others start with a byte of stop.
Starts(seqs, end, stop) ==
  \A i \in 1..Len(seqs) :
    /\ Len(seqs[i]) >= 1 /\ seqs[i][1] # end
    /\ i >= 2 => seqs[i][1] \in stop

\* A row of words, and the byte that ends it.
Row(b, p, seqs, end, stop) ==
  /\ Holds(b, p, FlattenSeq(seqs) \o <<end>>)
  /\ Starts(seqs, end, stop)

\* Where the words of a row begin.
IsRow(b, p, seqs, end, stop, off) ==
  /\ off \in [0..Len(seqs) -> Nat] /\ off[0] = 0
  /\ \A i \in 1..Len(seqs) :
       /\ off[i] = off[i - 1] + Len(seqs[i])
       /\ Reads(b, p + off[i - 1], seqs[i], stop)
       /\ b[(p + off[i - 1]) + 1] # end
  /\ b[(p + off[Len(seqs)]) + 1] = end

\* A row can be taken apart.
LEMMA RowApart ==
  ASSUME NEW V, NEW seqs \in Seq(Seq(V)), NEW b, Len(b) \in Nat, NEW p \in Nat,
         NEW end \in V, NEW stop, end \in stop, Row(b, p, seqs, end, stop)
  PROVE  \E off : IsRow(b, p, seqs, end, stop, off)
<1>1. PICK off : IsJoined(seqs, off)
  BY FlattenJoins
<1>2. PICK n \in Nat : n = Len(seqs)
  OBVIOUS
<1>3. PICK f \in Seq(V), e \in Seq(V), x \in Seq(V) :
         f = FlattenSeq(seqs) /\ e = <<end>> /\ x = f \o e
  <2>1. PICK f \in Seq(V) : f = FlattenSeq(seqs)
    BY FlattenJoins
  <2>2. PICK e \in Seq(V) : e = <<end>>
    <3>1. <<end>> \in Seq(V)
      OBVIOUS
    <3> QED BY <3>1, Zenon
  <2>3. f \o e \in Seq(V)
    BY ConcatProperties
  <2> QED BY <2>1, <2>2, <2>3
<1>4. Holds(b, p, f) /\ Holds(b, p + Len(f), e)
  <2>1. Holds(b, p, x)
    BY <1>3 DEF Row
  <2> QED BY <1>3, <2>1, HoldsConcat
<1>5. Len(f) = off[n] /\ off \in [0..n -> Nat] /\ off[0] = 0
  BY <1>1, <1>2, <1>3 DEF IsJoined
<1>6. /\ (p + off[n]) + 1 <= Len(b)
      /\ b[(p + off[n]) + 1] = end
  <2>1. Len(e) = 1 /\ e[1] = end
    BY <1>3
  <2> QED BY <1>4, <1>5, <2>1 DEF Holds
<1>7. ASSUME NEW i \in 1..n
      PROVE  /\ off[i] = off[i - 1] + Len(seqs[i]) /\ Holds(b, p + off[i - 1], seqs[i])
             /\ off[i] \in Nat /\ off[i - 1] \in Nat /\ Len(seqs[i]) \in Nat /\ Len(seqs[i]) >= 1
             /\ seqs[i][1] # end /\ (i >= 2 => seqs[i][1] \in stop)
             /\ (p + off[i - 1]) + 1 <= Len(b)
             /\ b[(p + off[i - 1]) + 1] = seqs[i][1]
  <2>1. off[i] = off[i - 1] + Len(seqs[i]) /\ Holds(b, p + off[i - 1], seqs[i])
    BY <1>1, <1>2, <1>3, <1>4 DEF IsJoined
  <2>2. Len(seqs[i]) >= 1 /\ seqs[i][1] # end /\ (i >= 2 => seqs[i][1] \in stop)
    BY <1>2 DEF Row, Starts
  <2>3. seqs[i] \in Seq(V)
    BY <1>2
  <2>4. off[i] \in Nat /\ off[i - 1] \in Nat /\ Len(seqs[i]) \in Nat
    BY <1>5, <2>3
  <2>5. PICK w : w = seqs[i]
    OBVIOUS
  <2>6. PICK a \in Nat, l \in Nat, k \in Nat : a = p + off[i - 1] /\ l = Len(w) /\ k = Len(b)
    <3>1. p + off[i - 1] \in Nat
      BY <2>4
    <3> QED BY <2>4, <2>5, <3>1, Zenon
  <2>7. a + l <= k /\ l >= 1 /\ b[a + 1] = w[1]
    BY <2>1, <2>2, <2>5, <2>6 DEF Holds
  <2>8. (p + off[i - 1]) + 1 <= Len(b) /\ b[(p + off[i - 1]) + 1] = seqs[i][1]
    <3>1. a + 1 <= k
      BY <2>7
    <3> QED BY <2>5, <2>6, <2>7, <3>1, Zenon
  <2> QED BY <2>1, <2>2, <2>4, <2>8
<1>8. ASSUME NEW i \in 1..n  PROVE Reads(b, p + off[i - 1], seqs[i], stop)
  <2>0. off[i] = off[i - 1] + Len(seqs[i]) /\ off[i] \in Nat /\ off[i - 1] \in Nat /\ Len(seqs[i]) \in Nat
    BY <1>7
  <2>1. (p + off[i - 1]) + Len(seqs[i]) = p + off[i]
    BY <2>0
  <2>2. p + off[i] < Len(b) /\ b[(p + off[i]) + 1] \in stop
    <3>1. CASE i = n
      BY <1>6, <2>0, <3>1
    <3>2. CASE i # n
      <4>1. i + 1 \in 1..n /\ (i + 1) - 1 = i /\ i + 1 >= 2
        BY <3>2
      <4>2. /\ (p + off[i]) + 1 <= Len(b) /\ b[(p + off[i]) + 1] = seqs[i + 1][1]
            /\ seqs[i + 1][1] \in stop
        BY <1>7, <4>1
      <4> QED BY <2>0, <4>2
    <3> QED BY <3>1, <3>2
  <2> QED BY <1>7, <2>1, <2>2 DEF Reads
<1>9. IsRow(b, p, seqs, end, stop, off)
  BY <1>2, <1>5, <1>6, <1>7, <1>8 DEF IsRow
<1> QED BY <1>9

\* Two rows in one place have the same words, if words in one place are the same.
Told(b, S, T, stop) ==
  \A i \in (1..Len(S)) \intersect (1..Len(T)) : \A q \in Nat :
    Reads(b, q, S[i], stop) /\ Reads(b, q, T[i], stop) => S[i] = T[i]

\* No row is longer than another in its place, if words in one place are the same.
LEMMA NotLonger ==
  ASSUME NEW V, NEW S \in Seq(Seq(V)), NEW T \in Seq(Seq(V)), NEW b, NEW p \in Nat,
         NEW end, NEW stop, NEW s, NEW t,
         IsRow(b, p, S, end, stop, s), IsRow(b, p, T, end, stop, t), Told(b, S, T, stop)
  PROVE  /\ Len(T) <= Len(S)
         /\ \A i \in 1..Len(T) : \E q \in Nat : Reads(b, q, S[i], stop) /\ Reads(b, q, T[i], stop)
<1>1. PICK m \in Nat, n \in Nat : m = Len(S) /\ n = Len(T)
  OBVIOUS
<1>2. /\ s \in [0..m -> Nat] /\ s[0] = 0 /\ t \in [0..n -> Nat] /\ t[0] = 0
      /\ \A i \in 1..m : s[i] = s[i - 1] + Len(S[i])
      /\ \A i \in 1..n : t[i] = t[i - 1] + Len(T[i])
      /\ \A i \in 1..m : Reads(b, p + s[i - 1], S[i], stop)
      /\ \A i \in 1..n : Reads(b, p + t[i - 1], T[i], stop)
      /\ \A i \in 1..n : b[(p + t[i - 1]) + 1] # end
      /\ b[(p + s[m]) + 1] = end
  BY <1>1 DEF IsRow
<1>3. ASSUME NEW i \in 1..m, i \in 1..n, s[i - 1] = t[i - 1]
      PROVE  /\ p + s[i - 1] \in Nat
             /\ Reads(b, p + s[i - 1], S[i], stop) /\ Reads(b, p + s[i - 1], T[i], stop)
             /\ s[i] = t[i]
  <2>1. i - 1 \in 0..m /\ p + s[i - 1] \in Nat
    <3>1. i - 1 \in 0..m
      OBVIOUS
    <3> QED BY <1>2, <3>1
  <2>2. Reads(b, p + s[i - 1], S[i], stop) /\ Reads(b, p + s[i - 1], T[i], stop)
    BY <1>2, <1>3
  <2>3. S[i] = T[i]
    BY <1>1, <1>3, <2>1, <2>2 DEF Told
  <2> QED BY <1>2, <1>3, <2>1, <2>2, <2>3
<1> DEFINE P == {i \in Nat : i <= m /\ i <= n => s[i] = t[i]}
<1>4. 0 \in P
  BY <1>2
<1>5. ASSUME NEW i \in Nat, i \in P  PROVE i + 1 \in P
  <2> SUFFICES ASSUME i + 1 <= m, i + 1 <= n  PROVE s[i + 1] = t[i + 1]
    OBVIOUS
  <2>1. i + 1 \in 1..m /\ i + 1 \in 1..n /\ (i + 1) - 1 = i /\ s[i] = t[i]
    BY <1>5
  <2> QED BY <1>3, <2>1
<1>6. \A i \in Nat : i <= m /\ i <= n => s[i] = t[i]
  <2>1. Nat \subseteq P
    <3> HIDE DEF P
    <3> QED BY <1>4, <1>5, NatSetInduction
  <2> QED BY <2>1
<1>7. n <= m
  <2> SUFFICES ASSUME m < n  PROVE FALSE
    OBVIOUS
  <2>1. s[m] = t[m] /\ m + 1 \in 1..n /\ (m + 1) - 1 = m
    BY <1>6
  <2> QED BY <1>2, <2>1
<1>8. ASSUME NEW i \in 1..n
      PROVE  \E q \in Nat : Reads(b, q, S[i], stop) /\ Reads(b, q, T[i], stop)
  <2>1. i \in 1..m /\ s[i - 1] = t[i - 1]
    <3>1. i - 1 \in Nat /\ i - 1 <= m /\ i - 1 <= n
      BY <1>7
    <3> QED BY <1>6, <1>7, <3>1
  <2> QED BY <1>3, <2>1
<1> QED BY <1>1, <1>7, <1>8

Matched(b, S, T, stop) ==
  /\ Len(S) = Len(T)
  /\ \A i \in 1..Len(S) : \E q \in Nat : Reads(b, q, S[i], stop) /\ Reads(b, q, T[i], stop)

\* So the two have their words side by side.
LEMMA SideBySide ==
  ASSUME NEW V, NEW S \in Seq(Seq(V)), NEW T \in Seq(Seq(V)), NEW b, Len(b) \in Nat,
         NEW p \in Nat, NEW end \in V, NEW stop, end \in stop,
         Row(b, p, S, end, stop), Row(b, p, T, end, stop), Told(b, S, T, stop)
  PROVE  Matched(b, S, T, stop)
<1>1. PICK s : IsRow(b, p, S, end, stop, s)
  BY RowApart
<1>2. PICK t : IsRow(b, p, T, end, stop, t)
  BY RowApart
<1>3. Told(b, T, S, stop)
  BY DEF Told
<1>4. Len(T) <= Len(S)
  BY <1>1, <1>2, NotLonger
<1>5. /\ Len(S) <= Len(T)
      /\ \A i \in 1..Len(S) : \E q \in Nat : Reads(b, q, T[i], stop) /\ Reads(b, q, S[i], stop)
  BY <1>1, <1>2, <1>3, NotLonger
<1>6. Len(S) \in Nat /\ Len(T) \in Nat
  OBVIOUS
<1> QED BY <1>4, <1>5, <1>6 DEF Matched

\* Strings.
Escaped(s) == [i \in DOMAIN s |-> Escape(s[i])]

\* The escapes of a string, as words of a row that a quote ends.
LEMMA EscapedWords ==
  ASSUME NEW s \in Strings
  PROVE  /\ Len(s) \in Nat /\ Len(Escaped(s)) = Len(s) /\ Escaped(s) \in Seq(Seq(Bytes))
         /\ \A i \in 1..Len(s) : s[i] \in Chars /\ Escaped(s)[i] = Escape(s[i])
         /\ Starts(Escaped(s), Quote, Int)
<1>1. PICK n \in Nat : n = Len(s) /\ DOMAIN s = 1..n
  BY DEF Strings
<1>2. \A i \in 1..n : s[i] \in Chars
  BY <1>1 DEF Strings
<1>3. Escaped(s) = [i \in 1..n |-> Escape(s[i])]
  BY <1>1 DEF Escaped
<1>4. \A i \in 1..n : Escape(s[i]) \in Seq(Bytes) /\ Len(Escape(s[i])) >= 1 /\ Escape(s[i])[1] # Quote
  BY <1>2, EscapeBytes
<1>5. Escaped(s) \in Seq(Seq(Bytes)) /\ Len(Escaped(s)) = n
  BY <1>3, <1>4
<1>6. ASSUME NEW i \in 1..n  PROVE Escape(s[i])[1] \in Int
  <2>1. PICK w : w = Escape(s[i]) /\ w \in Seq(Bytes) /\ Len(w) >= 1
    BY <1>4
  <2>2. w[1] \in Bytes
    BY <2>1
  <2>3. w[1] \in Int
    BY <2>2 DEF Bytes
  <2> QED BY <2>1, <2>3
<1>7. Starts(Escaped(s), Quote, Int)
  BY <1>3, <1>4, <1>5, <1>6 DEF Starts
<1> QED BY <1>1, <1>2, <1>3, <1>5, <1>7

\* The bytes of a string: quotes around, no byte 0.
LEMMA StringBytes ==
  ASSUME NEW s \in Strings
  PROVE  /\ WriteString(s) \in Seq(Bytes) /\ Len(WriteString(s)) >= 1
         /\ WriteString(s)[1] = Quote
<1>1. PICK f \in Seq(Bytes) : f = FlattenSeq(Escaped(s))
  BY EscapedWords, FlattenJoins
<1>2. Quote \in Bytes
  BY DEF Quote, Bytes
<1>3. WriteString(s) = <<Quote>> \o f \o <<Quote>>
  BY <1>1, Zenon DEF WriteString, Escaped
<1> HIDE DEF Quote
<1> QED BY <1>2, <1>3

\* No string is the start of another.
LEMMA StringRead ==
  ASSUME NEW s \in Strings, NEW t \in Strings, NEW b, Len(b) \in Nat, NEW p \in Nat,
         \A i \in 1..Len(b) : b[i] \in Int,
         Holds(b, p, WriteString(s)), Holds(b, p, WriteString(t))
  PROVE  s = t
<1>1. Quote \in Bytes /\ Quote \in Int
  BY DEF Quote, Bytes
<1>2. ASSUME NEW u \in Strings, Holds(b, p, WriteString(u))
      PROVE  Row(b, p + 1, Escaped(u), Quote, Int)
  <2>0. FlattenSeq(Escaped(u)) \in Seq(Bytes)
    BY EscapedWords, FlattenJoins
  <2>1. PICK f \in Seq(Bytes), q \in Seq(Bytes) : f = FlattenSeq(Escaped(u)) /\ q = <<Quote>>
    <3>1. <<Quote>> \in Seq(Bytes)
      BY <1>1
    <3> QED BY <2>0, <3>1, Zenon
  <2>2. PICK g \in Seq(Bytes) : g = f \o q
    <3>1. f \o q \in Seq(Bytes)
      BY ConcatProperties
    <3> QED BY <3>1
  <2>3. PICK w : w = WriteString(u) /\ w = q \o g
    <3>1. WriteString(u) = (q \o f) \o q
      BY <2>1, Zenon DEF WriteString, Escaped
    <3>2. (q \o f) \o q = q \o (f \o q)
      BY ConcatAssociative
    <3> QED BY <2>2, <3>1, <3>2
  <2>4. Holds(b, p + 1, g)
    <3>1. Holds(b, p + Len(q), g)
      BY <1>2, <2>3, HoldsConcat
    <3>2. Len(q) = 1
      BY <2>1
    <3> QED BY <3>1, <3>2
  <2>5. g = FlattenSeq(Escaped(u)) \o <<Quote>>
    BY <2>1, <2>2, Zenon
  <2>6. Holds(b, p + 1, FlattenSeq(Escaped(u)) \o <<Quote>>)
    BY <2>4, <2>5, Zenon
  <2> QED BY <2>6, EscapedWords DEF Row
<1>3. PICK m \in Nat, n \in Nat : m = Len(s) /\ n = Len(t)
  BY EscapedWords
<1>4. ASSUME NEW i \in 1..m, i \in 1..n, NEW q \in Nat,
             Reads(b, q, Escaped(s)[i], Int), Reads(b, q, Escaped(t)[i], Int)
      PROVE  s[i] = t[i]
  <2>1. /\ s[i] \in Chars /\ Holds(b, q, Escape(s[i]))
        /\ t[i] \in Chars /\ Holds(b, q, Escape(t[i]))
    BY <1>3, <1>4, EscapedWords DEF Reads
  <2> QED BY <2>1, EscapeDecodes
<1>5. Told(b, Escaped(s), Escaped(t), Int)
  BY <1>3, <1>4, EscapedWords DEF Told
<1>6. p + 1 \in Nat
  OBVIOUS
<1>7. /\ Len(Escaped(s)) = Len(Escaped(t))
      /\ \A i \in 1..Len(Escaped(s)) : \E q \in Nat :
           Reads(b, q, Escaped(s)[i], Int) /\ Reads(b, q, Escaped(t)[i], Int)
  <2>1. Matched(b, Escaped(s), Escaped(t), Int)
    BY <1>1, <1>2, <1>5, <1>6, EscapedWords, SideBySide
  <2> QED BY <2>1 DEF Matched
<1>8. m = n /\ \A i \in 1..m : s[i] = t[i]
  BY <1>3, <1>4, <1>7, EscapedWords
<1>9. s = [i \in 1..m |-> s[i]] /\ t = [i \in 1..n |-> t[i]]
  BY <1>3 DEF Strings
<1> QED BY <1>8, <1>9

---------------------------------------------------------------------------
(* Numbers.                                                                *)

\* The last digit, and what is left of it.
LEMMA LastDigit ==
  ASSUME NEW n \in Nat
  PROVE  /\ n \div 10 \in Nat /\ n % 10 \in 0..9 /\ n = (10 * (n \div 10)) + (n % 10)
         /\ n >= 10 => n \div 10 < n
BY SMT

\* The equation of the digits.
LEMMA DigitsUnfold ==
  \A n \in Nat : Digits[n] = IF n < 10 THEN <<48 + n>> ELSE Append(Digits[n \div 10], 48 + (n % 10))
<1> DEFINE Next(f, n) == IF n < 10 THEN <<48 + n>> ELSE Append(f[n \div 10], 48 + (n % 10))
           Solves(f, k) == f = [n \in 0..k |-> Next(f, n)]
           Some == {k \in Nat : \E f : Solves(f, k)}
<1>0. ASSUME NEW n \in Nat, NEW f, NEW g, n >= 10 => f[n \div 10] = g[n \div 10]
      PROVE  Next(f, n) = Next(g, n)
  <2>1. CASE n < 10
    BY <2>1
  <2>2. CASE ~(n < 10)
    <3>1. f[n \div 10] = g[n \div 10]
      BY <1>0, <2>2
    <3> QED BY <2>2, <3>1, Zenon
  <2> QED BY <2>1, <2>2
<1> HIDE DEF Next
<1>1. 0 \in Some
  <2> DEFINE f == [n \in 0..0 |-> Next(<<>>, n)]
  <2>1. ASSUME NEW n \in 0..0  PROVE Next(<<>>, n) = Next(f, n)
    <3> HIDE DEF f
    <3> QED BY <1>0
  <2>2. Solves(f, 0)
    BY <2>1
  <2> HIDE DEF f, Solves
  <2> QED BY <2>2
<1>2. ASSUME NEW k \in Nat, k \in Some  PROVE k + 1 \in Some
  <2>1. PICK f : Solves(f, k)
    BY <1>2
  <2>2. DOMAIN f = 0..k /\ \A n \in 0..k : f[n] = Next(f, n)
    BY <2>1
  <2> DEFINE g == [n \in 0..(k + 1) |-> Next(f, n)]
  <2>3. ASSUME NEW n \in 0..(k + 1)  PROVE g[n] = Next(g, n)
    <3>1. n >= 10 => n \div 10 \in 0..k
      BY LastDigit
    <3>2. n >= 10 => f[n \div 10] = g[n \div 10]
      BY <2>2, <3>1
    <3>3. g[n] = Next(f, n)
      OBVIOUS
    <3> HIDE DEF g
    <3>4. Next(f, n) = Next(g, n)
      BY <1>0, <3>2
    <3> QED BY <3>3, <3>4
  <2>4. g = [n \in 0..(k + 1) |-> g[n]]
    OBVIOUS
  <2> HIDE DEF g
  <2>5. Solves(g, k + 1)
    BY <2>3, <2>4
  <2> HIDE DEF Solves
  <2> QED BY <2>5
<1>3. \A k \in Nat : \E f : Solves(f, k)
  <2>1. Nat \subseteq Some
    <3> HIDE DEF Some
    <3> QED BY <1>1, <1>2, NatSetInduction
  <2> HIDE DEF Solves
  <2> QED BY <2>1
<1>4. ASSUME NEW k \in Nat, NEW l \in Nat, NEW f, NEW g, Solves(f, k), Solves(g, l)
      PROVE  \A n \in Nat : n <= k /\ n <= l => f[n] = g[n]
  <2>1. /\ \A n \in 0..k : f[n] = Next(f, n)
        /\ \A n \in 0..l : g[n] = Next(g, n)
    BY <1>4
  <2> DEFINE P == {m \in Nat : \A n \in 0..m : n <= k /\ n <= l => f[n] = g[n]}
  <2> HIDE DEF Solves
  <2>2. ASSUME NEW n \in Nat, n <= k, n <= l, \A i \in Nat : i < n => f[i] = g[i]
        PROVE  f[n] = g[n]
    <3>1. n >= 10 => f[n \div 10] = g[n \div 10]
      BY <2>2, LastDigit
    <3>2. Next(f, n) = Next(g, n)
      BY <1>0, <3>1
    <3> QED BY <2>1, <2>2, <3>2
  <2>3. 0 \in P
    <3>1. 0 <= k /\ 0 <= l => f[0] = g[0]
      BY <2>2
    <3> QED BY <3>1
  <2>4. ASSUME NEW m \in Nat, m \in P  PROVE m + 1 \in P
    <3>1. \A n \in 0..m : n <= k /\ n <= l => f[n] = g[n]
      BY <2>4
    <3>2. m + 1 <= k /\ m + 1 <= l => f[m + 1] = g[m + 1]
      BY <2>2, <3>1
    <3> QED BY <3>1, <3>2
  <2>5. Nat \subseteq P
    <3> HIDE DEF P
    <3> QED BY <2>3, <2>4, NatSetInduction
  <2> QED BY <2>5
<1> DEFINE F(k) == CHOOSE f : Solves(f, k)
           D == [n \in Nat |-> F(n)[n]]
<1>5. \A k \in Nat : Solves(F(k), k)
  <2> HIDE DEF Solves
  <2> QED BY <1>3
<1>6. ASSUME NEW n \in Nat  PROVE D[n] = Next(D, n)
  <2>1. F(n)[n] = Next(F(n), n)
    <3>1. F(n) = [i \in 0..n |-> Next(F(n), i)]
      BY <1>5
    <3> HIDE DEF F
    <3> QED BY <3>1
  <2>2. n >= 10 => F(n)[n \div 10] = D[n \div 10]
    <3> SUFFICES ASSUME n >= 10  PROVE F(n)[n \div 10] = D[n \div 10]
      OBVIOUS
    <3>1. n \div 10 \in Nat /\ n \div 10 <= n
      BY LastDigit
    <3>2. D[n \div 10] = F(n \div 10)[n \div 10]
      BY <3>1
    <3> HIDE DEF F, Solves, D
    <3>3. F(n)[n \div 10] = F(n \div 10)[n \div 10]
      BY <1>4, <1>5, <3>1
    <3> QED BY <3>2, <3>3
  <2>3. D[n] = F(n)[n]
    OBVIOUS
  <2> HIDE DEF F, D
  <2>4. Next(F(n), n) = Next(D, n)
    BY <1>0, <2>2
  <2> QED BY <2>1, <2>3, <2>4
<1>7. \E f : f = [n \in Nat |-> Next(f, n)]
  <2>1. D = [n \in Nat |-> D[n]]
    OBVIOUS
  <2> HIDE DEF D
  <2>2. D = [n \in Nat |-> Next(D, n)]
    BY <1>6, <2>1
  <2> QED BY <2>2
<1>8. Digits = [n \in Nat |-> Next(Digits, n)]
  <2> USE DEF Next
  <2> QED BY <1>7, Zenon DEF Digits
<1>9. \A n \in Nat : Digits[n] = Next(Digits, n)
  BY <1>8
<1> QED BY <1>9 DEF Next

Ten == 48..57

\* Digits are digits, at least one, and no two numbers have the same.
LEMMA DigitsAreDigits ==
  \A n \in Nat : /\ Digits[n] \in Seq(Ten) /\ Len(Digits[n]) >= 1
                 /\ n < 10 => Len(Digits[n]) = 1
                 /\ n >= 10 => Len(Digits[n]) >= 2
<1> DEFINE Good(n) == /\ Digits[n] \in Seq(Ten) /\ Len(Digits[n]) >= 1
                      /\ n < 10 => Len(Digits[n]) = 1
                      /\ n >= 10 => Len(Digits[n]) >= 2
           P == {m \in Nat : \A n \in 0..m : Good(n)}
<1>1. ASSUME NEW n \in Nat, \A i \in Nat : i < n => Good(i)  PROVE Good(n)
  <2>1. CASE n < 10
    <3>1. Digits[n] = <<48 + n>>
      BY <2>1, DigitsUnfold
    <3>2. 48 + n \in Ten
      BY <2>1 DEF Ten
    <3> QED BY <2>1, <3>1, <3>2
  <2>2. CASE ~(n < 10)
    <3>1. Digits[n] = Append(Digits[n \div 10], 48 + (n % 10))
      BY <2>2, DigitsUnfold
    <3>2. n \div 10 \in Nat /\ n \div 10 < n /\ 48 + (n % 10) \in Ten
      BY <2>2, LastDigit DEF Ten
    <3>3. Good(n \div 10)
      BY <1>1, <3>2
    <3>4. PICK x \in Ten, s \in Seq(Ten) : x = 48 + (n % 10) /\ s = Digits[n \div 10] /\ Len(s) >= 1
      BY <3>2, <3>3
    <3>5. Append(s, x) \in Seq(Ten) /\ Len(Append(s, x)) = Len(s) + 1
      OBVIOUS
    <3> QED BY <2>2, <3>1, <3>4, <3>5
  <2> QED BY <2>1, <2>2
<1> HIDE DEF Good
<1>2. 0 \in P
  BY <1>1
<1>3. ASSUME NEW m \in Nat, m \in P  PROVE m + 1 \in P
  <2>1. Good(m + 1)
    BY <1>1, <1>3
  <2> QED BY <1>3, <2>1
<1>4. Nat \subseteq P
  <2> HIDE DEF P
  <2> QED BY <1>2, <1>3, NatSetInduction
<1>5. \A n \in Nat : Good(n)
  BY <1>4
<1> QED BY <1>5 DEF Good

\* Digits tell the number.
LEMMA DigitsTell ==
  \A n, m \in Nat : Digits[n] = Digits[m] => n = m
<1> DEFINE P == {k \in Nat : \A n \in 0..k : \A m \in Nat : Digits[n] = Digits[m] => n = m}
<1>1. ASSUME NEW n \in Nat, NEW m \in Nat, Digits[n] = Digits[m],
             \A i \in Nat : i < n => \A j \in Nat : Digits[i] = Digits[j] => i = j
      PROVE  n = m
  <2>1. CASE n < 10
    <3>1. m < 10
      <4>1. Len(Digits[n]) = 1 /\ (m >= 10 => Len(Digits[m]) >= 2)
        BY <2>1, DigitsAreDigits
      <4>2. Len(Digits[m]) = 1
        BY <1>1, <4>1, Zenon
      <4> QED BY <4>1, <4>2
    <3>2. Digits[n] = <<48 + n>> /\ Digits[m] = <<48 + m>>
      BY <2>1, <3>1, DigitsUnfold
    <3>3. 48 + n = 48 + m
      <4>1. <<48 + n>> = <<48 + m>>
        BY <1>1, <3>2, Zenon
      <4>2. <<48 + n>>[1] = 48 + n /\ <<48 + m>>[1] = 48 + m
        OBVIOUS
      <4> QED BY <4>1, <4>2, Zenon
    <3> QED BY <3>3
  <2>2. CASE ~(n < 10)
    <3>1. ~(m < 10)
      BY <1>1, <2>2, DigitsAreDigits
    <3>2. /\ Digits[n] = Append(Digits[n \div 10], 48 + (n % 10))
          /\ Digits[m] = Append(Digits[m \div 10], 48 + (m % 10))
      BY <2>2, <3>1, DigitsUnfold
    <3>3. /\ n \div 10 \in Nat /\ n \div 10 < n /\ m \div 10 \in Nat
          /\ n % 10 \in Int /\ m % 10 \in Int
          /\ n = (10 * (n \div 10)) + (n % 10) /\ m = (10 * (m \div 10)) + (m % 10)
      BY <2>2, LastDigit
    <3>4. PICK s \in Seq(Ten), t \in Seq(Ten) : s = Digits[n \div 10] /\ t = Digits[m \div 10]
      BY <3>3, DigitsAreDigits
    <3>5. PICK x \in Int, y \in Int : x = 48 + (n % 10) /\ y = 48 + (m % 10)
      BY <3>3
    <3>6. Append(s, x) = Append(t, y)
      BY <1>1, <3>2, <3>4, <3>5
    <3>7. s = t /\ x = y
      <4>1. Len(Append(s, x)) = Len(s) + 1 /\ Len(Append(t, y)) = Len(t) + 1
        OBVIOUS
      <4>2. Len(s) = Len(t)
        BY <3>6, <4>1
      <4>3. Append(s, x)[Len(s) + 1] = x /\ Append(t, y)[Len(t) + 1] = y
        OBVIOUS
      <4>4. \A i \in 1..Len(s) : Append(s, x)[i] = s[i]
        OBVIOUS
      <4>5. \A i \in 1..Len(t) : Append(t, y)[i] = t[i]
        OBVIOUS
      <4> QED BY <3>6, <4>2, <4>3, <4>4, <4>5, SeqEqual
    <3>8. n \div 10 = m \div 10
      BY <1>1, <3>3, <3>4, <3>7
    <3>9. n % 10 = m % 10
      BY <3>3, <3>5, <3>7
    <3> QED BY <3>3, <3>8, <3>9
  <2> QED BY <2>1, <2>2
<1>2. 0 \in P
  BY <1>1
<1>3. ASSUME NEW k \in Nat, k \in P  PROVE k + 1 \in P
  <2>1. \A m \in Nat : Digits[k + 1] = Digits[m] => k + 1 = m
    BY <1>1, <1>3
  <2> QED BY <1>3, <2>1
<1>4. Nat \subseteq P
  <2> HIDE DEF P
  <2> QED BY <1>2, <1>3, NatSetInduction
<1> QED BY <1>4

\* The bytes of a decimal number.
LEMMA DecimalBytes ==
  ASSUME NEW n \in Int
  PROVE  /\ Decimal(n) \in Seq(Bytes) /\ Len(Decimal(n)) >= 1
         /\ Decimal(n)[1] \in {45} \union Ten
<1>1. ASSUME NEW m \in Nat
      PROVE  /\ Digits[m] \in Seq(Bytes) /\ Len(Digits[m]) >= 1 /\ Digits[m][1] \in Ten
  <2>1. PICK s \in Seq(Ten) : s = Digits[m] /\ Len(s) >= 1
    BY DigitsAreDigits
  <2>2. s[1] \in Ten
    BY <2>1
  <2>3. s \in Seq(Bytes)
    <3>1. Ten \subseteq Bytes
      BY DEF Ten, Bytes
    <3> QED BY <3>1
  <2> QED BY <2>1, <2>2, <2>3
<1>2. CASE n < 0
  <2>1. -n \in Nat
    BY <1>2
  <2>2. PICK s \in Seq(Bytes) : s = Digits[-n]
    BY <1>1, <2>1
  <2>3. 45 \in Bytes
    BY DEF Bytes
  <2>4. PICK x : x = <<45>> \o s
    OBVIOUS
  <2>5. x \in Seq(Bytes) /\ Len(x) >= 1 /\ x[1] = 45
    BY <2>3, <2>4
  <2> QED BY <1>2, <2>2, <2>4, <2>5 DEF Decimal
<1>3. CASE ~(n < 0)
  BY <1>1, <1>3 DEF Decimal
<1> QED BY <1>2, <1>3

NoDigit == Int \ Ten

\* Two numbers in one place, with no digit behind them, are the same.
LEMMA DigitsRead ==
  ASSUME NEW n \in Nat, NEW m \in Nat, NEW b, Len(b) \in Nat, NEW p \in Nat,
         Reads(b, p, Digits[n], NoDigit), Reads(b, p, Digits[m], NoDigit)
  PROVE  n = m
<1>1. PICK s \in Seq(Ten), t \in Seq(Ten) : s = Digits[n] /\ t = Digits[m]
  BY DigitsAreDigits
<1>2. ASSUME NEW u \in Seq(Ten), NEW w \in Seq(Ten),
             Reads(b, p, u, NoDigit), Reads(b, p, w, NoDigit)
      PROVE  ~(Len(u) < Len(w))
  <2> SUFFICES ASSUME Len(u) < Len(w)  PROVE FALSE
    OBVIOUS
  <2>1. PICK l \in Nat, k \in Nat : l = Len(u) /\ k = Len(w) /\ l < k
    OBVIOUS
  <2>2. l + 1 \in 1..k /\ (p + l) + 1 = p + (l + 1)
    BY <2>1
  <2>3. b[p + (l + 1)] = w[l + 1]
    BY <1>2, <2>1, <2>2 DEF Reads, Holds
  <2>4. w[l + 1] \in Ten
    BY <2>1, <2>2
  <2>5. b[(p + l) + 1] \in NoDigit
    BY <1>2, <2>1 DEF Reads
  <2> QED BY <2>2, <2>3, <2>4, <2>5 DEF NoDigit
<1>3. Len(s) = Len(t)
  <2>1. ~(Len(s) < Len(t)) /\ ~(Len(t) < Len(s))
    BY <1>1, <1>2
  <2> QED BY <2>1
<1>4. s = t
  BY <1>1, <1>3, HoldsOne DEF Reads
<1> QED BY <1>1, <1>4, DigitsTell

\* So does the decimal form, a minus sign in front or not.
LEMMA DecimalRead ==
  ASSUME NEW n \in Int, NEW m \in Int, NEW b, Len(b) \in Nat, NEW p \in Nat,
         Reads(b, p, Decimal(n), NoDigit), Reads(b, p, Decimal(m), NoDigit)
  PROVE  n = m
<1>1. ASSUME NEW k \in Int, k < 0, Reads(b, p, Decimal(k), NoDigit)
      PROVE  b[p + 1] = 45 /\ Reads(b, p + 1, Digits[-k], NoDigit) /\ -k \in Nat
  <2>1. -k \in Nat
    BY <1>1
  <2>2. PICK s \in Seq(Ten) : s = Digits[-k]
    BY <2>1, DigitsAreDigits
  <2>3. PICK sign \in Seq(Int) : sign = <<45>>
    <3>1. <<45>> \in Seq(Int)
      OBVIOUS
    <3> QED BY <3>1, Zenon
  <2>4. s \in Seq(Int)
    BY DEF Ten
  <2>5. PICK x : x = sign \o s
    OBVIOUS
  <2>6. Decimal(k) = x
    BY <1>1, <2>2, <2>3, <2>5 DEF Decimal
  <2>7. PICK l \in Nat : l = Len(s) /\ Len(x) = l + 1 /\ Len(sign) = 1 /\ sign[1] = 45
    BY <2>3, <2>4, <2>5
  <2>8. Holds(b, p, sign) /\ Holds(b, p + Len(sign), s)
    BY <1>1, <2>4, <2>5, <2>6, HoldsConcat DEF Reads
  <2>9. b[p + 1] = 45 /\ Holds(b, p + 1, s)
    BY <2>7, <2>8 DEF Holds
  <2>10. p + (l + 1) < Len(b) /\ b[(p + (l + 1)) + 1] \in NoDigit
    BY <1>1, <2>6, <2>7 DEF Reads
  <2>11. (p + 1) + l = p + (l + 1)
    BY <2>7
  <2>12. Reads(b, p + 1, s, NoDigit)
    BY <2>7, <2>9, <2>10, <2>11 DEF Reads
  <2> QED BY <2>1, <2>2, <2>9, <2>12
<1>2. ASSUME NEW k \in Int, ~(k < 0), Reads(b, p, Decimal(k), NoDigit)
      PROVE  b[p + 1] # 45 /\ Reads(b, p, Digits[k], NoDigit) /\ k \in Nat
  <2>1. k \in Nat /\ Decimal(k) = Digits[k]
    BY <1>2 DEF Decimal
  <2>2. PICK s \in Seq(Ten) : s = Digits[k] /\ Len(s) >= 1
    BY <2>1, DigitsAreDigits
  <2>3. s[1] \in Ten /\ b[p + 1] = s[1]
    BY <1>2, <2>1, <2>2 DEF Reads, Holds
  <2>4. b[p + 1] # 45
    BY <2>3 DEF Ten
  <2> QED BY <1>2, <2>1, <2>4
<1>3. CASE n < 0 /\ m < 0
  <2>1. p + 1 \in Nat /\ -n = -m
    BY <1>1, <1>3, DigitsRead
  <2> QED BY <2>1
<1>4. CASE ~(n < 0) /\ ~(m < 0)
  BY <1>2, <1>4, DigitsRead
<1>5. CASE (n < 0) # (m < 0)
  BY <1>1, <1>2, <1>5
<1> QED BY <1>3, <1>4, <1>5

---------------------------------------------------------------------------
(* The order of the members.                                               *)

\* Where one sequence falls behind another.
Splits(s, t, i) ==
  /\ i \in 1..Len(t) /\ i <= Len(s) + 1
  /\ \A j \in 1..(i - 1) : s[j] = t[j]
  /\ i <= Len(s) => s[i] < t[i]

\* One sequence precedes another where they first differ, or by its end.
LEMMA PrecedesSplits ==
  ASSUME NEW s \in Seq(Int), NEW t \in Seq(Int)
  PROVE  Precedes(s, t) <=> \E i \in 1..Len(t) : Splits(s, t, i)
<1>0. PICK m \in Nat, n \in Nat : m = Len(s) /\ n = Len(t) /\ DOMAIN s = 1..m /\ DOMAIN t = 1..n
  OBVIOUS
<1>1. ASSUME IsStrictPrefix(s, t)  PROVE \E i \in 1..n : Splits(s, t, i)
  <2>1. m <= n /\ SubSeq(s, 1, m) = SubSeq(t, 1, m) /\ s # t
    BY <1>0, <1>1 DEF IsStrictPrefix, IsPrefix
  <2>2. ASSUME NEW j \in 1..m  PROVE s[j] = t[j]
    <3>1. SubSeq(s, 1, m)[j] = s[j] /\ SubSeq(t, 1, m)[j] = t[j]
      BY <1>0, <2>1
    <3> QED BY <2>1, <3>1
  <2>3. m # n
    BY <1>0, <2>1, <2>2, SeqEqual
  <2>4. Splits(s, t, m + 1) /\ m + 1 \in 1..n
    BY <1>0, <2>1, <2>2, <2>3 DEF Splits
  <2> QED BY <2>4
<1>2. ASSUME NEW i \in (1..m) \intersect (1..n), s[i] < t[i], \A j \in 1..(i - 1) : s[j] = t[j]
      PROVE  Splits(s, t, i)
  BY <1>0, <1>2 DEF Splits
<1>3. ASSUME NEW i \in 1..n, Splits(s, t, i)
      PROVE  Precedes(s, t)
  <2>1. CASE i <= m
    <3>1. i \in DOMAIN s \intersect DOMAIN t
      BY <1>0, <2>1
    <3> QED BY <1>0, <1>3, <2>1, <3>1 DEF Precedes, Splits
  <2>2. CASE ~(i <= m)
    <3>1. i = m + 1 /\ m <= n /\ \A j \in 1..m : s[j] = t[j]
      BY <1>0, <1>3, <2>2 DEF Splits
    <3>2. SubSeq(s, 1, m) = SubSeq(t, 1, m)
      <4>1. SubSeq(s, 1, m) = [j \in 1..m |-> s[j]] /\ SubSeq(t, 1, m) = [j \in 1..m |-> t[j]]
        BY <1>0, <3>1
      <4> QED BY <3>1, <4>1
    <3>3. s # t
      BY <1>0, <3>1
    <3> QED BY <1>0, <3>1, <3>2, <3>3 DEF Precedes, IsStrictPrefix, IsPrefix
  <2> QED BY <2>1, <2>2
<1>4. ASSUME Precedes(s, t)  PROVE \E i \in 1..n : Splits(s, t, i)
  <2>1. CASE IsStrictPrefix(s, t)
    BY <1>1, <2>1
  <2>2. CASE ~IsStrictPrefix(s, t)
    <3>1. PICK i \in (1..m) \intersect (1..n) : s[i] < t[i] /\ \A j \in 1..(i - 1) : s[j] = t[j]
      BY <1>0, <1>4, <2>2 DEF Precedes
    <3> QED BY <1>2, <3>1
  <2> QED BY <2>1, <2>2
<1> QED BY <1>0, <1>3, <1>4

\* Sequences of numbers are ordered.
LEMMA PrecedesTransitive ==
  ASSUME NEW s \in Seq(Int), NEW t \in Seq(Int), NEW u \in Seq(Int),
         Precedes(s, t), Precedes(t, u)
  PROVE  Precedes(s, u)
<1>0. PICK m \in Nat, n \in Nat, l \in Nat : m = Len(s) /\ n = Len(t) /\ l = Len(u)
  OBVIOUS
<1>1. PICK i \in 1..n : Splits(s, t, i)
  BY <1>0, PrecedesSplits
<1>2. PICK k \in 1..l : Splits(t, u, k)
  BY <1>0, PrecedesSplits
<1>3. /\ i <= m + 1 /\ (\A j \in 1..(i - 1) : s[j] = t[j]) /\ (i <= m => s[i] < t[i])
      /\ k <= n + 1 /\ (\A j \in 1..(k - 1) : t[j] = u[j]) /\ (k <= n => t[k] < u[k])
  BY <1>0, <1>1, <1>2 DEF Splits
<1>4. /\ \A j \in 1..m : s[j] \in Int
      /\ \A j \in 1..n : t[j] \in Int
      /\ \A j \in 1..l : u[j] \in Int
  BY <1>0
<1>5. CASE i <= k
  <2>1. i \in 1..l
    BY <1>5
  <2>2. \A j \in 1..(i - 1) : s[j] = u[j]
    BY <1>3, <1>5
  <2>3. i <= m => s[i] < u[i]
    <3>1. i < k => t[i] = u[i]
      BY <1>3
    <3>2. i = k => t[i] < u[i]
      BY <1>3
    <3>3. i <= m => s[i] \in Int /\ t[i] \in Int /\ u[i] \in Int
      BY <1>4, <2>1
    <3> QED BY <1>3, <1>5, <3>1, <3>2, <3>3
  <2>4. Splits(s, u, i)
    BY <1>0, <1>3, <2>1, <2>2, <2>3 DEF Splits
  <2> QED BY <1>0, <2>1, <2>4, PrecedesSplits
<1>6. CASE k < i
  <2>1. k \in 1..l /\ k <= n
    BY <1>6
  <2>2. \A j \in 1..(k - 1) : s[j] = u[j]
    BY <1>3, <1>6
  <2>3. k <= m => s[k] < u[k]
    BY <1>3, <1>6, <2>1
  <2>4. Splits(s, u, k)
    BY <1>0, <1>3, <1>6, <2>1, <2>2, <2>3 DEF Splits
  <2> QED BY <1>0, <2>1, <2>4, PrecedesSplits
<1> QED BY <1>5, <1>6

\* The order of sequences is strict,
LEMMA PrecedesStrict ==
  ASSUME NEW s \in Seq(Int)
  PROVE  ~Precedes(s, s)
<1>1. ASSUME NEW i \in 1..Len(s), Splits(s, s, i)  PROVE FALSE
  <2>1. s[i] < s[i] /\ s[i] \in Int
    BY <1>1 DEF Splits
  <2> QED BY <2>1
<1> QED BY <1>1, PrecedesSplits

\* and total.
LEMMA PrecedesTotal ==
  ASSUME NEW s \in Seq(Int), NEW t \in Seq(Int), s # t
  PROVE  Precedes(s, t) \/ Precedes(t, s)
<1>0. PICK m \in Nat, n \in Nat : m = Len(s) /\ n = Len(t)
  OBVIOUS
<1>1. SUFFICES ASSUME \A i \in 1..n : ~Splits(s, t, i), \A i \in 1..m : ~Splits(t, s, i)
               PROVE  FALSE
  BY <1>0, PrecedesSplits
<1> DEFINE P == {i \in Nat : i <= m /\ i <= n => \A j \in 1..i : s[j] = t[j]}
<1>2. 0 \in P
  OBVIOUS
<1>3. ASSUME NEW i \in Nat, i \in P  PROVE i + 1 \in P
  <2> SUFFICES ASSUME i + 1 <= m, i + 1 <= n  PROVE \A j \in 1..(i + 1) : s[j] = t[j]
    OBVIOUS
  <2>1. (\A j \in 1..i : s[j] = t[j]) /\ (i + 1) - 1 = i /\ i + 1 \in 1..n /\ i + 1 \in 1..m
    BY <1>3
  <2>2. s[i + 1] \in Int /\ t[i + 1] \in Int
    BY <1>0, <2>1
  <2>3. ~(s[i + 1] < t[i + 1])
    BY <1>0, <1>1, <2>1 DEF Splits
  <2>4. ~(t[i + 1] < s[i + 1])
    BY <1>0, <1>1, <2>1 DEF Splits
  <2>5. s[i + 1] = t[i + 1]
    BY <2>2, <2>3, <2>4
  <2> QED BY <2>1, <2>5
<1>4. Nat \subseteq P
  <2> HIDE DEF P
  <2> QED BY <1>2, <1>3, NatSetInduction
<1>5. CASE m = n
  <2>1. \A j \in 1..m : s[j] = t[j]
    BY <1>4, <1>5
  <2> QED BY <1>0, <1>5, <2>1, SeqEqual
<1>6. CASE m < n
  <2>1. (\A j \in 1..m : s[j] = t[j]) /\ (m + 1) - 1 = m /\ m + 1 \in 1..n
    BY <1>4, <1>6
  <2>2. Splits(s, t, m + 1)
    BY <1>0, <2>1 DEF Splits
  <2> QED BY <1>1, <2>1, <2>2
<1>7. CASE n < m
  <2>1. (\A j \in 1..n : s[j] = t[j]) /\ (n + 1) - 1 = n /\ n + 1 \in 1..m
    BY <1>4, <1>7
  <2>2. Splits(t, s, n + 1)
    BY <1>0, <2>1 DEF Splits
  <2> QED BY <1>1, <2>1, <2>2
<1> QED BY <1>5, <1>6, <1>7

\* The units of a character.
LEMMA UnitsOfChar ==
  ASSUME NEW c \in Chars
  PROVE  /\ Utf16(c) \in Seq(Int) /\ Len(Utf16(c)) \in {1, 2}
         /\ c < 65536 => Len(Utf16(c)) = 1 /\ Utf16(c)[1] = c
         /\ c >= 65536 => /\ Len(Utf16(c)) = 2
                          /\ Utf16(c)[1] = 55296 + ((c - 65536) \div 1024)
                          /\ Utf16(c)[2] = 56320 + ((c - 65536) % 1024)
<1>0. c \in Nat
  BY SMT DEF Chars
<1>1. CASE c < 65536
  BY <1>0, <1>1, SMT DEF Utf16
<1>2. CASE ~(c < 65536)
  <2>1. PICK x \in Int, y \in Int : /\ x = 55296 + ((c - 65536) \div 1024)
                                    /\ y = 56320 + ((c - 65536) % 1024)
    BY <1>0, SMT
  <2>2. Utf16(c) = <<x, y>>
    BY <1>2, <2>1, SMT DEF Utf16
  <2> QED BY <1>2, <2>1, <2>2, SMT
<1> QED BY <1>1, <1>2, SMT

\* The ranks are the order of the units.
LEMMA RankTells ==
  ASSUME NEW c \in Chars, NEW d \in Chars
  PROVE  Rank(c) \in Int /\ (Rank(c) = Rank(d) => c = d)
BY SMT DEF Chars, Rank

UnitsBefore(x, y) ==
  \/ x[1] < y[1]
  \/ Len(x) = 2 /\ Len(y) = 2 /\ x[1] = y[1] /\ x[2] < y[2]

\* The rank of a code point orders it as its UTF-16 units do.
LEMMA RankOrdersUnits ==
  ASSUME NEW c \in Chars, NEW d \in Chars, Rank(c) < Rank(d)
  PROVE  UnitsBefore(Utf16(c), Utf16(d))
<1>0. c \in Nat /\ c <= 1114111 /\ c \notin 55296..57343 /\ d \in Nat /\ d <= 1114111 /\ d \notin 55296..57343
  BY SMT DEF Chars
<1>1. CASE c < 65536 /\ d < 65536
  <2>1. c < d
    BY <1>0, <1>1, SMT DEF Rank
  <2> QED BY <1>1, <2>1, UnitsOfChar, SMT DEF UnitsBefore
<1>2. CASE c < 65536 /\ d >= 65536
  <2>1. c < 55296
    BY <1>0, <1>2, SMT DEF Rank
  <2>2. 55296 + ((d - 65536) \div 1024) >= 55296 /\ 55296 + ((d - 65536) \div 1024) \in Int
    BY <1>0, <1>2, SMT
  <2>3. Utf16(c)[1] = c /\ Utf16(d)[1] = 55296 + ((d - 65536) \div 1024)
    BY <1>2, UnitsOfChar, SMT
  <2> QED BY <1>0, <2>1, <2>2, <2>3, SMT DEF UnitsBefore
<1>3. CASE c >= 65536 /\ d < 65536
  <2>1. d > 57343
    BY <1>0, <1>3, SMT DEF Rank
  <2>2. 55296 + ((c - 65536) \div 1024) <= 57343 /\ 55296 + ((c - 65536) \div 1024) \in Int
    BY <1>0, <1>3, SMT
  <2>3. Utf16(d)[1] = d /\ Utf16(c)[1] = 55296 + ((c - 65536) \div 1024)
    BY <1>3, UnitsOfChar, SMT
  <2> QED BY <1>0, <2>1, <2>2, <2>3, SMT DEF UnitsBefore
<1>4. CASE c >= 65536 /\ d >= 65536
  <2>1. c < d
    BY <1>0, <1>4, SMT DEF Rank
  <2>2. PICK x \in Nat, y \in Nat : x = c - 65536 /\ y = d - 65536 /\ x < y
    BY <1>0, <1>4, <2>1, SMT
  <2>3. /\ x \div 1024 \in Nat /\ y \div 1024 \in Nat /\ x % 1024 \in Nat /\ y % 1024 \in Nat
        /\ x \div 1024 <= y \div 1024
        /\ x \div 1024 = y \div 1024 => x % 1024 < y % 1024
    BY <2>2, SMT
  <2>4. /\ Len(Utf16(c)) = 2 /\ Utf16(c)[1] = 55296 + (x \div 1024) /\ Utf16(c)[2] = 56320 + (x % 1024)
        /\ Len(Utf16(d)) = 2 /\ Utf16(d)[1] = 55296 + (y \div 1024) /\ Utf16(d)[2] = 56320 + (y % 1024)
    BY <1>4, <2>2, UnitsOfChar, SMT
  <2> QED BY <2>3, <2>4, SMT DEF UnitsBefore
<1> QED BY <1>0, <1>1, <1>2, <1>3, <1>4, SMT

\* The units of a string, and where those of each character begin.
UnitsOf(s) == [i \in DOMAIN s |-> Utf16(s[i])]

IsUnits(s, w, off) ==
  /\ w = Utf16Units(s) /\ w \in Seq(Int)
  /\ off \in [0..Len(s) -> Nat] /\ off[0] = 0 /\ Len(w) = off[Len(s)]
  /\ \A i \in 1..Len(s) :
       /\ off[i] = off[i - 1] + Len(Utf16(s[i]))
       /\ off[i] <= Len(w)
       /\ \A j \in 1..Len(Utf16(s[i])) : w[off[i - 1] + j] = Utf16(s[i])[j]

\* The units of a string, each code point's in their place.
LEMMA UnitsApart ==
  ASSUME NEW s \in Strings
  PROVE  \E w, off : IsUnits(s, w, off)
<1>1. PICK n \in Nat : n = Len(s) /\ DOMAIN s = 1..n /\ \A i \in 1..n : s[i] \in Chars
  BY DEF Strings
<1>2. UnitsOf(s) = [i \in 1..n |-> Utf16(s[i])] /\ Utf16Units(s) = FlattenSeq(UnitsOf(s))
  BY <1>1, Zenon DEF UnitsOf, Utf16Units
<1>3. \A i \in 1..n : Utf16(s[i]) \in Seq(Int)
  BY <1>1, UnitsOfChar
<1>4. UnitsOf(s) \in Seq(Seq(Int)) /\ Len(UnitsOf(s)) = n
  BY <1>2, <1>3
<1>5. PICK w \in Seq(Int) : w = FlattenSeq(UnitsOf(s))
  BY <1>4, FlattenJoins
<1>6. PICK off : IsJoined(UnitsOf(s), off)
  BY <1>4, FlattenJoins
<1>7. Holds(w, 0, w) /\ Len(w) \in Nat
  BY HoldsItself
<1>8. /\ off \in [0..n -> Nat] /\ off[0] = 0 /\ Len(w) = off[n]
      /\ \A i \in 1..n : off[i] = off[i - 1] + Len(UnitsOf(s)[i])
      /\ \A i \in 1..n : Holds(w, 0 + off[i - 1], UnitsOf(s)[i])
  BY <1>4, <1>5, <1>6, <1>7 DEF IsJoined
<1>9. ASSUME NEW i \in 1..n
      PROVE  /\ off[i] = off[i - 1] + Len(Utf16(s[i]))
             /\ off[i] <= Len(w)
             /\ \A j \in 1..Len(Utf16(s[i])) : w[off[i - 1] + j] = Utf16(s[i])[j]
  <2>1. UnitsOf(s)[i] = Utf16(s[i])
    BY <1>2
  <2>2. PICK u \in Seq(Int) : u = Utf16(s[i])
    BY <1>3
  <2>3. PICK a \in Nat : a = off[i - 1] /\ 0 + a = a
    <3>1. i - 1 \in 0..n
      OBVIOUS
    <3> QED BY <1>8, <3>1
  <2>4. Holds(w, a, u) /\ off[i] = a + Len(u)
    BY <1>8, <2>1, <2>2, <2>3
  <2>5. a + Len(u) <= Len(w) /\ \A j \in 1..Len(u) : w[a + j] = u[j]
    BY <2>4 DEF Holds
  <2> QED BY <2>2, <2>3, <2>4, <2>5
<1>10. IsUnits(s, w, off)
  BY <1>1, <1>2, <1>5, <1>8, <1>9 DEF IsUnits
<1> QED BY <1>10

\* The string of the ranks.
Ranks(s) == [n \in DOMAIN s |-> Rank(s[n])]

\* The ranks of a string, place by place.
LEMMA RanksOfString ==
  ASSUME NEW s \in Strings
  PROVE  /\ Ranks(s) \in Seq(Int) /\ Len(Ranks(s)) = Len(s) /\ Len(s) \in Nat
         /\ \A i \in 1..Len(s) : s[i] \in Chars /\ Ranks(s)[i] = Rank(s[i])
<1>1. PICK n \in Nat : n = Len(s) /\ DOMAIN s = 1..n /\ \A i \in 1..n : s[i] \in Chars
  BY DEF Strings
<1>2. \A i \in 1..n : Rank(s[i]) \in Int
  BY <1>1, RankTells
<1>3. Ranks(s) = [i \in 1..n |-> Rank(s[i])]
  BY <1>1 DEF Ranks
<1> QED BY <1>1, <1>2, <1>3

\* They tell the string.
LEMMA RanksTell ==
  ASSUME NEW s \in Strings, NEW t \in Strings, Ranks(s) = Ranks(t)
  PROVE  s = t
<1>1. Len(s) = Len(t) /\ Len(s) \in Nat
  BY RanksOfString
<1>2. \A i \in 1..Len(s) : s[i] = t[i]
  <2>1. ASSUME NEW i \in 1..Len(s)  PROVE s[i] = t[i]
    <3>1. s[i] \in Chars /\ t[i] \in Chars /\ Rank(s[i]) = Rank(t[i])
      BY <1>1, RanksOfString
    <3> QED BY <3>1, RankTells
  <2> QED BY <2>1
<1> QED BY <1>1, <1>2, SeqEqual DEF Strings

\* Strings in the order of their ranks have their units in order.
LEMMA UnitsFollowRanks ==
  ASSUME NEW s \in Strings, NEW t \in Strings, Precedes(Ranks(s), Ranks(t))
  PROVE  Utf16Cmp(s, t)
<1>0. PICK m \in Nat, n \in Nat : m = Len(s) /\ n = Len(t)
  BY RanksOfString
<1>1. PICK i \in 1..n : Splits(Ranks(s), Ranks(t), i)
  BY <1>0, PrecedesSplits, RanksOfString
<1>2. /\ i <= m + 1
      /\ \A j \in 1..(i - 1) : Rank(s[j]) = Rank(t[j])
      /\ i <= m => Rank(s[i]) < Rank(t[i])
  <2>1. i <= m + 1 /\ (\A j \in 1..(i - 1) : Ranks(s)[j] = Ranks(t)[j])
        /\ (i <= m => Ranks(s)[i] < Ranks(t)[i])
    BY <1>0, <1>1, RanksOfString DEF Splits
  <2>2. \A j \in 1..(i - 1) : j \in 1..m /\ j \in 1..n
    BY <2>1
  <2>3. ASSUME NEW j \in 1..(i - 1)  PROVE Rank(s[j]) = Rank(t[j])
    <3>1. Ranks(s)[j] = Rank(s[j])
      BY <1>0, <2>2, RanksOfString
    <3>2. Ranks(t)[j] = Rank(t[j])
      BY <1>0, <2>2, RanksOfString
    <3> QED BY <2>1, <3>1, <3>2
  <2>4. ASSUME i <= m  PROVE Rank(s[i]) < Rank(t[i])
    <3>1. Ranks(s)[i] = Rank(s[i])
      BY <1>0, <2>4, RanksOfString
    <3>2. Ranks(t)[i] = Rank(t[i])
      BY <1>0, RanksOfString
    <3> QED BY <2>1, <2>4, <3>1, <3>2
  <2> QED BY <2>1, <2>3, <2>4
<1>3. \A j \in 1..m : s[j] \in Chars
  BY <1>0, RanksOfString
<1>4. \A j \in 1..n : t[j] \in Chars
  BY <1>0, RanksOfString
<1>5. \A j \in 1..(i - 1) : s[j] = t[j] /\ j \in 1..m /\ j \in 1..n
  BY <1>2, <1>3, <1>4, RankTells
<1>6. PICK v, a : IsUnits(s, v, a)
  BY UnitsApart
<1>7. PICK w, b : IsUnits(t, w, b)
  BY UnitsApart
<1>8. /\ v = Utf16Units(s) /\ v \in Seq(Int) /\ a \in [0..m -> Nat] /\ a[0] = 0 /\ Len(v) = a[m]
      /\ \A j \in 1..m : a[j] = a[j - 1] + Len(Utf16(s[j]))
      /\ \A j \in 1..m : a[j] <= Len(v)
      /\ \A j \in 1..m : \A k \in 1..Len(Utf16(s[j])) : v[a[j - 1] + k] = Utf16(s[j])[k]
  BY <1>0, <1>6 DEF IsUnits
<1>9. /\ w = Utf16Units(t) /\ w \in Seq(Int) /\ b \in [0..n -> Nat] /\ b[0] = 0 /\ Len(w) = b[n]
      /\ \A j \in 1..n : b[j] = b[j - 1] + Len(Utf16(t[j]))
      /\ \A j \in 1..n : b[j] <= Len(w)
      /\ \A j \in 1..n : \A k \in 1..Len(Utf16(t[j])) : w[b[j - 1] + k] = Utf16(t[j])[k]
  BY <1>0, <1>7 DEF IsUnits
<1> DEFINE P == {j \in Nat : j <= i - 1 => /\ a[j] = b[j]
                                           /\ \A k \in 1..a[j] : v[k] = w[k]}
<1>10. 0 \in P
  BY <1>8, <1>9
<1>11. ASSUME NEW j \in Nat, j \in P  PROVE j + 1 \in P
  <2> SUFFICES ASSUME j + 1 <= i - 1
               PROVE  a[j + 1] = b[j + 1] /\ \A k \in 1..a[j + 1] : v[k] = w[k]
    OBVIOUS
  <2>1. /\ j + 1 \in 1..(i - 1) /\ j + 1 \in 1..m /\ j + 1 \in 1..n /\ (j + 1) - 1 = j
        /\ s[j + 1] = t[j + 1]
    BY <1>5
  <2>2. a[j] = b[j] /\ \A k \in 1..a[j] : v[k] = w[k]
    BY <1>11
  <2>3. PICK u : u = Utf16(s[j + 1])
    OBVIOUS
  <2>4. PICK l \in Nat : l = Len(u)
    BY <1>3, <2>1, <2>3, UnitsOfChar
  <2>5. PICK o \in Nat : o = a[j] /\ o = b[j]
    <3>1. j \in 0..m
      BY <2>1
    <3> QED BY <1>8, <2>2, <3>1
  <2>6. a[j + 1] = o + l /\ b[j + 1] = o + l
    <3>1. a[j + 1] = a[(j + 1) - 1] + Len(Utf16(s[j + 1]))
      BY <1>8, <2>1, Zenon
    <3>2. b[j + 1] = b[(j + 1) - 1] + Len(Utf16(t[j + 1]))
      BY <1>9, <2>1, Zenon
    <3>3. a[j + 1] = a[j] + Len(u) /\ b[j + 1] = b[j] + Len(u)
      BY <2>1, <2>3, <3>1, <3>2, Zenon
    <3> QED BY <2>4, <2>5, <3>3, Zenon
  <2>7. \A k \in 1..l : v[o + k] = u[k] /\ w[o + k] = u[k]
    <3>1. \A k \in 1..l : v[o + k] = u[k]
      BY <1>8, <2>1, <2>3, <2>4, <2>5
    <3>2. \A k \in 1..l : w[o + k] = u[k]
      <4>1. \A k \in 1..Len(Utf16(t[j + 1])) :
              w[b[(j + 1) - 1] + k] = Utf16(t[j + 1])[k]
        BY <1>9, <2>1, Zenon
      <4>2. Utf16(t[j + 1]) = u /\ b[(j + 1) - 1] = o
        BY <2>1, <2>3, <2>5, Zenon
      <4> QED BY <2>4, <4>1, <4>2, Zenon
    <3> QED BY <3>1, <3>2
  <2>8. ASSUME NEW k \in 1..(o + l)  PROVE v[k] = w[k]
    <3>1. CASE k <= o
      BY <2>2, <2>5, <3>1
    <3>2. CASE ~(k <= o)
      <4>1. k - o \in 1..l /\ o + (k - o) = k
        BY <3>2
      <4>2. v[o + (k - o)] = w[o + (k - o)]
        BY <2>7, <4>1
      <4> QED BY <4>1, <4>2
    <3> QED BY <3>1, <3>2
  <2> QED BY <2>6, <2>8
<1>12. Nat \subseteq P
  <2> HIDE DEF P
  <2> QED BY <1>10, <1>11, NatSetInduction
<1>13. PICK o \in Nat : /\ o = a[i - 1] /\ o = b[i - 1]
                        /\ \A k \in 1..o : v[k] = w[k]
  <2>1. i - 1 \in Nat /\ i - 1 \in 0..m
    BY <1>2
  <2>2. a[i - 1] = b[i - 1] /\ \A k \in 1..a[i - 1] : v[k] = w[k]
    BY <1>12, <2>1
  <2> QED BY <1>8, <2>1, <2>2
<1>14. PICK y : y = Utf16(t[i])
  OBVIOUS
<1>15. /\ y \in Seq(Int) /\ Len(y) \in {1, 2}
       /\ b[i] = o + Len(y) /\ o + Len(y) <= Len(w)
       /\ \A k \in 1..Len(y) : w[o + k] = y[k]
  <2>1. y \in Seq(Int) /\ Len(y) \in {1, 2}
    BY <1>4, <1>14, UnitsOfChar
  <2>2. b[i] = o + Len(y) /\ b[i] <= Len(w)
    BY <1>9, <1>13, <1>14
  <2>3. \A k \in 1..Len(y) : w[o + k] = y[k]
    BY <1>9, <1>13, <1>14
  <2> QED BY <2>1, <2>2, <2>3
<1>16. o + 1 \in 1..Len(w) /\ w[o + 1] = y[1]
  <2>1. Len(w) \in Nat /\ 1 \in 1..Len(y)
    <3>1. w \in Seq(Int)
      BY <1>9
    <3>2. Len(w) \in Nat
      BY <3>1
    <3>3. 1 \in 1..Len(y)
      <4>1. Len(y) = 1 \/ Len(y) = 2
        BY <1>15
      <4> QED BY <4>1
    <3> QED BY <3>2, <3>3
  <2> QED BY <1>15, <2>1
<1>17. CASE i = m + 1
  <2>1. Len(v) = o
    <3>1. i - 1 = m
      BY <1>17
    <3> QED BY <1>8, <1>13, <3>1
  <2>2. Splits(v, w, o + 1)
    BY <1>13, <1>16, <2>1 DEF Splits
  <2> QED BY <1>8, <1>9, <1>16, <2>2, PrecedesSplits DEF Utf16Cmp
<1>18. CASE i # m + 1
  <2>1. i \in 1..m /\ Rank(s[i]) < Rank(t[i])
    BY <1>2, <1>18
  <2>2. PICK x : x = Utf16(s[i])
    OBVIOUS
  <2>3. /\ x \in Seq(Int) /\ Len(x) \in {1, 2}
        /\ o + Len(x) <= Len(v)
        /\ \A k \in 1..Len(x) : v[o + k] = x[k]
    <3>1. x \in Seq(Int) /\ Len(x) \in {1, 2}
      BY <1>3, <2>1, <2>2, UnitsOfChar
    <3>2. a[i] = o + Len(x) /\ a[i] <= Len(v)
      BY <1>8, <1>13, <2>1, <2>2
    <3>3. \A k \in 1..Len(x) : v[o + k] = x[k]
      BY <1>8, <1>13, <2>1, <2>2
    <3> QED BY <3>1, <3>2, <3>3
  <2>4. UnitsBefore(x, y)
    BY <1>3, <1>4, <1>14, <2>1, <2>2, RankOrdersUnits
  <2>5. v[o + 1] = x[1] /\ o + 1 <= Len(v)
    <3>1. Len(v) \in Nat /\ 1 \in 1..Len(x)
      <4>1. v \in Seq(Int)
        BY <1>8
      <4>2. Len(v) \in Nat
        BY <4>1
      <4>3. Len(x) = 1 \/ Len(x) = 2
        BY <2>3
      <4>4. 1 \in 1..Len(x)
        BY <4>3
      <4> QED BY <4>2, <4>4
    <3> QED BY <2>3, <3>1
  <2>6. CASE x[1] < y[1]
    <3>1. Splits(v, w, o + 1)
      <4>1. (o + 1) - 1 = o /\ o + 1 <= Len(v) + 1
        BY <1>8, <2>5
      <4> QED BY <1>13, <1>16, <2>5, <2>6, <4>1 DEF Splits
    <3> QED BY <1>8, <1>9, <1>16, <3>1, PrecedesSplits DEF Utf16Cmp
  <2>7. CASE Len(x) = 2 /\ Len(y) = 2 /\ x[1] = y[1] /\ x[2] < y[2]
    <3>1. 2 \in 1..Len(x) /\ 2 \in 1..Len(y) /\ Len(v) \in Nat /\ Len(w) \in Nat
      BY <1>8, <1>9, <2>7
    <3>2. v[o + 2] = x[2] /\ w[o + 2] = y[2] /\ o + 2 <= Len(v) /\ o + 2 <= Len(w)
      BY <1>15, <2>3, <2>7, <3>1
    <3>3. \A k \in 1..((o + 2) - 1) : v[k] = w[k]
      <4>1. \A k \in 1..((o + 2) - 1) : k \in 1..o \/ k = o + 1
        OBVIOUS
      <4> QED BY <1>13, <1>16, <2>5, <2>7, <4>1
    <3>4. o + 2 \in 1..Len(w) /\ o + 2 <= Len(v) + 1
      BY <3>1, <3>2
    <3>5. Splits(v, w, o + 2)
      BY <2>7, <3>2, <3>3, <3>4 DEF Splits
    <3> QED BY <1>8, <1>9, <3>4, <3>5, PrecedesSplits DEF Utf16Cmp
  <2> QED BY <2>4, <2>6, <2>7 DEF UnitsBefore
<1> QED BY <1>17, <1>18

\* Keys are ordered, and their order is that of the ranks.
LEMMA KeyOrder ==
  /\ \A s \in Strings : ~Utf16Cmp(s, s)
  /\ \A s, t, u \in Strings : Utf16Cmp(s, t) /\ Utf16Cmp(t, u) => Utf16Cmp(s, u)
  /\ \A s, t \in Strings : s # t => Utf16Cmp(s, t) \/ Utf16Cmp(t, s)
  /\ \A s, t \in Strings : Utf16Cmp(s, t) => Precedes(Ranks(s), Ranks(t))
<1>1. \A s \in Strings : Utf16Units(s) \in Seq(Int)
  BY UnitsApart DEF IsUnits
<1>2. \A s \in Strings : ~Utf16Cmp(s, s)
  BY <1>1, PrecedesStrict DEF Utf16Cmp
<1>3. \A s, t, u \in Strings : Utf16Cmp(s, t) /\ Utf16Cmp(t, u) => Utf16Cmp(s, u)
  BY <1>1, PrecedesTransitive DEF Utf16Cmp
<1>4. ASSUME NEW s \in Strings, NEW t \in Strings, s # t
      PROVE  \/ Precedes(Ranks(s), Ranks(t)) /\ Utf16Cmp(s, t)
             \/ Precedes(Ranks(t), Ranks(s)) /\ Utf16Cmp(t, s)
  <2>1. Ranks(s) # Ranks(t) /\ Ranks(s) \in Seq(Int) /\ Ranks(t) \in Seq(Int)
    BY <1>4, RanksTell, RanksOfString
  <2>2. Precedes(Ranks(s), Ranks(t)) \/ Precedes(Ranks(t), Ranks(s))
    BY <2>1, PrecedesTotal
  <2> QED BY <2>2, UnitsFollowRanks
<1>5. ASSUME NEW s \in Strings, NEW t \in Strings, Utf16Cmp(s, t)
      PROVE  Precedes(Ranks(s), Ranks(t))
  <2>1. s # t
    BY <1>2, <1>5
  <2>2. ~Utf16Cmp(t, s)
    BY <1>2, <1>3, <1>5
  <2> QED BY <1>4, <2>1, <2>2
<1> QED BY <1>2, <1>3, <1>4, <1>5

\* The members of a map, listed in the order of their keys.
IsListing(map, inner, n) ==
  /\ Keys(map) \in [1..n -> Strings]
  /\ \A i, j \in 1..n : i < j => Utf16Cmp(Keys(map)[i], Keys(map)[j])
  /\ \A i \in 1..n : /\ Get(map, Keys(map)[i]) \in inner
                     /\ [key |-> Keys(map)[i], value |-> Get(map, Keys(map)[i])] \in map
  /\ \A m \in map : \E i \in 1..n : m = [key |-> Keys(map)[i], value |-> Get(map, Keys(map)[i])]

\* The keys of a map list its members, each once, in order.
LEMMA KeysList ==
  ASSUME NEW inner, NEW map \in Maps(inner)
  PROVE  \E n \in Nat : IsListing(map, inner, n)
<1>0. PICK members : members = [key : Strings, value : inner]
  OBVIOUS
<1>1. /\ map \subseteq members /\ IsFiniteSet(map)
      /\ \A m, n \in map : m.key = n.key => m = n
  BY <1>0 DEF Maps
<1>2. ASSUME NEW m \in map
      PROVE  m.key \in Strings /\ m.value \in inner /\ m = [key |-> m.key, value |-> m.value]
  <2>1. m \in [key : Strings, value : inner]
    BY <1>0, <1>1
  <2> QED BY <2>1
<1> DEFINE K == {m.key : m \in map}
           Place(k) == Cardinality({x \in K : x = k \/ Utf16Cmp(x, k)})
<1>3. K = {m.key : m \in map} /\ Keys(map) = [i \in 1..Cardinality(K) |-> CHOOSE k \in K : Place(k) = i]
  BY Zenon DEF Keys
<1> HIDE DEF K, Place
<1>4. K \subseteq Strings /\ \A k \in K : \E m \in map : m.key = k
  BY <1>2, <1>3
<1>5. IsFiniteSet(K)
  <2> DEFINE f == [m \in map |-> m.key]
  <2>1. f \in Surjection(map, K)
    BY <1>3 DEF Surjection
  <2> QED BY <1>1, <2>1, FS_Surjection
<1> DEFINE R == {p \in K \X K : Utf16Cmp(p[1], p[2])}
<1>6. \A x, y \in K : <<x, y>> \in R <=> Utf16Cmp(x, y)
  OBVIOUS
<1> HIDE DEF R
<1>7. IsOrder(K, R)
  <2>1. \A x \in K : <<x, x>> \notin R
    BY <1>4, <1>6, KeyOrder
  <2>2. ASSUME NEW x \in K, NEW y \in K, NEW z \in K, <<x, y>> \in R, <<y, z>> \in R
        PROVE  <<x, z>> \in R
    <3>1. Utf16Cmp(x, y) /\ Utf16Cmp(y, z)
      BY <1>6, <2>2
    <3>2. Utf16Cmp(x, z)
      BY <1>4, <3>1, KeyOrder
    <3> QED BY <1>6, <3>2
  <2>3. ASSUME NEW x \in K, NEW y \in K, x # y  PROVE <<x, y>> \in R \/ <<y, x>> \in R
    <3>1. Utf16Cmp(x, y) \/ Utf16Cmp(y, x)
      BY <1>4, <2>3, KeyOrder
    <3> QED BY <1>6, <3>1
  <2> QED BY <2>1, <2>2, <2>3 DEF IsOrder
<1>8. ASSUME NEW k \in K  PROVE Place(k) = PlaceIn(K, R, k)
  <2>1. {x \in K : x = k \/ Utf16Cmp(x, k)} = UpTo(K, R, k)
    BY <1>6 DEF UpTo
  <2> QED BY <2>1 DEF PlaceIn, Place
<1>9. PICK n \in Nat : n = Cardinality(K)
  BY <1>5, FS_CardinalityType
<1>10. Keys(map) = [i \in 1..n |-> CHOOSE k \in K : Place(k) = i]
  BY <1>3, <1>9
<1>11. /\ \A x, y \in K : <<x, y>> \in R => Place(x) < Place(y)
       /\ \A x, y \in K : Place(x) = Place(y) => x = y
       /\ \A i \in 1..n : \E x \in K : Place(x) = i
       /\ \A x \in K : Place(x) \in 1..n
  <2>1. /\ \A x \in K : PlaceIn(K, R, x) \in 1..n
        /\ \A x, y \in K : <<x, y>> \in R => PlaceIn(K, R, x) < PlaceIn(K, R, y)
        /\ \A x, y \in K : PlaceIn(K, R, x) = PlaceIn(K, R, y) => x = y
        /\ \A k \in 1..n : \E x \in K : PlaceIn(K, R, x) = k
    BY <1>5, <1>7, <1>9, PlacesCount
  <2> QED BY <1>8, <2>1
<1>12. PICK keys : keys = Keys(map)
  OBVIOUS
<1>13. /\ DOMAIN keys = 1..n
       /\ \A i \in 1..n : keys[i] \in K /\ Place(keys[i]) = i
  <2>1. ASSUME NEW i \in 1..n  PROVE keys[i] \in K /\ Place(keys[i]) = i
    <3>1. \E x \in K : Place(x) = i
      BY <1>11
    <3>2. keys[i] = CHOOSE k \in K : Place(k) = i
      BY <1>10, <1>12
    <3> QED BY <3>1, <3>2
  <2> QED BY <1>10, <1>12, <2>1
<1>14. keys \in [1..n -> Strings]
  BY <1>4, <1>10, <1>12, <1>13
<1>15. ASSUME NEW i \in 1..n, NEW j \in 1..n, i < j  PROVE Utf16Cmp(keys[i], keys[j])
  <2>1. keys[i] \in K /\ keys[j] \in K /\ Place(keys[i]) = i /\ Place(keys[j]) = j
    BY <1>13
  <2>2. keys[i] # keys[j]
    BY <1>15, <2>1
  <2>3. <<keys[j], keys[i]>> \notin R
    <3>1. <<keys[j], keys[i]>> \in R => Place(keys[j]) < Place(keys[i])
      BY <1>11, <2>1
    <3> QED BY <1>15, <2>1, <3>1
  <2>4. <<keys[i], keys[j]>> \in R
    BY <1>7, <2>1, <2>2, <2>3 DEF IsOrder
  <2> QED BY <1>6, <2>1, <2>4
<1>16. ASSUME NEW m \in map  PROVE Get(map, m.key) = m.value
  <2> DEFINE c == CHOOSE x \in map : x.key = m.key
  <2>1. c \in map /\ c.key = m.key
    OBVIOUS
  <2> HIDE DEF c
  <2>2. c = m
    BY <1>1, <2>1
  <2>3. Get(map, m.key) = c.value
    BY Zenon DEF Get, c
  <2> QED BY <2>2, <2>3
<1>17. ASSUME NEW i \in 1..n
       PROVE  /\ Get(map, keys[i]) \in inner
              /\ [key |-> keys[i], value |-> Get(map, keys[i])] \in map
  <2>1. PICK m \in map : m.key = keys[i]
    BY <1>4, <1>13
  <2>2. Get(map, keys[i]) = m.value
    BY <1>16, <2>1
  <2> QED BY <1>2, <2>1, <2>2
<1>18. ASSUME NEW m \in map
       PROVE  \E i \in 1..n : m = [key |-> keys[i], value |-> Get(map, keys[i])]
  <2>1. m.key \in K
    BY <1>3
  <2>2. PICK i \in 1..n : i = Place(m.key)
    BY <1>11, <2>1
  <2>3. keys[i] = m.key
    BY <1>11, <1>13, <2>1, <2>2
  <2>4. Get(map, keys[i]) = m.value
    BY <1>16, <2>3
  <2>5. m = [key |-> keys[i], value |-> Get(map, keys[i])]
    BY <1>2, <2>3, <2>4
  <2> QED BY <2>5
<1>19. IsListing(map, inner, n)
  BY <1>12, <1>14, <1>15, <1>17, <1>18 DEF IsListing
<1> QED BY <1>19

\* The keys come in the order of their ranks.
LEMMA KeysAreSorted ==
  ASSUME NEW inner, NEW map \in Maps(inner)
  PROVE  KeysSorted(map)
<1>1. PICK n \in Nat : IsListing(map, inner, n)
  BY KeysList
<1>2. PICK keys \in [1..n -> Strings] : keys = Keys(map) /\ DOMAIN keys = 1..n
  BY <1>1 DEF IsListing
<1>3. ASSUME NEW i \in 1..n, NEW j \in 1..n, i < j
      PROVE  Precedes(Ranks(keys[i]), Ranks(keys[j]))
  BY <1>1, <1>2, <1>3, KeyOrder DEF IsListing
<1>4. \A i, j \in DOMAIN keys : i < j => Precedes(Ranks(keys[i]), Ranks(keys[j]))
  BY <1>2, <1>3
<1> QED BY <1>2, <1>4, Zenon DEF KeysSorted, Ranks

---------------------------------------------------------------------------
(* What is written of a value.                                             *)

Octets == Bytes \union {Err}

\* A word of the canonical form: it starts with no comma and no closing bracket.
IsWord(w) == w \in Seq(Octets) /\ Len(w) >= 1 /\ w[1] \notin {44, 93, 125}

\* The reader's text has no errors in it.
IsText(b) == Len(b) \in Nat /\ \A i \in 1..Len(b) : b[i] \in Nat

\* What the bytes and the error are.
LEMMA OctetsAre ==
  /\ Err \in Int /\ Err \notin Nat /\ Err \in Octets /\ Bytes \subseteq Octets /\ Octets \subseteq Int
  /\ \A n \in Nat : n >= 1 /\ n <= 255 => n \in Bytes
<1>1. Err \in Int /\ Err \notin Nat
  BY DEF Err
<1>2. Bytes \subseteq Int
  BY DEF Bytes
<1> QED BY <1>1, <1>2 DEF Octets, Bytes

\* Words with the commas before them.
Comma(i, w) == (IF i > 1 THEN <<44>> ELSE <<>>) \o w
CommaWords(parts) == [i \in DOMAIN parts |-> Comma(i, parts[i])]
After(i) == IF i > 1 THEN 1 ELSE 0

IsCommaed(x, i, w) ==
  /\ x \in Seq(Octets) /\ Len(x) >= 1 /\ Len(x) = After(i) + Len(w)
  /\ x[1] \notin {93, 125} /\ (i >= 2 => x[1] \in NoDigit)
  /\ \A b, p : Len(b) \in Nat /\ p \in Nat /\ Reads(b, p, x, NoDigit)
       => Reads(b, p + After(i), w, NoDigit)

\* A word behind its comma is still a word, and can be read.
LEMMA CommaWord ==
  ASSUME NEW i \in Nat, NEW w, IsWord(w), NEW x, x = Comma(i, w)
  PROVE  IsCommaed(x, i, w)
<1>1. w \in Seq(Octets) /\ Len(w) >= 1 /\ w[1] \notin {44, 93, 125}
  BY DEF IsWord
<1>2. CASE i > 1
  <2>1. PICK c \in Seq(Octets) : c = <<44>> /\ x = c \o w
    <3>1. 44 \in Octets
      BY OctetsAre
    <3>2. <<44>> \in Seq(Octets)
      BY <3>1
    <3>3. x = <<44>> \o w
      BY <1>2 DEF Comma
    <3> QED BY <3>2, <3>3, Zenon
  <2>2. Len(c) = 1 /\ c[1] = 44
    BY <2>1
  <2>3. x \in Seq(Octets) /\ Len(x) = 1 + Len(w) /\ x[1] = 44
    BY <1>1, <2>1, <2>2, ConcatProperties
  <2>4. 44 \in NoDigit
    BY DEF NoDigit, Ten
  <2>5. ASSUME NEW b, NEW p, Len(b) \in Nat, p \in Nat, Reads(b, p, x, NoDigit)
        PROVE  Reads(b, p + 1, w, NoDigit)
    <3>1. Holds(b, p + 1, w)
      <4>1. Holds(b, p, x)
        BY <2>5 DEF Reads
      <4>2. Holds(b, p + Len(c), w)
        <5>1. w \in Seq(Octets) /\ x = c \o w /\ Len(b) \in Nat /\ p \in Nat
          BY <1>1, <2>1, <2>5
        <5> QED BY <4>1, <5>1, HoldsConcat, Zenon
      <4> QED BY <2>2, <4>2
    <3>2. PICK l \in Nat : l = Len(w)
      BY <1>1
    <3>3. p + (1 + l) < Len(b) /\ b[(p + (1 + l)) + 1] \in NoDigit
      BY <2>3, <2>5, <3>2 DEF Reads
    <3>4. p + (1 + l) = (p + 1) + l
      BY <2>5
    <3> QED BY <3>1, <3>2, <3>3, <3>4 DEF Reads
  <2> QED BY <1>1, <1>2, <2>3, <2>4, <2>5 DEF After, IsCommaed
<1>3. CASE ~(i > 1)
  <2>1. x = <<>> \o w
    BY <1>3 DEF Comma
  <2>2. x = w
    BY <1>1, <2>1, ConcatEmptySeq
  <2>3. \A p \in Nat : p + 0 = p
    OBVIOUS
  <2> QED BY <1>1, <1>3, <2>2, <2>3 DEF After, IsCommaed
<1> QED BY <1>2, <1>3

\* Words of a list.
Parsable(parts, n) ==
  /\ DOMAIN parts = 1..n /\ parts = [i \in 1..n |-> parts[i]]
  /\ \A i \in 1..n : IsWord(parts[i])

\* Words with their commas are the words of a row.
LEMMA CommasAreRows ==
  ASSUME NEW n \in Nat, NEW parts, Parsable(parts, n)
  PROVE  /\ CommaWords(parts) \in Seq(Seq(Octets)) /\ Len(CommaWords(parts)) = n
         /\ Commas(parts) = FlattenSeq(CommaWords(parts)) /\ Commas(parts) \in Seq(Octets)
         /\ \A i \in 1..n : /\ CommaWords(parts)[i] = Comma(i, parts[i])
                            /\ IsCommaed(CommaWords(parts)[i], i, parts[i])
         /\ \A end \in {93, 125} : Starts(CommaWords(parts), end, NoDigit)
<1>0. DOMAIN parts = 1..n /\ \A i \in 1..n : IsWord(parts[i])
  BY DEF Parsable
<1>1. CommaWords(parts) = [i \in 1..n |-> Comma(i, parts[i])]
  BY <1>0 DEF CommaWords
<1>2. \A i \in 1..n : CommaWords(parts)[i] = Comma(i, parts[i])
  BY <1>1
<1>3. ASSUME NEW i \in 1..n
      PROVE  /\ IsCommaed(CommaWords(parts)[i], i, parts[i])
             /\ CommaWords(parts)[i] \in Seq(Octets) /\ Len(CommaWords(parts)[i]) >= 1
             /\ CommaWords(parts)[i][1] \notin {93, 125}
             /\ i >= 2 => CommaWords(parts)[i][1] \in NoDigit
  <2>1. PICK x : x = Comma(i, parts[i]) /\ x = CommaWords(parts)[i]
    BY <1>2
  <2>2. IsWord(parts[i]) /\ i \in Nat
    BY <1>0
  <2>3. IsCommaed(x, i, parts[i])
    BY <2>1, <2>2, CommaWord
  <2> QED BY <2>1, <2>3 DEF IsCommaed
<1>4. CommaWords(parts) \in Seq(Seq(Octets)) /\ Len(CommaWords(parts)) = n
  <2>1. PICK c : c = CommaWords(parts)
    OBVIOUS
  <2>2. c = [i \in 1..n |-> c[i]] /\ \A i \in 1..n : c[i] \in Seq(Octets)
    BY <1>1, <1>3, <2>1
  <2> QED BY <2>1, <2>2
<1>5. Commas(parts) = FlattenSeq(CommaWords(parts))
  BY Zenon DEF Commas, CommaWords, Comma
<1>6. Commas(parts) \in Seq(Octets)
  BY <1>4, <1>5, FlattenJoins
<1>7. \A end \in {93, 125} : Starts(CommaWords(parts), end, NoDigit)
  BY <1>3, <1>4 DEF Starts
<1> QED BY <1>2, <1>3, <1>4, <1>5, <1>6, <1>7

\* Words between brackets.
Bracketed(w, open, parts, close) == w = <<open>> \o Commas(parts) \o <<close>>

\* Between brackets they are a word, and a row to whoever reads it.
LEMMA BracketsHold ==
  ASSUME NEW n \in Nat, NEW parts, Parsable(parts, n), NEW w,
         NEW open \in {91, 123}, NEW close \in {93, 125}, Bracketed(w, open, parts, close)
  PROVE  /\ IsWord(w) /\ w[1] = open
         /\ \A b, p : Len(b) \in Nat /\ p \in Nat /\ Holds(b, p, w)
              => Row(b, p + 1, CommaWords(parts), close, NoDigit)
<1>0. Commas(parts) = FlattenSeq(CommaWords(parts)) /\ Commas(parts) \in Seq(Octets)
      /\ Starts(CommaWords(parts), close, NoDigit)
  BY CommasAreRows
<1>1. open \in Octets /\ close \in Octets
  BY OctetsAre
<1>2. PICK c \in Seq(Octets), o \in Seq(Octets), e \in Seq(Octets) :
         c = Commas(parts) /\ o = <<open>> /\ e = <<close>>
  <2>1. <<open>> \in Seq(Octets) /\ <<close>> \in Seq(Octets)
    BY <1>1
  <2> QED BY <1>0, <2>1, Zenon
<1>3. PICK g \in Seq(Octets) : g = c \o e
  <2>1. c \o e \in Seq(Octets)
    BY ConcatProperties
  <2> QED BY <2>1
<1>4. w = o \o g
  <2>1. w = (o \o c) \o e
    BY <1>2, Zenon DEF Bracketed
  <2>2. (o \o c) \o e = o \o (c \o e)
    BY ConcatAssociative
  <2> QED BY <1>3, <2>1, <2>2
<1>5. Len(o) = 1 /\ o[1] = open
  BY <1>2
<1>6. w \in Seq(Octets) /\ Len(w) = 1 + Len(g) /\ w[1] = open
  <2>1. PICK l \in Nat : l = Len(g)
    OBVIOUS
  <2>2. /\ w \in Seq(Octets) /\ Len(w) = Len(o) + Len(g)
        /\ \A i \in 1..(Len(o) + Len(g)) : w[i] = IF i <= Len(o) THEN o[i] ELSE g[i - Len(o)]
    BY <1>4, ConcatProperties
  <2>3. 1 \in 1..(1 + l) /\ Len(o) + Len(g) = 1 + l
    BY <1>5, <2>1
  <2> QED BY <1>5, <2>1, <2>2, <2>3
<1>7. IsWord(w)
  <2>1. Len(g) \in Nat
    OBVIOUS
  <2> QED BY <1>6, <2>1 DEF IsWord
<1>8. ASSUME NEW b, NEW p, Len(b) \in Nat, p \in Nat, Holds(b, p, w)
      PROVE  Row(b, p + 1, CommaWords(parts), close, NoDigit)
  <2>1. Holds(b, p + 1, g)
    <3>1. Holds(b, p + Len(o), g)
      BY <1>4, <1>8, HoldsConcat
    <3> QED BY <1>5, <3>1
  <2>2. g = FlattenSeq(CommaWords(parts)) \o <<close>>
    BY <1>0, <1>2, <1>3, Zenon
  <2>3. Holds(b, p + 1, FlattenSeq(CommaWords(parts)) \o <<close>>)
    BY <2>1, <2>2, Zenon
  <2> QED BY <1>0, <2>3 DEF Row
<1> QED BY <1>6, <1>7, <1>8

\* Two lists in one place have their words in the same places.
Alike(b, S, T) ==
  \A i \in DOMAIN S \intersect DOMAIN T : \A q \in Nat :
    Reads(b, q, S[i], NoDigit) /\ Reads(b, q, T[i], NoDigit) => S[i] = T[i]

Aligned(b, S, T, n) ==
  \A i \in 1..n : \E q \in Nat : Reads(b, q, S[i], NoDigit) /\ Reads(b, q, T[i], NoDigit)

TwoLists(b, p, x, S, m, y, T, n, open, close) ==
  /\ m \in Nat /\ n \in Nat /\ Parsable(S, m) /\ Parsable(T, n) /\ Alike(b, S, T)
  /\ open \in {91, 123} /\ close \in {93, 125}
  /\ Bracketed(x, open, S, close) /\ Bracketed(y, open, T, close)
  /\ Len(b) \in Nat /\ p \in Nat /\ Holds(b, p, x) /\ Holds(b, p, y)

\* Two lists in one place have the same number of words, each beside the other.
LEMMA ListsRead ==
  ASSUME NEW b, NEW p, NEW x, NEW S, NEW m, NEW y, NEW T, NEW n, NEW open, NEW close,
         TwoLists(b, p, x, S, m, y, T, n, open, close)
  PROVE  m = n /\ Aligned(b, S, T, m)
<1>0. /\ m \in Nat /\ n \in Nat /\ Parsable(S, m) /\ Parsable(T, n) /\ Alike(b, S, T)
      /\ open \in {91, 123} /\ close \in {93, 125}
      /\ Bracketed(x, open, S, close) /\ Bracketed(y, open, T, close)
      /\ Len(b) \in Nat /\ p \in Nat /\ Holds(b, p, x) /\ Holds(b, p, y)
  BY DEF TwoLists
<1>1. /\ Row(b, p + 1, CommaWords(S), close, NoDigit)
      /\ Row(b, p + 1, CommaWords(T), close, NoDigit)
  BY <1>0, BracketsHold
<1>3. /\ CommaWords(S) \in Seq(Seq(Octets)) /\ Len(CommaWords(S)) = m
      /\ \A i \in 1..m : /\ CommaWords(S)[i] = Comma(i, S[i])
                         /\ IsCommaed(CommaWords(S)[i], i, S[i])
  BY <1>0, CommasAreRows
<1>4. /\ CommaWords(T) \in Seq(Seq(Octets)) /\ Len(CommaWords(T)) = n
      /\ \A i \in 1..n : /\ CommaWords(T)[i] = Comma(i, T[i])
                         /\ IsCommaed(CommaWords(T)[i], i, T[i])
  BY <1>0, CommasAreRows
<1>5. close \in Octets /\ close \in NoDigit
  BY <1>0, OctetsAre DEF NoDigit, Ten
<1>6. ASSUME NEW i \in 1..m, i \in 1..n, NEW q \in Nat,
             Reads(b, q, CommaWords(S)[i], NoDigit), Reads(b, q, CommaWords(T)[i], NoDigit)
      PROVE  /\ q + After(i) \in Nat
             /\ Reads(b, q + After(i), S[i], NoDigit) /\ Reads(b, q + After(i), T[i], NoDigit)
  <2>1. q + After(i) \in Nat
    BY <1>0 DEF After
  <2>2. IsWord(S[i]) /\ IsWord(T[i]) /\ i \in Nat
    BY <1>0, <1>6 DEF Parsable
  <2>3. Reads(b, q + After(i), S[i], NoDigit)
    <3>1. IsCommaed(CommaWords(S)[i], i, S[i])
      BY <1>3
    <3> QED BY <1>6, <3>1 DEF IsCommaed
  <2>4. Reads(b, q + After(i), T[i], NoDigit)
    <3>1. IsCommaed(CommaWords(T)[i], i, T[i])
      BY <1>4, <1>6
    <3> QED BY <1>6, <3>1 DEF IsCommaed
  <2> QED BY <2>1, <2>3, <2>4
<1>7. Told(b, CommaWords(S), CommaWords(T), NoDigit)
  <2>1. ASSUME NEW i \in 1..m, i \in 1..n, NEW q \in Nat,
               Reads(b, q, CommaWords(S)[i], NoDigit), Reads(b, q, CommaWords(T)[i], NoDigit)
        PROVE  CommaWords(S)[i] = CommaWords(T)[i]
    <3>1. S[i] = T[i]
      <4>1. i \in DOMAIN S \intersect DOMAIN T
        BY <1>0, <2>1 DEF Parsable
      <4> QED BY <1>0, <1>6, <2>1, <4>1 DEF Alike
    <3>2. /\ CommaWords(S)[i] = Comma(i, S[i])
          /\ CommaWords(T)[i] = Comma(i, T[i])
      BY <1>3, <1>4, <2>1, Zenon
    <3> QED BY <3>1, <3>2, Zenon
  <2> QED BY <1>3, <1>4, <2>1 DEF Told
<1>8. /\ Len(CommaWords(S)) = Len(CommaWords(T))
      /\ \A i \in 1..Len(CommaWords(S)) : \E q \in Nat :
           Reads(b, q, CommaWords(S)[i], NoDigit) /\ Reads(b, q, CommaWords(T)[i], NoDigit)
  <2>1. p + 1 \in Nat
    BY <1>0
  <2>2. Matched(b, CommaWords(S), CommaWords(T), NoDigit)
    BY <1>0, <1>1, <1>3, <1>4, <1>5, <1>7, <2>1, SideBySide
  <2> QED BY <2>2 DEF Matched
<1>9. ASSUME NEW i \in 1..m
      PROVE  \E q \in Nat : Reads(b, q, S[i], NoDigit) /\ Reads(b, q, T[i], NoDigit)
  <2>1. PICK q \in Nat : Reads(b, q, CommaWords(S)[i], NoDigit) /\ Reads(b, q, CommaWords(T)[i], NoDigit)
    BY <1>3, <1>8
  <2>2. i \in 1..n
    BY <1>3, <1>4, <1>8
  <2> QED BY <1>6, <2>1, <2>2
<1> QED BY <1>3, <1>4, <1>8, <1>9 DEF Aligned

\* A member of an object.
Member(k, w) == WriteString(k) \o <<58>> \o w

\* A key, a colon and a word are a word.
LEMMA MemberIsWord ==
  ASSUME NEW k \in Strings, NEW w, IsWord(w)
  PROVE  /\ IsWord(Member(k, w))
         /\ Len(Member(k, w)) = (Len(WriteString(k)) + 1) + Len(w)
         /\ \A b, p : Len(b) \in Nat /\ p \in Nat /\ Reads(b, p, Member(k, w), NoDigit)
              => /\ Holds(b, p, WriteString(k))
                 /\ Reads(b, (p + Len(WriteString(k))) + 1, w, NoDigit)
<1>1. PICK s \in Seq(Octets) : s = WriteString(k) /\ Len(s) >= 1 /\ s[1] = Quote
  <2>1. WriteString(k) \in Seq(Octets)
    <3>1. PICK t \in Seq(Bytes) : t = WriteString(k)
      BY StringBytes
    <3>2. Bytes \subseteq Octets
      BY OctetsAre
    <3>3. t \in Seq(Octets)
      BY <3>2
    <3> QED BY <3>1, <3>3
  <2> QED BY <2>1, StringBytes
<1>2. PICK c \in Seq(Octets) : c = <<58>> /\ Len(c) = 1
  <2>1. 58 \in Octets
    BY OctetsAre
  <2>2. <<58>> \in Seq(Octets) /\ Len(<<58>>) = 1
    BY <2>1
  <2> QED BY <2>2, Zenon
<1>3. w \in Seq(Octets) /\ Len(w) \in Nat /\ Len(w) >= 1
  BY DEF IsWord
<1>4. PICK g \in Seq(Octets) : g = c \o w /\ Len(g) = 1 + Len(w)
  <2>1. c \o w \in Seq(Octets) /\ Len(c \o w) = 1 + Len(w)
    BY <1>2, <1>3, ConcatProperties
  <2> QED BY <2>1
<1>5. PICK x \in Seq(Octets) : x = Member(k, w) /\ x = s \o g
  <2>1. Member(k, w) = (s \o c) \o w
    BY <1>1, <1>2, Zenon DEF Member
  <2>2. (s \o c) \o w = s \o g
    BY <1>3, <1>4, ConcatAssociative
  <2>3. s \o g \in Seq(Octets)
    BY ConcatProperties
  <2> QED BY <2>1, <2>2, <2>3
<1>6. PICK l \in Nat, r \in Nat : l = Len(s) /\ r = Len(w) /\ l >= 1 /\ r >= 1
  BY <1>1, <1>3
<1>7. Len(x) = l + (1 + r) /\ x[1] = Quote
  <2>1. /\ Len(x) = Len(s) + Len(g)
        /\ \A i \in 1..(Len(s) + Len(g)) : x[i] = IF i <= Len(s) THEN s[i] ELSE g[i - Len(s)]
    BY <1>5, ConcatProperties
  <2>2. 1 \in 1..(l + (1 + r)) /\ Len(s) + Len(g) = l + (1 + r)
    BY <1>4, <1>6
  <2> QED BY <1>1, <1>6, <2>1, <2>2
<1>8. IsWord(x)
  BY <1>6, <1>7 DEF IsWord, Quote
<1>9. ASSUME NEW b, NEW p, Len(b) \in Nat, p \in Nat, Reads(b, p, x, NoDigit)
      PROVE  Holds(b, p, s) /\ Reads(b, (p + l) + 1, w, NoDigit)
  <2>1. Holds(b, p, s) /\ Holds(b, p + l, g)
    BY <1>5, <1>6, <1>9, HoldsConcat DEF Reads
  <2>2. p + l \in Nat
    BY <1>9
  <2>3. Holds(b, (p + l) + 1, w)
    <3>1. Holds(b, (p + l) + Len(c), w)
      BY <1>3, <1>4, <1>9, <2>1, <2>2, HoldsConcat
    <3> QED BY <1>2, <3>1
  <2>4. p + (l + (1 + r)) < Len(b) /\ b[(p + (l + (1 + r))) + 1] \in NoDigit
    BY <1>7, <1>9 DEF Reads
  <2>5. p + (l + (1 + r)) = ((p + l) + 1) + r
    BY <1>9
  <2> QED BY <1>6, <2>1, <2>3, <2>4, <2>5 DEF Reads
<1>10. 1 \in 1..Len(x) /\ l + (1 + r) = (l + 1) + r
  BY <1>6, <1>7
<1> QED BY <1>1, <1>5, <1>6, <1>7, <1>8, <1>9, <1>10

\* Two members in one place have the same key, and their words in one place.
LEMMA MembersRead ==
  ASSUME NEW k \in Strings, NEW l \in Strings, NEW w, NEW x, IsWord(w), IsWord(x),
         NEW b, IsText(b), NEW p \in Nat,
         Reads(b, p, Member(k, w), NoDigit), Reads(b, p, Member(l, x), NoDigit)
  PROVE  k = l /\ \E q \in Nat : Reads(b, q, w, NoDigit) /\ Reads(b, q, x, NoDigit)
<1>1. Len(b) \in Nat /\ \A i \in 1..Len(b) : b[i] \in Int
  BY DEF IsText
<1>2. /\ Holds(b, p, WriteString(k)) /\ Reads(b, (p + Len(WriteString(k))) + 1, w, NoDigit)
      /\ Holds(b, p, WriteString(l)) /\ Reads(b, (p + Len(WriteString(l))) + 1, x, NoDigit)
  BY <1>1, MemberIsWord
<1>3. k = l
  BY <1>1, <1>2, StringRead
<1>4. (p + Len(WriteString(k))) + 1 \in Nat
  <2>1. Len(WriteString(k)) \in Nat
    BY StringBytes
  <2> QED BY <2>1
<1> QED BY <1>2, <1>3, <1>4

\* What is written of each kind.
ArrayParts(v, inner) == [i \in DOMAIN v.items |-> inner[v.items[i]]]
ObjectParts(v, inner) ==
  [i \in DOMAIN Keys(v.map) |-> Member(Keys(v.map)[i], inner[Get(v.map, Keys(v.map)[i])])]

\* What is written of a scalar.
LEMMA WriterOfScalar ==
  ASSUME NEW v, NEW inner
  PROVE  /\ v.kind = "null" => Writer(v, inner) = <<110, 117, 108, 108>>
         /\ v.kind = "bool" =>
              Writer(v, inner) = IF v.is THEN <<116, 114, 117, 101>> ELSE <<102, 97, 108, 115, 101>>
         /\ v.kind = "number" => Writer(v, inner) = IF v.float THEN <<Err>> ELSE Decimal(v.of)
         /\ v.kind = "string" => Writer(v, inner) = WriteString(v.text)
<1>1. v.kind = "null" => Writer(v, inner) = <<110, 117, 108, 108>>
  BY DEF Writer
<1>2. v.kind = "bool" =>
        Writer(v, inner) = IF v.is THEN <<116, 114, 117, 101>> ELSE <<102, 97, 108, 115, 101>>
  BY DEF Writer
<1>3. v.kind = "number" => Writer(v, inner) = IF v.float THEN <<Err>> ELSE Decimal(v.of)
  BY DEF Writer, WriteNumber, Refused
<1>4. v.kind = "string" => Writer(v, inner) = WriteString(v.text)
  BY DEF Writer
<1> QED BY <1>1, <1>2, <1>3, <1>4

\* What is written of an array or an object.
LEMMA WriterOfList ==
  ASSUME NEW v, NEW inner
  PROVE  /\ v.kind = "array" => Bracketed(Writer(v, inner), 91, ArrayParts(v, inner), 93)
         /\ v.kind = "object" => Bracketed(Writer(v, inner), 123, ObjectParts(v, inner), 125)
<1>1. CASE v.kind = "array"
  <2>1. Writer(v, inner) = <<91>> \o Commas(ArrayParts(v, inner)) \o <<93>>
    <3> HIDE DEF Commas
    <3> QED BY <1>1, Zenon DEF Writer, ArrayParts
  <2>2. Bracketed(Writer(v, inner), 91, ArrayParts(v, inner), 93)
    BY <2>1, Zenon DEF Bracketed
  <2> QED BY <1>1, <2>2
<1>2. CASE v.kind = "object"
  <2>1. Writer(v, inner) = <<123>> \o Commas(ObjectParts(v, inner)) \o <<125>>
    BY <1>2, Zenon DEF Writer, ObjectParts, Member
  <2>2. Bracketed(Writer(v, inner), 123, ObjectParts(v, inner), 125)
    BY <2>1, Zenon DEF Bracketed
  <2> QED BY <1>2, <2>2
<1> QED BY <1>1, <1>2

\* All that is written of the values of a set is words.
AllWords(values, written) == \A x \in values : IsWord(written[x])

\* The parts of an array are words, one for each item.
LEMMA ArrayIsParsable ==
  ASSUME NEW inner, NEW written, AllWords(inner, written), NEW v, v.items \in Seq(inner)
  PROVE  /\ Len(v.items) \in Nat
         /\ Parsable(ArrayParts(v, written), Len(v.items))
         /\ \A i \in 1..Len(v.items) : /\ v.items[i] \in inner
                                       /\ ArrayParts(v, written)[i] = written[v.items[i]]
<1>1. PICK s \in Seq(inner) : s = v.items
  OBVIOUS
<1>2. PICK n \in Nat : n = Len(s) /\ DOMAIN s = 1..n
  OBVIOUS
<1>3. \A i \in 1..n : s[i] \in inner /\ IsWord(written[s[i]])
  BY <1>2 DEF AllWords
<1>4. PICK parts : parts = ArrayParts(v, written)
  OBVIOUS
<1>5. parts = [i \in 1..n |-> written[s[i]]]
  BY <1>1, <1>2, <1>4 DEF ArrayParts
<1>6. DOMAIN parts = 1..n /\ \A i \in 1..n : parts[i] = written[s[i]]
  BY <1>5
<1>7. parts = [i \in 1..n |-> parts[i]]
  BY <1>5
<1>8. Parsable(parts, n)
  BY <1>3, <1>6, <1>7 DEF Parsable
<1> QED BY <1>1, <1>2, <1>3, <1>4, <1>6, <1>8

\* The parts of an object are words, one for each key.
LEMMA ObjectIsParsable ==
  ASSUME NEW inner, NEW written, AllWords(inner, written), NEW v, v.map \in Maps(inner)
  PROVE  \E n \in Nat :
           /\ IsListing(v.map, inner, n) /\ Parsable(ObjectParts(v, written), n)
           /\ \A i \in 1..n :
                ObjectParts(v, written)[i] =
                  Member(Keys(v.map)[i], written[Get(v.map, Keys(v.map)[i])])
<1>1. PICK map \in Maps(inner) : map = v.map
  OBVIOUS
<1>2. PICK n \in Nat : IsListing(map, inner, n)
  BY KeysList
<1>3. PICK keys \in [1..n -> Strings] :
         keys = Keys(map) /\ DOMAIN keys = 1..n /\ \A i \in 1..n : Get(map, keys[i]) \in inner
  BY <1>2 DEF IsListing
<1>4. PICK parts : parts = ObjectParts(v, written)
  OBVIOUS
<1>5. parts = [i \in 1..n |-> Member(keys[i], written[Get(map, keys[i])])]
  BY <1>1, <1>3, <1>4 DEF ObjectParts
<1>6. DOMAIN parts = 1..n /\ \A i \in 1..n : parts[i] = Member(keys[i], written[Get(map, keys[i])])
  BY <1>5
<1>7. parts = [i \in 1..n |-> parts[i]]
  BY <1>5
<1>8. ASSUME NEW i \in 1..n  PROVE IsWord(parts[i])
  <2>1. keys[i] \in Strings /\ IsWord(written[Get(map, keys[i])])
    BY <1>3 DEF AllWords
  <2>2. IsWord(Member(keys[i], written[Get(map, keys[i])]))
    BY <2>1, MemberIsWord
  <2> QED BY <1>6, <2>2
<1>9. Parsable(parts, n)
  BY <1>6, <1>7, <1>8 DEF Parsable
<1> QED BY <1>1, <1>2, <1>3, <1>4, <1>6, <1>9

\* The first byte tells the kind.
KindOf(x) ==
  CASE x = 110 -> "null"
    [] x \in {116, 102} -> "bool"
    [] x \in {45} \union Ten -> "number"
    [] x = Quote -> "string"
    [] x = 91 -> "array"
    [] x = 123 -> "object"

\* What is written of a value is a word, and its first byte tells the kind.
LEMMA WriterWord ==
  ASSUME NEW inner, NEW written, AllWords(inner, written), NEW v \in ValuesAround(inner)
  PROVE  /\ IsWord(Writer(v, written))
         /\ Writer(v, written)[1] \in Nat => KindOf(Writer(v, written)[1]) = v.kind
<1> DEFINE w == Writer(v, written)
<1>0. /\ Err \in Octets /\ Err \notin Nat /\ Err \in Int
      /\ \A n \in Nat : n >= 1 /\ n <= 255 => n \in Octets
  BY OctetsAre
<1>1. CASE v \in Scalars /\ v.kind = "null"
  <2>1. w = <<110, 117, 108, 108>>
    BY <1>1, WriterOfScalar
  <2>2. 110 \in Octets /\ 117 \in Octets /\ 108 \in Octets
    BY <1>0
  <2> HIDE DEF w
  <2>3. w \in Seq(Octets) /\ Len(w) = 4 /\ w[1] = 110
    BY <2>1, <2>2
  <2>4. IsWord(w)
    BY <2>3 DEF IsWord
  <2>5. KindOf(w[1]) = v.kind
    BY <1>1, <2>3 DEF KindOf, Quote, Ten
  <2> QED BY <2>4, <2>5 DEF w
<1>2. CASE v \in Scalars /\ v.kind = "bool"
  <2>1. w = IF v.is THEN <<116, 114, 117, 101>> ELSE <<102, 97, 108, 115, 101>>
    BY <1>2, WriterOfScalar
  <2>2. /\ 116 \in Octets /\ 114 \in Octets /\ 117 \in Octets /\ 101 \in Octets
        /\ 102 \in Octets /\ 97 \in Octets /\ 108 \in Octets /\ 115 \in Octets
    BY <1>0
  <2> HIDE DEF w
  <2>3. w \in Seq(Octets) /\ Len(w) >= 1 /\ w[1] \in {116, 102}
    <3>1. CASE v.is
      BY <2>1, <2>2, <3>1
    <3>2. CASE ~v.is
      BY <2>1, <2>2, <3>2
    <3> QED BY <3>1, <3>2
  <2>4. IsWord(w)
    BY <2>3 DEF IsWord
  <2>5. KindOf(w[1]) = v.kind
    BY <1>2, <2>3 DEF KindOf, Quote, Ten
  <2> QED BY <2>4, <2>5 DEF w
<1>3. CASE v \in Scalars /\ v.kind = "number"
  <2>1. w = (IF v.float THEN <<Err>> ELSE Decimal(v.of)) /\ v.of \in Int
    BY <1>3, WriterOfScalar, ScalarKinds
  <2> HIDE DEF w
  <2>2. CASE v.float
    <3>1. w = <<Err>>
      BY <2>1, <2>2
    <3>2. w \in Seq(Octets) /\ Len(w) = 1 /\ w[1] = Err
      BY <1>0, <3>1
    <3>3. IsWord(w) /\ w[1] \notin Nat
      BY <1>0, <3>2 DEF IsWord
    <3> QED BY <3>3 DEF w
  <2>3. CASE ~v.float
    <3>1. PICK s \in Seq(Bytes) : w = s /\ Len(s) >= 1 /\ s[1] \in {45} \union Ten
      BY <2>1, <2>3, DecimalBytes
    <3>2. w \in Seq(Octets)
      <4>1. Bytes \subseteq Octets
        BY OctetsAre
      <4>2. s \in Seq(Octets)
        BY <4>1
      <4> QED BY <3>1, <4>2
    <3>3. IsWord(w)
      BY <3>1, <3>2 DEF IsWord, Ten
    <3>4. KindOf(w[1]) = v.kind
      BY <1>3, <3>1 DEF KindOf, Quote, Ten
    <3> QED BY <3>3, <3>4 DEF w
  <2> QED BY <2>2, <2>3
<1>4. CASE v \in Scalars /\ v.kind = "string"
  <2>1. w = WriteString(v.text) /\ v.text \in Strings
    BY <1>4, WriterOfScalar, ScalarKinds
  <2> HIDE DEF w
  <2>2. PICK s \in Seq(Bytes) : w = s /\ Len(s) >= 1 /\ s[1] = Quote
    BY <2>1, StringBytes
  <2>3. w \in Seq(Octets)
    <3>1. Bytes \subseteq Octets
      BY OctetsAre
    <3>2. s \in Seq(Octets)
      BY <3>1
    <3> QED BY <2>2, <3>2
  <2>4. IsWord(w)
    BY <2>2, <2>3 DEF IsWord, Quote
  <2>5. KindOf(w[1]) = v.kind
    BY <1>4, <2>2 DEF KindOf, Quote, Ten
  <2> QED BY <2>4, <2>5 DEF w
<1>5. CASE v.kind = "array" /\ v.items \in Seq(inner)
  <2>1. Parsable(ArrayParts(v, written), Len(v.items)) /\ Len(v.items) \in Nat
    BY <1>5, ArrayIsParsable
  <2>2. Bracketed(w, 91, ArrayParts(v, written), 93)
    BY <1>5, WriterOfList
  <2> HIDE DEF w
  <2>3. IsWord(w) /\ w[1] = 91
    BY <2>1, <2>2, BracketsHold
  <2>4. KindOf(w[1]) = v.kind
    BY <1>5, <2>3 DEF KindOf, Quote, Ten
  <2> QED BY <2>3, <2>4 DEF w
<1>6. CASE v.kind = "object" /\ v.map \in Maps(inner)
  <2>1. PICK n \in Nat : Parsable(ObjectParts(v, written), n)
    BY <1>6, ObjectIsParsable
  <2>2. Bracketed(w, 123, ObjectParts(v, written), 125)
    BY <1>6, WriterOfList
  <2> HIDE DEF w
  <2>3. IsWord(w) /\ w[1] = 123
    BY <2>1, <2>2, BracketsHold
  <2>4. KindOf(w[1]) = v.kind
    BY <1>6, <2>3 DEF KindOf, Quote, Ten
  <2> QED BY <2>3, <2>4 DEF w
<1>7. \/ v \in Scalars /\ v.kind \in {"null", "bool", "number", "string"}
      \/ v.kind = "array" /\ v.items \in Seq(inner)
      \/ v.kind = "object" /\ v.map \in Maps(inner)
  BY ValueKinds, ScalarKinds
<1> HIDE DEF w
<1> QED BY <1>1, <1>2, <1>3, <1>4, <1>5, <1>6, <1>7

\* Two values written in one place, with no digit behind them, are the same.
Tells(values, written) ==
  \A v, u \in values : \A b, p :
    /\ IsText(b) /\ p \in Nat
    /\ Reads(b, p, written[v], NoDigit) /\ Reads(b, p, written[u], NoDigit)
    => v = u

\* If words tell the values inside, they tell the values around them.
LEMMA WriterTells ==
  ASSUME NEW inner, NEW written, AllWords(inner, written), Tells(inner, written),
         NEW v \in ValuesAround(inner), NEW u \in ValuesAround(inner),
         NEW b, IsText(b), NEW p \in Nat,
         Reads(b, p, Writer(v, written), NoDigit), Reads(b, p, Writer(u, written), NoDigit)
  PROVE  v = u
<1>0. Len(b) \in Nat /\ \A i \in 1..Len(b) : b[i] \in Nat
  BY DEF IsText
<1>1. ASSUME NEW w, IsWord(w), Reads(b, p, w, NoDigit)
      PROVE  b[p + 1] = w[1] /\ w[1] \in Nat /\ Holds(b, p, w)
  <2>1. PICK l \in Nat : l = Len(w) /\ l >= 1 /\ p + l <= Len(b) /\ \A i \in 1..l : b[p + i] = w[i]
    BY <1>1 DEF IsWord, Reads, Holds
  <2>2. p + 1 \in 1..Len(b) /\ b[p + 1] = w[1]
    BY <1>0, <2>1
  <2> QED BY <1>0, <1>1, <2>2 DEF Reads
<1>2. PICK x, y : x = Writer(v, written) /\ y = Writer(u, written)
  OBVIOUS
<1>3. /\ b[p + 1] = x[1] /\ b[p + 1] = y[1] /\ x[1] = y[1]
      /\ x[1] \in Nat /\ KindOf(x[1]) = v.kind /\ KindOf(x[1]) = u.kind
      /\ Holds(b, p, x) /\ Holds(b, p, y)
  <2>1. IsWord(x) /\ IsWord(y)
    BY <1>2, WriterWord
  <2>2. b[p + 1] = x[1] /\ x[1] \in Nat /\ Holds(b, p, x) /\ b[p + 1] = y[1] /\ y[1] \in Nat /\ Holds(b, p, y)
    BY <1>1, <1>2, <2>1
  <2>3. KindOf(x[1]) = v.kind /\ KindOf(y[1]) = u.kind
    BY <1>2, <2>2, WriterWord
  <2> QED BY <2>2, <2>3
<1>4. v.kind = u.kind
  BY <1>3
<1>5. ASSUME NEW z \in ValuesAround(inner), z.kind \in {"null", "bool", "number", "string"}
      PROVE  z \in Scalars
  BY <1>5, ValueKinds
<1>6. CASE v.kind = "null"
  <2>1. v \in Scalars /\ u \in Scalars
    BY <1>4, <1>5, <1>6
  <2>2. v = [kind |-> "null"] /\ u = [kind |-> "null"]
    BY <1>4, <1>6, <2>1, ScalarKinds
  <2> QED BY <2>2
<1>7. CASE v.kind = "bool"
  <2>1. v \in Scalars /\ u \in Scalars
    BY <1>4, <1>5, <1>7
  <2>2. /\ v = [kind |-> "bool", is |-> v.is] /\ u = [kind |-> "bool", is |-> u.is]
        /\ v.is \in BOOLEAN /\ u.is \in BOOLEAN
    BY <1>4, <1>7, <2>1, ScalarKinds
  <2>3. /\ x = IF v.is THEN <<116, 114, 117, 101>> ELSE <<102, 97, 108, 115, 101>>
        /\ y = IF u.is THEN <<116, 114, 117, 101>> ELSE <<102, 97, 108, 115, 101>>
    BY <1>2, <1>4, <1>7, WriterOfScalar
  <2>4. (v.is => x[1] = 116) /\ (~v.is => x[1] = 102) /\ (u.is => y[1] = 116) /\ (~u.is => y[1] = 102)
    BY <2>3
  <2>5. v.is = u.is
    BY <1>3, <2>2, <2>4
  <2> QED BY <2>2, <2>5
<1>8. CASE v.kind = "number"
  <2>1. v \in Scalars /\ u \in Scalars
    BY <1>4, <1>5, <1>8
  <2>2. /\ v = [kind |-> "number", of |-> v.of, float |-> v.float]
        /\ u = [kind |-> "number", of |-> u.of, float |-> u.float]
        /\ v.of \in Int /\ u.of \in Int /\ v.float \in BOOLEAN /\ u.float \in BOOLEAN
    BY <1>4, <1>8, <2>1, ScalarKinds
  <2>3. /\ x = IF v.float THEN <<Err>> ELSE Decimal(v.of)
        /\ y = IF u.float THEN <<Err>> ELSE Decimal(u.of)
    BY <1>2, <1>4, <1>8, WriterOfScalar
  <2>4. <<Err>>[1] \notin Nat
    BY OctetsAre
  <2>5. ~v.float
    BY <1>3, <2>3, <2>4
  <2>6. ~u.float
    BY <1>3, <2>3, <2>4
  <2>7. v.of = u.of
    <3>1. Reads(b, p, Decimal(v.of), NoDigit) /\ Reads(b, p, Decimal(u.of), NoDigit)
      BY <1>2, <2>3, <2>5, <2>6
    <3> QED BY <1>0, <2>2, <3>1, DecimalRead
  <2>8. v.float = FALSE /\ u.float = FALSE
    BY <2>2, <2>5, <2>6
  <2> QED BY <2>2, <2>7, <2>8
<1>9. CASE v.kind = "string"
  <2>1. v \in Scalars /\ u \in Scalars
    BY <1>4, <1>5, <1>9
  <2>2. /\ v = [kind |-> "string", text |-> v.text] /\ u = [kind |-> "string", text |-> u.text]
        /\ v.text \in Strings /\ u.text \in Strings
    BY <1>4, <1>9, <2>1, ScalarKinds
  <2>3. x = WriteString(v.text) /\ y = WriteString(u.text)
    BY <1>2, <1>4, <1>9, WriterOfScalar
  <2>4. \A i \in 1..Len(b) : b[i] \in Int
    BY <1>0
  <2>5. v.text = u.text
    BY <1>0, <1>3, <2>2, <2>3, <2>4, StringRead
  <2> QED BY <2>2, <2>5
<1>10. ASSUME NEW z \in ValuesAround(inner)
       PROVE  /\ z.kind = "array" => z.items \in Seq(inner) /\ z = [kind |-> "array", items |-> z.items]
              /\ z.kind = "object" => z.map \in Maps(inner) /\ z = [kind |-> "object", map |-> z.map]
  BY ValueKinds, ScalarKinds
<1>11. CASE v.kind = "array"
  <2>1. PICK s \in Seq(inner), t \in Seq(inner) :
          /\ s = v.items /\ v = [kind |-> "array", items |-> s]
          /\ t = u.items /\ u = [kind |-> "array", items |-> t]
    BY <1>4, <1>10, <1>11
  <2>2. PICK S, T : S = ArrayParts(v, written) /\ T = ArrayParts(u, written)
    OBVIOUS
  <2>3. PICK m \in Nat, n \in Nat : m = Len(s) /\ n = Len(t)
    OBVIOUS
  <2>4. Parsable(S, m) /\ \A i \in 1..m : s[i] \in inner /\ S[i] = written[s[i]]
    BY <2>1, <2>2, <2>3, ArrayIsParsable
  <2>5. Parsable(T, n) /\ \A i \in 1..n : t[i] \in inner /\ T[i] = written[t[i]]
    BY <2>1, <2>2, <2>3, ArrayIsParsable
  <2>6. Bracketed(x, 91, S, 93) /\ Bracketed(y, 91, T, 93)
    BY <1>2, <1>4, <1>11, <2>2, WriterOfList
  <2>7. ASSUME NEW i \in 1..m, i \in 1..n, NEW q \in Nat,
               Reads(b, q, S[i], NoDigit), Reads(b, q, T[i], NoDigit)
        PROVE  s[i] = t[i] /\ S[i] = T[i]
    <3>1. s[i] = t[i]
      BY <2>4, <2>5, <2>7 DEF Tells
    <3> QED BY <2>4, <2>5, <2>7, <3>1
  <2>8. Alike(b, S, T)
    <3>1. DOMAIN S = 1..m /\ DOMAIN T = 1..n
      BY <2>4, <2>5 DEF Parsable
    <3> QED BY <2>7, <3>1 DEF Alike
  <2>9. /\ m = n
        /\ \A i \in 1..m : \E q \in Nat : Reads(b, q, S[i], NoDigit) /\ Reads(b, q, T[i], NoDigit)
    <3>1. PICK open \in {91, 123}, close \in {93, 125} :
            Bracketed(x, open, S, close) /\ Bracketed(y, open, T, close)
      BY <2>6
    <3>2. /\ Parsable(S, m) /\ Parsable(T, n) /\ Alike(b, S, T)
          /\ Len(b) \in Nat /\ Holds(b, p, x) /\ Holds(b, p, y)
      BY <1>0, <1>3, <2>4, <2>5, <2>8
    <3>3. m = n /\ Aligned(b, S, T, m)
      BY <3>1, <3>2, ListsRead DEF TwoLists
    <3> QED BY <3>3 DEF Aligned
  <2>10. \A i \in 1..m : s[i] = t[i]
    BY <2>7, <2>9
  <2>11. s = t
    BY <2>3, <2>9, <2>10, SeqEqual
  <2> QED BY <2>1, <2>11
<1>12. CASE v.kind = "object"
  <2>1. PICK f \in Maps(inner), g \in Maps(inner) :
          /\ f = v.map /\ v = [kind |-> "object", map |-> f]
          /\ g = u.map /\ u = [kind |-> "object", map |-> g]
    BY <1>4, <1>10, <1>12
  <2>2. PICK S, T : S = ObjectParts(v, written) /\ T = ObjectParts(u, written)
    OBVIOUS
  <2>3. PICK m \in Nat : /\ IsListing(f, inner, m) /\ Parsable(S, m)
                         /\ \A i \in 1..m : S[i] = Member(Keys(f)[i], written[Get(f, Keys(f)[i])])
    BY <2>1, <2>2, ObjectIsParsable
  <2>4. PICK n \in Nat : /\ IsListing(g, inner, n) /\ Parsable(T, n)
                         /\ \A i \in 1..n : T[i] = Member(Keys(g)[i], written[Get(g, Keys(g)[i])])
    BY <2>1, <2>2, ObjectIsParsable
  <2>5. Bracketed(x, 123, S, 125) /\ Bracketed(y, 123, T, 125)
    BY <1>2, <1>4, <1>12, <2>2, WriterOfList
  <2>6. /\ \A i \in 1..m : Keys(f)[i] \in Strings /\ Get(f, Keys(f)[i]) \in inner
        /\ \A i \in 1..n : Keys(g)[i] \in Strings /\ Get(g, Keys(g)[i]) \in inner
    BY <2>3, <2>4 DEF IsListing
  <2>7. ASSUME NEW i \in 1..m, i \in 1..n, NEW q \in Nat,
               Reads(b, q, S[i], NoDigit), Reads(b, q, T[i], NoDigit)
        PROVE  Keys(f)[i] = Keys(g)[i] /\ Get(f, Keys(f)[i]) = Get(g, Keys(g)[i]) /\ S[i] = T[i]
    <3>1. PICK k \in Strings, l \in Strings, c \in inner, d \in inner :
            /\ k = Keys(f)[i] /\ l = Keys(g)[i] /\ c = Get(f, k) /\ d = Get(g, l)
      BY <2>6, <2>7
    <3>2. S[i] = Member(k, written[c]) /\ T[i] = Member(l, written[d])
      BY <2>3, <2>4, <2>7, <3>1
    <3>3. IsWord(written[c]) /\ IsWord(written[d])
      BY DEF AllWords
    <3>4. /\ Reads(b, q, Member(k, written[c]), NoDigit)
          /\ Reads(b, q, Member(l, written[d]), NoDigit)
      BY <2>7, <3>2
    <3>5. k = l /\ \E r \in Nat : Reads(b, r, written[c], NoDigit) /\ Reads(b, r, written[d], NoDigit)
      BY <3>3, <3>4, MembersRead
    <3>6. c = d
      BY <3>5 DEF Tells
    <3> QED BY <3>1, <3>2, <3>5, <3>6
  <2>8. Alike(b, S, T)
    <3>1. DOMAIN S = 1..m /\ DOMAIN T = 1..n
      BY <2>3, <2>4 DEF Parsable
    <3> QED BY <2>7, <3>1 DEF Alike
  <2>9. /\ m = n
        /\ \A i \in 1..m : \E q \in Nat : Reads(b, q, S[i], NoDigit) /\ Reads(b, q, T[i], NoDigit)
    <3>1. PICK open \in {91, 123}, close \in {93, 125} :
            Bracketed(x, open, S, close) /\ Bracketed(y, open, T, close)
      BY <2>5
    <3>2. /\ Parsable(S, m) /\ Parsable(T, n) /\ Alike(b, S, T)
          /\ Len(b) \in Nat /\ Holds(b, p, x) /\ Holds(b, p, y)
      BY <1>0, <1>3, <2>3, <2>4, <2>8
    <3>3. m = n /\ Aligned(b, S, T, m)
      BY <3>1, <3>2, ListsRead DEF TwoLists
    <3> QED BY <3>3 DEF Aligned
  <2>10. \A i \in 1..m : Keys(f)[i] = Keys(g)[i] /\ Get(f, Keys(f)[i]) = Get(g, Keys(g)[i])
    BY <2>7, <2>9
  <2>11. ASSUME NEW z \in f  PROVE z \in g
    <3>1. PICK i \in 1..m : z = [key |-> Keys(f)[i], value |-> Get(f, Keys(f)[i])]
      BY <2>3 DEF IsListing
    <3>2. [key |-> Keys(g)[i], value |-> Get(g, Keys(g)[i])] \in g
      BY <2>4, <2>9 DEF IsListing
    <3>3. z = [key |-> Keys(g)[i], value |-> Get(g, Keys(g)[i])]
      BY <2>10, <3>1
    <3> QED BY <3>2, <3>3
  <2>12. ASSUME NEW z \in g  PROVE z \in f
    <3>1. PICK i \in 1..n : z = [key |-> Keys(g)[i], value |-> Get(g, Keys(g)[i])]
      BY <2>4 DEF IsListing
    <3>2. [key |-> Keys(f)[i], value |-> Get(f, Keys(f)[i])] \in f
      BY <2>3, <2>9 DEF IsListing
    <3>3. z = [key |-> Keys(f)[i], value |-> Get(f, Keys(f)[i])]
      BY <2>9, <2>10, <3>1
    <3> QED BY <3>2, <3>3
  <2>13. f = g
    <3>1. f \subseteq g /\ g \subseteq f
      BY <2>11, <2>12
    <3> QED BY <3>1
  <2> QED BY <2>1, <2>13
<1>13. v.kind \in {"null", "bool", "number", "string", "array", "object"}
  BY ValueKinds, ScalarKinds
<1> QED BY <1>6, <1>7, <1>8, <1>9, <1>11, <1>12, <1>13

\* So it is at every depth.
LEMMA WrittenTells ==
  \A d \in 0..MaxDepth : AllWords(Values[d], Written[d]) /\ Tells(Values[d], Written[d])
<1> DEFINE P == {d \in Nat : d <= MaxDepth =>
                               AllWords(Values[d], Written[d]) /\ Tells(Values[d], Written[d])}
<1>1. ASSUME NEW inner, NEW written, AllWords(inner, written), Tells(inner, written),
             NEW values, values \subseteq ValuesAround(inner), NEW out,
             \A x \in values : out[x] = Writer(x, written)
      PROVE  AllWords(values, out) /\ Tells(values, out)
  <2>1. ASSUME NEW x \in values  PROVE IsWord(out[x])
    BY <1>1, WriterWord
  <2>2. ASSUME NEW x \in values, NEW y \in values, NEW b, NEW p, IsText(b), p \in Nat,
               Reads(b, p, out[x], NoDigit), Reads(b, p, out[y], NoDigit)
        PROVE  x = y
    BY <1>1, <2>2, WriterTells
  <2> QED BY <2>1, <2>2 DEF AllWords, Tells
<1>2. 0 \in P
  <2>1. AllWords({}, None) /\ Tells({}, None)
    BY DEF AllWords, Tells
  <2>2. Values[0] \subseteq ValuesAround({})
    BY ValuesUnfold DEF ValuesAround
  <2>3. \A x \in Values[0] : Written[0][x] = Writer(x, None)
    BY WrittenUnfold
  <2> QED BY <1>1, <2>1, <2>2, <2>3
<1>3. ASSUME NEW d \in Nat, d \in P  PROVE d + 1 \in P
  <2> SUFFICES ASSUME d + 1 <= MaxDepth
               PROVE  AllWords(Values[d + 1], Written[d + 1]) /\ Tells(Values[d + 1], Written[d + 1])
    OBVIOUS
  <2>1. d \in 0..(MaxDepth - 1) /\ AllWords(Values[d], Written[d]) /\ Tells(Values[d], Written[d])
    BY <1>3, DepthIsNat
  <2>2. Values[d + 1] = ValuesAround(Values[d])
    BY <2>1, ValuesUnfold
  <2>3. \A x \in Values[d + 1] : Written[d + 1][x] = Writer(x, Written[d])
    BY <2>1, WrittenUnfold
  <2> QED BY <1>1, <2>1, <2>2, <2>3
<1>4. Nat \subseteq P
  <2> HIDE DEF P
  <2> QED BY <1>2, <1>3, NatSetInduction
<1> QED BY <1>4, DepthIsNat

---------------------------------------------------------------------------
(* Floats, and the parts of a value.                                       *)

\* What is in a concatenation is in one of its parts.
LEMMA ConcatContains ==
  ASSUME NEW V, NEW u \in Seq(V), NEW w \in Seq(V), NEW x, x = u \o w, NEW e
  PROVE  Contains(x, e) <=> Contains(u, e) \/ Contains(w, e)
<1>1. PICK m \in Nat, n \in Nat : m = Len(u) /\ n = Len(w)
  OBVIOUS
<1>2. /\ Len(x) = m + n
      /\ \A i \in 1..(m + n) : x[i] = IF i <= m THEN u[i] ELSE w[i - m]
  BY <1>1, ConcatProperties
<1>3. ASSUME NEW i \in 1..m, u[i] = e  PROVE \E j \in 1..(m + n) : x[j] = e
  <2>1. i \in 1..(m + n) /\ x[i] = u[i]
    BY <1>2
  <2> QED BY <1>3, <2>1
<1>4. ASSUME NEW i \in 1..n, w[i] = e  PROVE \E j \in 1..(m + n) : x[j] = e
  <2>1. m + i \in 1..(m + n) /\ ~(m + i <= m) /\ (m + i) - m = i
    OBVIOUS
  <2>2. x[m + i] = w[i]
    BY <1>2, <2>1
  <2> QED BY <1>4, <2>1, <2>2
<1>5. ASSUME NEW j \in 1..(m + n), x[j] = e
      PROVE  (\E i \in 1..m : u[i] = e) \/ (\E i \in 1..n : w[i] = e)
  <2>1. CASE j <= m
    <3>1. j \in 1..m /\ u[j] = e
      BY <1>2, <1>5, <2>1
    <3> QED BY <3>1
  <2>2. CASE ~(j <= m)
    <3>1. j - m \in 1..n /\ w[j - m] = e
      BY <1>2, <1>5, <2>2
    <3> QED BY <3>1
  <2> QED BY <2>1, <2>2
<1> QED BY <1>1, <1>2, <1>3, <1>4, <1>5 DEF Contains

\* And what is in joined words is in one of them.
LEMMA FlattenContains ==
  ASSUME NEW V, NEW seqs \in Seq(Seq(V)), NEW e, NEW joined, joined = FlattenSeq(seqs)
  PROVE  Contains(joined, e) <=> \E i \in 1..Len(seqs) : Contains(seqs[i], e)
<1>1. PICK n \in Nat : n = Len(seqs)
  OBVIOUS
<1>2. PICK flat \in [0..n -> Seq(V)] :
         /\ flat[0] = <<>>
         /\ \A i \in 1..n : flat[i] = flat[i - 1] \o seqs[i]
         /\ FlattenSeq(seqs) = flat[n]
  BY <1>1, FlattenOneByOne
<1> DEFINE P == {k \in Nat : k <= n =>
                   (Contains(flat[k], e) <=> \E i \in 1..k : Contains(seqs[i], e))}
<1>3. 0 \in P
  <2>1. ~Contains(flat[0], e)
    BY <1>2 DEF Contains
  <2> QED BY <2>1
<1>4. ASSUME NEW k \in Nat, k \in P  PROVE k + 1 \in P
  <2> SUFFICES ASSUME k + 1 <= n
               PROVE  Contains(flat[k + 1], e) <=> \E i \in 1..(k + 1) : Contains(seqs[i], e)
    OBVIOUS
  <2>1. k + 1 \in 1..n /\ (k + 1) - 1 = k /\ k \in 0..n
    OBVIOUS
  <2>2. Contains(flat[k], e) <=> \E i \in 1..k : Contains(seqs[i], e)
    BY <1>4
  <2>3. PICK u, w, x : /\ u \in Seq(V) /\ w \in Seq(V) /\ x = u \o w
                        /\ u = flat[k] /\ w = seqs[k + 1] /\ x = flat[k + 1]
    <3>1. flat[k] \in Seq(V)
      BY <1>2, <2>1
    <3>2. seqs[k + 1] \in Seq(V)
      BY <1>1, <2>1
    <3>3. flat[k + 1] = flat[k] \o seqs[k + 1]
      BY <1>2, <2>1
    <3> QED BY <3>1, <3>2, <3>3, Zenon
  <2>4. Contains(x, e) <=> Contains(u, e) \/ Contains(w, e)
    <3>1. u \in Seq(V) /\ w \in Seq(V) /\ x = u \o w
      BY <2>3
    <3> QED BY <3>1, ConcatContains, Zenon
  <2>5. \A i : i \in 1..(k + 1) <=> i \in 1..k \/ i = k + 1
    OBVIOUS
  <2> QED BY <2>2, <2>3, <2>4, <2>5
<1>5. Nat \subseteq P
  <2> HIDE DEF P
  <2> QED BY <1>3, <1>4, NatSetInduction
<1> QED BY <1>1, <1>2, <1>5

\* Bytes are no errors.
LEMMA NoErrInBytes ==
  ASSUME NEW w \in Seq(Bytes)
  PROVE  ~Contains(w, Err)
<1>1. \A i \in 1..Len(w) : w[i] \in Bytes
  OBVIOUS
<1>2. Err \notin Bytes
  <2>1. \A x \in Bytes : x \in Nat
    BY DEF Bytes
  <2>2. Err \notin Nat
    BY OctetsAre
  <2> QED BY <2>1, <2>2
<1> QED BY <1>1, <1>2 DEF Contains

\* Brackets and commas are no error.
LEMMA BracketsContain ==
  ASSUME NEW n \in Nat, NEW parts, Parsable(parts, n), NEW w,
         NEW open \in {91, 123}, NEW close \in {93, 125}, Bracketed(w, open, parts, close)
  PROVE  Contains(w, Err) <=> \E i \in 1..n : Contains(parts[i], Err)
<1>0. /\ Commas(parts) = FlattenSeq(CommaWords(parts)) /\ Commas(parts) \in Seq(Octets)
      /\ CommaWords(parts) \in Seq(Seq(Octets)) /\ Len(CommaWords(parts)) = n
      /\ \A i \in 1..n : CommaWords(parts)[i] = Comma(i, parts[i])
  BY CommasAreRows
<1>1. \A x \in Octets : x # Err => ~Contains(<<x>>, Err)
  BY DEF Contains
<1>2. open \in Octets /\ close \in Octets /\ 44 \in Octets /\ open # Err /\ close # Err /\ 44 # Err
  BY OctetsAre
<1>3. PICK c \in Seq(Octets), o \in Seq(Octets), e \in Seq(Octets) :
         c = Commas(parts) /\ o = <<open>> /\ e = <<close>>
  <2>1. <<open>> \in Seq(Octets) /\ <<close>> \in Seq(Octets)
    BY <1>2
  <2> QED BY <1>0, <2>1, Zenon
<1>4. PICK g \in Seq(Octets) : g = o \o c
  <2>1. o \o c \in Seq(Octets)
    BY ConcatProperties
  <2> QED BY <2>1
<1>5. w = g \o e
  BY <1>3, <1>4, Zenon DEF Bracketed
<1>6. ~Contains(o, Err) /\ ~Contains(e, Err)
  BY <1>1, <1>2, <1>3
<1>7. Contains(w, Err) <=> Contains(c, Err)
  <2>1. Contains(w, Err) <=> Contains(g, Err) \/ Contains(e, Err)
    BY <1>5, ConcatContains
  <2>2. Contains(g, Err) <=> Contains(o, Err) \/ Contains(c, Err)
    BY <1>4, ConcatContains
  <2> QED BY <1>6, <2>1, <2>2
<1>8. Contains(c, Err) <=> \E i \in 1..n : Contains(CommaWords(parts)[i], Err)
  <2>1. PICK x : x = CommaWords(parts) /\ x \in Seq(Seq(Octets)) /\ Len(x) = n /\ c = FlattenSeq(x)
    BY <1>0, <1>3, Zenon
  <2>2. Contains(c, Err) <=> \E i \in 1..Len(x) : Contains(x[i], Err)
    <3>1. x \in Seq(Seq(Octets)) /\ c = FlattenSeq(x)
      BY <2>1
    <3>2. \A V : x \in Seq(Seq(V)) => (Contains(c, Err) <=> \E i \in 1..Len(x) : Contains(x[i], Err))
      <4> SUFFICES ASSUME NEW V, x \in Seq(Seq(V))
                   PROVE  Contains(c, Err) <=> \E i \in 1..Len(x) : Contains(x[i], Err)
        OBVIOUS
      <4>1. \A f, err : f = FlattenSeq(x) => (Contains(f, err) <=> \E i \in 1..Len(x) : Contains(x[i], err))
        BY FlattenContains
      <4> QED BY <3>1, <4>1
    <3> QED BY <3>1, <3>2
  <2> QED BY <2>1, <2>2
<1>9. ASSUME NEW i \in 1..n
      PROVE  Contains(CommaWords(parts)[i], Err) <=> Contains(parts[i], Err)
  <2>1. PICK p \in Seq(Octets) : p = parts[i]
    BY DEF Parsable, IsWord
  <2>2. PICK x : x = CommaWords(parts)[i] /\ x = Comma(i, p)
    BY <1>0, <2>1
  <2>3. CASE i > 1
    <3>1. PICK k \in Seq(Octets) : k = <<44>>
      <4>1. <<44>> \in Seq(Octets)
        BY <1>2
      <4> QED BY <4>1, Zenon
    <3>2. x = k \o p /\ ~Contains(k, Err)
      <4>1. x = k \o p
        BY <2>2, <2>3, <3>1, Zenon DEF Comma
      <4>2. ~Contains(k, Err)
        BY <1>1, <1>2, <3>1
      <4> QED BY <4>1, <4>2
    <3>3. Contains(x, Err) <=> Contains(k, Err) \/ Contains(p, Err)
      BY <3>2, ConcatContains
    <3> QED BY <2>1, <2>2, <3>2, <3>3
  <2>4. CASE ~(i > 1)
    <3>1. x = <<>> \o p
      BY <2>2, <2>4 DEF Comma
    <3>2. x = p
      BY <3>1, ConcatEmptySeq
    <3> QED BY <2>1, <2>2, <3>2
  <2> QED BY <2>3, <2>4
<1> QED BY <1>3, <1>7, <1>8, <1>9

\* Nor are a member's key and colon.
LEMMA MemberContains ==
  ASSUME NEW k \in Strings, NEW w, IsWord(w)
  PROVE  Contains(Member(k, w), Err) <=> Contains(w, Err)
<1>1. PICK s \in Seq(Bytes) : s = WriteString(k)
  BY StringBytes
<1>2. s \in Seq(Octets) /\ ~Contains(s, Err)
  <2>1. Bytes \subseteq Octets
    BY OctetsAre
  <2> QED BY <2>1, NoErrInBytes
<1>3. PICK c \in Seq(Octets) : c = <<58>> /\ ~Contains(c, Err)
  <2>1. 58 \in Octets /\ 58 # Err
    BY OctetsAre
  <2>2. <<58>> \in Seq(Octets) /\ ~Contains(<<58>>, Err)
    BY <2>1 DEF Contains
  <2> QED BY <2>2, Zenon
<1>4. PICK g \in Seq(Octets) : g = s \o c
  <2>1. s \o c \in Seq(Octets)
    BY <1>2, ConcatProperties
  <2> QED BY <2>1
<1>5. PICK x : x = Member(k, w) /\ x = g \o w
  BY <1>1, <1>3, <1>4, Zenon DEF Member
<1>6. w \in Seq(Octets)
  BY DEF IsWord
<1>7. Contains(g, Err) <=> Contains(s, Err) \/ Contains(c, Err)
  BY <1>2, <1>4, ConcatContains
<1>8. Contains(x, Err) <=> Contains(g, Err) \/ Contains(w, Err)
  BY <1>5, <1>6, ConcatContains
<1> QED BY <1>2, <1>3, <1>5, <1>7, <1>8

IsFloat(part) == part.kind = "number" /\ part.float

\* The error is there when a part is a float.
Floats(values, written, parts) ==
  \A x \in values : Contains(written[x], Err) <=> \E part \in parts[x] : IsFloat(part)

\* The parts of a value, kind by kind.
LEMMA PartsOfKinds ==
  ASSUME NEW v, NEW inner
  PROVE  /\ v.kind = "array" =>
              PartsOf(v, inner) = {v} \union UNION {inner[v.items[i]] : i \in DOMAIN v.items}
         /\ v.kind = "object" =>
              PartsOf(v, inner) = {v} \union UNION {inner[m.value] : m \in v.map}
         /\ v.kind \notin {"array", "object"} => PartsOf(v, inner) = {v}
<1>1. v.kind = "array" =>
        PartsOf(v, inner) = {v} \union UNION {inner[v.items[i]] : i \in DOMAIN v.items}
  BY DEF PartsOf
<1>2. v.kind = "object" =>
        PartsOf(v, inner) = {v} \union UNION {inner[m.value] : m \in v.map}
  BY DEF PartsOf
<1>3. v.kind \notin {"array", "object"} => PartsOf(v, inner) = {v}
  BY DEF PartsOf
<1> QED BY <1>1, <1>2, <1>3

\* A float in a value is an error in what is written of it, and nothing else is.
LEMMA WriterFloats ==
  ASSUME NEW inner, NEW written, NEW parts, AllWords(inner, written), Floats(inner, written, parts),
         NEW v \in ValuesAround(inner)
  PROVE  Contains(Writer(v, written), Err) <=> \E part \in PartsOf(v, parts) : IsFloat(part)
<1>1. CASE v \in Scalars /\ v.kind \in {"null", "bool", "string"}
  <2>1. \A part \in PartsOf(v, parts) : ~IsFloat(part)
    BY <1>1, PartsOfKinds DEF IsFloat
  <2>2. \A n \in {110, 117, 108, 116, 114, 101, 102, 97, 115} : n # Err
    BY OctetsAre
  <2>3. CASE v.kind = "null"
    <3>1. Writer(v, written) = <<110, 117, 108, 108>>
      BY <2>3, WriterOfScalar
    <3>2. ~Contains(Writer(v, written), Err)
      BY <2>2, <3>1 DEF Contains
    <3> QED BY <2>1, <3>2
  <2>4. CASE v.kind = "bool"
    <3>1. ~Contains(<<116, 114, 117, 101>>, Err) /\ ~Contains(<<102, 97, 108, 115, 101>>, Err)
      BY <2>2 DEF Contains
    <3>2. Writer(v, written) \in {<<116, 114, 117, 101>>, <<102, 97, 108, 115, 101>>}
      BY <2>4, WriterOfScalar
    <3> QED BY <2>1, <3>1, <3>2
  <2>5. CASE v.kind = "string"
    <3>1. Writer(v, written) = WriteString(v.text) /\ v.text \in Strings
      BY <1>1, <2>5, WriterOfScalar, ScalarKinds
    <3>2. ~Contains(Writer(v, written), Err)
      BY <3>1, StringBytes, NoErrInBytes
    <3> QED BY <2>1, <3>2
  <2> QED BY <1>1, <2>3, <2>4, <2>5
<1>2. CASE v \in Scalars /\ v.kind = "number"
  <2>1. PartsOf(v, parts) = {v}
    BY <1>2, PartsOfKinds
  <2>2. Writer(v, written) = (IF v.float THEN <<Err>> ELSE Decimal(v.of)) /\ v.of \in Int
    BY <1>2, WriterOfScalar, ScalarKinds
  <2>3. CASE v.float
    <3>1. Contains(<<Err>>, Err)
      BY DEF Contains
    <3>2. Contains(Writer(v, written), Err)
      BY <2>2, <2>3, <3>1
    <3> QED BY <1>2, <2>1, <2>3, <3>2 DEF IsFloat
  <2>4. CASE ~v.float
    <3>1. ~Contains(Writer(v, written), Err)
      BY <2>2, <2>4, DecimalBytes, NoErrInBytes
    <3> QED BY <1>2, <2>1, <2>4, <3>1 DEF IsFloat
  <2> QED BY <2>3, <2>4
<1>3. CASE v.kind = "array" /\ v.items \in Seq(inner)
  <2>1. PICK s \in Seq(inner) : s = v.items
    BY <1>3
  <2>2. PICK n \in Nat : n = Len(s) /\ DOMAIN s = 1..n
    OBVIOUS
  <2>3. PICK words : words = ArrayParts(v, written)
    OBVIOUS
  <2>4. Parsable(words, n) /\ \A i \in 1..n : s[i] \in inner /\ words[i] = written[s[i]]
    BY <1>3, <2>1, <2>2, <2>3, ArrayIsParsable
  <2>5. Contains(Writer(v, written), Err) <=> \E i \in 1..n : Contains(words[i], Err)
    <3>1. PICK open \in {91, 123}, close \in {93, 125} :
            Bracketed(Writer(v, written), open, words, close)
      BY <1>3, <2>3, WriterOfList
    <3> QED BY <2>4, <3>1, BracketsContain
  <2>6. \A i \in 1..n : Contains(words[i], Err) <=> \E part \in parts[s[i]] : IsFloat(part)
    BY <2>4 DEF Floats
  <2>7. PartsOf(v, parts) = {v} \union UNION {parts[s[i]] : i \in 1..n}
    BY <1>3, <2>1, <2>2, PartsOfKinds
  <2>8. ~IsFloat(v)
    BY <1>3 DEF IsFloat
  <2> QED BY <2>5, <2>6, <2>7, <2>8
<1>4. CASE v.kind = "object" /\ v.map \in Maps(inner)
  <2>1. PICK map \in Maps(inner) : map = v.map
    BY <1>4
  <2>2. PICK words : words = ObjectParts(v, written)
    OBVIOUS
  <2>3. PICK n \in Nat :
           /\ IsListing(map, inner, n) /\ Parsable(words, n)
           /\ \A i \in 1..n : words[i] = Member(Keys(map)[i], written[Get(map, Keys(map)[i])])
    BY <1>4, <2>1, <2>2, ObjectIsParsable
  <2>4. Contains(Writer(v, written), Err) <=> \E i \in 1..n : Contains(words[i], Err)
    <3>1. PICK open \in {91, 123}, close \in {93, 125} :
            Bracketed(Writer(v, written), open, words, close)
      BY <1>4, <2>2, WriterOfList
    <3> QED BY <2>3, <3>1, BracketsContain
  <2>5. PICK keys \in [1..n -> Strings] : keys = Keys(map)
    BY <2>3 DEF IsListing
  <2>6. /\ \A i \in 1..n : Get(map, keys[i]) \in inner
        /\ \A i \in 1..n : [key |-> keys[i], value |-> Get(map, keys[i])] \in map
        /\ \A m \in map : \E i \in 1..n : m = [key |-> keys[i], value |-> Get(map, keys[i])]
    BY <2>3, <2>5 DEF IsListing
  <2>7. ASSUME NEW i \in 1..n
        PROVE  Contains(words[i], Err) <=> \E part \in parts[Get(map, keys[i])] : IsFloat(part)
    <3>1. PICK c \in inner, k \in Strings : c = Get(map, keys[i]) /\ k = keys[i]
      BY <2>6
    <3>2. IsWord(written[c])
      BY DEF AllWords
    <3>3. words[i] = Member(k, written[c])
      BY <2>3, <2>5, <3>1
    <3>4. Contains(words[i], Err) <=> Contains(written[c], Err)
      BY <3>2, <3>3, MemberContains
    <3> QED BY <3>1, <3>4 DEF Floats
  <2>8. PartsOf(v, parts) = {v} \union UNION {parts[m.value] : m \in map}
    BY <1>4, <2>1, PartsOfKinds
  <2>9. ~IsFloat(v)
    BY <1>4 DEF IsFloat
  <2>10. ASSUME NEW part  PROVE part \in PartsOf(v, parts) <=>
                                  part = v \/ \E i \in 1..n : part \in parts[Get(map, keys[i])]
    <3>1. part \in PartsOf(v, parts) <=> part = v \/ \E m \in map : part \in parts[m.value]
      BY <2>8
    <3>2. ASSUME NEW m \in map, part \in parts[m.value]
          PROVE  \E i \in 1..n : part \in parts[Get(map, keys[i])]
      <4>1. PICK i \in 1..n : m = [key |-> keys[i], value |-> Get(map, keys[i])]
        BY <2>6
      <4>2. m.value = Get(map, keys[i])
        BY <4>1
      <4> QED BY <3>2, <4>2
    <3>3. ASSUME NEW i \in 1..n, part \in parts[Get(map, keys[i])]
          PROVE  \E m \in map : part \in parts[m.value]
      <4>1. PICK m \in map : m = [key |-> keys[i], value |-> Get(map, keys[i])]
        BY <2>6
      <4>2. m.value = Get(map, keys[i])
        BY <4>1
      <4> QED BY <3>3, <4>2
    <3> QED BY <3>1, <3>2, <3>3
  <2> QED BY <2>4, <2>7, <2>9, <2>10
<1>5. \/ v \in Scalars /\ v.kind \in {"null", "bool", "number", "string"}
      \/ v.kind = "array" /\ v.items \in Seq(inner)
      \/ v.kind = "object" /\ v.map \in Maps(inner)
  BY ValueKinds, ScalarKinds
<1> QED BY <1>1, <1>2, <1>3, <1>4, <1>5

\* So it is at every depth.
LEMMA WrittenFloats == \A d \in 0..MaxDepth : Floats(Values[d], Written[d], Parts[d])
<1> DEFINE P == {d \in Nat : d <= MaxDepth => Floats(Values[d], Written[d], Parts[d])}
<1>1. ASSUME NEW inner, NEW written, NEW parts, AllWords(inner, written), Floats(inner, written, parts),
             NEW values, values \subseteq ValuesAround(inner), NEW out, NEW outParts,
             \A x \in values : out[x] = Writer(x, written) /\ outParts[x] = PartsOf(x, parts)
      PROVE  Floats(values, out, outParts)
  <2>1. ASSUME NEW x \in values
        PROVE  Contains(out[x], Err) <=> \E part \in outParts[x] : IsFloat(part)
    <3>1. x \in ValuesAround(inner) /\ out[x] = Writer(x, written) /\ outParts[x] = PartsOf(x, parts)
      BY <1>1
    <3>2. Contains(Writer(x, written), Err) <=> \E part \in PartsOf(x, parts) : IsFloat(part)
      BY <1>1, <3>1, WriterFloats
    <3> QED BY <3>1, <3>2
  <2> QED BY <2>1 DEF Floats
<1>2. 0 \in P
  <2>1. AllWords({}, None) /\ Floats({}, None, None)
    BY DEF AllWords, Floats
  <2>2. Values[0] \subseteq ValuesAround({})
    BY ValuesUnfold DEF ValuesAround
  <2>3. \A x \in Values[0] : Written[0][x] = Writer(x, None) /\ Parts[0][x] = PartsOf(x, None)
    BY WrittenUnfold, PartsUnfold
  <2> QED BY <1>1, <2>1, <2>2, <2>3
<1>3. ASSUME NEW d \in Nat, d \in P  PROVE d + 1 \in P
  <2> SUFFICES ASSUME d + 1 <= MaxDepth
               PROVE  Floats(Values[d + 1], Written[d + 1], Parts[d + 1])
    OBVIOUS
  <2>1. d \in 0..(MaxDepth - 1) /\ d \in 0..MaxDepth /\ Floats(Values[d], Written[d], Parts[d])
    BY <1>3, DepthIsNat
  <2>2. AllWords(Values[d], Written[d])
    BY <2>1, WrittenTells
  <2>3. Values[d + 1] \subseteq ValuesAround(Values[d])
    BY <2>1, ValuesUnfold
  <2>4. \A x \in Values[d + 1] : /\ Written[d + 1][x] = Writer(x, Written[d])
                                 /\ Parts[d + 1][x] = PartsOf(x, Parts[d])
    BY <2>1, WrittenUnfold, PartsUnfold
  <2> QED BY <1>1, <2>1, <2>2, <2>3, <2>4
<1>4. Nat \subseteq P
  <2> HIDE DEF P
  <2> QED BY <1>2, <1>3, NatSetInduction
<1> QED BY <1>4, DepthIsNat

\* Every object inside has its members in order.
Ordered(values, parts) ==
  \A x \in values : \A part \in parts[x] : part.kind = "object" => KeysSorted(part.map)

\* Every object inside a value has its members in order.
LEMMA PartsOrdered == \A d \in 0..MaxDepth : Ordered(Values[d], Parts[d])
<1> DEFINE P == {d \in Nat : d <= MaxDepth => Ordered(Values[d], Parts[d])}
<1>1. ASSUME NEW inner, NEW parts, Ordered(inner, parts), NEW v \in ValuesAround(inner),
             NEW part \in PartsOf(v, parts), part.kind = "object"
      PROVE  KeysSorted(part.map)
  <2>1. CASE v \in Scalars
    <3>1. v.kind \notin {"array", "object"}
      BY <2>1, ScalarKinds
    <3> QED BY <1>1, <3>1, PartsOfKinds
  <2>2. CASE v.kind = "array" /\ v.items \in Seq(inner)
    <3>1. PICK s \in Seq(inner) : s = v.items
      BY <2>2
    <3>2. part = v \/ \E i \in DOMAIN s : part \in parts[s[i]]
      <4>1. PartsOf(v, parts) = {v} \union UNION {parts[s[i]] : i \in DOMAIN s}
        BY <2>2, <3>1, PartsOfKinds
      <4> QED BY <4>1
    <3>3. \A i \in DOMAIN s : s[i] \in inner
      OBVIOUS
    <3> QED BY <1>1, <2>2, <3>2, <3>3 DEF Ordered
  <2>3. CASE v.kind = "object" /\ v.map \in Maps(inner)
    <3>1. PICK map \in Maps(inner) : map = v.map
      BY <2>3
    <3>2. part = v \/ \E m \in map : part \in parts[m.value]
      <4>1. PartsOf(v, parts) = {v} \union UNION {parts[m.value] : m \in map}
        BY <2>3, <3>1, PartsOfKinds
      <4> QED BY <4>1
    <3>3. \A m \in map : m.value \in inner
      BY DEF Maps
    <3>4. KeysSorted(map)
      BY KeysAreSorted
    <3> QED BY <1>1, <3>1, <3>2, <3>3, <3>4 DEF Ordered
  <2> QED BY <2>1, <2>2, <2>3, ValueKinds
<1>2. ASSUME NEW inner, NEW parts, Ordered(inner, parts),
             NEW values, values \subseteq ValuesAround(inner), NEW out,
             \A x \in values : out[x] = PartsOf(x, parts)
      PROVE  Ordered(values, out)
  <2>1. ASSUME NEW x \in values, NEW part \in out[x], part.kind = "object"
        PROVE  KeysSorted(part.map)
    <3>1. x \in ValuesAround(inner) /\ part \in PartsOf(x, parts)
      BY <1>2
    <3> QED BY <1>1, <1>2, <2>1, <3>1
  <2> QED BY <2>1 DEF Ordered
<1>3. 0 \in P
  <2>1. Ordered({}, None)
    BY DEF Ordered
  <2>2. Values[0] \subseteq ValuesAround({})
    BY ValuesUnfold DEF ValuesAround
  <2>3. \A x \in Values[0] : Parts[0][x] = PartsOf(x, None)
    BY PartsUnfold
  <2> QED BY <1>2, <2>1, <2>2, <2>3
<1>4. ASSUME NEW d \in Nat, d \in P  PROVE d + 1 \in P
  <2> SUFFICES ASSUME d + 1 <= MaxDepth  PROVE Ordered(Values[d + 1], Parts[d + 1])
    OBVIOUS
  <2>1. d \in 0..(MaxDepth - 1) /\ Ordered(Values[d], Parts[d])
    BY <1>4, DepthIsNat
  <2>2. Values[d + 1] \subseteq ValuesAround(Values[d])
    BY <2>1, ValuesUnfold
  <2>3. \A x \in Values[d + 1] : Parts[d + 1][x] = PartsOf(x, Parts[d])
    BY <2>1, PartsUnfold
  <2> QED BY <1>2, <2>1, <2>2, <2>3
<1>5. Nat \subseteq P
  <2> HIDE DEF P
  <2> QED BY <1>3, <1>4, NatSetInduction
<1> QED BY <1>5, DepthIsNat

---------------------------------------------------------------------------
(* The message.                                                            *)

\* A float refuses a value; what is written of any other is bytes, and none is 0.
LEMMA CanonicalBytes ==
  ASSUME NEW v \in Values[MaxDepth]
  PROVE  /\ HasFloat(v) => Canonicalize(v) = Refused
         /\ ~HasFloat(v) => /\ Canonicalize(v) = WriteValue(v) /\ WriteValue(v) \in Seq(Bytes)
                            /\ Canonicalize(v) # Refused
<1>1. MaxDepth \in 0..MaxDepth
  BY DepthIsNat
<1>2. PICK w : w = WriteValue(v) /\ w = Written[MaxDepth][v]
  BY DEF WriteValue
<1>3. w \in Seq(Octets)
  <2>1. AllWords(Values[MaxDepth], Written[MaxDepth])
    BY <1>1, WrittenTells
  <2> QED BY <1>2, <2>1 DEF AllWords, IsWord
<1>4. Contains(w, Err) <=> HasFloat(v)
  <2>1. Floats(Values[MaxDepth], Written[MaxDepth], Parts[MaxDepth])
    BY <1>1, WrittenFloats
  <2> QED BY <1>2, <2>1 DEF Floats, HasFloat, IsFloat
<1>5. Canonicalize(v) = IF Contains(w, Err) THEN Refused ELSE w
  BY <1>2 DEF Canonicalize
<1>6. ASSUME ~Contains(w, Err)  PROVE w \in Seq(Bytes) /\ w # Refused
  <2>1. PICK n \in Nat : n = Len(w) /\ w = [i \in 1..n |-> w[i]]
    BY <1>3
  <2>2. ASSUME NEW i \in 1..n  PROVE w[i] \in Bytes
    <3>1. w[i] \in Octets /\ w[i] # Err
      BY <1>3, <1>6, <2>1 DEF Contains
    <3> QED BY <3>1 DEF Octets
  <2>3. w \in Seq(Bytes)
    <3>1. [i \in 1..n |-> w[i]] \in Seq(Bytes)
      BY <2>2
    <3> QED BY <2>1, <3>1
  <2>4. Contains(Refused, Err)
    BY DEF Contains, Refused
  <2> QED BY <1>6, <2>3, <2>4
<1> QED BY <1>2, <1>4, <1>5, <1>6

\* The range of a timestamp.
LEMMA StampRange == \A t \in Stamps : t \in Int /\ -32768 <= t /\ t < 32768
BY StampAssumption

\* What is signed is bytes.
Wire == 0..255

\* The canonical form and the separator are bytes.
LEMMA WireIs == Bytes \subseteq Wire /\ 0 \in Wire /\ Wire \subseteq Nat
BY DEF Wire, Bytes

\* A word over some symbols is a word over more.
LEMMA WiderWord ==
  ASSUME NEW U, NEW V, U \subseteq V, NEW w \in Seq(U)
  PROVE  w \in Seq(V)
<1>1. PICK n \in Nat : n = Len(w) /\ w = [i \in 1..n |-> w[i]]
  OBVIOUS
<1>2. \A i \in 1..n : w[i] \in V
  BY <1>1
<1>3. [i \in 1..n |-> w[i]] \in Seq(V)
  BY <1>2
<1> QED BY <1>1, <1>3

\* The places in a concatenation.
LEMMA ConcatPlaces ==
  ASSUME NEW V, NEW u \in Seq(V), NEW w \in Seq(V), NEW x, x = u \o w
  PROVE  /\ x \in Seq(V) /\ Len(x) = Len(u) + Len(w)
         /\ \A i \in 1..Len(u) : x[i] = u[i]
         /\ \A i \in 1..Len(w) : x[Len(u) + i] = w[i]
BY ConcatProperties

\* Its bytes.
LEMMA StampBytes ==
  ASSUME NEW t \in Stamps
  PROVE  /\ LittleEndian(t) \in Seq(Wire) /\ Len(LittleEndian(t)) = 2
         /\ LittleEndian(t)[1] = t % 256 /\ LittleEndian(t)[2] = (t \div 256) % 256
<1>1. t \in Int
  BY StampRange
<1>2. PICK x \in Wire, y \in Wire : x = t % 256 /\ y = (t \div 256) % 256
  <2>1. t % 256 \in 0..255 /\ (t \div 256) % 256 \in 0..255
    BY <1>1, SMT
  <2> QED BY <2>1 DEF Wire
<1>3. LittleEndian(t) = <<x, y>>
  BY <1>2 DEF LittleEndian
<1>4. <<x, y>> \in Seq(Wire) /\ Len(<<x, y>>) = 2 /\ <<x, y>>[1] = x /\ <<x, y>>[2] = y
  OBVIOUS
<1> QED BY <1>2, <1>3, <1>4

\* They tell it.
LEMMA StampsApart ==
  ASSUME NEW t \in Stamps, NEW s \in Stamps, t % 256 = s % 256, (t \div 256) % 256 = (s \div 256) % 256
  PROVE  t = s
<1>1. /\ t \in Int /\ -32768 <= t /\ t < 32768
      /\ s \in Int /\ -32768 <= s /\ s < 32768
  BY StampRange
<1>2. PICK p \in Int, q \in Int : p = t \div 256 /\ q = s \div 256
  BY <1>1
<1>3. t = (256 * p) + (t % 256) /\ s = (256 * q) + (s % 256)
  BY <1>1, <1>2, SMT
<1>4. -128 <= p /\ p < 128 /\ -128 <= q /\ q < 128
  BY <1>1, <1>2, SMT
<1>5. p = q
  BY <1>2, <1>4, SMT
<1> QED BY <1>3, <1>5

\* A message is the canonical form, a byte 0 and the two bytes of the timestamp.
IsMessage(x, w, t) ==
  /\ x \in Seq(Wire) /\ Len(x) = Len(w) + 3
  /\ Holds(x, 0, w) /\ x[Len(w) + 1] = 0
  /\ x[Len(w) + 2] = t % 256 /\ x[Len(w) + 3] = (t \div 256) % 256

\* A float refuses the message; any other message has its three parts.
LEMMA MessageIs ==
  ASSUME NEW v \in Values[MaxDepth], NEW t \in Stamps
  PROVE  /\ HasFloat(v) => CanonicalMessage(v, t) = Refused
         /\ ~HasFloat(v) => /\ IsMessage(CanonicalMessage(v, t), WriteValue(v), t)
                            /\ CanonicalMessage(v, t) # Refused
<1>1. CanonicalMessage(v, t) = IF Canonicalize(v) = Refused THEN Refused
                               ELSE Canonicalize(v) \o <<0>> \o LittleEndian(t)
  BY Zenon DEF CanonicalMessage
<1>2. CASE HasFloat(v)
  BY <1>1, <1>2, CanonicalBytes
<1>3. CASE ~HasFloat(v)
  <2>1. PICK w \in Seq(Wire) : w = WriteValue(v) /\ w = Canonicalize(v)
    <3>1. WriteValue(v) \in Seq(Bytes) /\ WriteValue(v) = Canonicalize(v)
      BY <1>3, CanonicalBytes
    <3>2. WriteValue(v) \in Seq(Wire)
      BY <3>1, WireIs, WiderWord, Zenon
    <3>3. WriteValue(v) \in Seq(Wire)
      BY <3>2
    <3> QED BY <3>1, <3>3
  <2>2. PICK z \in Seq(Wire), e \in Seq(Wire) : z = <<0>> /\ e = LittleEndian(t)
    <3>1. <<0>> \in Seq(Wire)
      BY WireIs
    <3> QED BY <3>1, StampBytes, Zenon
  <2>3. Len(z) = 1 /\ z[1] = 0 /\ Len(e) = 2 /\ e[1] = t % 256 /\ e[2] = (t \div 256) % 256
    BY <2>2, StampBytes
  <2>4. PICK x : x = CanonicalMessage(v, t) /\ x = (w \o z) \o e
    BY <1>1, <1>3, <2>1, <2>2, CanonicalBytes
  <2>5. PICK n \in Nat : n = Len(w)
    OBVIOUS
  <2>6. PICK g \in Seq(Wire) :
          /\ g = w \o z /\ Len(g) = n + 1 /\ g[n + 1] = 0 /\ \A i \in 1..n : g[i] = w[i]
    <3>1. PICK g \in Seq(Wire) : g = w \o z
      <4>1. w \o z \in Seq(Wire)
        BY ConcatProperties
      <4> QED BY <4>1
    <3>2. /\ Len(g) = Len(w) + Len(z)
          /\ \A i \in 1..Len(w) : g[i] = w[i]
          /\ \A i \in 1..Len(z) : g[Len(w) + i] = z[i]
      BY <3>1, ConcatPlaces
    <3>3. 1 \in 1..Len(z)
      BY <2>3
    <3>4. g[n + 1] = 0
      BY <2>3, <2>5, <3>2, <3>3
    <3> QED BY <2>3, <2>5, <3>1, <3>2, <3>4
  <2>7. /\ x \in Seq(Wire) /\ Len(x) = (n + 1) + 2
        /\ \A i \in 1..(n + 1) : x[i] = g[i]
        /\ \A i \in 1..2 : x[(n + 1) + i] = e[i]
    <3>1. x = g \o e
      BY <2>4, <2>6, Zenon
    <3>2. /\ x \in Seq(Wire) /\ Len(x) = Len(g) + Len(e)
          /\ \A i \in 1..Len(g) : x[i] = g[i]
          /\ \A i \in 1..Len(e) : x[Len(g) + i] = e[i]
      BY <3>1, ConcatPlaces
    <3>3. Len(g) = n + 1 /\ Len(e) = 2
      BY <2>3, <2>6
    <3> QED BY <3>2, <3>3
  <2>8. x[n + 1] = 0 /\ x[n + 2] = e[1] /\ x[n + 3] = e[2] /\ \A i \in 1..n : x[i] = w[i]
    <3>1. (n + 1) + 1 = n + 2 /\ (n + 1) + 2 = n + 3 /\ n + 1 \in 1..(n + 1) /\ 1 \in 1..2 /\ 2 \in 1..2
      OBVIOUS
    <3>2. x[(n + 1) + 1] = e[1] /\ x[(n + 1) + 2] = e[2] /\ x[n + 1] = g[n + 1]
      BY <2>7, <3>1
    <3>3. \A i \in 1..n : i \in 1..(n + 1)
      OBVIOUS
    <3>4. \A i \in 1..n : x[i] = w[i]
      BY <2>6, <2>7, <3>3
    <3> QED BY <2>6, <3>1, <3>2, <3>4
  <2>9. Holds(x, 0, w)
    BY <2>5, <2>7, <2>8 DEF Holds
  <2>10. IsMessage(x, w, t)
    <3>1. (n + 1) + 2 = n + 3
      OBVIOUS
    <3> QED BY <3>1, <2>3, <2>5, <2>7, <2>8, <2>9 DEF IsMessage
  <2>11. x # Refused
    <3>1. Len(Refused) = 1
      BY DEF Refused
    <3>2. Len(x) # 1
      BY <2>7
    <3> QED BY <3>1, <3>2
  <2> QED BY <1>3, <2>1, <2>4, <2>10, <2>11
<1> QED BY <1>2, <1>3

\* No two values and times have one message.
LEMMA MessagesTell ==
  ASSUME NEW v \in Values[MaxDepth], NEW u \in Values[MaxDepth], NEW t \in Stamps, NEW s \in Stamps,
         CanonicalMessage(v, t) = CanonicalMessage(u, s), CanonicalMessage(v, t) # Refused
  PROVE  v = u /\ t = s
<1>1. PICK x : x = CanonicalMessage(v, t) /\ x = CanonicalMessage(u, s)
  OBVIOUS
<1>2. ~HasFloat(v) /\ ~HasFloat(u)
  BY MessageIs
<1>3. PICK w, y : w = Written[MaxDepth][v] /\ y = Written[MaxDepth][u]
  OBVIOUS
<1>4. IsMessage(x, w, t) /\ IsMessage(x, y, s)
  BY <1>1, <1>2, <1>3, MessageIs DEF WriteValue
<1>5. AllWords(Values[MaxDepth], Written[MaxDepth]) /\ Tells(Values[MaxDepth], Written[MaxDepth])
  <2>1. MaxDepth \in 0..MaxDepth
    BY DepthIsNat
  <2> QED BY <2>1, WrittenTells
<1>6. PICK m \in Nat, n \in Nat : m = Len(w) /\ n = Len(y)
  BY <1>3, <1>5 DEF AllWords, IsWord
<1>7. IsText(x) /\ 0 \in NoDigit
  <2>1. x \in Seq(Wire)
    BY <1>4 DEF IsMessage
  <2>2. Len(x) \in Nat /\ \A i \in 1..Len(x) : x[i] \in Wire
    BY <2>1
  <2>3. IsText(x)
    BY <2>2, WireIs DEF IsText
  <2> QED BY <2>3 DEF NoDigit, Ten
<1>8. Reads(x, 0, w, NoDigit) /\ Reads(x, 0, y, NoDigit)
  <2>1. Reads(x, 0, w, NoDigit)
    <3>1. Holds(x, 0, w) /\ x[m + 1] = 0 /\ Len(x) = m + 3
      BY <1>4, <1>6 DEF IsMessage
    <3>2. 0 + m < m + 3 /\ (0 + m) + 1 = m + 1
      OBVIOUS
    <3> QED BY <1>6, <1>7, <3>1, <3>2 DEF Reads
  <2>2. Reads(x, 0, y, NoDigit)
    <3>1. Holds(x, 0, y) /\ x[n + 1] = 0 /\ Len(x) = n + 3
      BY <1>4, <1>6 DEF IsMessage
    <3>2. 0 + n < n + 3 /\ (0 + n) + 1 = n + 1
      OBVIOUS
    <3> QED BY <1>6, <1>7, <3>1, <3>2 DEF Reads
  <2> QED BY <2>1, <2>2
<1>9. v = u
  BY <1>3, <1>5, <1>7, <1>8 DEF Tells
<1>10. t % 256 = s % 256 /\ (t \div 256) % 256 = (s \div 256) % 256
  <2>1. w = y
    BY <1>3, <1>9
  <2> QED BY <1>4, <2>1 DEF IsMessage
<1>11. t = s
  BY <1>10, StampsApart
<1> QED BY <1>9, <1>11

---------------------------------------------------------------------------
(* The life of a payload.                                                  *)

\* What was signed is the message of what was sent, and the verdict is that of the
\* verifier on what arrived.
JcsInv ==
  /\ sent \in Travelling \union {None}
  /\ arrived \in Travelling \union {None}
  /\ sent = None => signature = None
  /\ sent # None => signature = SignPayload(Parse(sent.doc), sent.stamp)
  /\ arrived # None => sent # None /\ signature # Refused
  /\ verdict # Pending => /\ arrived # None
                          /\ verdict = VerifyPayload(Parse(arrived.doc), arrived.stamp, signature)

\* The marker for nothing is no document.
LEMMA TravellerIsSome == \A m \in Travelling : m # None
<1> SUFFICES ASSUME NEW m \in Travelling  PROVE m # None
  OBVIOUS
<1>1. "doc" \in DOMAIN m
  BY DEF Travelling
<1>2. DOMAIN None = {}
  BY DEF None
<1> QED BY <1>1, <1>2

\* The invariant holds: a hop changes what arrives, not what was signed.
LEMMA JcsInvariant == JcsSpec => []JcsInv
<1>1. JcsInit => JcsInv
  BY DEF JcsInit, JcsInv
<1>2. JcsInv /\ [JcsNext]_jcsVars => JcsInv'
  <2> SUFFICES ASSUME JcsInv, [JcsNext]_jcsVars  PROVE JcsInv'
    OBVIOUS
  <2> USE DEF JcsInv
  <2>1. ASSUME NEW m \in Travelling, Sign(m)  PROVE JcsInv'
    <3>1. m # None
      BY TravellerIsSome
    <3>2. verdict = Pending /\ verdict' = Pending
      BY <2>1 DEF Sign
    <3> QED BY <2>1, <3>1, <3>2 DEF Sign
  <2>2. ASSUME NEW m \in Travelling, Alter(m)  PROVE JcsInv'
    BY <2>2, TravellerIsSome DEF Alter, InTransit
  <2>3. ASSUME NEW doc \in Documents, Reemit(doc)  PROVE JcsInv'
    <3>1. arrived \in Travelling
      BY <2>3 DEF Reemit, InTransit
    <3>2. [arrived EXCEPT !.doc = doc] \in Travelling
      BY <3>1 DEF Travelling
    <3> QED BY <2>3, <3>2, TravellerIsSome DEF Reemit, InTransit
  <2>4. CASE Receive
    BY <2>4 DEF Receive
  <2>5. CASE UNCHANGED jcsVars
    BY <2>5 DEF jcsVars
  <2> QED BY <2>1, <2>2, <2>3, <2>4, <2>5 DEF JcsNext
<1> QED BY <1>1, <1>2, PTL DEF JcsSpec

\* What travels has a value and a timestamp.
LEMMA TravellerHas ==
  ASSUME NEW m \in Travelling
  PROVE  Parse(m.doc) \in Values[MaxDepth] /\ m.stamp \in Stamps
<1>1. m.doc \in Docs[MaxDepth] /\ m.stamp \in Stamps
  BY DocumentsAssumption DEF Travelling
<1>2. MaxDepth \in 0..MaxDepth
  BY DepthIsNat
<1>3. Parsed[MaxDepth][m.doc] \in Values[MaxDepth]
  BY <1>1, <1>2, ParsedIsValue
<1> QED BY <1>1, <1>3 DEF Parse

\* What was signed, by the invariant.
LEMMA InvSigned ==
  ASSUME JcsInv, sent # None
  PROVE  /\ sent \in Travelling
         /\ signature = CanonicalMessage(Parse(sent.doc), sent.stamp)
         /\ Parse(sent.doc) \in Values[MaxDepth] /\ sent.stamp \in Stamps
<1>1. sent \in Travelling
  BY DEF JcsInv
<1> QED BY <1>1, TravellerHas DEF JcsInv, SignPayload

\* What was verified, by the invariant.
LEMMA InvVerified ==
  ASSUME JcsInv, verdict # Pending
  PROVE  /\ sent # None /\ signature # Refused
         /\ Parse(arrived.doc) \in Values[MaxDepth] /\ arrived.stamp \in Stamps
         /\ verdict = VerifyPayload(Parse(arrived.doc), arrived.stamp, signature)
<1>1. arrived \in Travelling
  BY DEF JcsInv
<1> QED BY <1>1, TravellerHas DEF JcsInv

\* What the verifier says, by cases.
LEMMA Verdicts ==
  ASSUME NEW v, NEW t, NEW sig
  PROVE  /\ VerifyPayload(v, t, sig) \in {"ok", "signature invalid", "canonicalization"}
         /\ VerifyPayload(v, t, sig) = "canonicalization" <=> CanonicalMessage(v, t) = Refused
         /\ VerifyPayload(v, t, sig) = "ok"
              <=> CanonicalMessage(v, t) # Refused /\ CanonicalMessage(v, t) = sig
<1>1. CASE CanonicalMessage(v, t) = Refused
  BY <1>1 DEF VerifyPayload
<1>2. CASE CanonicalMessage(v, t) # Refused /\ CanonicalMessage(v, t) = sig
  BY <1>2 DEF VerifyPayload
<1>3. CASE CanonicalMessage(v, t) # Refused /\ CanonicalMessage(v, t) # sig
  BY <1>3 DEF VerifyPayload
<1> QED BY <1>1, <1>2, <1>3

\* Everything that is signed is a sequence of bytes, whatever the document and the
\* characters in it (jcs.rs:39).
THEOREM JcsTyped == JcsSpec => []JcsTypeOK
<1>1. JcsInv => JcsTypeOK
  <2> SUFFICES ASSUME JcsInv  PROVE JcsTypeOK
    OBVIOUS
  <2>1. signature # Refused => \A i \in DOMAIN signature : signature[i] \in 0..255
    <3>1. CASE sent = None
      <4>1. signature = <<>>
        BY <3>1 DEF JcsInv, None
      <4> QED BY <4>1
    <3>2. CASE sent # None
      <4>1. signature # Refused => IsMessage(signature, WriteValue(Parse(sent.doc)), sent.stamp)
        BY <3>2, InvSigned, MessageIs
      <4>2. signature # Refused => signature \in Seq(Wire)
        BY <4>1 DEF IsMessage
      <4>3. signature # Refused => \A i \in DOMAIN signature : signature[i] \in Wire
        BY <4>2
      <4> QED BY <4>3 DEF Wire
    <3> QED BY <3>1, <3>2
  <2>2. verdict \in {Pending, "ok", "signature invalid", "canonicalization"}
    BY InvVerified, Verdicts
  <2> QED BY <2>1, <2>2 DEF JcsInv, JcsTypeOK
<1> QED BY <1>1, JcsInvariant, PTL

\* A payload is accepted exactly when it is the JSON value that was signed, with the
\* timestamp it was signed with: no order of members breaks a signature, and no two
\* values or times share one (jcs.rs:3-7).
THEOREM AcceptedValueIsTheSigned == JcsSpec => []AcceptedIffSame
<1>1. JcsInv => AcceptedIffSame
  <2> SUFFICES ASSUME JcsInv, verdict # Pending
               PROVE  verdict = "ok" <=> /\ Parse(arrived.doc) = Parse(sent.doc)
                                         /\ arrived.stamp = sent.stamp
    BY DEF AcceptedIffSame
  <2>1. PICK v \in Values[MaxDepth], u \in Values[MaxDepth], t \in Stamps, s \in Stamps :
          /\ v = Parse(arrived.doc) /\ u = Parse(sent.doc) /\ t = arrived.stamp /\ s = sent.stamp
    BY InvVerified, InvSigned
  <2>2. /\ signature = CanonicalMessage(u, s) /\ signature # Refused
        /\ verdict = VerifyPayload(v, t, signature)
    BY <2>1, InvVerified, InvSigned
  <2>3. verdict = "ok" <=> CanonicalMessage(v, t) # Refused /\ CanonicalMessage(v, t) = signature
    BY <2>2, Verdicts
  <2>4. CanonicalMessage(v, t) # Refused /\ CanonicalMessage(v, t) = CanonicalMessage(u, s)
          => v = u /\ t = s
    BY MessagesTell
  <2> QED BY <2>1, <2>2, <2>3, <2>4
<1> QED BY <1>1, JcsInvariant, PTL

\* A float at any depth refuses the payload, at the signer and at the verifier, and
\* nothing else does (jcs.rs:22-24).
THEOREM OnlyFloatsAreRefused == JcsSpec => []FloatsAreRefused
<1>1. JcsInv => FloatsAreRefused
  <2> SUFFICES ASSUME JcsInv  PROVE FloatsAreRefused
    OBVIOUS
  <2>1. sent # None => (signature = Refused <=> HasFloat(Parse(sent.doc)))
    BY InvSigned, MessageIs
  <2>2. verdict # Pending => (verdict = "canonicalization" <=> HasFloat(Parse(arrived.doc)))
    BY InvVerified, Verdicts, MessageIs
  <2> QED BY <2>1, <2>2 DEF FloatsAreRefused
<1> QED BY <1>1, JcsInvariant, PTL

\* The canonical form holds no NUL, so the byte 0 behind it ends it, and the signed
\* message starts with both (jcs.rs:133-134).
THEOREM NulEndsTheValue == JcsSpec => []NulSeparates
<1>1. ASSUME JcsInv, sent # None, signature # Refused,
             NEW canonical, canonical = Canonicalize(Parse(sent.doc))
      PROVE  ~Contains(canonical, 0) /\ IsPrefix(canonical \o <<0>>, signature)
  <2>1. PICK v \in Values[MaxDepth], t \in Stamps :
          v = Parse(sent.doc) /\ t = sent.stamp /\ signature = CanonicalMessage(v, t)
    BY <1>1, InvSigned
  <2>2. ~HasFloat(v) /\ IsMessage(signature, WriteValue(v), t)
    BY <1>1, <2>1, MessageIs
  <2>3. canonical = WriteValue(v) /\ canonical \in Seq(Bytes)
    BY <1>1, <2>1, <2>2, CanonicalBytes
  <2>4. PICK n \in Nat : n = Len(canonical) /\ \A i \in 1..n : canonical[i] \in Bytes
    BY <2>3
  <2>5. 0 \notin Bytes
    BY DEF Bytes
  <2>6. ~Contains(canonical, 0)
    BY <2>4, <2>5 DEF Contains
  <2>7. PICK w \in Seq(Nat) : w = canonical
    <3>1. Bytes \subseteq Nat
      BY DEF Bytes
    <3>2. canonical \in Seq(Nat)
      BY <2>3, <3>1, WiderWord, Zenon
    <3> QED BY <3>2
  <2>8. PICK x \in Seq(Nat) : x = w \o <<0>> /\ Len(x) = n + 1 /\ \A i \in 1..(n + 1) : x[i] = IF i <= n THEN w[i] ELSE 0
    <3>1. PICK z \in Seq(Nat) : z = <<0>>
      <4>1. <<0>> \in Seq(Nat)
        OBVIOUS
      <4> QED BY <4>1, Zenon
    <3>2. Len(z) = 1 /\ z[1] = 0
      BY <3>1
    <3>3. PICK x \in Seq(Nat) : x = w \o z
      <4>1. w \o z \in Seq(Nat)
        BY ConcatProperties
      <4> QED BY <4>1
    <3>4. Len(x) = n + 1 /\ \A i \in 1..(n + 1) : x[i] = IF i <= n THEN w[i] ELSE z[i - n]
      BY <2>4, <2>7, <3>2, <3>3, ConcatProperties
    <3>5. \A i \in 1..(n + 1) : ~(i <= n) => i - n = 1
      OBVIOUS
    <3> QED BY <3>1, <3>2, <3>3, <3>4, <3>5
  <2>9. PICK y \in Seq(Nat) : y = signature
    <3>1. signature \in Seq(Wire)
      BY <2>2 DEF IsMessage
    <3>2. signature \in Seq(Nat)
      BY <3>1, WireIs, WiderWord, Zenon
    <3> QED BY <3>2
  <2>10. Len(y) = n + 3 /\ y[n + 1] = 0 /\ \A i \in 1..n : y[i] = w[i]
    <3>1. IsMessage(y, w, t) /\ n = Len(w)
      BY <2>2, <2>3, <2>4, <2>7, <2>9
    <3> QED BY <3>1 DEF IsMessage, Holds
  <2>11. SubSeq(x, 1, n + 1) = SubSeq(y, 1, n + 1)
    <3>1. \A i \in 1..(n + 1) : x[i] = y[i]
      BY <2>8, <2>10
    <3>2. /\ SubSeq(x, 1, n + 1) = [i \in 1..(n + 1) |-> x[i]]
          /\ SubSeq(y, 1, n + 1) = [i \in 1..(n + 1) |-> y[i]]
      BY <2>8, <2>10
    <3> QED BY <3>1, <3>2
  <2>12. IsPrefix(x, y)
    BY <2>8, <2>10, <2>11 DEF IsPrefix
  <2> QED BY <2>6, <2>7, <2>8, <2>9, <2>12
<1>2. JcsInv => NulSeparates
  BY <1>1 DEF NulSeparates
<1> QED BY <1>2, JcsInvariant, PTL

\* The members of every object, at every depth, are signed in the order of their UTF-16
\* units, on and off the basic plane (jcs.rs:18, 122-124).
THEOREM MembersAreOrdered == JcsSpec => []MembersInUtf16Order
<1>1. JcsInv => MembersInUtf16Order
  <2> SUFFICES ASSUME JcsInv, sent # None,
                      NEW part \in Parts[MaxDepth][Parse(sent.doc)], part.kind = "object"
               PROVE  KeysSorted(part.map)
    BY DEF MembersInUtf16Order
  <2>1. MaxDepth \in 0..MaxDepth
    BY DepthIsNat
  <2>2. Ordered(Values[MaxDepth], Parts[MaxDepth])
    BY <2>1, PartsOrdered
  <2> QED BY <2>2, InvSigned DEF Ordered
<1> QED BY <1>1, JcsInvariant, PTL
=============================================================================
