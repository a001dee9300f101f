---------------------------- MODULE MCIedbCrypto ----------------------------
(* IedbCrypto for TLC.                                                     *)
EXTENDS IedbCrypto, MCMerkleRange

CONSTANTS s1, s2, w1, w2, alice, bob, carol

\* Seals and boxes have the same names, and so have passphrases and plaintexts.
Symmetry == Permutations({s1, s2}) \union Permutations({w1, w2})
              \union Permutations({alice, bob, carol})

---------------------------------------------------------------------------
(* Token ledger: the lists differ in where one CID ends; any fixed order   *)
(* of the ids will do.                                                     *)

OneCid == <<<<"a", "a">>>>
TwoCids == <<<<"a">>, <<"a">>>>
MCEventLists == {OneCid, TwoCids}
MCKeyLess(x, y) == \/ x[1] < y[1]
                   \/ x[1] = y[1] /\ Len(x[2]) < Len(y[2])

---------------------------------------------------------------------------
(* Jcs: documents that differ where an encoding could lose the difference. *)

Null == [kind |-> "null"]
Bool(b) == [kind |-> "bool", is |-> b]
Num(n) == [kind |-> "number", of |-> n, float |-> FALSE]
Fraction(n) == [kind |-> "number", of |-> n, float |-> TRUE]
Str(s) == [kind |-> "string", text |-> s]
Arr(items) == [kind |-> "array", items |-> items]
Obj(fields) == [kind |-> "object", fields |-> fields]
Member(k, v) == [key |-> k, value |-> v]

\* NUL, \b and its escape, a quote, `","`, U+001F and its escape, U+FFFF, U+10000.
MCTexts == {<<>>, <<0>>, <<8>>, <<92, 98>>, <<34>>, <<34, 44, 34>>, <<31>>,
            <<92, 117, 48, 48, 49, 102>>, <<233>>, <<65535>>, <<65536>>}
MCNumbers == {Num(n) : n \in {-129, -128, -1, 0, 1, 12, 255, 256}} \union {Fraction(1)}
MCLeaves == {Null, Bool(TRUE), Bool(FALSE)} \union MCNumbers \union {Str(s) : s \in MCTexts}

MCKeys == {<<98>>, <<98, 98>>, <<65535>>, <<65536>>}
MCFew == {Num(1), Fraction(1), Str(<<>>)}
MCObjects == {Obj(<<>>)}
  \union {Obj(<<Member(k, v)>>) : k \in {<<98>>, <<0>>}, v \in MCFew}
  \union {Obj(<<Member(k, Num(1)), Member(l, v)>>) : k, l \in MCKeys, v \in {Num(1), Fraction(2)}}
  \union {Obj(<<Member(k, Fraction(2)), Member(l, Num(1))>>) : k, l \in {<<98>>, <<65536>>}}
MCNested == {Arr(<<>>), Arr(<<Arr(<<>>)>>), Arr(<<Fraction(1)>>)}
  \union {Arr(<<Str(s)>>) : s \in {<<>>, <<34, 44, 34>>}}
  \union {Arr(<<Str(<<>>), v>>) : v \in MCFew}
  \union {Arr(<<Obj(<<Member(k, Num(1)), Member(l, Null)>>)>>) : k, l \in {<<65535>>, <<65536>>}}
  \union {Obj(<<Member(<<98>>, Obj(<<Member(k, v)>>))>>) : k \in {<<65535>>}, v \in MCFew}

MCDocuments == MCLeaves \union MCObjects \union MCNested
MCStamps == {-1, 0, 256}
MCMinSigned == -128
=============================================================================
