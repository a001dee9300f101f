------------------------- MODULE TokenLedgerProofs -------------------------
(***************************************************************************)
(* For any batches, events and order of calls: the ledger is well formed,  *)
(* lets a token go at most once, and keeps every token's life cycle.       *)
(***************************************************************************)
EXTENDS TokenLedger, DataInduction, TLAPS

\* A token that was spent or burned is out of circulation, and there is no call that
\* brings it back; LeavesOnce alone does not say so.
GoneForGood == \A id \in Ids : spends[id] + burns[id] > 0 =>
  id \in DOMAIN tokens /\ tokens[id].status \in {"spent", "burned", "revoked"}

LedgerInv == TokenTypeOK /\ LeavesOnce /\ GoneForGood

---------------------------------------------------------------------------

\* The scores are naturals.
LEMMA MeritIsNat == ASSUME NEW l \in EventLists PROVE MeritScore(Len(l)) \in Nat
<1>1. Len(l) \in Nat
  BY CidAssumption
<1> QED BY <1>1 DEF MeritScore

\* A transition changes one token's status, from an allowed one.
LEMMA TransitionChanges ==
  ASSUME TokenTypeOK, NEW id \in Ids, NEW from, NEW to \in Statuses,
         Transition(id, from, to)
  PROVE  /\ DOMAIN tokens' = DOMAIN tokens
         /\ id \in DOMAIN tokens /\ tokens[id].status \in from
         /\ tokens'[id].status = to
         /\ \A x \in DOMAIN tokens : x # id => tokens'[x] = tokens[x]
         /\ \A x \in DOMAIN tokens :
              /\ tokens'[x] \in GoodToken /\ tokens'[x].id = x
              /\ TokenId(tokens'[x].batch, tokens'[x].events) = x
<1>1. /\ id \in DOMAIN tokens /\ tokens[id].status \in from
      /\ tokens' = [tokens EXCEPT ![id] = [tokens[id] EXCEPT !.status = to]]
  BY DEF Transition
<1>2. \A x \in DOMAIN tokens :
        /\ tokens[x] \in GoodToken /\ tokens[x].id = x
        /\ TokenId(tokens[x].batch, tokens[x].events) = x
  BY DEF TokenTypeOK
<1>3. DOMAIN tokens' = DOMAIN tokens /\ \A x \in DOMAIN tokens : x # id => tokens'[x] = tokens[x]
  BY <1>1
<1>4. tokens'[id] = [tokens[id] EXCEPT !.status = to]
  BY <1>1
<1>5. /\ tokens'[id] \in GoodToken /\ tokens'[id].id = id /\ tokens'[id].status = to
      /\ tokens'[id].batch = tokens[id].batch /\ tokens'[id].events = tokens[id].events
  BY <1>1, <1>2, <1>4 DEF GoodToken
<1> QED BY <1>1, <1>2, <1>3, <1>5

\* The empty ledger.
LEMMA LedgerInitEstablishes == LedgerInit => LedgerInv
  BY DEF LedgerInit, LedgerInv, TokenTypeOK, LeavesOnce, GoneForGood

\* What mint() does to the map: nothing, or one new token.
LEMMA MintAdds ==
  ASSUME TokenTypeOK, NEW b \in Batches, NEW l \in EventLists, Mint(b, l)
  PROVE  \/ tokens' = tokens
         \/ \E id \in Ids \ DOMAIN tokens :
              /\ DOMAIN tokens' = DOMAIN tokens \union {id}
              /\ \A x \in DOMAIN tokens : tokens'[x] = tokens[x]
              /\ tokens'[id] \in GoodToken
              /\ tokens'[id].id = id /\ tokens'[id].status = "minted"
              /\ TokenId(tokens'[id].batch, tokens'[id].events) = id
<1> DEFINE id == TokenId(b, l)
<1>1. id \in Ids
  BY DEF Ids
<1>2. CASE ~Fresh(id)
  BY <1>2 DEF Mint
<1>3. CASE Fresh(id)
  <2>1. /\ tokens' = [x \in DOMAIN tokens \union {id} |->
                        IF x = id
                        THEN [id |-> id, batch |-> b, events |-> l,
                              status |-> "minted", merit |-> MeritScore(Len(l))]
                        ELSE tokens[x]]
        /\ id \notin DOMAIN tokens
    BY <1>3 DEF Mint, Fresh, NewToken
  <2> HIDE DEF id
  <2>2. tokens'[id] = [id |-> id, batch |-> b, events |-> l,
                       status |-> "minted", merit |-> MeritScore(Len(l))]
    BY <2>1
  <2>3. tokens'[id] \in GoodToken
    BY <1>1, <2>2, MeritIsNat DEF GoodToken, Statuses
  <2>4. TokenId(tokens'[id].batch, tokens'[id].events) = id
    BY <2>2 DEF id
  <2>5. /\ DOMAIN tokens' = DOMAIN tokens \union {id}
        /\ \A x \in DOMAIN tokens : tokens'[x] = tokens[x]
    BY <2>1
  <2> QED BY <1>1, <2>1, <2>2, <2>3, <2>4, <2>5
<1> QED BY <1>2, <1>3

\* A mint gives nothing away twice: the new token has not been spent or burned.
LEMMA MintPreserves ==
  ASSUME LedgerInv, NEW b \in Batches, NEW l \in EventLists, Mint(b, l)
  PROVE  LedgerInv'
<1>1. /\ spends' = spends /\ burns' = burns /\ attempts' \subseteq Batches \X EventLists
  BY DEF LedgerInv, TokenTypeOK, Mint
<1>2. CASE tokens' = tokens
  BY <1>1, <1>2 DEF LedgerInv, TokenTypeOK, LeavesOnce, GoneForGood
<1>3. ASSUME NEW id \in Ids \ DOMAIN tokens,
             DOMAIN tokens' = DOMAIN tokens \union {id},
             \A x \in DOMAIN tokens : tokens'[x] = tokens[x],
             tokens'[id] \in GoodToken, tokens'[id].id = id,
             TokenId(tokens'[id].batch, tokens'[id].events) = id
      PROVE  LedgerInv'
  <2>1. TokenTypeOK'
    BY <1>1, <1>3 DEF LedgerInv, TokenTypeOK
  <2>2. GoneForGood' /\ LeavesOnce'
    BY <1>1, <1>3 DEF LedgerInv, GoneForGood, LeavesOnce
  <2> QED BY <2>1, <2>2 DEF LedgerInv
<1>4. TokenTypeOK
  BY DEF LedgerInv
<1> QED BY <1>2, <1>3, <1>4, MintAdds

\* A transition that neither spends nor burns: activate() and revoke().
LEMMA QuietTransitionPreserves ==
  ASSUME LedgerInv, NEW id \in Ids, NEW from, NEW to \in Statuses,
         Transition(id, from, to), UNCHANGED <<attempts, spends, burns>>,
         to # "revoked" => from \intersect {"spent", "burned", "revoked"} = {}
  PROVE  LedgerInv'
<1>1. TokenTypeOK
  BY DEF LedgerInv
<1>2. TokenTypeOK'
  BY <1>1, TransitionChanges DEF TokenTypeOK
<1>3. LeavesOnce'
  BY DEF LedgerInv, LeavesOnce
<1>4. GoneForGood'
  BY <1>1, TransitionChanges DEF LedgerInv, GoneForGood
<1> QED BY <1>2, <1>3, <1>4 DEF LedgerInv

\* spend() takes an active token, which has not left yet.
LEMMA SpendPreserves ==
  ASSUME LedgerInv, NEW id \in Ids, Spend(id)
  PROVE  LedgerInv'
<1>1. /\ TokenTypeOK /\ Transition(id, {"active"}, "spent") /\ "spent" \in Statuses
      /\ spends' = [spends EXCEPT ![id] = spends[id] + 1]
      /\ burns' = burns /\ attempts' = attempts
      /\ spends \in [Ids -> Nat] /\ burns \in [Ids -> Nat]
  BY DEF LedgerInv, TokenTypeOK, Spend, Statuses
<1>2. spends[id] + burns[id] = 0
  BY <1>1, TransitionChanges DEF LedgerInv, GoneForGood
<1>3. TokenTypeOK'
  BY <1>1, TransitionChanges DEF TokenTypeOK
<1>4. LeavesOnce'
  BY <1>1, <1>2 DEF LedgerInv, LeavesOnce
<1>5. GoneForGood'
  BY <1>1, TransitionChanges DEF LedgerInv, GoneForGood
<1> QED BY <1>3, <1>4, <1>5 DEF LedgerInv

\* burn() takes a minted or active one.
LEMMA BurnPreserves ==
  ASSUME LedgerInv, NEW id \in Ids, Burn(id)
  PROVE  LedgerInv'
<1>1. /\ TokenTypeOK /\ Transition(id, Burnable, "burned") /\ "burned" \in Statuses
      /\ burns' = [burns EXCEPT ![id] = burns[id] + 1]
      /\ spends' = spends /\ attempts' = attempts
      /\ spends \in [Ids -> Nat] /\ burns \in [Ids -> Nat]
  BY DEF LedgerInv, TokenTypeOK, Burn, Statuses
<1>2. spends[id] + burns[id] = 0
  BY <1>1, TransitionChanges DEF LedgerInv, GoneForGood, Burnable
<1>3. TokenTypeOK'
  BY <1>1, TransitionChanges DEF TokenTypeOK
<1>4. LeavesOnce'
  BY <1>1, <1>2 DEF LedgerInv, LeavesOnce
<1>5. GoneForGood'
  BY <1>1, TransitionChanges DEF LedgerInv, GoneForGood
<1> QED BY <1>3, <1>4, <1>5 DEF LedgerInv

\* Every call of the ledger preserves the invariant.
LEMMA LedgerNextPreserves == LedgerInv /\ [LedgerNext]_ledgerVars => LedgerInv'
<1> SUFFICES ASSUME LedgerInv, [LedgerNext]_ledgerVars PROVE LedgerInv'
  OBVIOUS
<1>1. CASE \E b \in Batches, l \in EventLists : Mint(b, l)
  BY <1>1, MintPreserves
<1>2. ASSUME NEW id \in Ids, Activate(id) PROVE LedgerInv'
  BY <1>2, QuietTransitionPreserves DEF Activate, Statuses
<1>3. ASSUME NEW id \in Ids, Revoke(id) PROVE LedgerInv'
  BY <1>3, QuietTransitionPreserves DEF Revoke, Statuses
<1>4. CASE UNCHANGED ledgerVars
  BY <1>4 DEF ledgerVars, LedgerInv, TokenTypeOK, LeavesOnce, GoneForGood
<1> QED BY <1>1, <1>2, <1>3, <1>4, SpendPreserves, BurnPreserves DEF LedgerNext

\* The inductive invariant.
THEOREM LedgerInvariant == LedgerSpec => []LedgerInv
  BY LedgerInitEstablishes, LedgerNextPreserves, PTL DEF LedgerSpec

\* The map of TokenLedger stays well formed: keys are the ids of their tokens.
THEOREM LedgerTypeCorrect == LedgerSpec => []TokenTypeOK
<1>1. LedgerInv => TokenTypeOK
  BY DEF LedgerInv
<1> QED BY <1>1, LedgerInvariant, PTL

\* No sequence of calls of mint, activate, spend, burn and revoke lets a token be
\* spent twice, burned twice, or spent and burned.
THEOREM TokensLeaveOnce == LedgerSpec => []LeavesOnce
<1>1. LedgerInv => LeavesOnce
  BY DEF LedgerInv
<1> QED BY <1>1, LedgerInvariant, PTL

---------------------------------------------------------------------------
(* The ledger implements the life cycle.                                   *)

\* The life of the token of an id, as the refinement sees it.
LifeOf(id) == IF id \in DOMAIN tokens THEN tokens[id].status ELSE "unminted"
Lived == [id \in Ids |-> LifeOf(id)]

\* One token goes one move further: a step of the life cycle.
LEMMA OneMoveIsALife ==
  ASSUME NEW id \in Ids, NEW to \in Life!Lives,
         Lived' = [Lived EXCEPT ![id] = to],
         <<LifeOf(id), to>> \in Life!Moves
  PROVE  \E t \in Ids : Life!Live(t)
  BY DEF Life!Live, Lived, LifeOf

\* A transition of the ledger is a move, if its two ends are.
LEMMA TransitionIsAMove ==
  ASSUME TokenTypeOK, NEW id \in Ids, NEW from, NEW to \in Statuses,
         Transition(id, from, to), (from \X {to}) \subseteq Life!Moves
  PROVE  \E t \in Ids : Life!Live(t)
<1>1. /\ DOMAIN tokens' = DOMAIN tokens
      /\ id \in DOMAIN tokens /\ tokens[id].status \in from
      /\ tokens'[id].status = to
      /\ \A x \in DOMAIN tokens : x # id => tokens'[x] = tokens[x]
  BY TransitionChanges
<1>2. Lived' = [Lived EXCEPT ![id] = to]
  BY <1>1 DEF Lived, LifeOf
<1>3. <<LifeOf(id), to>> \in Life!Moves
  BY <1>1 DEF LifeOf
<1>4. to \in Life!Lives
  BY DEF Life!Lives, Statuses
<1> QED BY <1>2, <1>3, <1>4, OneMoveIsALife

\* A mint is the first move of its token, or no move at all.
LEMMA MintIsAMove ==
  ASSUME TokenTypeOK, NEW b \in Batches, NEW l \in EventLists, Mint(b, l)
  PROVE  (\E t \in Ids : Life!Live(t)) \/ Lived' = Lived
<1>1. CASE tokens' = tokens
  BY <1>1 DEF Lived, LifeOf
<1>2. ASSUME NEW id \in Ids \ DOMAIN tokens,
             DOMAIN tokens' = DOMAIN tokens \union {id},
             \A x \in DOMAIN tokens : tokens'[x] = tokens[x],
             tokens'[id].status = "minted"
      PROVE  \E t \in Ids : Life!Live(t)
  <2>1. Lived' = [Lived EXCEPT ![id] = "minted"]
    BY <1>2 DEF Lived, LifeOf
  <2>2. <<LifeOf(id), "minted">> \in Life!Moves /\ "minted" \in Life!Lives
    BY <1>2 DEF LifeOf, Life!Moves, Life!Lives
  <2> QED BY <2>1, <2>2, OneMoveIsALife
<1> QED BY <1>1, <1>2, MintAdds

\* Each call of the ledger maps to a move of the life cycle, or to no step.
LEMMA LedgerStepIsALife ==
  TokenTypeOK /\ [LedgerNext]_ledgerVars
    => (\E t \in Ids : Life!Live(t)) \/ Lived' = Lived
<1> SUFFICES ASSUME TokenTypeOK, [LedgerNext]_ledgerVars
             PROVE  (\E t \in Ids : Life!Live(t)) \/ Lived' = Lived
  OBVIOUS
<1> USE DEF Statuses, Life!Moves
<1>1. ASSUME NEW id \in Ids, Activate(id) PROVE \E t \in Ids : Life!Live(t)
  BY <1>1, TransitionIsAMove DEF Activate
<1>2. ASSUME NEW id \in Ids, Spend(id) PROVE \E t \in Ids : Life!Live(t)
  BY <1>2, TransitionIsAMove DEF Spend
<1>3. ASSUME NEW id \in Ids, Burn(id) PROVE \E t \in Ids : Life!Live(t)
  BY <1>3, TransitionIsAMove DEF Burn, Burnable
<1>4. ASSUME NEW id \in Ids, Revoke(id) PROVE \E t \in Ids : Life!Live(t)
  BY <1>4, TransitionIsAMove DEF Revoke
<1>5. CASE UNCHANGED ledgerVars
  BY <1>5 DEF ledgerVars, Lived, LifeOf
<1> QED BY <1>1, <1>2, <1>3, <1>4, <1>5, MintIsAMove DEF LedgerNext

\* The in-memory ledger, with its errors and repeated calls, keeps the life cycle that
\* mod.rs:20-23 documents for each of its tokens.
THEOREM LedgerImplementsLife == LedgerSpec => ImplementsLife
<1>1. LedgerInit => Life!LifeInit
  BY DEF LedgerInit, Life!LifeInit
<1>2. TokenTypeOK /\ [LedgerNext]_ledgerVars
        => [\E t \in Ids : Life!Live(t)]_Lived
  BY LedgerStepIsALife
<1> QED BY <1>1, <1>2, LedgerTypeCorrect, PTL
        DEF LedgerSpec, ImplementsLife, Life!LifeSpec, Lived, LifeOf

---------------------------------------------------------------------------
(* A batch's root says which events it has.                                *)

\* A line of the digested bytes: a CID and its line break.
Line(cid) == Append(cid, NewLine)
WithLine(bytes, cid) == bytes \o Line(cid)

\* No bytes yet, or bytes up to a line break.
WholeLines(bytes) == bytes = <<>> \/ bytes[Len(bytes)] = NewLine

\* A CID has no line break in it.
NoBreak(cid) == \A i \in 1..Len(cid) : cid[i] # NewLine

LEMMA LineBytes ==
  ASSUME NEW V, NewLine \in V, NEW x \in Seq(V), NEW u \in Seq(V)
  PROVE  /\ WithLine(x, u) \in Seq(V)
         /\ Len(WithLine(x, u)) = Len(x) + Len(u) + 1
         /\ \A i \in 1..Len(x) : WithLine(x, u)[i] = x[i]
         /\ \A i \in (Len(x) + 1)..(Len(x) + Len(u)) : WithLine(x, u)[i] = u[i - Len(x)]
         /\ WithLine(x, u)[Len(WithLine(x, u))] = NewLine
<1>1. /\ Line(u) \in Seq(V) /\ Len(Line(u)) = Len(u) + 1
      /\ \A i \in 1..Len(u) : Line(u)[i] = u[i]
      /\ Line(u)[Len(u) + 1] = NewLine
  BY AppendProperties DEF Line
<1>2. PICK line \in Seq(V) : line = Line(u)
  BY <1>1
<1>3. PICK z : z = x \o line
  OBVIOUS
<1>4. /\ z \in Seq(V) /\ Len(z) = Len(x) + Len(line)
      /\ \A i \in 1..Len(x) : z[i] = x[i]
      /\ \A i \in (Len(x) + 1)..(Len(x) + Len(line)) : z[i] = line[i - Len(x)]
  BY <1>3
<1>5. /\ Len(line) = Len(u) + 1 /\ line[Len(u) + 1] = NewLine
      /\ \A i \in 1..Len(u) : line[i] = u[i]
  BY <1>1, <1>2
<1>6. \A i \in (Len(x) + 1)..(Len(x) + Len(u)) : z[i] = u[i - Len(x)]
  BY <1>4, <1>5
<1>7. Len(z) = Len(x) + Len(u) + 1 /\ z[Len(z)] = NewLine
  <2>1. /\ Len(x) + (Len(u) + 1) \in (Len(x) + 1)..(Len(x) + Len(line))
        /\ (Len(x) + (Len(u) + 1)) - Len(x) = Len(u) + 1
    BY <1>5
  <2>2. z[Len(x) + (Len(u) + 1)] = NewLine
    BY <1>4, <1>5, <2>1
  <2>3. Len(z) = Len(x) + (Len(u) + 1) /\ Len(x) \in Nat /\ Len(u) \in Nat
    BY <1>4, <1>5
  <2> QED BY <2>2, <2>3
<1>8. z = WithLine(x, u)
  BY <1>2, <1>3 DEF WithLine
<1> QED BY <1>4, <1>6, <1>7, <1>8

LEMMA LineIsThere ==
  ASSUME NEW V, NewLine \in V, NEW x \in Seq(V), NEW u \in Seq(V)
  PROVE  WithLine(x, u) # <<>>
<1>1. Len(WithLine(x, u)) = Len(x) + Len(u) + 1 /\ Len(x) \in Nat /\ Len(u) \in Nat
  BY LineBytes
<1>2. Len(WithLine(x, u)) # 0
  BY <1>1
<1> QED BY <1>2, EmptySeq, Zenon

\* The last line can be told from the lines before it.
LEMMA LastLine ==
  ASSUME NEW V, NewLine \in V,
         NEW x \in Seq(V), NEW y \in Seq(V), WholeLines(x), WholeLines(y),
         NEW u \in Seq(V), NEW v \in Seq(V),
         NoBreak(u), NoBreak(v),
         WithLine(x, u) = WithLine(y, v)
  PROVE  x = y /\ u = v
<1>1. PICK z \in Seq(V) : z = WithLine(x, u) /\ z = WithLine(y, v)
  BY LineBytes
<1>2. /\ Len(z) = Len(x) + Len(u) + 1
      /\ \A i \in 1..Len(x) : z[i] = x[i]
      /\ \A i \in (Len(x) + 1)..(Len(x) + Len(u)) : z[i] = u[i - Len(x)]
  BY <1>1, LineBytes
<1>3. /\ Len(z) = Len(y) + Len(v) + 1
      /\ \A i \in 1..Len(y) : z[i] = y[i]
      /\ \A i \in (Len(y) + 1)..(Len(y) + Len(v)) : z[i] = v[i - Len(y)]
  BY <1>1, LineBytes
<1>4. Len(x) \in Nat /\ Len(y) \in Nat /\ Len(u) \in Nat /\ Len(v) \in Nat
  OBVIOUS
<1>5. ~(Len(u) < Len(v))
  <2> SUFFICES ASSUME Len(u) < Len(v) PROVE FALSE
    OBVIOUS
  <2>1. Len(x) \in 1..Len(x) /\ Len(x) - Len(y) \in 1..Len(v)
        /\ Len(x) \in (Len(y) + 1)..(Len(y) + Len(v)) /\ Len(x) # 0
    BY <1>2, <1>3, <1>4
  <2>2. x # <<>>
    BY <2>1
  <2>3. z[Len(x)] = NewLine
    BY <1>2, <2>1, <2>2 DEF WholeLines
  <2>4. z[Len(x)] = v[Len(x) - Len(y)]
    BY <1>3, <2>1
  <2> QED BY <2>1, <2>3, <2>4 DEF NoBreak
<1>6. ~(Len(v) < Len(u))
  <2> SUFFICES ASSUME Len(v) < Len(u) PROVE FALSE
    OBVIOUS
  <2>1. Len(y) \in 1..Len(y) /\ Len(y) - Len(x) \in 1..Len(u)
        /\ Len(y) \in (Len(x) + 1)..(Len(x) + Len(u)) /\ Len(y) # 0
    BY <1>2, <1>3, <1>4
  <2>2. y # <<>>
    BY <2>1
  <2>3. z[Len(y)] = NewLine
    BY <1>3, <2>1, <2>2 DEF WholeLines
  <2>4. z[Len(y)] = u[Len(y) - Len(x)]
    BY <1>2, <2>1
  <2> QED BY <2>1, <2>3, <2>4 DEF NoBreak
<1>7. Len(u) = Len(v) /\ Len(x) = Len(y)
  BY <1>2, <1>3, <1>4, <1>5, <1>6
<1>8. x = y
  BY <1>2, <1>3, <1>7, SeqEqual
<1>9. u = v
  <2>1. ASSUME NEW i \in 1..Len(u)  PROVE u[i] = v[i]
    <3>1. Len(x) + i \in (Len(x) + 1)..(Len(x) + Len(u)) /\ (Len(x) + i) - Len(x) = i
      BY <1>4
    <3> QED BY <1>2, <1>3, <1>7, <3>1
  <2> QED BY <1>7, <2>1, SeqEqual
<1> QED BY <1>8, <1>9

\* The root of a list is its lines, joined one by one.
LEMMA RootLineByLine ==
  ASSUME NEW cids \in EventLists
  PROVE  LET V == STRING \union {NewLine}
         IN  \E flat \in [0..Len(cids) -> Seq(V)] :
               /\ flat[0] = <<>>
               /\ \A i \in 1..Len(cids) : flat[i] = WithLine(flat[i - 1], cids[i])
               /\ \A i \in 0..Len(cids) : WholeLines(flat[i])
               /\ ChainedRoot(cids) = flat[Len(cids)]
<1> DEFINE V == STRING \union {NewLine}
           lines == [k \in DOMAIN cids |-> Line(cids[k])]
<1>1. /\ Len(cids) \in Nat /\ DOMAIN cids = 1..Len(cids)
      /\ \A k \in 1..Len(cids) : cids[k] \in Seq(STRING)
  BY CidAssumption
<1>2. \A k \in 1..Len(cids) : cids[k] \in Seq(V)
  BY <1>1, SeqMonotonic
<1>3. \A k \in 1..Len(cids) : Line(cids[k]) \in Seq(V)
  BY <1>2, AppendProperties DEF Line
<1>4. /\ lines \in Seq(Seq(V)) /\ Len(lines) = Len(cids)
      /\ \A k \in 1..Len(cids) : lines[k] = Line(cids[k])
  BY <1>1, <1>3
<1>5. ChainedRoot(cids) = FlattenSeq(lines)
  BY DEF ChainedRoot, Line
<1> HIDE DEF lines, V
<1>6. PICK flat \in [0..Len(cids) -> Seq(V)] :
        /\ flat[0] = <<>>
        /\ \A i \in 1..Len(cids) : flat[i] = flat[i - 1] \o lines[i]
        /\ ChainedRoot(cids) = flat[Len(cids)]
  <2>1. \E flat \in [0..Len(lines) -> Seq(V)] :
          /\ flat[0] = <<>>
          /\ \A i \in 1..Len(lines) : flat[i] = flat[i - 1] \o lines[i]
          /\ FlattenSeq(lines) = flat[Len(lines)]
    BY <1>4, FlattenOneByOne
  <2> QED BY <1>4, <1>5, <2>1
<1>7. \A i \in 1..Len(cids) : flat[i] = WithLine(flat[i - 1], cids[i])
  BY <1>4, <1>6 DEF WithLine
<1>8. ASSUME NEW i \in 0..Len(cids)  PROVE WholeLines(flat[i])
  <2>1. CASE i = 0
    BY <1>6, <2>1 DEF WholeLines
  <2>2. CASE i # 0
    <3>1. i \in 1..Len(cids) /\ i - 1 \in 0..Len(cids)
      BY <1>1, <2>2
    <3>2. flat[i] = WithLine(flat[i - 1], cids[i]) /\ flat[i - 1] \in Seq(V) /\ cids[i] \in Seq(V)
      BY <1>2, <1>6, <1>7, <3>1
    <3>3. NewLine \in V
      BY DEF V
    <3> QED BY <3>2, <3>3, LineBytes DEF WholeLines
  <2> QED BY <2>1, <2>2
<1> QED BY <1>6, <1>7, <1>8 DEF V

\* Two lists with the same root are the same list.
LEMMA RootIsInjective ==
  ASSUME NEW c \in EventLists, NEW d \in EventLists, ChainedRoot(c) = ChainedRoot(d)
  PROVE  c = d
<1> DEFINE V == STRING \union {NewLine}
<1>1. /\ c \in Seq(Seq(STRING)) /\ Len(c) \in Nat
      /\ d \in Seq(Seq(STRING)) /\ Len(d) \in Nat
  BY CidAssumption
<1>2. /\ \A k \in 1..Len(c) : c[k] \in Seq(V) /\ NoBreak(c[k])
      /\ \A k \in 1..Len(d) : d[k] \in Seq(V) /\ NoBreak(d[k])
  <2>1. ASSUME NEW l \in EventLists, NEW k \in 1..Len(l)
        PROVE  l[k] \in Seq(V) /\ NoBreak(l[k])
    <3>1. l[k] \in Seq(STRING) /\ k \in DOMAIN l
      BY CidAssumption
    <3>2. NewLine \notin ToSet(l[k])
      BY <3>1, CidAssumption
    <3>3. \A i \in 1..Len(l[k]) : l[k][i] \in ToSet(l[k])
      BY <3>1 DEF ToSet
    <3> QED BY <3>1, <3>2, <3>3, SeqMonotonic DEF NoBreak
  <2> QED BY <2>1
<1>3. PICK f \in [0..Len(c) -> Seq(V)] :
        /\ f[0] = <<>>
        /\ \A i \in 1..Len(c) : f[i] = WithLine(f[i - 1], c[i])
        /\ \A i \in 0..Len(c) : WholeLines(f[i])
        /\ ChainedRoot(c) = f[Len(c)]
  BY RootLineByLine
<1>4. PICK g \in [0..Len(d) -> Seq(V)] :
        /\ g[0] = <<>>
        /\ \A i \in 1..Len(d) : g[i] = WithLine(g[i - 1], d[i])
        /\ \A i \in 0..Len(d) : WholeLines(g[i])
        /\ ChainedRoot(d) = g[Len(d)]
  BY RootLineByLine
<1> HIDE DEF V
<1>5. ASSUME NEW i \in 1..Len(c)  PROVE f[i] # <<>>
  <2>1. i - 1 \in 0..Len(c) /\ NewLine \in V
    BY <1>1 DEF V
  <2>2. f[i - 1] \in Seq(V) /\ c[i] \in Seq(V)
    BY <1>2, <1>3, <2>1
  <2>3. PICK x \in Seq(V), u \in Seq(V) : x = f[i - 1] /\ u = c[i]
    BY <2>2
  <2>4. WithLine(x, u) # <<>>
    BY <2>1, <2>3, LineIsThere
  <2> QED BY <1>3, <2>3, <2>4
<1>6. ASSUME NEW i \in 1..Len(d)  PROVE g[i] # <<>>
  <2>1. i - 1 \in 0..Len(d) /\ NewLine \in V
    BY <1>1 DEF V
  <2>2. g[i - 1] \in Seq(V) /\ d[i] \in Seq(V)
    BY <1>2, <1>4, <2>1
  <2>3. PICK x \in Seq(V), u \in Seq(V) : x = g[i - 1] /\ u = d[i]
    BY <2>2
  <2>4. WithLine(x, u) # <<>>
    BY <2>1, <2>3, LineIsThere
  <2> QED BY <1>4, <2>3, <2>4
<1> DEFINE Told == {n \in Nat : n <= Len(c) =>
                     \A j \in 0..Len(d) : f[n] = g[j] =>
                       n = j /\ \A k \in 1..n : c[k] = d[k]}
<1>7. 0 \in Told
  <2>1. ASSUME NEW j \in 0..Len(d), f[0] = g[j]  PROVE j = 0
    BY <1>1, <1>3, <1>6, <2>1
  <2> QED BY <2>1
<1>8. ASSUME NEW n \in Nat, n \in Told  PROVE n + 1 \in Told
  <2> SUFFICES ASSUME n + 1 <= Len(c), NEW j \in 0..Len(d), f[n + 1] = g[j]
               PROVE  n + 1 = j /\ \A k \in 1..(n + 1) : c[k] = d[k]
    OBVIOUS
  <2>1. n + 1 \in 1..Len(c) /\ n \in 0..Len(c) /\ (n + 1) - 1 = n
    BY <1>1
  <2>2. j \in 1..Len(d) /\ j - 1 \in 0..Len(d)
    BY <1>1, <1>4, <1>5, <2>1
  <2>3. f[n + 1] = WithLine(f[n], c[n + 1]) /\ g[j] = WithLine(g[j - 1], d[j])
    BY <1>3, <1>4, <2>1, <2>2
  <2>4. /\ f[n] \in Seq(V) /\ g[j - 1] \in Seq(V) /\ c[n + 1] \in Seq(V) /\ d[j] \in Seq(V)
        /\ WholeLines(f[n]) /\ WholeLines(g[j - 1]) /\ NewLine \in V
    BY <1>2, <1>3, <1>4, <2>1, <2>2 DEF V
  <2>5. f[n] = g[j - 1] /\ c[n + 1] = d[j]
    <3>1. PICK x \in Seq(V), y \in Seq(V), u \in Seq(V), v \in Seq(V) :
            x = f[n] /\ y = g[j - 1] /\ u = c[n + 1] /\ v = d[j]
      BY <2>4
    <3>2. NoBreak(u) /\ NoBreak(v)
      BY <1>2, <2>1, <2>2, <3>1
    <3>3. /\ WithLine(x, u) = WithLine(y, v)
          /\ WholeLines(x) /\ WholeLines(y) /\ NewLine \in V
      BY <2>3, <2>4, <3>1
    <3>4. x = y /\ u = v
      BY <3>1, <3>2, <3>3, LastLine
    <3> QED BY <3>1, <3>4
  <2>6. n = j - 1 /\ \A k \in 1..n : c[k] = d[k]
    BY <1>8, <2>1, <2>2, <2>5
  <2> QED BY <2>2, <2>5, <2>6
<1>9. Len(c) \in Told
  <2> HIDE DEF Told
  <2> QED BY <1>1, <1>7, <1>8, NatSetInduction
<1>10. Len(c) = Len(d) /\ \A k \in 1..Len(c) : c[k] = d[k]
  <2>1. Len(d) \in 0..Len(d) /\ Len(c) <= Len(c)
    BY <1>1
  <2>2. f[Len(c)] = g[Len(d)]
    BY <1>3, <1>4
  <2> QED BY <1>9, <2>1, <2>2
<1> QED BY <1>1, <1>10, SeqEqual

\* What was minted has a token, and its id is that of no other batch.
AttemptsMinted == \A a \in attempts : TokenId(a[1], a[2]) \in DOMAIN tokens

LEMMA AttemptsStayMinted ==
  LedgerInv /\ AttemptsMinted /\ [LedgerNext]_ledgerVars => AttemptsMinted'
<1> SUFFICES ASSUME LedgerInv, AttemptsMinted, [LedgerNext]_ledgerVars PROVE AttemptsMinted'
  OBVIOUS
<1>0. TokenTypeOK
  BY DEF LedgerInv
<1>1. ASSUME NEW b \in Batches, NEW l \in EventLists, Mint(b, l)  PROVE AttemptsMinted'
  <2>1. attempts' = attempts \union {<<b, l>>}
    BY <1>1 DEF Mint
  <2>2. DOMAIN tokens' = DOMAIN tokens \union {TokenId(b, l)}
    BY <1>1 DEF Mint, Fresh
  <2> QED BY <2>1, <2>2 DEF AttemptsMinted
<1>2. ASSUME attempts' = attempts, NEW id \in Ids, NEW from, NEW to, Transition(id, from, to)
      PROVE  AttemptsMinted'
  BY <1>2 DEF AttemptsMinted, Transition
<1>3. CASE \E id \in Ids : Activate(id) \/ Spend(id) \/ Burn(id) \/ Revoke(id)
  BY <1>2, <1>3 DEF Activate, Spend, Burn, Revoke
<1>4. CASE UNCHANGED ledgerVars
  BY <1>4 DEF ledgerVars, AttemptsMinted
<1> QED BY <1>1, <1>3, <1>4 DEF LedgerNext

\* "Re-minting the same batch is rejected" (mod.rs:156), and no other is: whatever the
\* lists of events, the lines of one batch never digest to the root of another.
THEOREM BatchesKeepTheirTokens == LedgerSpec => []EveryBatchHasItsToken
<1>1. LedgerInit => AttemptsMinted
  BY DEF LedgerInit, AttemptsMinted
<1>2. TokenTypeOK /\ AttemptsMinted => EveryBatchHasItsToken
  <2> SUFFICES ASSUME TokenTypeOK, AttemptsMinted, NEW a \in attempts
               PROVE  LET id == TokenId(a[1], a[2])
                      IN  /\ id \in DOMAIN tokens
                          /\ tokens[id].batch = a[1] /\ tokens[id].events = a[2]
    BY DEF EveryBatchHasItsToken
  <2> DEFINE id == TokenId(a[1], a[2])
  <2>1. id \in DOMAIN tokens /\ a[1] \in Batches /\ a[2] \in EventLists
    BY DEF TokenTypeOK, AttemptsMinted
  <2>2. /\ tokens[id].events \in EventLists
        /\ TokenId(tokens[id].batch, tokens[id].events) = id
    BY <2>1 DEF TokenTypeOK, GoodToken
  <2>3. tokens[id].batch = a[1] /\ ChainedRoot(tokens[id].events) = ChainedRoot(a[2])
    BY <2>2 DEF TokenId
  <2> QED BY <2>1, <2>2, <2>3, RootIsInjective
<1>3. LedgerSpec => []AttemptsMinted
  BY <1>1, LedgerInvariant, AttemptsStayMinted, PTL DEF LedgerSpec
<1> QED BY <1>2, <1>3, LedgerTypeCorrect, PTL

---------------------------------------------------------------------------
(* The listings.                                                           *)

\* An enumeration of S: every element once.
Enumerates(at, n, S) ==
  /\ at \in [1..n -> S]
  /\ \A i, j \in 1..n : at[i] = at[j] => i = j
  /\ \A x \in S : \E i \in 1..n : at[i] = x

\* The elements of a finite ordered set, each at its place.
LEMMA EachAtItsPlace ==
  ASSUME NEW S, IsFiniteSet(S), NEW R, IsOrder(S, R)
  PROVE  LET at == [k \in 1..Cardinality(S) |-> CHOOSE x \in S : PlaceIn(S, R, x) = k]
         IN  /\ Enumerates(at, Cardinality(S), S)
             /\ \A k \in 1..Cardinality(S) : PlaceIn(S, R, at[k]) = k
<1> DEFINE at == [k \in 1..Cardinality(S) |-> CHOOSE x \in S : PlaceIn(S, R, x) = k]
<1>1. ASSUME NEW k \in 1..Cardinality(S)
      PROVE  at[k] \in S /\ PlaceIn(S, R, at[k]) = k
  <2>1. \E x \in S : PlaceIn(S, R, x) = k
    BY PlacesCount
  <2> QED BY <2>1
<1>2. ASSUME NEW x \in S
      PROVE  \E k \in 1..Cardinality(S) : at[k] = x
  <2>1. PlaceIn(S, R, x) \in 1..Cardinality(S)
    BY PlacesCount
  <2>2. at[PlaceIn(S, R, x)] = x
    BY <1>1, <2>1, PlacesCount
  <2> QED BY <2>1, <2>2
<1>3. at \in [1..Cardinality(S) -> S]
  BY <1>1
<1> HIDE DEF at
<1>4. \A i, j \in 1..Cardinality(S) : at[i] = at[j] => i = j
  BY <1>1
<1> QED BY <1>1, <1>2, <1>3, <1>4 DEF Enumerates, at

\* The listing of the map's values shows the token of every key once.
LEMMA InKeyOrderShowsAll ==
  ASSUME NEW S \in SUBSET Ids, IsFiniteSet(S)
  PROVE  \E at : /\ Enumerates(at, Cardinality(S), S)
                /\ InKeyOrder(S) = [k \in 1..Cardinality(S) |-> tokens[at[k]]]
<1> DEFINE R == {r \in Ids \X Ids : KeyLess(r[1], r[2])}
           at == [k \in 1..Cardinality(S) |-> CHOOSE x \in S : PlaceIn(S, R, x) = k]
<1>1. \A x, y \in S : <<x, y>> \in R <=> KeyLess(x, y)
  OBVIOUS
<1>2. \A id \in S : {x \in S : x = id \/ KeyLess(x, id)} = UpTo(S, R, id)
  BY <1>1 DEF UpTo
<1>3. IsOrder(S, R)
  <2> HIDE DEF R
  <2> QED BY <1>1, KeyOrderAssumption DEF IsOrder
<1>4. \A k : (CHOOSE id \in S : Cardinality({x \in S : x = id \/ KeyLess(x, id)}) = k)
            = CHOOSE x \in S : PlaceIn(S, R, x) = k
  <2> HIDE DEF R
  <2> QED BY <1>2 DEF PlaceIn
<1>5. InKeyOrder(S) = [k \in 1..Cardinality(S) |-> tokens[at[k]]]
  <2>1. InKeyOrder(S) = [k \in 1..Cardinality(S) |->
          tokens[CHOOSE id \in S : Cardinality({x \in S : x = id \/ KeyLess(x, id)}) = k]]
    BY Zenon DEF InKeyOrder
  <2>2. \A k \in 1..Cardinality(S) :
          (CHOOSE id \in S : Cardinality({x \in S : x = id \/ KeyLess(x, id)}) = k) = at[k]
    <3>1. \A k \in 1..Cardinality(S) : at[k] = CHOOSE x \in S : PlaceIn(S, R, x) = k
      OBVIOUS
    <3> HIDE DEF at, R
    <3> QED BY Zenon, <1>4, <3>1
  <2> HIDE DEF at
  <2> QED BY <2>1, <2>2
<1>6. Enumerates(at, Cardinality(S), S)
  <2> HIDE DEF R
  <2> QED BY <1>3, EachAtItsPlace
<1> HIDE DEF at
<1> QED BY <1>5, <1>6

\* The best first.
BestFirst(list) == \A p, q \in DOMAIN list : p < q => list[q].merit <= list[p].merit

\* The merits of a list, the order a stable sort by them leaves its places in, and
\* the place each of them comes to.
MeritAhead(list, j, k) ==
  \/ list[j].merit > list[k].merit
  \/ list[j].merit = list[k].merit /\ j < k
MeritOrder(list) ==
  {r \in (DOMAIN list) \X (DOMAIN list) : MeritAhead(list, r[1], r[2])}
NotAfter(list, j, k) ==
  \/ list[j].merit > list[k].merit
  \/ list[j].merit = list[k].merit /\ j <= k
MeritPlace(list, k) == Cardinality({j \in DOMAIN list : NotAfter(list, j, k)})

LEMMA ListTyped ==
  ASSUME NEW list \in Seq(GoodToken)
  PROVE  /\ Len(list) \in Nat /\ DOMAIN list = 1..Len(list)
         /\ \A k \in 1..Len(list) : list[k] \in GoodToken /\ list[k].merit \in Nat
<1>1. Len(list) \in Nat /\ DOMAIN list = 1..Len(list)
  OBVIOUS
<1>2. ASSUME NEW k \in 1..Len(list)  PROVE list[k] \in GoodToken
  BY ElementOfSeq
<1>3. \A t \in GoodToken : t.merit \in Nat
  BY DEF GoodToken
<1> QED BY <1>1, <1>2, <1>3

LEMMA RankByPlace ==
  ASSUME NEW list
  PROVE  RankByMerit(list) =
           [p \in DOMAIN list |-> list[CHOOSE k \in DOMAIN list : MeritPlace(list, k) = p]]
BY Zenon DEF RankByMerit, MeritPlace, NotAfter

LEMMA MeritOrders ==
  ASSUME NEW list \in Seq(GoodToken)
  PROVE  /\ IsOrder(DOMAIN list, MeritOrder(list))
         /\ \A k \in DOMAIN list :
              MeritPlace(list, k) = PlaceIn(DOMAIN list, MeritOrder(list), k)
<1> DEFINE S == DOMAIN list
           R == MeritOrder(list)
<1>1. S = 1..Len(list) /\ Len(list) \in Nat /\ \A k \in S : list[k].merit \in Nat
  BY ListTyped
<1>2. \A x, y \in S : <<x, y>> \in R <=> MeritAhead(list, x, y)
  BY DEF MeritOrder
<1>3. PICK m : m = [k \in S |-> list[k].merit]
  OBVIOUS
<1>4. \A k \in S : m[k] = list[k].merit /\ m[k] \in Nat /\ k \in Nat
  BY <1>1, <1>3
<1>5. \A x, y \in S : MeritAhead(list, x, y) <=> m[x] > m[y] \/ (m[x] = m[y] /\ x < y)
  BY <1>4 DEF MeritAhead
<1> HIDE DEF R, S
<1>6. IsOrder(S, R)
  <2>1. \A x \in S : <<x, x>> \notin R
    BY <1>2, <1>4, <1>5
  <2>2. \A x, y, z \in S : <<x, y>> \in R /\ <<y, z>> \in R => <<x, z>> \in R
    BY <1>2, <1>4, <1>5
  <2>3. \A x, y \in S : x # y => <<x, y>> \in R \/ <<y, x>> \in R
    <3> SUFFICES ASSUME NEW x \in S, NEW y \in S, x # y
                 PROVE  MeritAhead(list, x, y) \/ MeritAhead(list, y, x)
      BY <1>2
    <3>1. m[x] \in Nat /\ m[y] \in Nat /\ x \in Nat /\ y \in Nat
      BY <1>4
    <3> QED BY <1>5, <3>1
  <2> QED BY <2>1, <2>2, <2>3 DEF IsOrder
<1>7. ASSUME NEW k \in S
      PROVE  MeritPlace(list, k) = PlaceIn(S, R, k)
  <2>1. \A j \in S : NotAfter(list, j, k) <=> j = k \/ <<j, k>> \in R
    <3>1. \A j \in S : NotAfter(list, j, k) <=> m[j] > m[k] \/ (m[j] = m[k] /\ j <= k)
      BY <1>4 DEF NotAfter
    <3> QED BY <1>2, <1>4, <1>5, <3>1
  <2>2. MeritPlace(list, k) = Cardinality({j \in S : NotAfter(list, j, k)})
    BY DEF MeritPlace, S
  <2>3. {j \in S : NotAfter(list, j, k)} = UpTo(S, R, k)
    BY <2>1 DEF UpTo
  <2> QED BY <2>2, <2>3 DEF PlaceIn
<1> QED BY <1>6, <1>7 DEF S, R

\* rank_by_merit moves the tokens of a list, each to one place, the best first.
LEMMA RankMovesOnly ==
  ASSUME NEW list \in Seq(GoodToken)
  PROVE  \E at : /\ Enumerates(at, Len(list), 1..Len(list))
                /\ RankByMerit(list) = [p \in 1..Len(list) |-> list[at[p]]]
                /\ BestFirst(RankByMerit(list))
<1> DEFINE S == DOMAIN list
           R == MeritOrder(list)
           n == Cardinality(S)
           at == [p \in 1..n |-> CHOOSE k \in S : PlaceIn(S, R, k) = p]
<1>1. S = 1..Len(list) /\ Len(list) \in Nat /\ \A k \in S : list[k].merit \in Nat
  BY ListTyped
<1>2. IsFiniteSet(S) /\ n = Len(list)
  <2> HIDE DEF S
  <2>1. \A k \in Nat : IsFiniteSet(1..k) /\ Cardinality(1..k) = k
    BY FS_Interval
  <2> QED BY <1>1, <2>1
<1>3. IsOrder(S, R) /\ \A k \in S : MeritPlace(list, k) = PlaceIn(S, R, k)
  BY MeritOrders
<1>4. \A x, y \in S : <<x, y>> \in R <=> MeritAhead(list, x, y)
  BY DEF MeritOrder
<1>5. RankByMerit(list) = [p \in S |-> list[CHOOSE k \in S : MeritPlace(list, k) = p]]
  BY RankByPlace
<1> HIDE DEF S, R
<1>6. Enumerates(at, n, S) /\ \A k \in 1..n : PlaceIn(S, R, at[k]) = k
  <2> HIDE DEF n
  <2> QED BY <1>2, <1>3, EachAtItsPlace DEF n
<1>7. RankByMerit(list) = [p \in S |-> list[at[p]]]
  <2>1. \A p \in S : (CHOOSE k \in S : MeritPlace(list, k) = p) = at[p]
    BY <1>1, <1>2, <1>3
  <2> HIDE DEF at
  <2> QED BY <1>5, <2>1
<1> HIDE DEF at, n
<1>8. BestFirst(RankByMerit(list))
  <2> SUFFICES ASSUME NEW p \in S, NEW q \in S, p < q
               PROVE  list[at[q]].merit <= list[at[p]].merit
    BY <1>7 DEF BestFirst
  <2>1. at[p] \in S /\ at[q] \in S /\ p \in 1..n /\ q \in 1..n
    BY <1>1, <1>2, <1>6 DEF Enumerates
  <2>2. PICK x \in S, y \in S : x = at[p] /\ y = at[q]
    BY <2>1
  <2>3. PlaceIn(S, R, x) = p /\ PlaceIn(S, R, y) = q
    BY <1>6, <2>1, <2>2
  <2>4. <<y, x>> \notin R
    <3>1. <<y, x>> \in R => PlaceIn(S, R, y) < PlaceIn(S, R, x)
      BY <1>2, <1>3, PlacesCount
    <3> QED BY <1>1, <2>3, <3>1
  <2>5. ~ (list[y].merit > list[x].merit)
    <3>1. ~ MeritAhead(list, y, x)
      BY <1>4, <2>4
    <3> QED BY <3>1 DEF MeritAhead
  <2>6. list[y].merit \in Nat /\ list[x].merit \in Nat
    BY <1>1
  <2>7. list[y].merit <= list[x].merit
    BY <2>5, <2>6
  <2> QED BY <2>2, <2>7
<1> QED BY <1>1, <1>2, <1>6, <1>7, <1>8

\* It leaves a ranked list as it is: the sort is stable.
LEMMA RankedStays ==
  ASSUME NEW list \in Seq(GoodToken), BestFirst(list)
  PROVE  RankByMerit(list) = list
<1> DEFINE S == DOMAIN list
<1>1. S = 1..Len(list) /\ Len(list) \in Nat /\ \A k \in S : list[k].merit \in Nat
  BY ListTyped
<1>2. ASSUME NEW k \in S  PROVE MeritPlace(list, k) = k
  <2>1. ASSUME NEW j \in S  PROVE NotAfter(list, j, k) <=> j <= k
    <3>1. j \in Int /\ k \in Int /\ list[j].merit \in Int /\ list[k].merit \in Int
      BY <1>1
    <3>2. /\ j < k => list[k].merit <= list[j].merit
          /\ k < j => list[j].merit <= list[k].merit
      BY DEF BestFirst
    <3>3. PICK a \in Int, b \in Int : a = list[j].merit /\ b = list[k].merit
      BY <3>1
    <3> QED BY <3>1, <3>2, <3>3 DEF NotAfter
  <2>2. MeritPlace(list, k) = Cardinality({j \in S : NotAfter(list, j, k)})
    BY DEF MeritPlace
  <2> HIDE DEF S
  <2>3. {j \in S : NotAfter(list, j, k)} = 1..k
    BY <1>1, <2>1
  <2>4. Cardinality(1..k) = k
    <3>1. k \in Nat
      BY <1>1
    <3> QED BY <3>1, FS_Interval
  <2> QED BY <2>2, <2>3, <2>4
<1>3. RankByMerit(list) = [p \in S |-> list[CHOOSE k \in S : MeritPlace(list, k) = p]]
  BY RankByPlace
<1> HIDE DEF S
<1>4. \A p \in S : (CHOOSE k \in S : MeritPlace(list, k) = p) = p
  BY <1>2
<1>5. RankByMerit(list) = [p \in S |-> list[p]]
  BY <1>3, <1>4
<1> QED BY <1>5 DEF S

\* truncate.
LEMMA TakePrefix ==
  ASSUME NEW V, NEW list \in Seq(V), NEW limit \in Nat
  PROVE  /\ Take(list, limit) \in Seq(V)
         /\ Len(Take(list, limit)) = IF Len(list) <= limit THEN Len(list) ELSE limit
         /\ \A k \in 1..Len(Take(list, limit)) : Take(list, limit)[k] = list[k]
<1>1. CASE Len(list) <= limit
  BY <1>1 DEF Take
<1>2. CASE ~(Len(list) <= limit)
  <2>1. PICK start : start = SubSeq(list, 1, limit)
    OBVIOUS
  <2>2. start \in Seq(V) /\ Len(start) = limit /\ \A k \in 1..limit : start[k] = list[k]
    BY <1>2, <2>1
  <2>3. Take(list, limit) = start
    BY <1>2, <2>1 DEF Take
  <2> QED BY <1>2, <2>2, <2>3
<1> QED BY <1>1, <1>2

\* Every circulating token once, the best first.
RankedCirculation == RankByMerit(InKeyOrder(Circulating))

LEMMA CirculationRanked ==
  ASSUME TokenTypeOK, IsFiniteSet(DOMAIN tokens)
  PROVE  /\ Cardinality(Circulating) \in Nat
         /\ Cardinality(Circulating) <= Cardinality(DOMAIN tokens)
         /\ RankedCirculation \in Seq(GoodToken)
         /\ Len(RankedCirculation) = Cardinality(Circulating)
         /\ BestFirst(RankedCirculation)
         /\ \E at : /\ Enumerates(at, Cardinality(Circulating), Circulating)
                   /\ \A k \in 1..Cardinality(Circulating) :
                        RankedCirculation[k] = tokens[at[k]]
<1> DEFINE N == Cardinality(Circulating)
           list == InKeyOrder(Circulating)
<1>1. Circulating \subseteq DOMAIN tokens /\ Circulating \subseteq Ids
  BY DEF Circulating, TokenTypeOK
<1>2. IsFiniteSet(Circulating) /\ N \in Nat /\ N <= Cardinality(DOMAIN tokens)
  BY <1>1, FS_Subset, FS_CardinalityType
<1>3. PICK f : Enumerates(f, N, Circulating) /\ list = [k \in 1..N |-> tokens[f[k]]]
  BY <1>1, <1>2, InKeyOrderShowsAll
<1>4. list \in Seq(GoodToken) /\ Len(list) = N
  <2>1. \A k \in 1..N : tokens[f[k]] \in GoodToken
    BY <1>1, <1>3 DEF Enumerates, TokenTypeOK
  <2> HIDE DEF list, N
  <2> QED BY <1>2, <1>3, <2>1
<1> HIDE DEF list, N
<1>5. PICK g : /\ Enumerates(g, N, 1..N)
              /\ RankByMerit(list) = [p \in 1..N |-> list[g[p]]]
              /\ BestFirst(RankByMerit(list))
  BY <1>4, RankMovesOnly
<1> DEFINE at == [p \in 1..N |-> f[g[p]]]
<1>6. Enumerates(at, N, Circulating)
  <2>1. at \in [1..N -> Circulating]
    BY <1>3, <1>5 DEF Enumerates
  <2>2. \A i, j \in 1..N : at[i] = at[j] => i = j
    BY <1>3, <1>5 DEF Enumerates
  <2>3. ASSUME NEW x \in Circulating  PROVE \E i \in 1..N : at[i] = x
    <3>1. PICK k \in 1..N : f[k] = x
      BY <1>3 DEF Enumerates
    <3>2. PICK i \in 1..N : g[i] = k
      BY <1>5 DEF Enumerates
    <3> QED BY <3>1, <3>2
  <2> HIDE DEF at
  <2> QED BY <2>1, <2>2, <2>3 DEF Enumerates
<1>7. \A k \in 1..N : RankByMerit(list)[k] = tokens[at[k]]
  BY <1>3, <1>5 DEF Enumerates
<1>8. RankByMerit(list) \in Seq(GoodToken) /\ Len(RankByMerit(list)) = N
  <2>1. \A k \in 1..N : list[g[k]] \in GoodToken
    BY <1>4, <1>5 DEF Enumerates
  <2> QED BY <1>2, <1>5, <2>1
<1>9. RankByMerit(list) = RankedCirculation
  BY DEF list, RankedCirculation
<1> HIDE DEF at
<1> QED BY <1>2, <1>5, <1>6, <1>7, <1>8, <1>9 DEF N

LEMMA ListingsOfFinite ==
  ASSUME TokenTypeOK, IsFiniteSet(DOMAIN tokens)
  PROVE  ListingsAgree
<1> DEFINE N == Cardinality(Circulating)
           all == RankedCirculation
<1> SUFFICES ASSUME NEW limit \in 0..Cardinality(DOMAIN tokens)
             PROVE  LET list == ListActive(limit)
                        listed == {list[k].id : k \in DOMAIN list}
                    IN  /\ TopByMerit(limit) = list
                        /\ listed \subseteq Circulating
                        /\ Cardinality(listed) = IF N < limit THEN N ELSE limit
                        /\ \A id \in Circulating \ listed : \A k \in DOMAIN list :
                             tokens[id].merit <= list[k].merit
  BY DEF ListingsAgree
<1>0. Cardinality(DOMAIN tokens) \in Nat /\ limit \in Nat
  BY FS_CardinalityType
<1>1. /\ N \in Nat /\ N <= Cardinality(DOMAIN tokens)
      /\ all \in Seq(GoodToken) /\ Len(all) = N /\ BestFirst(all)
  BY CirculationRanked
<1>2. PICK at : /\ Enumerates(at, N, Circulating)
               /\ \A k \in 1..N : all[k] = tokens[at[k]]
  BY CirculationRanked
<1>3. \A l \in Nat : ListActive(l) = Take(all, l)
  BY DEF ListActive, RankedCirculation
<1> DEFINE list == ListActive(limit)
           listed == {list[k].id : k \in DOMAIN list}
           m == IF N < limit THEN N ELSE limit
<1> HIDE DEF N, all
<1>4. /\ m \in Nat /\ m <= N
      /\ list \in Seq(GoodToken) /\ Len(list) = m /\ DOMAIN list = 1..m
      /\ \A k \in 1..m : list[k] = all[k]
  <2>1. list = Take(all, limit)
    BY <1>0, <1>3
  <2> HIDE DEF list
  <2> QED BY <1>0, <1>1, <2>1, TakePrefix
<1>5. TopByMerit(limit) = list
  <2>1. ListActive(Cardinality(DOMAIN tokens)) = all
    BY <1>0, <1>1, <1>3 DEF Take
  <2>2. RankByMerit(all) = all
    BY <1>1, RankedStays
  <2> QED BY <1>0, <1>3, <2>1, <2>2 DEF TopByMerit
<1> HIDE DEF list, m
<1>6. \A k \in 1..m : list[k].id = at[k] /\ at[k] \in Circulating
  <2>1. \A k \in 1..N : at[k] \in Circulating /\ tokens[at[k]].id = at[k]
    BY <1>2 DEF Enumerates, Circulating, TokenTypeOK
  <2> QED BY <1>1, <1>2, <1>4, <2>1
<1>7. listed \subseteq Circulating
  BY <1>4, <1>6
<1>8. Cardinality(listed) = m
  <2> DEFINE ids == [k \in 1..m |-> list[k].id]
  <2>1. ids \in [1..m -> listed] /\ \A x \in listed : \E i \in 1..m : ids[i] = x
    BY <1>4
  <2>2. \A i, j \in 1..m : ids[i] = ids[j] => i = j
    BY <1>1, <1>2, <1>4, <1>6 DEF Enumerates
  <2> HIDE DEF ids, listed
  <2> QED BY <1>4, <2>1, <2>2, ListedOnce
<1>9. ASSUME NEW id \in Circulating \ listed, NEW k \in DOMAIN list
      PROVE  tokens[id].merit <= list[k].merit
  <2>1. PICK p \in 1..N : at[p] = id
    BY <1>2 DEF Enumerates
  <2>2. p \notin 1..m
    BY <1>4, <1>6, <1>9, <2>1
  <2>3. k \in 1..N /\ p \in 1..N /\ k < p
    BY <1>1, <1>4, <2>2
  <2>4. all[p].merit <= all[k].merit
    BY <1>1, <2>3 DEF BestFirst
  <2> QED BY <1>2, <1>4, <2>1, <2>4
<1> QED BY <1>5, <1>7, <1>8, <1>9 DEF list, m

LEMMA LedgerStaysFinite ==
  TokenTypeOK /\ IsFiniteSet(DOMAIN tokens) /\ [LedgerNext]_ledgerVars
    => IsFiniteSet(DOMAIN tokens)'
<1> SUFFICES ASSUME TokenTypeOK, IsFiniteSet(DOMAIN tokens), [LedgerNext]_ledgerVars
             PROVE  IsFiniteSet(DOMAIN tokens')
  OBVIOUS
<1>1. ASSUME NEW b \in Batches, NEW l \in EventLists, Mint(b, l)
      PROVE  IsFiniteSet(DOMAIN tokens')
  <2>1. DOMAIN tokens' \in {DOMAIN tokens, DOMAIN tokens \union {TokenId(b, l)}}
    BY <1>1 DEF Mint
  <2> QED BY <2>1, FS_AddElement
<1>2. ASSUME NEW id \in Ids, Activate(id) \/ Spend(id) \/ Burn(id) \/ Revoke(id)
      PROVE  IsFiniteSet(DOMAIN tokens')
  BY <1>2 DEF Activate, Spend, Burn, Revoke, Transition
<1>3. CASE UNCHANGED ledgerVars
  BY <1>3 DEF ledgerVars
<1> QED BY <1>1, <1>2, <1>3 DEF LedgerNext

\* list_active and top_by_merit: for any ledger that calls can build, and any limit, the
\* first shows as many circulating tokens as there are and are asked for, nobody better is
\* left out, and the second, which sorts again, shows the same (mod.rs:253-275).
THEOREM ListingsMissNobody == LedgerSpec => []ListingsAgree
<1>1. LedgerInit => IsFiniteSet(DOMAIN tokens)
  BY FS_EmptySet DEF LedgerInit
<1>2. LedgerSpec => []IsFiniteSet(DOMAIN tokens)
  BY <1>1, LedgerStaysFinite, LedgerTypeCorrect, PTL DEF LedgerSpec
<1> QED BY <1>2, ListingsOfFinite, LedgerTypeCorrect, PTL
============================================================================
