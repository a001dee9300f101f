---------------------------- MODULE TokenLedger ----------------------------
(***************************************************************************)
(* The ledger of Good Tokens (src/core/iedb-crypto/src/tokens/mod.rs): a   *)
(* map from content-addressed ids to tokens, the five calls that change    *)
(* it, and its ranked listings.  A caller may make the calls in any order, *)
(* with any id; a call it may not make is an error that changes nothing.   *)
(*                                                                         *)
(* A BLAKE3 digest is what it digests.  Timestamps and metadata only pass  *)
(* through and are left out.                                               *)
(***************************************************************************)
EXTENDS Integers, Sequences, FiniteSets, SequencesExt

CONSTANTS
  Batches,         \* batch ids
  EventLists,      \* the lists of event CIDs a batch may hold; a CID is a list of characters
  NewLine,         \* the byte between CIDs in the digest
  KeyLess(_, _)    \* the order of the ids as strings, which is that of their digests

\* A CID is hex: it has no line break in it.
ASSUME CidAssumption ==
  /\ EventLists \subseteq Seq(Seq(STRING))
  /\ \A cids \in EventLists : \A k \in DOMAIN cids : NewLine \notin ToSet(cids[k])

VARIABLES
  tokens,     \* TokenLedger.tokens, a map over the ids minted so far
  \* History, for the properties:
  attempts,   \* the batches somebody called mint() with
  spends,     \* how often spend() succeeded for each id
  burns       \* how often burn() did

ledgerVars == <<tokens, attempts, spends, burns>>

---------------------------------------------------------------------------
(* Pure primitives.                                                        *)

ChainedTogether(cids) == FlattenSeq(cids)
\* The chained root: every CID is followed by a line break.
ChainedRoot(cids) == FlattenSeq([k \in DOMAIN cids |-> Append(cids[k], NewLine)])

\* The id of a batch; batch_id is eight bytes, so the pair is unambiguous.
TokenId(batch, cids) == <<batch, ChainedRoot(cids)>>
Ids == {TokenId(b, l) : b \in Batches, l \in EventLists}

\* The order of a BTreeMap's keys: strict and total.
ASSUME KeyOrderAssumption ==
  /\ \A x \in Ids : ~KeyLess(x, x)
  /\ \A x, y, z \in Ids : KeyLess(x, y) /\ KeyLess(y, z) => KeyLess(x, z)
  /\ \A x, y \in Ids : x # y => KeyLess(x, y) \/ KeyLess(y, x)

\* n * ln(n + 1) * 1.0: the ledger only compares scores, and it grows strictly from 0.
MeritScore(n) == n * n

\* rank_by_merit: a stable sort, the best first.
RankByMerit(list) ==
  LET Place(k) == Cardinality({j \in DOMAIN list :
                    \/ list[j].merit > list[k].merit
                    \/ list[j].merit = list[k].merit /\ j <= k})
  IN  [p \in DOMAIN list |-> list[CHOOSE k \in DOMAIN list : Place(k) = p]]

---------------------------------------------------------------------------

Statuses == {"minted", "active", "spent", "burned", "revoked"}
GoodToken == [id : Ids, batch : Batches, events : EventLists,
              status : Statuses, merit : Nat]

\* Type invariant: the map's key is the token's id, and the id the content's.
TokenTypeOK ==
  /\ DOMAIN tokens \subseteq Ids
  /\ \A id \in DOMAIN tokens :
       /\ tokens[id] \in GoodToken
       /\ tokens[id].id = id
       /\ TokenId(tokens[id].batch, tokens[id].events) = id
  /\ attempts \subseteq Batches \X EventLists
  /\ spends \in [Ids -> Nat] /\ burns \in [Ids -> Nat]

LedgerInit ==
  /\ tokens = [id \in {} |-> id]
  /\ attempts = {}
  /\ spends = [id \in Ids |-> 0] /\ burns = [id \in Ids |-> 0]

AnyId(id) == TRUE
Fresh(id) == id \notin DOMAIN tokens

TokenOfDistinct(batch, cids) ==
  [id |-> TokenId(batch, cids), batch |-> batch, events |-> SetToSeq(ToSet(cids)),
   status |-> "minted", merit |-> MeritScore(Len(cids))]
NewToken(batch, cids) ==
  [id |-> TokenId(batch, cids), batch |-> batch, events |-> cids,
   status |-> "minted", merit |-> MeritScore(Len(cids))]

\* mint(): an error if the id is taken, whatever became of its token.
Mint(batch, cids) ==
  LET id == TokenId(batch, cids)
  IN  /\ attempts' = attempts \union {<<batch, cids>>}
      /\ tokens' = IF Fresh(id)
                   THEN [x \in DOMAIN tokens \union {id} |->
                           IF x = id THEN NewToken(batch, cids) ELSE tokens[x]]
                   ELSE tokens
      /\ UNCHANGED <<spends, burns>>

\* transition(): get_mut, the check of the current status, the assignment.
Transition(id, allowedFrom, to) ==
  /\ id \in DOMAIN tokens
  /\ tokens[id].status \in allowedFrom
  /\ tokens' = [tokens EXCEPT ![id].status = to]

Activate(id) ==
  /\ Transition(id, {"minted"}, "active")
  /\ UNCHANGED <<attempts, spends, burns>>

Spend(id) ==
  /\ Transition(id, {"active"}, "spent")
  /\ spends' = [spends EXCEPT ![id] = @ + 1]
  /\ UNCHANGED <<attempts, burns>>

BurnableEvenSpent == {"minted", "active", "spent"}
Burnable == {"minted", "active"}

Burn(id) ==
  /\ Transition(id, Burnable, "burned")
  /\ burns' = [burns EXCEPT ![id] = @ + 1]
  /\ UNCHANGED <<attempts, spends>>

Revoke(id) ==
  /\ Transition(id, {"minted", "active", "spent", "burned"}, "revoked")
  /\ UNCHANGED <<attempts, spends, burns>>

LedgerNext ==
  \/ \E b \in Batches, l \in EventLists : Mint(b, l)
  \/ \E id \in Ids : Activate(id) \/ Spend(id) \/ Burn(id) \/ Revoke(id)

LedgerSpec == LedgerInit /\ [][LedgerNext]_ledgerVars

---------------------------------------------------------------------------
(* Listings.                                                               *)

\* The tokens in circulation, in the order of the BTreeMap.
Circulating == {id \in DOMAIN tokens : tokens[id].status \in {"minted", "active"}}
InKeyOrder(S) ==
  LET Place(id) == Cardinality({x \in S : x = id \/ KeyLess(x, id)})
  IN  [k \in 1..Cardinality(S) |-> tokens[CHOOSE id \in S : Place(id) = k]]

Take(list, limit) == IF Len(list) <= limit THEN list ELSE SubSeq(list, 1, limit)

ListFirstMinted(limit) == RankByMerit(Take(InKeyOrder(Circulating), limit))
ListActive(limit) == Take(RankByMerit(InKeyOrder(Circulating)), limit)

\* top_by_merit ranks the whole listing again and truncates.
TopByMerit(limit) == Take(RankByMerit(ListActive(Cardinality(DOMAIN tokens))), limit)

CountByStatus(s) == Cardinality({id \in DOMAIN tokens : tokens[id].status = s})

---------------------------------------------------------------------------
(* Properties.                                                             *)

\* "Re-minting the same batch is rejected" (mod.rs:156), and no other: every batch
\* that somebody minted has a token made from that batch, so a mint never fails on
\* account of another batch whose events digest to the same root.
EveryBatchHasItsToken == \A a \in attempts :
  LET id == TokenId(a[1], a[2])
  IN  id \in DOMAIN tokens /\ tokens[id].batch = a[1] /\ tokens[id].events = a[2]

\* A token leaves circulation by spend() or burn() once in all, whatever sequence of
\* calls, repeated mints and revocations included, a caller tries (mod.rs:20-23).
LeavesOnce == \A id \in Ids : spends[id] + burns[id] <= 1

\* A capped listing misses nobody better than those it shows, shows no token out of
\* circulation, and the two listings, of which one sorts twice, agree (mod.rs:253-275).
ListingsAgree == \A limit \in 0..Cardinality(DOMAIN tokens) :
  LET list == ListActive(limit)
      listed == {list[k].id : k \in DOMAIN list}
  IN  /\ TopByMerit(limit) = list
      /\ listed \subseteq Circulating
      /\ Cardinality(listed) = IF Cardinality(Circulating) < limit
                               THEN Cardinality(Circulating) ELSE limit
      /\ \A id \in Circulating \ listed : \A k \in DOMAIN list :
           tokens[id].merit <= list[k].merit

\* The ledger keeps the life cycle of each token.
Life == INSTANCE TokenLife WITH
  Tokens <- Ids,
  life <- [id \in Ids |-> IF id \in DOMAIN tokens THEN tokens[id].status ELSE "unminted"]

ImplementsLife == Life!LifeSpec
============================================================================
