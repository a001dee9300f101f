---------------------------- MODULE MerkleRange ----------------------------
(***************************************************************************)
(* The Merkle mountain range (src/core/iedb-crypto/src/merkle/mod.rs): a   *)
(* list of leaves, the peaks computed from it, and proofs that a leaf is   *)
(* under a peak.  Proofs are issued, the range grows or is restored from   *)
(* an older dump, and the proofs come back to be verified.                 *)
(*                                                                         *)
(* A BLAKE3 digest is what it digests: Hash of a list of 32-byte words is  *)
(* that list, so there are no collisions.  A leaf is hashed no differently *)
(* from a node, and may be one: append takes any word, and append_data of  *)
(* the 64 bytes of two leaves appends their hash_pair.  Indices start from *)
(* 0, as in the code.                                                      *)
(***************************************************************************)
EXTENDS Integers, Sequences, FiniteSets, SequencesExt

CONSTANTS
  Words,        \* the leaves: any words, also digests of leaves
  Zero,         \* the word of 32 zero bytes
  MaxLeaves,    \* bound: leaves of the range
  MaxIssued,    \* bound: proofs issued
  MaxProven     \* bound: leaves of the range a proof is issued from

ASSUME BoundsAssumption == {MaxLeaves, MaxIssued, MaxProven} \subseteq Nat

VARIABLES
  leaves, peaks, count,   \* MerkleForest
  saved,                  \* the last to_json() somebody kept
  issued                  \* the proofs handed out, each with the leaves of that moment (history)

merkleVars == <<leaves, peaks, count, saved, issued>>

---------------------------------------------------------------------------
(* The tree.                                                               *)

Hash(words) == words
HashPair(a, b) == Hash(<<a, b>>)

Pow2[b \in Nat] == IF b = 0 THEN 1 ELSE 2 * Pow2[b - 1]

\* The loop that doubles a size while twice as much is at most `limit`, by rounds: it has
\* stopped before `limit` of them.
DoubledUpTo(limit) ==
  LET size[k \in 0..limit] ==
        IF k = 0 THEN 1
        ELSE LET last == size[k - 1]
             IN  IF last * 2 <= limit THEN last * 2 ELSE last
  IN  size[limit]

\* The mountain that starts with `remaining` leaves to come.
MountainSizeStrict(remaining) == DoubledUpTo(remaining - 1)
MountainSize(remaining) == DoubledUpTo(remaining)

\* The walk from mountain to mountain over n leaves: where each one starts.  After the
\* last it stays at n.
Offsets(n) ==
  LET at[k \in 0..n] ==
        IF k = 0 THEN 0
        ELSE LET offset == at[k - 1]
             IN  IF offset < n THEN offset + MountainSize(n - offset) ELSE offset
  IN  at

\* chunks(2) of a level, hashed; an odd one out is passed up as it is.
PairUp(level) ==
  [k \in 1..((Len(level) + 1) \div 2) |->
     IF 2 * k <= Len(level) THEN HashPair(level[2 * k - 1], level[2 * k]) ELSE level[2 * k - 1]]

\* The levels over some leaves, up to the one that is a single node.
LevelsOver(leafs) ==
  LET level[h \in 0..Len(leafs)] == IF h = 0 THEN leafs ELSE PairUp(level[h - 1])
  IN  level
Levels(leafs) ==
  LET level == LevelsOver(leafs)
      top == CHOOSE h \in DOMAIN level :
               Len(level[h]) <= 1 /\ \A j \in 0..(h - 1) : Len(level[j]) > 1
  IN  [k \in 1..(top + 1) |-> level[k - 1]]

\* The leaves from `start` on, `size` of them.
Slice(ls, start, size) == SubSeq(ls, start + 1, start + size)

BuildMerkleTree(ls, start, size) ==
  IF size = 1 THEN ls[start + 1] ELSE Last(Levels(Slice(ls, start, size)))[1]

RecomputePeaks(ls) ==
  LET at == Offsets(Len(ls))
      mountains == {k \in DOMAIN at : at[k] < Len(ls)}
  IN  [k \in 1..Cardinality(mountains) |->
         BuildMerkleTree(ls, at[k - 1], MountainSize(Len(ls) - at[k - 1]))]

RootOfTallest(ps) == IF ps = <<>> THEN Zero ELSE Hash(<<ps[1]>>)
Root(ps) == IF ps = <<>> THEN Zero ELSE Hash(ps)

---------------------------------------------------------------------------
(* Proofs.                                                                 *)

\* find_peak_for_leaf: which peak (from 1), the place in its mountain, the mountain's size.
FindPeakForLeaf(n, index) ==
  LET at == Offsets(n)
      peakIdx == CHOOSE k \in 1..n : at[k - 1] <= index /\ index < at[k]
  IN  [peak |-> peakIdx, local |-> index - at[peakIdx - 1], size |-> at[peakIdx] - at[peakIdx - 1]]

Halve(pos, k) == pos \div Pow2[k]

\* proof(): at each level but the last the word beside the path.  There always is one
\* (`pos + 1 < nodes.len()`): those levels are of even length.
LeftOf(pos) == IF pos % 2 = 0 THEN pos ELSE pos - 1
Beside(pos) == IF pos % 2 = 0 THEN pos + 1 ELSE pos - 1
ProofOf(ls, index) ==
  LET found  == FindPeakForLeaf(Len(ls), index)
      levels == Levels(Slice(ls, index - found.local, found.size))
  IN  [k \in 1..(Len(levels) - 1) |-> levels[k][Beside(Halve(found.local, k - 1)) + 1]]

\* The climb of verify and verify_with_root.
Climb(leaf, proof, local) ==
  LET current[k \in 0..Len(proof)] ==
        IF k = 0 THEN leaf
        ELSE IF Halve(local, k - 1) % 2 = 0 THEN HashPair(current[k - 1], proof[k])
                                            ELSE HashPair(proof[k], current[k - 1])
  IN  current[Len(proof)]

\* The root the peaks would have with the climbed one in its place.
ComputedRoot(leaf, proof, index) ==
  LET found == FindPeakForLeaf(Len(leaves), index)
      top   == Climb(leaf, proof, found.local)
  IN  Hash([k \in DOMAIN peaks |-> IF k = found.peak THEN top ELSE peaks[k]])

Verify(leaf, proof, index) ==
  index < Len(leaves) /\ ComputedRoot(leaf, proof, index) = Root(peaks)

VerifyWithRoot(leaf, proof, index, expectedRoot) ==
  index < Len(leaves) /\ ComputedRoot(leaf, proof, index) = expectedRoot

CompactProof(index) ==
  [leaf |-> leaves[index + 1], proof |-> ProofOf(leaves, index), root |-> Root(peaks),
   index |-> index]

VerifyCompactOwnRoot(compact) ==
  VerifyWithRoot(compact.leaf, compact.proof, compact.index, compact.root)
\* The root the proof carries is not looked at.
VerifyCompact(compact) == Verify(compact.leaf, compact.proof, compact.index)

---------------------------------------------------------------------------
(* The state machine.                                                      *)

ToJson == [leaves |-> leaves, peaks |-> peaks, root |-> Root(peaks), count |-> count]

MerkleInit ==
  /\ leaves = <<>> /\ peaks = <<>> /\ count = 0
  /\ saved = ToJson
  /\ issued = {}

CountUncounted(n) == n
Counted(n) == n + 1

\* append() and, with the digest of the data for a leaf, append_data().
AppendLeaf(word) ==
  /\ Len(leaves) < MaxLeaves
  /\ leaves' = Append(leaves, word)
  /\ count' = Counted(count)
  /\ peaks' = RecomputePeaks(leaves')
  /\ UNCHANGED <<saved, issued>>

IssueProof(index) ==
  /\ index < Len(leaves)
  /\ Cardinality(issued) < MaxIssued /\ Len(leaves) <= MaxProven
  /\ issued' = issued \union {[compact |-> CompactProof(index), of |-> leaves]}
  /\ UNCHANGED <<leaves, peaks, count, saved>>

\* Somebody keeps the dump of to_json().
Save ==
  /\ saved' = ToJson
  /\ UNCHANGED <<leaves, peaks, count, issued>>

\* from_json(): the peaks are the dump's, they are not computed from its leaves, and
\* the root it holds is not read.
Load ==
  /\ leaves' = saved.leaves
  /\ peaks' = saved.peaks
  /\ count' = saved.count
  /\ UNCHANGED <<saved, issued>>

MerkleNext ==
  \/ \E word \in Words : AppendLeaf(word)
  \/ \E index \in 0..(MaxLeaves - 1) : IssueProof(index)
  \/ Save
  \/ Load

MerkleSpec == MerkleInit /\ [][MerkleNext]_merkleVars

---------------------------------------------------------------------------
(* Reference definitions, for the properties.                              *)

\* The perfect binary tree over Pow2[height] leaves of `ls`, from `start` on.
Perfect(ls, height, start) ==
  LET tree[h \in 0..height] ==
        [from \in Nat |-> IF h = 0 THEN ls[from + 1]
                          ELSE Hash(<<tree[h - 1][from], tree[h - 1][from + Pow2[h - 1]]>>)]
  IN  tree[height][start]

\* The binary digits of n that are 1: the heights of the mountains over n leaves.  The
\* tallest come first, so a mountain starts at the number the higher digits make.
Bits(n) == {b \in 0..n : n % Pow2[b + 1] >= Pow2[b]}
StartOf(n, b) == n - (n % Pow2[b + 1])

\* The leaves of the mountain that leaf `index` of `ls` is under.
MountainOf(ls, index) ==
  LET n == Len(ls)
      b == CHOOSE b \in Bits(n) : StartOf(n, b) <= index /\ index < StartOf(n, b) + Pow2[b]
  IN  Slice(ls, StartOf(n, b), Pow2[b])

---------------------------------------------------------------------------
(* Properties.                                                             *)

\* Type invariant, with the two counts of the leaves in agreement.
MerkleTypeOK ==
  /\ leaves \in Seq(Words) /\ Len(leaves) <= MaxLeaves
  /\ count = Len(leaves)
  /\ saved.leaves \in Seq(Words) /\ saved.count = Len(saved.leaves)
  /\ Cardinality(issued) <= MaxIssued

\* However the leaves came, by appends or from a dump appended to, the peaks are the
\* perfect trees over the binary digits of the leaf count, the tallest first.
PeaksArePerfect ==
  LET n == Len(leaves)
  IN  /\ Len(peaks) = Cardinality(Bits(n))
      /\ \A b \in Bits(n) : peaks[Cardinality({c \in Bits(n) : c >= b})]
                              = Perfect(leaves, b, StartOf(n, b))

\* Every leaf has a proof, as long as its mountain is high, that both verifiers accept.
\* Where the mountain is as high as the proof is long, the proof shows nothing else: with
\* another leaf or at another place it is refused, unless the same leaf stands there.
\* (The verifiers do not look at the length, and one leaf may be a node over others.)
\* Neither dumps nor issued proofs are read, and every range can be had with the dump of
\* itself and none issued.
ProofsProve == saved = ToJson /\ issued = {} => \A i \in 0..(Len(leaves) - 1) :
  LET proof == ProofOf(leaves, i)
  IN  /\ Pow2[Len(proof)] = Len(MountainOf(leaves, i))
      /\ Verify(leaves[i + 1], proof, i)
      /\ \A word \in Words : \A j \in 0..Len(leaves) :
           /\ Verify(word, proof, j) = VerifyWithRoot(word, proof, j, Root(peaks))
           /\ Verify(word, proof, j) =>
                /\ j < Len(leaves)
                /\ Pow2[Len(proof)] = Len(MountainOf(leaves, j)) => word = leaves[j + 1]

\* A proof in a client's hands is good for as long as the mountain it was made in
\* stands, however the range has grown or been restored since; at another mountain of
\* the same height, over other leaves, it is refused.
ProofLivesWithItsMountain == \A p \in issued :
  LET index == p.compact.index
      stands == /\ index < Len(leaves)
                /\ MountainOf(leaves, index) = MountainOf(p.of, index)
  IN  /\ stands => VerifyCompact(p.compact)
      /\ VerifyCompact(p.compact) =>
           /\ index < Len(leaves)
           /\ Len(MountainOf(leaves, index)) = Pow2[Len(p.compact.proof)] => stands

\* A root and a number of leaves stand for one list of leaves: the range has both from a
\* dump, or from the moment of a proof, exactly when the leaves are those of that
\* moment.  The root alone does not: a leaf may be the node over two others.
RootCommits ==
  /\ saved.root = Root(peaks) /\ saved.count = count <=> saved.leaves = leaves
  /\ \A p \in issued :
       p.compact.root = Root(peaks) /\ Len(p.of) = Len(leaves) <=> p.of = leaves

\* "Tamper-evident O(log n) inclusion proofs" (merkle/mod.rs:3-6): a proof that is
\* accepted is of the leaf that stands at its index.
AcceptedLeafIsThere == \A p \in issued :
  VerifyCompact(p.compact) => p.compact.leaf = leaves[p.compact.index + 1]
============================================================================
