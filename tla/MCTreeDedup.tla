----------------------------- MODULE MCTreeDedup -----------------------------
(***************************************************************************)
(* Values of the constants of TreeReference for TLC: a digest is the       *)
(* tuple of what was hashed: equal digests have equal subtrees under them. *)
(***************************************************************************)
EXTENDS TreeReference, TreeInvariants, TLC

\* Contents are only compared: what holds of some holds of them exchanged.
Symmetry == Permutations(Vals)

TwoVals == {"a", "b"}
ThreeVals == {"a", "b", "c"}
FourVals == {"a", "b", "c", "d"}

MCHash(v) == <<v>>
MCHashPair(l, r) == <<l, r>>
MCNoDigest == <<>>

\* The digests of the subtrees of up to two, of three, and of four chunks.
LeafDigests == {<<v>> : v \in Vals}
TwoLevels == LeafDigests \cup (LeafDigests \X LeafDigests)
ThreeChunks == TwoLevels \cup (TwoLevels \X LeafDigests)
ThreeLevels == TwoLevels \cup (TwoLevels \X TwoLevels)

\* The digests of each node, whatever its chunks hold.
DigestsOf[u \in Nodes] ==
  IF u \in LeafNodes THEN {Hash(v) : v \in Vals}
  ELSE {HashPair(l, r) : l \in DigestsOf[Left(u)], r \in DigestsOf[Right(u)]}

\* Digests has them all: what the theorems about digests suppose.  (The trees of
\* the test cases have too many to list them.)
ASSUME DigestsAssumption == NumChunks <= 4 => DigestsClosed(DigestsOf)
=============================================================================
