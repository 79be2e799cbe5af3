-------------------------- MODULE MCDeduplicators --------------------------
(***************************************************************************)
(* Values of the constants of Deduplicators for TLC: contents are words, a *)
(* digest is the tuple of what was hashed.                                 *)
(***************************************************************************)
EXTENDS Deduplicators

TwoVals == {1, 7}
AllModes == {"Full", "Basic", "List", "Tree"}
OneOrTwoChunks == {1, 2}

MCHash(v) == <<v>>
MCHashPair(l, r) == <<l, r>>
MCNoDigest == <<>>

\* The digests of the subtrees of up to two chunks.
TwoLevels == ChunkDigests \cup (ChunkDigests \X ChunkDigests)

\* The digests of each node, whatever its chunks hold.
DigestsOf[u \in Tree!Nodes] ==
  IF u \in Tree!LeafNodes THEN ChunkDigests
  ELSE {HashPair(l, r) : l \in DigestsOf[Tree!Left(u)], r \in DigestsOf[Tree!Right(u)]}

\* Digests has them all: what the theorems about digests suppose.
ASSUME DigestsAssumption == Tree!DigestsClosed(DigestsOf)
=============================================================================
