----------------------------- MODULE MCPrograms -----------------------------
(***************************************************************************)
(* Values of the constants of Programs for TLC, as in MCDeduplicators.     *)
(***************************************************************************)
EXTENDS Programs

TwoVals == {1, 7}
ThreeVals == {1, 4, 7}
AllModes == {"Full", "Basic", "List", "Tree"}
TwoChunks == {2}

MCHash(v) == <<v>>
MCHashPair(l, r) == <<l, r>>
MCNoDigest == <<>>

\* The digests of the subtrees of up to two chunks.
TwoLevels == ChunkDigests \cup (ChunkDigests \X ChunkDigests)
=============================================================================
