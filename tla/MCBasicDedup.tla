---------------------------- MODULE MCBasicDedup ----------------------------
(***************************************************************************)
(* Values of the constants of BasicDedup for TLC: contents are strings and *)
(* a digest is the one-element tuple of what it is the digest of.          *)
(***************************************************************************)
EXTENDS BasicInvariants

MCVals == {"a", "b"}
MCDigests == {<<v>> : v \in MCVals}
MCNoDigest == <<>>
MCHash == [v \in MCVals |-> <<v>>]

\* Memory regions of a fixed number of chunks, and of two numbers of chunks.
OneOrTwoChunks == {1, 2}
TwoChunks == {2}
=============================================================================
