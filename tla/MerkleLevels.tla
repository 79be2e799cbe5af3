---------------------------- MODULE MerkleLevels ----------------------------
(***************************************************************************)
(* The loops over the levels of a Merkle tree, which tree_approach.cpp     *)
(* runs once for the forest of first occurrences and once for that of      *)
(* duplicates: down to the deepest level, then up with a kernel for each,  *)
(* for trees of every size up to a bound; and what the index functions of  *)
(* MerkleTree give on those trees.                                         *)
(***************************************************************************)
EXTENDS MerkleTree

CONSTANT MaxChunks  \* bound on the number of chunks

\* With 2^30 chunks HalfOfWrapped is a node of the tree, and the loop starts
\* again from it.
ASSUME BoundAssumption == MaxChunks \in Nat \ {0} /\ NumNodes(MaxChunks) < HalfOfWrapped

VARIABLES
  num_chunks,
  ascending,    \* the second of the two loops is running
  level,        \* level_beg and level_end
  visited       \* the inner nodes a kernel has worked on

vars == <<num_chunks, ascending, level, visited>>

Init ==
  /\ num_chunks \in 1 .. MaxChunks
  /\ ascending = FALSE
  /\ level = [beg |-> 0, end |-> 0]
  /\ visited = {}

\* Mutant: both ends as if they were right children.
LevelBelowRight(l) == [beg |-> Right(l.beg), end |-> Right(l.end)]

LevelBelow(l) == [beg |-> Left(l.beg), end |-> Right(l.end)]

\* One round of the loop to the deepest level.
Descend ==
  /\ ~ascending
  /\ level.end < NumNodes(num_chunks)
  /\ level' = LevelBelow(level)
  /\ UNCHANGED <<num_chunks, ascending, visited>>

EndDescent ==
  /\ ~ascending
  /\ level.end >= NumNodes(num_chunks)
  /\ ascending' = TRUE
  /\ UNCHANGED <<num_chunks, level, visited>>

\* One round of the loop over the levels.
VisitLevel ==
  /\ ascending
  /\ LevelInTree(level, NumNodes(num_chunks))
  /\ visited' = visited \cup InnerNodes(level, num_chunks)
  /\ level' = LevelAbove(level)
  /\ UNCHANGED <<num_chunks, ascending>>

Next == Descend \/ EndDescent \/ VisitLevel

Spec == Init /\ [][Next]_vars

FairSpec == Spec /\ WF_vars(Next)

-----------------------------------------------------------------------------
Inner == 0 .. num_chunks - 2

Ended == ascending /\ ~LevelInTree(level, NumNodes(num_chunks))

\* A kernel finds what its nodes' children are labelled, and works on no node a
\* kernel has worked on.
ChildrenFirst ==
  ascending /\ ~Ended =>
    \A u \in InnerNodes(level, num_chunks) :
      /\ u \notin visited
      /\ {Left(u), Right(u)} \cap Inner \subseteq visited

\* When the loop has ended, kernels have worked on every inner node.
AllVisited == Ended => visited = Inner

\* The loop ends, above the root, although level_beg is never below 0.
EndsAboveRoot == <>[]Ended

-----------------------------------------------------------------------------
\* The nodes above node u, and u: the definition the functions are held against.
Ancestors(u) ==
  LET up[v \in Nat] == IF v = 0 THEN {0} ELSE {v} \cup up[(v - 1) \div 2] IN up[u]

LeavesUnder(u) == {l \in Leaves(num_chunks) : u \in Ancestors(l)}

Region(u) ==
  leftmost_leaf(u, NumNodes(num_chunks)) .. rightmost_leaf(u, NumNodes(num_chunks))

Depth(u) == LET d[v \in Nat] == IF v = 0 THEN 0 ELSE 1 + d[(v - 1) \div 2] IN d[u]

\* All leaves under u are equally deep.
Level(u) == \A l, m \in LeavesUnder(u) : Depth(l) = Depth(m)

\* Whatever the number of chunks, a region holds only leaves under its node; it
\* holds all of them when they are equally deep, as they all are when the number
\* of chunks is a power of two; and a restart then enters every node under it.
RegionsExact ==
  \A u \in 0 .. NumNodes(num_chunks) - 1 :
    /\ Region(u) \subseteq LeavesUnder(u)
    /\ num_leaf_descendents(u, NumNodes(num_chunks)) \in 1 .. num_chunks
    /\ Level(u) =>
         /\ Region(u) = LeavesUnder(u)
         /\ RegionNodes(u, NumNodes(num_chunks)) =
              {v \in 0 .. NumNodes(num_chunks) - 1 : u \in Ancestors(v)}
=============================================================================
