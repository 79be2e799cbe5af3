----------------------------- MODULE MerkleTree -----------------------------
(***************************************************************************)
(* Index arithmetic of the Merkle tree (kokkos_merkle_tree.hpp and the     *)
(* level loops of tree_approach.cpp).  The tree of num_chunks chunks is an *)
(* array of 2 * num_chunks - 1 nodes: the children of node u are 2u + 1    *)
(* and 2u + 2, and the leaves are the last num_chunks nodes.               *)
(***************************************************************************)
EXTENDS Integers

NumNodes(num_chunks) == 2 * num_chunks - 1

Leaves(num_chunks) == num_chunks - 1 .. NumNodes(num_chunks) - 1

Left(node) == 2 * node + 1
Right(node) == 2 * node + 2

\* The row of nodes below a row; all nodes below node u are such rows below u.
RowBelow(row) == [left |-> Left(row.left), right |-> Right(row.right)]

Rows == [left : Nat, right : Nat]

\* The row above a row that starts past the array; only its right end is clipped
\* to the array.
LastRow(row, num_nodes) ==
  [left |-> (row.left - 1) \div 2,
   right |-> IF (row.right - 2) \div 2 > num_nodes THEN num_nodes - 1
             ELSE (row.right - 2) \div 2]

\* Mutant: the loop compares with <=.
DeepestTooFar(node, num_nodes) ==
  LET descend[row \in Rows] ==
        IF row.left <= num_nodes THEN descend[RowBelow(row)] ELSE LastRow(row, num_nodes)
  IN  descend[RowBelow([left |-> node, right |-> node])]

\* The deepest row of descendants that starts within the array.
Deepest(node, num_nodes) ==
  LET descend[row \in Rows] ==
        IF row.left < num_nodes THEN descend[RowBelow(row)] ELSE LastRow(row, num_nodes)
  IN  descend[RowBelow([left |-> node, right |-> node])]

leftmost_leaf(node, num_nodes) == Deepest(node, num_nodes).left

rightmost_leaf(node, num_nodes) == Deepest(node, num_nodes).right

num_leaf_descendents(node, num_nodes) ==
  rightmost_leaf(node, num_nodes) - leftmost_leaf(node, num_nodes) + 1

\* The nodes a restart enters into distinct_map for a saved region: the node
\* and, level by level, the descendants of it that start within the array.
RegionNodes(node, num_nodes) ==
  LET InRow(row) == row.left .. IF row.right >= num_nodes THEN num_nodes ELSE row.right
      enter[walk \in [row : Rows, nodes : SUBSET Nat]] ==
        IF walk.row.left < num_nodes
        THEN enter[[row |-> RowBelow(walk.row), nodes |-> walk.nodes \cup InRow(walk.row)]]
        ELSE walk.nodes
  IN  enter[[row |-> RowBelow([left |-> node, right |-> node]), nodes |-> {node}]]

-----------------------------------------------------------------------------
(* The loops over the levels, from the deepest one up *)

\* The first level that ends past the array.
BottomLevel(num_nodes) ==
  LET down[level \in [beg : Nat, end : Nat]] ==
        IF level.end < num_nodes
        THEN down[[beg |-> Left(level.beg), end |-> Right(level.end)]] ELSE level
  IN  down[[beg |-> 0, end |-> 0]]

\* (i - k) / 2 on uint32_t, for k in {1, 2}: a difference below zero wraps.
HalfOfWrapped == 2147483647

\* Mutant: the same on int, where -1 / 2 = 0.
SignedParent(i, k) == IF i >= k THEN (i - k) \div 2 ELSE 0

Parent(i, k) == IF i >= k THEN (i - k) \div 2 ELSE HalfOfWrapped

\* Mutant: both ends as if they were right children.
LevelAboveRight(level) == [beg |-> Parent(level.beg, 2), end |-> Parent(level.end, 2)]

LevelAbove(level) == [beg |-> Parent(level.beg, 1), end |-> Parent(level.end, 2)]

\* "Intentional unsigned integer underflow": the loop ends above the root.
LevelInTree(level, num_nodes) == level.beg <= num_nodes

\* The nodes a level's kernel works on.
InnerNodes(level, num_chunks) == {u \in level.beg .. level.end : u < num_chunks - 1}
=============================================================================
