------------------------ MODULE MerkleLevels_proofs ------------------------
(***************************************************************************)
(* Proofs about the loops over the levels of a Merkle tree, for trees of   *)
(* every number of chunks below 2^30.                                      *)
(***************************************************************************)
EXTENDS MerkleLevels, MerkleTree_proofs, FiniteSetTheorems

\* A level that reaches into the tree, and starts and ends as levels do.
IsLevel ==
  /\ level.beg \in LevelStarts /\ level.end = 2 * level.beg
  /\ LevelInTree(level, NumNodes(num_chunks))

\* What the loops have done: nothing on the way down; on the way up, the levels
\* below this one, and at the end all of them.
IInv ==
  /\ num_chunks \in 1 .. MaxChunks /\ ascending \in BOOLEAN
  /\ level \in [beg : Nat, end : Nat]
  /\ ~ascending => IsLevel /\ visited = {}
  /\ ascending /\ ~Ended => IsLevel /\ visited = {u \in Inner : u > level.end}
  /\ Ended => visited = Inner

-----------------------------------------------------------------------------
LEMMA InductiveInit == Init => IInv
<1> SUFFICES ASSUME Init PROVE IInv
  OBVIOUS
<1>1. num_chunks \in Nat /\ num_chunks >= 1
  BY BoundAssumption DEF Init
<1>2. LevelInTree(level, NumNodes(num_chunks))
  BY <1>1 DEF Init, LevelInTree, NumNodes
<1>3. IsLevel
  BY <1>2, StartsBelow DEF Init, IsLevel
<1>4. level \in [beg : Nat, end : Nat]
  BY DEF Init
<1> QED
  BY <1>3, <1>4 DEF Init, IInv, Ended

LEMMA InductiveStep == IInv /\ [Next]_vars => IInv'
<1> SUFFICES ASSUME IInv, [Next]_vars PROVE IInv'
  OBVIOUS
<1>1. /\ num_chunks \in Nat /\ num_chunks >= 1 /\ NumNodes(num_chunks) = 2 * num_chunks - 1
      /\ 2 * num_chunks - 1 < 2147483647
  BY BoundAssumption DEF IInv, NumNodes, HalfOfWrapped
<1>2. level.beg \in Nat /\ level.end \in Nat /\ level = [beg |-> level.beg, end |-> level.end]
  BY DEF IInv
<1>3. CASE Descend
  <2>1. /\ ~ascending /\ ascending' = ascending /\ visited' = visited /\ visited = {}
        /\ num_chunks' = num_chunks /\ level.beg \in LevelStarts /\ level.end = 2 * level.beg
        /\ level.end < NumNodes(num_chunks)
        /\ level' = [beg |-> 2 * level.beg + 1, end |-> 2 * level.end + 2]
    BY <1>3 DEF Descend, LevelBelow, Left, Right, IInv, IsLevel
  <2>2. /\ level'.beg = 2 * level.beg + 1 /\ level'.end = 2 * level'.beg
        /\ level'.beg <= NumNodes(num_chunks)
        /\ level' \in [beg : Nat, end : Nat]
    BY <1>1, <1>2, <2>1
  <2>3. level'.beg \in LevelStarts
    BY <2>1, <2>2, StartsBelow
  <2> QED
    BY <2>1, <2>2, <2>3 DEF IInv, IsLevel, LevelInTree, Ended
<1>4. CASE EndDescent
  <2>1. /\ ~ascending /\ ascending' = TRUE /\ level' = level /\ visited' = visited /\ visited = {}
        /\ num_chunks' = num_chunks /\ level.end >= NumNodes(num_chunks) /\ IsLevel
    BY <1>4 DEF EndDescent, IInv
  <2>2. IsLevel' /\ ~Ended' /\ Inner' = Inner
    BY <2>1 DEF IsLevel, Ended, Inner
  <2>3. \A u \in Inner : ~(u > level.end)
    BY <1>1, <1>2, <2>1 DEF Inner
  <2> QED
    BY <2>1, <2>2, <2>3 DEF IInv
<1>5. CASE VisitLevel
  <2>1. /\ ascending /\ ascending' = ascending /\ ~Ended
        /\ num_chunks' = num_chunks /\ Inner' = Inner
        /\ visited' = visited \cup InnerNodes(level, num_chunks)
        /\ level' = LevelAbove(level)
    BY <1>5 DEF VisitLevel, Ended, Inner
  <2>2. /\ level.beg \in LevelStarts /\ level.end = 2 * level.beg
        /\ level.beg <= 2 * num_chunks - 1
        /\ visited = {u \in Inner : u > level.end}
    BY <1>1, <2>1 DEF IInv, IsLevel, LevelInTree
  <2>3. visited' = {u \in Inner : u >= level.beg}
    <3>1. InnerNodes(level, num_chunks) = {u \in Inner : level.beg <= u /\ u <= level.end}
      BY <1>1, <1>2 DEF InnerNodes, Inner
    <3>2. \A u \in Inner : u > level.end \/ (level.beg <= u /\ u <= level.end) <=> u >= level.beg
      BY <1>1, <1>2, <2>2 DEF Inner
    <3> QED
      BY <2>1, <2>2, <3>1, <3>2
  <2>4. CASE level.beg = 0
    <3>1. level' = [beg |-> 2147483647, end |-> 2147483647]
      BY <2>1, <2>2, <2>4 DEF LevelAbove, Parent, HalfOfWrapped
    <3>2. Ended'
      BY <1>1, <2>1, <3>1 DEF Ended, LevelInTree
    <3>3. visited' = Inner
      BY <1>1, <2>3, <2>4 DEF Inner
    <3> QED
      BY <2>1, <3>1, <3>2, <3>3 DEF IInv
  <2>5. CASE level.beg # 0
    <3>1. level.beg % 2 = 1 /\ (level.beg - 1) \div 2 \in LevelStarts
      BY <2>2, <2>5, StartsAbove
    <3>2. level' = [beg |-> (level.beg - 1) \div 2, end |-> (level.end - 2) \div 2]
      BY <1>2, <2>1, <2>2, <2>5 DEF LevelAbove, Parent
    <3>3. PICK b \in Nat : level.beg = 2 * b + 1 /\ b = (level.beg - 1) \div 2
      BY <1>2, <2>5, <3>1
    <3>4. level'.beg = b /\ level'.end = 2 * b /\ level.beg = level'.end + 1
      BY <2>2, <3>2, <3>3
    <3>5. level' \in [beg : Nat, end : Nat]
      BY <3>2, <3>3, <3>4
    <3>6. IsLevel'
      BY <1>1, <2>1, <2>2, <3>1, <3>3, <3>4 DEF IsLevel, LevelInTree
    <3>7. visited' = {u \in Inner : u > level'.end}
      <4>1. \A u \in Inner : u >= level.beg <=> u > level'.end
        BY <1>1, <1>2, <3>3, <3>4 DEF Inner
      <4> QED
        BY <2>3, <4>1
    <3>8. ~Ended'
      BY <3>6 DEF Ended, IsLevel
    <3> QED
      BY <2>1, <3>5, <3>6, <3>7, <3>8 DEF IInv
  <2> QED
    BY <2>4, <2>5
<1>6. CASE UNCHANGED vars
  BY <1>6 DEF vars, IInv, IsLevel, Ended, Inner
<1> QED
  BY <1>3, <1>4, <1>5, <1>6 DEF Next

LEMMA InductiveAlways == Spec => []IInv
BY InductiveInit, InductiveStep, PTL DEF Spec

\* No kernel of the forests works on a node before its children, or on one twice,
\* for trees of every number of chunks whose wrapped index is no node.
THEOREM ChildrenAlwaysFirst == Spec => []ChildrenFirst
<1>1. IInv => ChildrenFirst
  <2> SUFFICES ASSUME IInv, ascending, ~Ended, NEW u \in InnerNodes(level, num_chunks)
               PROVE  u \notin visited /\ {Left(u), Right(u)} \cap Inner \subseteq visited
    BY DEF ChildrenFirst
  <2>1. /\ level.beg \in Nat /\ level.end = 2 * level.beg
        /\ visited = {v \in Inner : v > level.end}
    BY DEF IInv, IsLevel
  <2>2. u \in Nat /\ level.beg <= u /\ u <= level.end
    BY <2>1 DEF InnerNodes
  <2>3. 2 * u + 1 > level.end /\ 2 * u + 2 > level.end /\ ~(u > level.end)
    BY <2>1, <2>2
  <2> QED
    BY <2>1, <2>3 DEF Left, Right
<1> QED
  BY <1>1, InductiveAlways, PTL

\* The loop over the levels leaves out no inner node.
THEOREM AllAlwaysVisited == Spec => []AllVisited
<1>1. IInv => AllVisited
  BY DEF IInv, AllVisited
<1> QED
  BY <1>1, InductiveAlways, PTL

-----------------------------------------------------------------------------
(* The index functions *)

\* The nodes above node u, and u, are those it is below.
LEMMA AncestorsBelow ==
  ASSUME NEW u \in Nat
  PROVE  Ancestors(u) = {w \in Nat : u \in Below(w)}
<1> DEFINE IsUp(f) == f = [v \in Nat |-> IF v = 0 THEN {0} ELSE {v} \cup f[(v - 1) \div 2]]
           up == CHOOSE f : IsUp(f)
           Over(v) == {w \in Nat : v \in Below(w)}
           U == [v \in Nat |-> Over(v)]
<1>1. Ancestors(u) = up[u]
  BY DEF Ancestors
<1>2. Over(0) = {0}
  <2>1. \A w \in Nat : 0 \in Below(w) => w = 0
    BY BelowAbove
  <2> QED
    BY <2>1, BelowChildren
<1>3. ASSUME NEW v \in Nat, v # 0
      PROVE  (v - 1) \div 2 \in Nat /\ (v - 1) \div 2 < v /\ Over(v) = {v} \cup Over((v - 1) \div 2)
  <2>1. Above(v) \in Nat /\ Above(v) = (v - 1) \div 2 /\ Above(v) < v
    BY <1>3 DEF Above
  <2>2. v = Left(Above(v)) \/ v = Right(Above(v))
    BY <1>3, ChildrenAbove
  <2> HIDE DEF Above
  <2>3. ASSUME NEW w \in Nat PROVE v \in Below(w) <=> w = v \/ Above(v) \in Below(w)
    <3>1. v \in Below(w) /\ w # v => Above(v) \in Below(w)
      BY BelowAbove
    <3>2. Above(v) \in Below(w) => v \in Below(w)
      BY <2>2, BelowChildren DEF ChildClosed
    <3> QED
      BY <3>1, <3>2, BelowChildren
  <2>4. Over(v) = {v} \cup Over(Above(v))
    BY <2>3
  <2> HIDE DEF Over
  <2> QED
    BY <2>1, <2>4
<1> HIDE DEF Over
<1>4. IsUp(U)
  <2>1. \A v \in Nat : Over(v) = IF v = 0 THEN {0} ELSE {v} \cup U[(v - 1) \div 2]
    BY <1>2, <1>3
  <2> QED
    BY <2>1
<1>5. IsUp(up)
  <2> HIDE DEF IsUp, U
  <2> QED
    BY <1>4
<1>6. /\ up[0] = {0}
      /\ \A v \in Nat : v # 0 => up[v] = {v} \cup up[(v - 1) \div 2]
  <2> HIDE DEF up
  <2> QED
    BY <1>5
<1> HIDE DEF up
<1> DEFINE Bad == {v \in Nat : up[v] # Over(v)}
<1>7. Bad = {}
  <2> SUFFICES ASSUME Bad # {} PROVE FALSE
    OBVIOUS
  <2>1. Bad \in SUBSET Nat
    OBVIOUS
  <2>2. PICK v \in Bad : \A w \in Bad : v <= w
    <3> HIDE DEF Bad
    <3> QED
      BY <2>1, LeastElement
  <2>3. v \in Nat /\ v # 0 /\ up[v] # Over(v)
    BY <1>2, <1>6, <2>2
  <2>4. PICK w \in Nat : w = (v - 1) \div 2 /\ w < v /\ Over(v) = {v} \cup Over(w)
    BY <1>3, <2>3
  <2>5. up[w] # Over(w)
    BY <1>6, <2>3, <2>4
  <2>6. w \in Bad
    BY <2>4, <2>5
  <2> HIDE DEF Bad
  <2> QED
    BY <2>2, <2>3, <2>4, <2>6
<1> QED
  BY <1>1, <1>7 DEF Over

\* How deep a node is, from the node above it.
LEMMA DepthAbove ==
  /\ Depth(0) = 0
  /\ \A v \in Nat : v # 0 => Depth(v) = 1 + Depth((v - 1) \div 2)
  /\ \A v \in Nat : Depth(v) \in Nat
<1> DEFINE IsDepth(f) == f = [v \in Nat |-> IF v = 0 THEN 0 ELSE 1 + f[(v - 1) \div 2]]
           d == CHOOSE f : IsDepth(f)
           D == [v \in Nat |-> Cardinality(Ancestors(v)) - 1]
<1>1. \A v : Depth(v) = d[v]
  BY DEF Depth
<1>2. /\ Ancestors(0) = {0}
      /\ \A v \in Nat : v # 0 =>
           /\ (v - 1) \div 2 \in Nat /\ (v - 1) \div 2 < v
           /\ Ancestors(v) = {v} \cup Ancestors((v - 1) \div 2)
           /\ v \notin Ancestors((v - 1) \div 2)
  <2>1. \A w \in Nat : 0 \in Below(w) <=> w = 0
    BY BelowAbove, BelowChildren
  <2>2. ASSUME NEW v \in Nat, v # 0
        PROVE  /\ (v - 1) \div 2 \in Nat /\ (v - 1) \div 2 < v
               /\ Ancestors(v) = {v} \cup Ancestors((v - 1) \div 2)
               /\ v \notin Ancestors((v - 1) \div 2)
    <3>1. PICK a \in Nat : a = (v - 1) \div 2 /\ a = Above(v) /\ a < v
                           /\ (v = Left(a) \/ v = Right(a))
      <4>1. Above(v) \in Nat /\ Above(v) = (v - 1) \div 2 /\ Above(v) < v
        BY <2>2 DEF Above
      <4>2. v = Left(Above(v)) \/ v = Right(Above(v))
        BY <2>2, ChildrenAbove
      <4> QED
        BY <4>1, <4>2
    <3>2. \A w \in Nat : v \in Below(w) <=> w = v \/ a \in Below(w)
      <4> SUFFICES ASSUME NEW w \in Nat PROVE v \in Below(w) <=> w = v \/ a \in Below(w)
        OBVIOUS
      <4>1. v \in Below(w) /\ w # v => a \in Below(w)
        BY <3>1, BelowAbove
      <4>2. a \in Below(w) => v \in Below(w)
        BY <3>1, BelowChildren DEF ChildClosed
      <4> QED
        BY <4>1, <4>2, BelowChildren
    <3>3. a \notin Below(v)
      <4>1. a \in Below(v) => a = v \/ a > v
        BY BelowAbove
      <4> QED
        BY <3>1, <4>1
    <3>4. Ancestors(v) = {w \in Nat : v \in Below(w)} /\ Ancestors(a) = {w \in Nat : a \in Below(w)}
      BY AncestorsBelow
    <3>5. Ancestors(v) = {v} \cup Ancestors(a) /\ v \notin Ancestors(a)
      BY <3>2, <3>3, <3>4
    <3> QED
      BY <3>1, <3>5
  <2> QED
    BY <2>1, <2>2, AncestorsBelow
<1>3. \A v \in Nat : Cardinality(Ancestors(v)) \in Nat /\ IsFiniteSet(Ancestors(v))
  <2> DEFINE Bad == {v \in Nat : ~IsFiniteSet(Ancestors(v))}
  <2>1. Bad = {}
    <3> SUFFICES ASSUME Bad # {} PROVE FALSE
      OBVIOUS
    <3>1. Bad \in SUBSET Nat
      OBVIOUS
    <3>2. PICK v \in Bad : \A w \in Bad : v <= w
      <4> HIDE DEF Bad
      <4> QED
        BY <3>1, LeastElement
    <3>3. v # 0
      <4>1. IsFiniteSet(Ancestors(0))
        <5>1. IsFiniteSet({0})
          BY FS_Singleton
        <5>2. Ancestors(0) = {0}
          BY <1>2
        <5> QED
          BY <5>1, <5>2
      <4>2. ~IsFiniteSet(Ancestors(v))
        BY <3>2
      <4> QED
        BY <4>1, <4>2
    <3>4. PICK a \in Nat : a = (v - 1) \div 2 /\ a < v /\ Ancestors(v) = Ancestors(a) \cup {v}
      BY <1>2, <3>1, <3>2, <3>3
    <3>5. ~IsFiniteSet(Ancestors(a))
      BY <3>2, <3>4, FS_AddElement
    <3>6. a \in Bad /\ v \in Nat
      BY <3>1, <3>2, <3>4, <3>5
    <3> HIDE DEF Bad
    <3> QED
      BY <3>2, <3>4, <3>6
  <2> QED
    BY <2>1, FS_CardinalityType
<1>4. IsDepth(D)
  <2>1. D[0] = 0
    BY <1>2, FS_Singleton
  <2>2. ASSUME NEW v \in Nat, v # 0
        PROVE  (v - 1) \div 2 \in Nat /\ D[v] = 1 + D[(v - 1) \div 2]
    <3>1. PICK a \in Nat : /\ a = (v - 1) \div 2 /\ Ancestors(v) = Ancestors(a) \cup {v}
                           /\ v \notin Ancestors(a)
      BY <1>2, <2>2
    <3>2. Cardinality(Ancestors(v)) = Cardinality(Ancestors(a)) + 1
      BY <1>3, <3>1, FS_AddElement
    <3>3. Cardinality(Ancestors(a)) \in Nat
      BY <1>3
    <3>4. D[v] = 1 + D[a]
      BY <3>2, <3>3
    <3> HIDE DEF D
    <3> QED
      BY <3>1, <3>4
  <2>3. D = [v \in Nat |-> D[v]]
    OBVIOUS
  <2>4. \A v \in Nat : D[v] = IF v = 0 THEN 0 ELSE 1 + D[(v - 1) \div 2]
    <3> HIDE DEF D
    <3> QED
      BY <2>1, <2>2
  <2> HIDE DEF D
  <2>5. [v \in Nat |-> D[v]] = [v \in Nat |-> IF v = 0 THEN 0 ELSE 1 + D[(v - 1) \div 2]]
    BY <2>4
  <2> QED
    BY <2>3, <2>5
<1>5. IsDepth(d)
  <2> HIDE DEF IsDepth, D
  <2> QED
    BY <1>4
<1>6. d[0] = 0 /\ \A v \in Nat : v # 0 => d[v] = 1 + d[(v - 1) \div 2]
  <2> HIDE DEF d
  <2> QED
    BY <1>5
<1> HIDE DEF d, D
<1>7. \A v \in Nat : d[v] \in Nat
  <2> DEFINE Bad == {v \in Nat : d[v] \notin Nat}
  <2>1. SUFFICES ASSUME Bad # {} PROVE FALSE
    OBVIOUS
  <2>2. PICK v \in Bad : \A w \in Bad : v <= w
    <3>1. Bad \in SUBSET Nat
      OBVIOUS
    <3> HIDE DEF Bad
    <3> QED
      BY <2>1, <3>1, LeastElement
  <2>3. v \in Nat /\ v # 0 /\ d[v] \notin Nat
    BY <1>6, <2>2
  <2>4. PICK a \in Nat : a = (v - 1) \div 2 /\ a < v /\ d[v] = 1 + d[a]
    BY <1>2, <1>6, <2>3
  <2>5. d[a] \notin Nat
    BY <2>3, <2>4
  <2>6. a \in Bad
    BY <2>4, <2>5
  <2> HIDE DEF Bad
  <2> QED
    BY <2>2, <2>3, <2>4, <2>6
<1> QED
  BY <1>1, <1>6, <1>7

\* The nodes of a level are equally deep.
LEMMA DepthLevel ==
  ASSUME NEW s \in LevelStarts, NEW u \in s .. 2 * s
  PROVE  Depth(u) = Depth(s)
<1> DEFINE Bad == {b \in Nat : b \in LevelStarts /\ \E v \in b .. 2 * b : Depth(v) # Depth(b)}
<1>1. SUFFICES Bad = {}
  BY StartsAbove
<1>2. SUFFICES ASSUME Bad # {} PROVE FALSE
  OBVIOUS
<1>3. PICK b \in Bad : \A c \in Bad : b <= c
  <2>1. Bad \in SUBSET Nat
    OBVIOUS
  <2> HIDE DEF Bad
  <2> QED
    BY <1>2, <2>1, LeastElement
<1>4. PICK v \in b .. 2 * b : Depth(v) # Depth(b)
  BY <1>3
<1>5. b \in LevelStarts /\ b \in Nat /\ b # 0 /\ v \in Nat /\ b <= v /\ v <= 2 * b
  BY <1>3, <1>4
<1>6. PICK c \in Nat : b = 2 * c + 1 /\ c = (b - 1) \div 2 /\ c \in LevelStarts
  BY <1>5, StartsAbove
<1>7. PICK a \in Nat : a = (v - 1) \div 2 /\ c <= a /\ a <= 2 * c
  <2>1. PICK a \in Nat : a = (v - 1) \div 2 /\ (v = 2 * a + 1 \/ v = 2 * a + 2)
    BY <1>5
  <2> QED
    BY <1>5, <1>6, <2>1
<1>8. Depth(v) = 1 + Depth(a) /\ Depth(b) = 1 + Depth(c)
  BY <1>5, <1>6, <1>7, DepthAbove
<1>9. Depth(a) # Depth(c)
  BY <1>4, <1>8
<1>10. c \in Bad /\ c < b
  BY <1>6, <1>7, <1>9
<1> HIDE DEF Bad
<1> QED
  BY <1>3, <1>5, <1>6, <1>10

\* Those of a level further down are deeper.
LEMMA DepthsApart ==
  ASSUME NEW s \in LevelStarts, NEW t \in LevelStarts, s < t
  PROVE  Depth(s) < Depth(t)
<1> DEFINE Bad == {b \in Nat : b \in LevelStarts /\
                               \E c \in LevelStarts : c < b /\ ~(Depth(c) < Depth(b))}
<1>1. SUFFICES Bad = {}
  BY StartsAbove
<1>2. SUFFICES ASSUME Bad # {} PROVE FALSE
  OBVIOUS
<1>3. PICK b \in Bad : \A c \in Bad : b <= c
  <2>1. Bad \in SUBSET Nat
    OBVIOUS
  <2> HIDE DEF Bad
  <2> QED
    BY <1>2, <2>1, LeastElement
<1>4. PICK c \in LevelStarts : c < b /\ ~(Depth(c) < Depth(b))
  BY <1>3
<1>5. b \in LevelStarts /\ b \in Nat /\ c \in Nat
  BY <1>3, <1>4, StartsAbove
<1>6. b # 0
  BY <1>4, <1>5
<1>7. PICK a \in Nat : b = 2 * a + 1 /\ a = (b - 1) \div 2 /\ a \in LevelStarts
  BY <1>5, <1>6, StartsAbove
<1>8. Depth(b) = 1 + Depth(a) /\ Depth(a) \in Nat /\ Depth(c) \in Nat
  BY <1>5, <1>6, <1>7, DepthAbove
<1>9. c < a
  <2>1. ~(a < c)
    <3>1. a < c => c >= 2 * a + 1
      BY <1>4, <1>7, LevelsApart
    <3> QED
      BY <1>4, <1>5, <1>7, <3>1
  <2>2. c # a
    BY <1>4, <1>8
  <2> QED
    BY <1>5, <1>7, <2>1, <2>2
<1>10. ~(Depth(c) < Depth(a))
  BY <1>4, <1>8
<1>11. a \in Bad /\ a < b
  BY <1>4, <1>7, <1>9, <1>10
<1> HIDE DEF Bad
<1> QED
  BY <1>3, <1>5, <1>7, <1>11

\* So that leaves that are equally deep are on one level.
LEMMA LevelOne ==
  ASSUME num_chunks \in Nat, num_chunks > 0, NEW u \in Nat, Level(u)
  PROVE  OnOneLevel(u, num_chunks)
<1> SUFFICES ASSUME NEW s \in LevelStarts,
                    NEW l \in Leaves(num_chunks) \cap Below(u),
                    NEW m \in Leaves(num_chunks) \cap Below(u), s <= l, l <= 2 * s
             PROVE  s <= m /\ m <= 2 * s
  BY DEF OnOneLevel
<1>1. s \in Nat /\ l \in Nat /\ m \in Nat
  BY StartsAbove, BelowChildren
<1>2. l \in LeavesUnder(u) /\ m \in LeavesUnder(u)
  <2>1. u \in Ancestors(l) /\ u \in Ancestors(m)
    BY <1>1, AncestorsBelow
  <2> QED
    BY <2>1 DEF LeavesUnder
<1>3. Depth(l) = Depth(m)
  BY <1>2 DEF Level
<1>4. PICK t \in LevelStarts : t \in Nat /\ t <= m /\ m <= 2 * t
  BY <1>1, LevelOf
<1>5. Depth(l) = Depth(s) /\ Depth(m) = Depth(t)
  <2>1. l \in s .. 2 * s /\ m \in t .. 2 * t
    BY <1>1, <1>4
  <2> QED
    BY <2>1, DepthLevel
<1>6. Depth(s) \in Nat /\ Depth(t) \in Nat
  BY <1>1, <1>4, DepthAbove
<1>7. ~(s < t) /\ ~(t < s)
  <2>1. Depth(s) = Depth(t)
    BY <1>3, <1>5
  <2>2. ~(Depth(s) < Depth(t)) /\ ~(Depth(t) < Depth(s))
    BY <1>6, <2>1
  <2>3. s < t => Depth(s) < Depth(t)
    BY <1>4, DepthsApart
  <2>4. t < s => Depth(t) < Depth(s)
    BY <1>4, DepthsApart
  <2> QED
    BY <2>2, <2>3, <2>4
<1>8. s = t
  BY <1>1, <1>4, <1>7
<1> QED
  BY <1>4, <1>8

\* Whatever the number of chunks, a region holds only leaves under its node, and
\* all of them when they are equally deep; a restart then enters the nodes under
\* it, all and only.
THEOREM RegionsAlwaysExact == Spec => []RegionsExact
<1>1. IInv => RegionsExact
  <2> SUFFICES ASSUME IInv, NEW u \in 0 .. NumNodes(num_chunks) - 1
               PROVE  /\ Region(u) \subseteq LeavesUnder(u)
                      /\ num_leaf_descendents(u, NumNodes(num_chunks)) \in 1 .. num_chunks
                      /\ Level(u) =>
                           /\ Region(u) = LeavesUnder(u)
                           /\ RegionNodes(u, NumNodes(num_chunks)) =
                                {v \in 0 .. NumNodes(num_chunks) - 1 : u \in Ancestors(v)}
    BY DEF RegionsExact
  <2>1. num_chunks \in Nat /\ num_chunks > 0 /\ u \in Nat
    BY BoundAssumption DEF IInv, NumNodes
  <2>2. \A v \in Nat : u \in Ancestors(v) <=> v \in Below(u)
    BY <2>1, AncestorsBelow
  <2>3. LeavesUnder(u) = Leaves(num_chunks) \cap Below(u)
    <3>1. Leaves(num_chunks) \subseteq Nat
      BY <2>1 DEF Leaves, NumNodes
    <3> QED
      BY <2>2, <3>1 DEF LeavesUnder
  <2>4. {v \in 0 .. NumNodes(num_chunks) - 1 : u \in Ancestors(v)} =
          Below(u) \cap 0 .. NumNodes(num_chunks) - 1
    <3>1. 0 .. NumNodes(num_chunks) - 1 \subseteq Nat
      BY <2>1 DEF NumNodes
    <3> QED
      BY <2>2, <3>1
  <2>5. PICK a \in Nat, b \in Nat :
          /\ a = leftmost_leaf(u, NumNodes(num_chunks))
          /\ b = rightmost_leaf(u, NumNodes(num_chunks))
          /\ num_chunks - 1 <= a /\ a <= b /\ b < NumNodes(num_chunks)
          /\ a .. b \subseteq Below(u)
    BY <2>1, RegionBelow
  <2>6. Region(u) = a .. b
    BY <2>5 DEF Region
  <2>7. a .. b \subseteq Leaves(num_chunks)
    BY <2>1, <2>5 DEF Leaves, NumNodes
  <2>8. num_leaf_descendents(u, NumNodes(num_chunks)) \in 1 .. num_chunks
    <3>1. b - a + 1 \in 1 .. num_chunks
      BY <2>1, <2>5 DEF NumNodes
    <3> QED
      BY <2>5, <3>1 DEF num_leaf_descendents
  <2>9. ASSUME Level(u)
        PROVE  /\ Region(u) = LeavesUnder(u)
               /\ RegionNodes(u, NumNodes(num_chunks)) =
                    {v \in 0 .. NumNodes(num_chunks) - 1 : u \in Ancestors(v)}
    <3>1. OnOneLevel(u, num_chunks)
      BY <2>1, <2>9, LevelOne
    <3>2. Region(u) = LeavesUnder(u)
      BY <2>1, <2>3, <3>1, LeavesWhole DEF Region
    <3>3. RegionNodes(u, NumNodes(num_chunks)) = Below(u) \cap 0 .. NumNodes(num_chunks) - 1
      BY <2>1, <3>1, NodesWhole
    <3> QED
      BY <2>4, <3>2, <3>3
  <2> QED
    BY <2>3, <2>5, <2>6, <2>7, <2>8, <2>9
<1> QED
  BY <1>1, InductiveAlways, PTL
=============================================================================
