-------------------------- MODULE TreeDedup_proofs --------------------------
(***************************************************************************)
(* Proofs about the Tree deduplicator, for regions of every number of      *)
(* chunks below 2^30, every set of contents and any number of checkpoints, *)
(* with the teams of the leaf kernel in any order and whatever writes fail.*)
(*                                                                         *)
(* First what holds of every state by the order of the kernels (Coherent), *)
(* then what the digests stand for (Exact): the map of first occurrences   *)
(* names, for every digest, a node that had it when the checkpoint was     *)
(* taken, and nodes with one digest have regions of one shape and content. *)
(*                                                                         *)
(* Last that a restart gives back what the checkpoint was taken of         *)
(* (Restorable): what a diff leaves out is unchanged, and the node list of *)
(* a restart leads every chunk to where it was saved.  This supposes that  *)
(* all leaves are on one level, that there is more than one, and what      *)
(* RestartExactWithoutReturn says: no part of the chain returns to an      *)
(* earlier checkpoint.                                                     *)
(***************************************************************************)
EXTENDS TreeInvariants, MerkleTree_proofs, FiniteSetTheorems, SequenceTheorems

-----------------------------------------------------------------------------
(* The nodes and the levels *)

LEMMA TreeShape ==
  /\ NumChunks \in Nat /\ NumChunks > 0
  /\ Size = 2 * NumChunks - 1 /\ Size \in Nat /\ Size > 0 /\ Size < HalfOfWrapped
  /\ Nodes \subseteq Nat /\ Nodes = Inner \cup LeafNodes /\ Inner \cap LeafNodes = {}
  /\ \A u \in Inner : /\ Left(u) \in Nodes /\ Right(u) \in Nodes
                      /\ Left(u) > u /\ Right(u) > u /\ Left(u) # Right(u)
  /\ 0 \in Nodes
BY SizeAssumption DEF Size, Nodes, NumNodes, Inner, LeafNodes, Leaves, Left, Right

LEMMA NodesFinite ==
  /\ IsFiniteSet(Nodes) /\ Cardinality(Nodes) = Size
  /\ IsFiniteSet(Inner) /\ IsFiniteSet(LeafNodes) /\ Cardinality(LeafNodes) = NumChunks
<1>1. IsFiniteSet(Nodes) /\ Cardinality(Nodes) = Size
  <2>1. Size - 1 \in Int /\ ~(0 > Size - 1) /\ Size - 1 - 0 + 1 = Size
    BY TreeShape
  <2>2. IsFiniteSet(0 .. Size - 1) /\ Cardinality(0 .. Size - 1) = Size - 1 - 0 + 1
    BY <2>1, FS_Interval
  <2> QED
    BY <2>1, <2>2 DEF Nodes
<1>2. IsFiniteSet(Inner)
  BY <1>1, TreeShape, FS_Subset
<1>3. IsFiniteSet(LeafNodes) /\ Cardinality(LeafNodes) = NumChunks
  <2> DEFINE a == NumChunks - 1
             b == 2 * NumChunks - 2
  <2>1. a \in Int /\ b \in Int /\ ~(a > b) /\ b - a + 1 = NumChunks
    BY TreeShape
  <2>2. LeafNodes = a .. b
    BY TreeShape DEF LeafNodes, Leaves, NumNodes
  <2> HIDE DEF a, b
  <2>3. IsFiniteSet(a .. b) /\ Cardinality(a .. b) = b - a + 1
    BY <2>1, FS_Interval
  <2> QED
    BY <2>1, <2>2, <2>3
<1> QED
  BY <1>1, <1>2, <1>3

\* The level under way is one of the tree's.
IsLevel ==
  level.beg \in LevelStarts /\ level = [beg |-> level.beg, end |-> 2 * level.beg]

LevelTrue ==
  /\ pc \in {"first", "forest", "insert"} => (LevelInTree(level, Size) => IsLevel)
  /\ pc = "insert" => LevelInTree(level, Size)
  /\ pc = "collect" => ~LevelInTree(level, Size)

\* The deepest level is one, and nothing is below it.
LEMMA LevelBottom ==
  ASSUME level' = BottomLevel(Size)
  PROVE  IsLevel' /\ Visited' = {}
<1>1. PICK b \in LevelStarts :
        BottomLevel(Size) = [beg |-> b, end |-> 2 * b] /\ b <= Size /\ Size <= 2 * b
  BY TreeShape, BottomIsLevel
<1>2. level'.beg = b /\ level'.end = 2 * b /\ b \in Nat
  BY <1>1, StartsAbove
<1>3. IsLevel'
  BY <1>1, <1>2 DEF IsLevel
<1>4. LevelInTree(level', Size)
  BY <1>1, <1>2 DEF LevelInTree
<1>5. \A u \in Inner : ~(u > level'.end)
  BY <1>1, <1>2, TreeShape DEF Inner
<1>6. Visited' = {}
  BY <1>4, <1>5 DEF Visited, Size
<1> QED
  BY <1>3, <1>6

\* Above a level is the rest of the tree.
LEMMA LevelNodes ==
  ASSUME IsLevel, LevelInTree(level, Size)
  PROVE  LET inner == InnerNodes(level, NumChunks)
         IN  /\ inner \subseteq Inner /\ inner \cap Visited = {}
             /\ \A u \in inner : {Left(u), Right(u)} \subseteq LeafNodes \cup Visited
             /\ \A u \in Visited : {Left(u), Right(u)} \subseteq LeafNodes \cup Visited
             /\ \A u \in Inner \ (inner \cup Visited) :
                  {Left(u), Right(u)} \cap Visited = {}
<1>1. level.beg \in Nat /\ level.end = 2 * level.beg
  BY StartsAbove DEF IsLevel
<1>2. Visited = {u \in Inner : u > level.end}
  BY DEF Visited
<1>3. InnerNodes(level, NumChunks) = {u \in Inner : level.beg <= u /\ u <= level.end}
  BY <1>1, TreeShape DEF InnerNodes, Inner
<1>4. \A u \in Inner : u \in Nat /\ Left(u) = 2 * u + 1 /\ Right(u) = 2 * u + 2
  BY TreeShape DEF Left, Right
<1>5. ASSUME NEW u \in Inner, u >= level.beg
      PROVE  {Left(u), Right(u)} \subseteq LeafNodes \cup Visited
  BY <1>1, <1>2, <1>4, <1>5, TreeShape
<1>6. ASSUME NEW u \in Inner, u < level.beg
      PROVE  {Left(u), Right(u)} \cap Visited = {}
  BY <1>1, <1>2, <1>4, <1>6
<1>7. \A u \in Inner : u \notin InnerNodes(level, NumChunks) \cup Visited => u < level.beg
  BY <1>1, <1>2, <1>3, <1>4
<1>8. \A u \in InnerNodes(level, NumChunks) \cup Visited : u \in Inner /\ u >= level.beg
  BY <1>1, <1>2, <1>3, <1>4
<1>9. InnerNodes(level, NumChunks) \cap Visited = {}
  BY <1>1, <1>2, <1>3, <1>4
<1> QED
  BY <1>5, <1>6, <1>7, <1>8, <1>9

\* The step to the level above leaves the level behind.
LEMMA LevelStep ==
  ASSUME IsLevel, LevelInTree(level, Size), level' = LevelAbove(level)
  PROVE  /\ LevelInTree(level', Size) => IsLevel'
         /\ Visited' = Visited \cup InnerNodes(level, NumChunks)
<1>1. level.beg \in Nat /\ level.end = 2 * level.beg /\ level.beg <= Size
  BY StartsAbove DEF IsLevel, LevelInTree
<1>2. Visited \cup InnerNodes(level, NumChunks) = {u \in Inner : u >= level.beg}
  BY <1>1, TreeShape DEF Visited, InnerNodes, Inner
<1>3. \/ level.beg = 0 /\ ~LevelInTree(LevelAbove(level), Size)
      \/ \E a \in LevelStarts :
           /\ LevelAbove(level) = [beg |-> a, end |-> 2 * a]
           /\ level.beg = 2 * a + 1
           /\ LevelInTree(LevelAbove(level), Size)
  BY <1>1, TreeShape, LevelUp DEF IsLevel
<1>4. CASE level.beg = 0 /\ ~LevelInTree(LevelAbove(level), Size)
  <2>1. Visited' = Inner
    BY <1>4 DEF Visited
  <2>2. \A u \in Inner : u >= level.beg
    BY <1>4 DEF Inner
  <2> QED
    BY <1>2, <1>4, <2>1, <2>2
<1>5. ASSUME NEW a \in LevelStarts, LevelAbove(level) = [beg |-> a, end |-> 2 * a],
             level.beg = 2 * a + 1, LevelInTree(LevelAbove(level), Size)
      PROVE  IsLevel' /\ Visited' = Visited \cup InnerNodes(level, NumChunks)
  <2>1. a \in Nat /\ level'.beg = a /\ level'.end = 2 * a
    BY <1>5, StartsAbove
  <2>2. IsLevel'
    BY <1>5, <2>1 DEF IsLevel
  <2>3. Visited' = {u \in Inner : u > 2 * a}
    BY <1>5, <2>1 DEF Visited
  <2>4. \A u \in Inner : u > 2 * a <=> u >= level.beg
    BY <1>5, <2>1 DEF Inner
  <2> QED
    BY <1>2, <2>2, <2>3, <2>4
<1> QED
  BY <1>3, <1>4, <1>5

-----------------------------------------------------------------------------
(* The steps *)

\* A step of a restart, or of the application, that leaves the object alone.
Aside ==
  /\ UNCHANGED <<dedupVars, todo, level>>
  /\ \/ pc' = pc
     \/ pc \notin Kernels /\ pc' \in {"idle", "regions", "repeats", "same", "load", "restarted"}

LEMMA Steps ==
  ASSUME [Next]_vars
  PROVE  \/ \E d \in Data, make_baseline \in BOOLEAN : Checkpoint(d, make_baseline)
         \/ \E leaf \in todo : DedupLeaf(leaf)
         \/ ChooseFirst
         \/ FirstForest
         \/ EndFirstForest
         \/ BuildForest
         \/ InsertEntries
         \/ EndBuildForest
         \/ FinishCheckpoint
         \/ FailToWrite
         \/ Aside
<1>1. CASE UNCHANGED vars
  BY <1>1 DEF vars, dedupVars, Aside
<1>2. ASSUME NEW k, RestartFromViews(k) \/ RestartFromFiles(k) PROVE Aside
  BY <1>2 DEF RestartFromViews, RestartFromFiles, OpenCheckpoint, Aside, Kernels, dedupVars
<1>3. ASSUME RestartRegions PROVE Aside
  BY <1>3 DEF RestartRegions, Aside, Kernels, dedupVars
<1>4. ASSUME RestartRepeats PROVE Aside
  BY <1>4 DEF RestartRepeats, Aside, Kernels, dedupVars
<1>5. ASSUME FillSame PROVE Aside
  BY <1>5 DEF FillSame, Aside, Kernels, dedupVars
<1>6. ASSUME RestartPrior PROVE Aside
  BY <1>6 DEF RestartPrior, Aside, Kernels, dedupVars
<1>7. ASSUME FinishRestart PROVE Aside
  BY <1>7 DEF FinishRestart, Aside, Kernels, dedupVars
<1>8. ASSUME Release PROVE Aside
  BY <1>8 DEF Release, Aside, Kernels, dedupVars
<1> QED
  BY <1>1, <1>2, <1>3, <1>4, <1>5, <1>6, <1>7, <1>8 DEF Next, Progress, Call

\* What Append does to a sequence.
LEMMA AppendTrue ==
  ASSUME NEW n \in Nat, NEW s, FcnOn(s, 1 .. n), NEW e
  PROVE  /\ FcnOn(Append(s, e), 1 .. n + 1) /\ Len(s) = n
         /\ \A i \in 1 .. n : Append(s, e)[i] = s[i]
         /\ Append(s, e)[n + 1] = e
<1> DEFINE S == {s[i] : i \in 1 .. n} \cup {e}
<1>1. s \in [1 .. n -> S] /\ e \in S
  BY DEF FcnOn
<1>2. s \in Seq(S) /\ Len(s) = n
  <2> HIDE DEF S
  <2>1. s \in Seq(S)
    BY <1>1
  <2>2. DOMAIN s = 1 .. n
    BY <1>1
  <2> QED
    BY <2>1, <2>2
<1>3. Append(s, e) \in [1 .. n + 1 -> S]
  <2> HIDE DEF S
  <2>1. Append(s, e) \in Seq(S) /\ Len(Append(s, e)) = n + 1
    BY <1>1, <1>2
  <2> QED
    BY <2>1, LenProperties
<1> HIDE DEF S
<1>4. FcnOn(Append(s, e), 1 .. n + 1)
  BY <1>3 DEF FcnOn
<1> QED
  BY <1>1, <1>2, <1>4

\* What entering the digests of nodes S does to the map.
LEMMA InsertedTrue ==
  ASSUME NEW map, FcnOn(map, DOMAIN map), NEW t, NEW S, NEW m \in Inserted(map, t, S)
  PROVE  /\ FcnOn(m, DOMAIN m)
         /\ DOMAIN map \subseteq DOMAIN m /\ \A u \in S : t[u] \in DOMAIN m
         /\ \A d \in DOMAIN map : m[d] = map[d]
         /\ \A d \in DOMAIN m \ DOMAIN map :
              \E u \in S : t[u] = d /\ m[d] = NodeID(u, current_id)
<1> DEFINE new == {t[u] : u \in S} \ DOMAIN map
<1>1. PICK w \in [new -> S] :
        /\ \A d \in new : t[w[d]] = d
        /\ m = [d \in DOMAIN map \cup new |->
                  IF d \in new THEN NodeID(w[d], current_id) ELSE map[d]]
  BY DEF Inserted
<1>2. DOMAIN m = DOMAIN map \cup new
  BY <1>1
<1>3. FcnOn(m, DOMAIN m)
  BY <1>1, <1>2 DEF FcnOn
<1>4. \A d \in DOMAIN map : m[d] = map[d]
  BY <1>1
<1>5. \A d \in new : w[d] \in S /\ m[d] = NodeID(w[d], current_id)
  BY <1>1
<1> QED
  BY <1>1, <1>2, <1>3, <1>4, <1>5

\* And it takes no more room than there are nodes whose digests are not there.
LEMMA InsertedRoom ==
  ASSUME NEW map, FcnOn(map, DOMAIN map), NEW t, NEW S, NEW m \in Inserted(map, t, S),
         IsFiniteSet(DOMAIN map), IsFiniteSet(S),
         NEW known \in SUBSET S, \A u \in known : t[u] \in DOMAIN map
  PROVE  /\ IsFiniteSet(DOMAIN m)
         /\ Cardinality(DOMAIN m) <= Cardinality(DOMAIN map) + Cardinality(S \ known)
<1> DEFINE new == DOMAIN m \ DOMAIN map
           from == {u \in S \ known : t[u] \in new}
           f == [u \in from |-> t[u]]
<1>1. /\ DOMAIN map \subseteq DOMAIN m
      /\ \A d \in DOMAIN m \ DOMAIN map : \E u \in S : t[u] = d
  BY InsertedTrue
<1>2. f \in Surjection(from, new)
  BY <1>1 DEF Surjection
<1>3. IsFiniteSet(S \ known) /\ IsFiniteSet(from) /\ Cardinality(from) <= Cardinality(S \ known)
  BY FS_Subset
<1>4. IsFiniteSet(new) /\ Cardinality(new) <= Cardinality(from)
  <2> HIDE DEF new, from, f
  <2> QED
    BY <1>2, <1>3, FS_Surjection
<1>5. DOMAIN map \cap new = {} /\ DOMAIN map \cup new = DOMAIN m
  BY <1>1
<1> HIDE DEF new, from, f
<1>6. /\ IsFiniteSet(DOMAIN m)
      /\ Cardinality(DOMAIN m) = Cardinality(DOMAIN map) + Cardinality(new) - Cardinality({})
  BY <1>4, <1>5, FS_Union
<1>7. /\ Cardinality(DOMAIN map) \in Nat /\ Cardinality(new) \in Nat /\ Cardinality(from) \in Nat
      /\ Cardinality(S \ known) \in Nat /\ Cardinality({}) = 0
  BY <1>3, <1>4, FS_CardinalityType, FS_EmptySet
<1> QED
  BY <1>3, <1>4, <1>6, <1>7

\* What the team of a leaf does.
LEMMA LeafStep ==
  ASSUME ObjectTrue, NEW leaf \in todo, DedupLeaf(leaf)
  PROVE  LET digest == LeafDigest(leaf)
         IN  /\ pc = "leaves" /\ pc' = pc /\ todo' = todo \ {leaf} /\ leaf \in Nodes
             /\ FcnOn(tree', Nodes) /\ tree'[leaf] = digest
             /\ \A u \in Nodes \ {leaf} : tree'[u] = tree[u] /\ labels'[u] = labels[u]
             /\ labels' \in [Nodes -> Kinds]
             /\ labels'[leaf] # "DONE"
             /\ labels'[leaf] = "FIXED_DUPL" => digest = tree[leaf]
             /\ labels'[leaf] = "FIRST_OCUR" =>
                  /\ digest # tree[leaf]
                  /\ (digest \in DOMAIN first_ocur => first_ocur[digest].tree = current_id)
             /\ labels'[leaf] = "SHIFT_DUPL" =>
                  digest \in DOMAIN first_ocur /\ first_ocur[digest].tree # current_id
             /\ FcnOn(first_ocur', DOMAIN first_ocur')
             /\ DOMAIN first_ocur' = DOMAIN first_ocur \cup {digest}
             /\ \A d \in DOMAIN first_ocur : d # digest => first_ocur'[d] = first_ocur[d]
             /\ digest \notin DOMAIN first_ocur => first_ocur'[digest] = NodeID(leaf, current_id)
             /\ digest \in DOMAIN first_ocur =>
                  \/ first_ocur'[digest] = first_ocur[digest]
                  \/ /\ digest # tree[leaf] /\ first_ocur[digest].tree = current_id
                     /\ \E n \in {first_ocur[digest].node, leaf} :
                          first_ocur'[digest] = NodeID(n, current_id)
<1> DEFINE digest == LeafDigest(leaf)
           seen == digest \in DOMAIN first_ocur
           seenNow == seen /\ first_ocur[digest].tree = current_id
           Recorded(node) == first_ocur' = [d \in DOMAIN first_ocur \cup {digest} |->
             IF d = digest THEN NodeID(node, current_id) ELSE first_ocur[d]]
<1>1. /\ pc = "leaves" /\ pc' = pc /\ todo' = todo \ {leaf}
      /\ tree' = [tree EXCEPT ![leaf] = digest]
      /\ IF seen
         THEN IF digest # tree[leaf] /\ seenNow
              THEN Recorded(LowerOf(first_ocur[digest].node, leaf))
              ELSE UNCHANGED first_ocur
         ELSE Recorded(leaf)
      /\ \/ digest = tree[leaf] /\ labels' = [labels EXCEPT ![leaf] = "FIXED_DUPL"]
         \/ /\ digest # tree[leaf] /\ (~seen \/ seenNow)
            /\ labels' = [labels EXCEPT ![leaf] = "FIRST_OCUR"]
         \/ /\ digest # tree[leaf] /\ seen /\ ~seenNow
            /\ labels' = [labels EXCEPT ![leaf] = "SHIFT_DUPL"]
  BY DEF DedupLeaf, LeafDigest
<1> HIDE DEF digest
<1>2. /\ leaf \in Nodes /\ FcnOn(tree, Nodes) /\ labels \in [Nodes -> Kinds]
      /\ FcnOn(first_ocur, DOMAIN first_ocur)
  BY <1>1, TreeShape DEF ObjectTrue, Kernels
<1>3. /\ FcnOn(tree', Nodes) /\ tree'[leaf] = digest
      /\ \A u \in Nodes \ {leaf} : tree'[u] = tree[u]
  BY <1>1, <1>2 DEF FcnOn
<1>4. /\ labels' \in [Nodes -> Kinds] /\ \A u \in Nodes \ {leaf} : labels'[u] = labels[u]
      /\ labels'[leaf] # "DONE"
      /\ labels'[leaf] = "FIXED_DUPL" => digest = tree[leaf]
      /\ labels'[leaf] = "FIRST_OCUR" => digest # tree[leaf] /\ (seen => seenNow)
      /\ labels'[leaf] = "SHIFT_DUPL" => seen /\ ~seenNow
  BY <1>1, <1>2 DEF Kinds
<1>5. ASSUME NEW node, Recorded(node)
      PROVE  /\ FcnOn(first_ocur', DOMAIN first_ocur')
             /\ DOMAIN first_ocur' = DOMAIN first_ocur \cup {digest}
             /\ \A d \in DOMAIN first_ocur : d # digest => first_ocur'[d] = first_ocur[d]
             /\ first_ocur'[digest] = NodeID(node, current_id)
  BY <1>5 DEF FcnOn
<1>6. LowerOf(first_ocur[digest].node, leaf) \in {first_ocur[digest].node, leaf}
  BY DEF LowerOf
<1> HIDE DEF Recorded
<1>7. /\ FcnOn(first_ocur', DOMAIN first_ocur')
      /\ DOMAIN first_ocur' = DOMAIN first_ocur \cup {digest}
      /\ \A d \in DOMAIN first_ocur : d # digest => first_ocur'[d] = first_ocur[d]
  <2>1. CASE UNCHANGED first_ocur /\ seen
    BY <1>2, <2>1
  <2>2. CASE Recorded(leaf) \/ Recorded(LowerOf(first_ocur[digest].node, leaf))
    BY <1>5, <2>2
  <2> QED
    BY <1>1, <2>1, <2>2
<1>8. digest \notin DOMAIN first_ocur => first_ocur'[digest] = NodeID(leaf, current_id)
  BY <1>1, <1>5
<1>9. digest \in DOMAIN first_ocur =>
        \/ first_ocur'[digest] = first_ocur[digest]
        \/ /\ digest # tree[leaf] /\ first_ocur[digest].tree = current_id
           /\ \E n \in {first_ocur[digest].node, leaf} :
                first_ocur'[digest] = NodeID(n, current_id)
  BY <1>1, <1>5, <1>6
<1> QED
  BY <1>1, <1>2, <1>3, <1>4, <1>7, <1>8, <1>9 DEF digest

-----------------------------------------------------------------------------
(* LevelTrue *)

LEMMA LevelInit == Init => LevelTrue
BY DEF Init, LevelTrue

LEMMA LevelTrueStep ==
  ASSUME LevelTrue, [Next]_vars
  PROVE  LevelTrue'
<1>1. CASE ChooseFirst \/ EndFirstForest
  <2>1. level' = BottomLevel(Size) /\ pc' \in {"first", "forest"}
    BY <1>1 DEF ChooseFirst, EndFirstForest
  <2>2. IsLevel'
    BY <2>1, LevelBottom
  <2> QED
    BY <2>1, <2>2 DEF LevelTrue
<1>2. CASE FirstForest \/ InsertEntries
  <2>1. /\ level' = LevelAbove(level) /\ pc' \in {"first", "forest"}
        /\ pc \in {"first", "insert"} /\ LevelInTree(level, Size)
    BY <1>2 DEF FirstForest, InsertEntries, LevelTrue
  <2>2. LevelInTree(level', Size) => IsLevel'
    BY <2>1, LevelStep DEF LevelTrue
  <2> QED
    BY <2>1, <2>2 DEF LevelTrue, Size
<1>3. CASE BuildForest
  <2>1. LevelInTree(level, Size) /\ IsLevel
    BY <1>3 DEF BuildForest, LevelTrue
  <2>2. CASE baseline
    BY <1>3, <2>1, <2>2 DEF BuildForest, LevelTrue, IsLevel
  <2>3. CASE ~baseline
    <3>1. level' = LevelAbove(level) /\ pc' = "forest"
      BY <1>3, <2>3 DEF BuildForest
    <3>2. LevelInTree(level', Size) => IsLevel'
      BY <2>1, <3>1, LevelStep
    <3> QED
      BY <3>1, <3>2 DEF LevelTrue, Size
  <2> QED
    BY <2>2, <2>3
<1>4. CASE EndBuildForest
  BY <1>4 DEF EndBuildForest, LevelTrue
<1>5. ASSUME NEW d \in Data, NEW make_baseline \in BOOLEAN, Checkpoint(d, make_baseline)
      PROVE  LevelTrue'
  BY <1>5 DEF Checkpoint, LevelTrue
<1>6. ASSUME NEW leaf \in todo, DedupLeaf(leaf) PROVE LevelTrue'
  BY <1>6 DEF DedupLeaf, LevelTrue
<1>7. CASE FinishCheckpoint \/ FailToWrite
  BY <1>7 DEF FinishCheckpoint, FailToWrite, LevelTrue
<1>8. CASE Aside
  BY <1>8 DEF Aside, LevelTrue, IsLevel, Kernels
<1> QED
  BY <1>1, <1>2, <1>3, <1>4, <1>5, <1>6, <1>7, <1>8, Steps

-----------------------------------------------------------------------------
(* ObjectTrue *)

LEMMA ObjectInit == Init => ObjectTrue
<1> SUFFICES ASSUME Init PROVE ObjectTrue
  OBVIOUS
<1>1. incr_chkpts = <<>> /\ history = <<>> /\ current_id = 0 /\ baseline_id = 0
  BY DEF Init
<1>2. FcnOn(incr_chkpts, 1 .. current_id) /\ FcnOn(history, 1 .. current_id)
  BY <1>1 DEF FcnOn
<1>3. FcnOn(first_ocur, DOMAIN first_ocur) /\ DOMAIN first_ocur = {}
  BY DEF FcnOn, Init
<1>4. current_id \in Nat /\ baseline_id \in 0 .. current_id /\ ~(current_id > 0)
  BY <1>1
<1>5. pc = "idle" /\ todo = {} /\ baseline \in BOOLEAN
  BY DEF Init
<1> QED
  BY <1>2, <1>3, <1>4, <1>5 DEF ObjectTrue, Kernels

\* The map's entries stay of nodes of the chain when digests are entered.
LEMMA EntriesStep ==
  ASSUME ObjectTrue, NEW t, NEW S \in SUBSET Nodes, first_ocur' \in Inserted(first_ocur, t, S)
  PROVE  /\ FcnOn(first_ocur', DOMAIN first_ocur')
         /\ \A d \in DOMAIN first_ocur' :
              /\ FcnOn(first_ocur'[d], {"node", "tree"})
              /\ first_ocur'[d].node \in Nodes
              /\ first_ocur'[d].tree \in baseline_id .. current_id
<1>1. FcnOn(first_ocur, DOMAIN first_ocur) /\ current_id \in baseline_id .. current_id
  BY DEF ObjectTrue
<1>2. /\ FcnOn(first_ocur', DOMAIN first_ocur')
      /\ \A d \in DOMAIN first_ocur : first_ocur'[d] = first_ocur[d]
      /\ \A d \in DOMAIN first_ocur' \ DOMAIN first_ocur :
           \E u \in S : t[u] = d /\ first_ocur'[d] = NodeID(u, current_id)
  BY <1>1, InsertedTrue
<1>3. \A u : FcnOn(NodeID(u, current_id), {"node", "tree"})
             /\ NodeID(u, current_id).node = u /\ NodeID(u, current_id).tree = current_id
  BY DEF FcnOn, NodeID
<1>4. ASSUME NEW d \in DOMAIN first_ocur'
      PROVE  /\ FcnOn(first_ocur'[d], {"node", "tree"})
             /\ first_ocur'[d].node \in Nodes
             /\ first_ocur'[d].tree \in baseline_id .. current_id
  <2>1. CASE d \in DOMAIN first_ocur
    BY <1>2, <2>1 DEF ObjectTrue
  <2>2. CASE d \notin DOMAIN first_ocur
    <3>1. PICK u \in S : first_ocur'[d] = NodeID(u, current_id)
      BY <1>2, <2>2
    <3> QED
      BY <1>1, <1>3, <3>1
  <2> QED
    BY <2>1, <2>2
<1> QED
  BY <1>2, <1>4

LEMMA ObjectStep ==
  ASSUME ObjectTrue, LevelTrue, [Next]_vars
  PROVE  ObjectTrue'
<1>1. ASSUME NEW d \in Data, NEW make_baseline \in BOOLEAN, Checkpoint(d, make_baseline)
      PROVE  ObjectTrue'
  <2>1. /\ pc = "idle" /\ pc' = "leaves" /\ data' = d /\ baseline' = make_baseline
        /\ current_id = 0 => make_baseline
        /\ labels' = [u \in Nodes |-> "DONE"] /\ todo' = LeafNodes
        /\ UNCHANGED <<current_id, incr_chkpts, history>>
    BY <1>1 DEF Checkpoint, LeafTeams
  <2>2. FcnOn(tree', Nodes)
    <3>1. CASE make_baseline
      BY <1>1, <3>1 DEF Checkpoint, FcnOn
    <3>2. CASE ~make_baseline
      <4>1. tree' = tree /\ current_id > 0
        BY <1>1, <2>1, <3>2 DEF Checkpoint, ObjectTrue
      <4> QED
        BY <4>1 DEF ObjectTrue
    <3> QED
      BY <3>1, <3>2
  <2>3. /\ baseline_id' \in 0 .. current_id
        /\ FcnOn(first_ocur', DOMAIN first_ocur')
        /\ \A x \in DOMAIN first_ocur' :
             /\ FcnOn(first_ocur'[x], {"node", "tree"})
             /\ first_ocur'[x].node \in Nodes
             /\ first_ocur'[x].tree \in baseline_id' .. current_id
    <3>1. CASE make_baseline
      <4>1. /\ baseline_id' = current_id /\ current_id \in Nat
            /\ DOMAIN first_ocur' = {} /\ FcnOn(first_ocur', DOMAIN first_ocur')
        BY <1>1, <3>1 DEF Checkpoint, MapAtStart, FcnOn, ObjectTrue
      <4> QED
        BY <4>1
    <3>2. CASE ~make_baseline
      BY <1>1, <3>2 DEF Checkpoint, MapAtStart, ObjectTrue
    <3> QED
      BY <3>1, <3>2
  <2> QED
    BY <2>1, <2>2, <2>3 DEF ObjectTrue, Kernels, Kinds
<1>2. ASSUME NEW leaf \in todo, DedupLeaf(leaf) PROVE ObjectTrue'
  <2> DEFINE digest == LeafDigest(leaf)
  <2>1. /\ UNCHANGED <<current_id, baseline_id, baseline, data, incr_chkpts, history, pc>>
        /\ pc = "leaves"
    BY <1>2 DEF DedupLeaf
  <2>2. /\ todo' = todo \ {leaf} /\ FcnOn(tree', Nodes) /\ labels' \in [Nodes -> Kinds]
        /\ leaf \in Nodes
        /\ FcnOn(first_ocur', DOMAIN first_ocur')
        /\ DOMAIN first_ocur' = DOMAIN first_ocur \cup {digest}
        /\ \A d \in DOMAIN first_ocur : d # digest => first_ocur'[d] = first_ocur[d]
        /\ digest \notin DOMAIN first_ocur => first_ocur'[digest] = NodeID(leaf, current_id)
        /\ digest \in DOMAIN first_ocur =>
             \/ first_ocur'[digest] = first_ocur[digest]
             \/ \E n \in {first_ocur[digest].node, leaf} :
                  first_ocur'[digest] = NodeID(n, current_id)
    BY <1>2, LeafStep
  <2> HIDE DEF digest
  <2>3. \A u : FcnOn(NodeID(u, current_id), {"node", "tree"})
               /\ NodeID(u, current_id).node = u /\ NodeID(u, current_id).tree = current_id
    BY DEF FcnOn, NodeID
  <2>4. /\ current_id \in baseline_id .. current_id
        /\ \A d \in DOMAIN first_ocur :
             /\ FcnOn(first_ocur[d], {"node", "tree"})
             /\ first_ocur[d].node \in Nodes
             /\ first_ocur[d].tree \in baseline_id .. current_id
    BY DEF ObjectTrue
  <2>5. ASSUME NEW d \in DOMAIN first_ocur'
        PROVE  /\ FcnOn(first_ocur'[d], {"node", "tree"})
               /\ first_ocur'[d].node \in Nodes
               /\ first_ocur'[d].tree \in baseline_id .. current_id
    <3>1. CASE d \in DOMAIN first_ocur /\ first_ocur'[d] = first_ocur[d]
      BY <2>4, <3>1
    <3>2. CASE \E n \in Nodes : first_ocur'[d] = NodeID(n, current_id)
      BY <2>3, <2>4, <3>2
    <3> QED
      BY <2>2, <2>4, <3>1, <3>2
  <2> QED
    BY <2>1, <2>2, <2>5 DEF ObjectTrue
<1>3. CASE ChooseFirst
  <2>1. /\ UNCHANGED <<current_id, baseline_id, baseline, tree, first_ocur, data, incr_chkpts,
                       history, todo>>
        /\ pc = "leaves" /\ pc' = "first" /\ todo = {}
    BY <1>3 DEF ChooseFirst
  <2>2. labels' \in [Nodes -> Kinds]
    BY <1>3, <2>1 DEF ChooseFirst, ObjectTrue, Kernels, Kinds
  <2> QED
    BY <2>1, <2>2 DEF ObjectTrue, Kernels
<1>4. CASE FirstForest
  <2> DEFINE new == {u \in InnerNodes(level, NumChunks) :
                       labels[Left(u)] = "FIRST_OCUR" /\ labels[Right(u)] = "FIRST_OCUR"}
  <2>1. /\ UNCHANGED <<current_id, baseline_id, baseline, data, incr_chkpts, history, pc, todo>>
        /\ pc = "first"
        /\ labels' = [u \in Nodes |-> IF u \in new THEN "FIRST_OCUR" ELSE labels[u]]
        /\ tree' = [u \in Nodes |-> IF u \in new THEN HashOfChildren(tree, u) ELSE tree[u]]
        /\ first_ocur' \in Inserted(first_ocur, tree', new)
    BY <1>4 DEF FirstForest
  <2>2. new \in SUBSET Nodes
    BY <1>4, LevelNodes, TreeShape DEF FirstForest, LevelTrue
  <2> HIDE DEF new
  <2>3. FcnOn(tree', Nodes) /\ labels' \in [Nodes -> Kinds]
    BY <2>1 DEF FcnOn, ObjectTrue, Kernels, Kinds
  <2> QED
    BY <2>1, <2>2, <2>3, EntriesStep DEF ObjectTrue
<1>5. CASE BuildForest
  <2>1. /\ UNCHANGED <<current_id, baseline_id, baseline, first_ocur, data, incr_chkpts,
                       history, todo>>
        /\ pc = "forest" /\ pc' \in {"forest", "insert"}
    BY <1>5 DEF BuildForest
  <2>2. FcnOn(tree', Nodes)
    BY <1>5 DEF BuildForest, TreeToLookUp, FcnOn
  <2>3. labels' \in [Nodes -> Kinds]
    BY <1>5, <2>1 DEF BuildForest, ObjectTrue, Kernels, Kinds
  <2> QED
    BY <2>1, <2>2, <2>3 DEF ObjectTrue, Kernels
<1>6. CASE InsertEntries
  <2> DEFINE inner == InnerNodes(level, NumChunks)
  <2>1. /\ UNCHANGED <<current_id, baseline_id, baseline, data, incr_chkpts, history, labels,
                       todo>>
        /\ pc = "insert" /\ pc' = "forest"
        /\ tree' = [u \in Nodes |-> IF u \in inner THEN HashOfChildren(tree, u) ELSE tree[u]]
        /\ first_ocur' \in Inserted(first_ocur, tree', inner)
    BY <1>6 DEF InsertEntries
  <2>2. inner \in SUBSET Nodes
    BY <2>1, LevelNodes, TreeShape DEF LevelTrue
  <2> HIDE DEF inner
  <2>3. FcnOn(tree', Nodes)
    BY <2>1 DEF FcnOn
  <2> QED
    BY <2>1, <2>2, <2>3, EntriesStep DEF ObjectTrue, Kernels
<1>7. CASE EndFirstForest \/ EndBuildForest
  BY <1>7 DEF EndFirstForest, EndBuildForest, dedupVars, ObjectTrue, Kernels
<1>8. CASE FinishCheckpoint
  <2>1. /\ UNCHANGED <<baseline_id, baseline, tree, first_ocur, todo>>
        /\ pc = "collect" /\ pc' = "idle" /\ current_id' = current_id + 1
        /\ incr_chkpts' = Append(incr_chkpts, Diff) /\ history' = Append(history, data)
    BY <1>8 DEF FinishCheckpoint
  <2>2. current_id \in Nat /\ FcnOn(incr_chkpts, 1 .. current_id)
        /\ FcnOn(history, 1 .. current_id)
    BY DEF ObjectTrue
  <2>3. /\ FcnOn(incr_chkpts', 1 .. current_id') /\ FcnOn(history', 1 .. current_id')
    BY <2>1, <2>2, AppendTrue
  <2>4. baseline_id .. current_id \subseteq baseline_id .. current_id'
        /\ baseline_id \in 0 .. current_id'
    BY <2>1 DEF ObjectTrue
  <2> QED
    BY <2>1, <2>2, <2>3, <2>4 DEF ObjectTrue, Kernels
<1>9. CASE FailToWrite
  BY <1>9 DEF FailToWrite, ObjectTrue, Kernels
<1>10. CASE Aside
  BY <1>10 DEF Aside, dedupVars, ObjectTrue, Kernels
<1> QED
  BY <1>1, <1>2, <1>3, <1>4, <1>5, <1>6, <1>7, <1>8, <1>9, <1>10, Steps

-----------------------------------------------------------------------------
(* LabelsTrue *)

\* What the kernel of the second forest does.
LEMMA BuildStep ==
  ASSUME ObjectTrue, LevelTrue, LabelsTrue, BuildForest
  PROVE  LET inner == InnerNodes(level, NumChunks)
             Child(u) == {Left(u), Right(u)}
         IN  /\ pc = "forest" /\ pc' \in {"forest", "insert"} /\ labels' \in [Nodes -> Kinds]
             /\ inner \subseteq Inner /\ inner \cap Visited = {} /\ FcnOn(tree', Nodes)
             /\ Labelled = Visited /\ Labelled' = Visited \cup inner
             /\ Visited' = IF baseline THEN Visited ELSE Visited \cup inner
             /\ \A u \in Nodes :
                  \/ tree'[u] = tree[u]
                  \/ u \in inner /\ ~baseline /\ Both(u, "SHIFT_DUPL")
             /\ \A u \in Nodes \ inner : labels'[u] = labels[u]
             /\ \A u \in inner :
                  \/ Both(u, "FIRST_OCUR") /\ labels'[u] = "FIRST_OCUR"
                  \/ /\ Both(u, "SHIFT_DUPL") /\ labels'[u] = "SHIFT_DUPL"
                     /\ tree'[u] \in DOMAIN first_ocur
                     /\ tree'[u] = IF baseline THEN tree[u] ELSE HashOfChildren(tree, u)
                  \/ Both(u, "FIXED_DUPL") /\ labels'[u] = "FIXED_DUPL"
                  \/ ~Both(u, "FIRST_OCUR") /\ labels'[u] = "DONE"
             /\ \A u \in inner : labels'[u] = "DONE" => \A w \in Child(u) :
                  /\ labels[w] = "FIRST_OCUR" => w \in first_ocur_vec'
                  /\ labels[w] = "SHIFT_DUPL" => w \in shift_dupl_vec'
             /\ first_ocur_vec \subseteq first_ocur_vec' /\ shift_dupl_vec \subseteq shift_dupl_vec'
             /\ \A w \in first_ocur_vec' \ first_ocur_vec :
                  labels[w] = "FIRST_OCUR" /\ \E u \in inner : labels'[u] = "DONE" /\ w \in Child(u)
             /\ \A w \in shift_dupl_vec' \ shift_dupl_vec :
                  labels[w] = "SHIFT_DUPL" /\ \E u \in inner : labels'[u] = "DONE" /\ w \in Child(u)
<1> DEFINE inner == InnerNodes(level, NumChunks)
           both(l) == {u \in inner : labels[Left(u)] = l /\ labels[Right(u)] = l}
           mixed == {u \in inner : labels[Left(u)] # labels[Right(u)]}
           newTree == TreeToLookUp(both("SHIFT_DUPL"))
           shifted == {u \in both("SHIFT_DUPL") : newTree[u] \in DOMAIN first_ocur}
           ended == mixed \cup (both("SHIFT_DUPL") \ shifted)
           roots == {Left(u) : u \in ended} \cup {Right(u) : u \in ended}
<1>1. /\ pc = "forest" /\ LevelInTree(level, Size) /\ tree' = newTree
      /\ labels' = [u \in Nodes |->
           CASE u \in ended -> "DONE"
             [] u \in shifted -> "SHIFT_DUPL"
             [] u \in both("FIXED_DUPL") -> "FIXED_DUPL"
             [] OTHER -> labels[u]]
      /\ first_ocur_vec' = first_ocur_vec \cup {u \in roots : labels[u] = "FIRST_OCUR"}
      /\ shift_dupl_vec' = shift_dupl_vec \cup {u \in roots : labels[u] = "SHIFT_DUPL"}
      /\ IF baseline THEN pc' = "insert" /\ UNCHANGED level
         ELSE level' = LevelAbove(level) /\ UNCHANGED pc
  BY DEF BuildForest
<1>2. IsLevel /\ inner \subseteq Inner /\ inner \cap Visited = {} /\ inner \subseteq Nodes
  BY <1>1, LevelNodes, TreeShape DEF LevelTrue
<1>3. /\ Labelled = Visited /\ Labelled' = Visited \cup inner
      /\ Visited' = IF baseline THEN Visited ELSE Visited \cup inner
  <2>1. CASE baseline
    BY <1>1, <2>1 DEF Labelled, Visited
  <2>2. CASE ~baseline
    BY <1>1, <1>2, <2>2, LevelStep DEF Labelled
  <2> QED
    BY <2>1, <2>2
<1>4. FcnOn(tree', Nodes) /\ \A u \in Nodes : tree'[u] =
        IF ~baseline /\ u \in both("SHIFT_DUPL") THEN HashOfChildren(tree, u) ELSE tree[u]
  BY <1>1 DEF TreeToLookUp, FcnOn
<1>5. labels \in [Nodes -> Kinds]
  BY <1>1 DEF ObjectTrue, Kernels
<1>6. \A l : \A u : u \in both(l) <=> u \in inner /\ Both(u, l)
  BY DEF Both
<1>7. \A u : u \in mixed <=> u \in inner /\ labels[Left(u)] # labels[Right(u)]
  OBVIOUS
<1>8. \A u \in inner : u \notin Visited
  BY <1>2
<1>9. \A u \in inner : /\ Both(u, "FIRST_OCUR") <=> labels[u] = "FIRST_OCUR"
                       /\ labels[u] \in {"FIRST_OCUR", "DONE"}
  BY <1>1, <1>2, <1>3, <1>8 DEF LabelsTrue, Second
<1>10. \A u \in shifted : u \in both("SHIFT_DUPL") /\ tree'[u] \in DOMAIN first_ocur
  BY <1>1
<1>11. \A u \in both("SHIFT_DUPL") : u \in shifted \/ u \in ended
  OBVIOUS
<1>12. \A u \in ended : u \in mixed \/ u \in both("SHIFT_DUPL")
  OBVIOUS
<1>13. \A u \in mixed : u \in ended
  OBVIOUS
<1>14. /\ shifted \cap ended = {}
       /\ shifted \cap both("FIXED_DUPL") = {} /\ ended \cap both("FIXED_DUPL") = {}
  BY <1>6, <1>7, <1>10, <1>12 DEF Both
<1>15. \A w \in roots : \E u \in ended : w \in {Left(u), Right(u)}
  OBVIOUS
<1>16. \A u \in ended : Left(u) \in roots /\ Right(u) \in roots
  OBVIOUS
<1> HIDE DEF both, mixed, newTree, shifted, ended, roots, inner
<1>17. \A u \in Nodes \ inner : labels'[u] = labels[u]
  BY <1>1, <1>6, <1>7, <1>10, <1>12
<1>18. \A u \in ended : u \in inner /\ ~Both(u, "FIRST_OCUR") /\ labels'[u] = "DONE"
  <2> SUFFICES ASSUME NEW u \in ended
               PROVE  u \in inner /\ ~Both(u, "FIRST_OCUR") /\ labels'[u] = "DONE"
    OBVIOUS
  <2>1. u \in inner /\ ~Both(u, "FIRST_OCUR")
    BY <1>6, <1>7, <1>12 DEF Both
  <2>2. u \in Nodes /\ u \notin shifted /\ u \notin both("FIXED_DUPL")
    BY <1>2, <1>14, <2>1
  <2> QED
    BY <1>1, <2>1, <2>2
<1>19. \A u \in inner : 
         \/ Both(u, "FIRST_OCUR") /\ labels'[u] = "FIRST_OCUR"
         \/ /\ Both(u, "SHIFT_DUPL") /\ labels'[u] = "SHIFT_DUPL" /\ tree'[u] \in DOMAIN first_ocur
            /\ tree'[u] = IF baseline THEN tree[u] ELSE HashOfChildren(tree, u)
         \/ Both(u, "FIXED_DUPL") /\ labels'[u] = "FIXED_DUPL"
         \/ ~Both(u, "FIRST_OCUR") /\ labels'[u] = "DONE" /\ (u \in ended \/ Both(u, "DONE"))
  <2> SUFFICES ASSUME NEW u \in inner
      PROVE  \/ Both(u, "FIRST_OCUR") /\ labels'[u] = "FIRST_OCUR"
             \/ /\ Both(u, "SHIFT_DUPL") /\ labels'[u] = "SHIFT_DUPL"
                /\ tree'[u] \in DOMAIN first_ocur
                /\ tree'[u] = IF baseline THEN tree[u] ELSE HashOfChildren(tree, u)
             \/ Both(u, "FIXED_DUPL") /\ labels'[u] = "FIXED_DUPL"
             \/ ~Both(u, "FIRST_OCUR") /\ labels'[u] = "DONE" /\ (u \in ended \/ Both(u, "DONE"))
    OBVIOUS
  <2>1. u \in Nodes
    BY <1>2
  <2>2. CASE u \in ended
    BY <1>18, <2>2
  <2>3. CASE u \in shifted
    <3>1. labels'[u] = "SHIFT_DUPL" /\ u \in both("SHIFT_DUPL")
      BY <1>1, <1>10, <1>14, <2>1, <2>3
    <3> QED
      BY <1>4, <1>6, <1>10, <2>1, <2>3, <3>1
  <2>4. CASE u \notin ended /\ u \notin shifted
    <3>1. u \notin both("SHIFT_DUPL") /\ labels[Left(u)] = labels[Right(u)]
      BY <1>7, <1>11, <1>13, <2>4
    <3>2. labels[Left(u)] \in Kinds
      BY <1>2, <1>5, TreeShape
    <3>3. CASE labels[Left(u)] = "FIXED_DUPL"
      <4>1. u \in both("FIXED_DUPL")
        BY <1>6, <3>1, <3>3 DEF Both
      <4>2. labels'[u] = "FIXED_DUPL"
        BY <1>1, <2>1, <2>4, <4>1
      <4> QED
        BY <1>6, <4>1, <4>2
    <3>4. CASE labels[Left(u)] # "FIXED_DUPL"
      <4>1. u \notin both("FIXED_DUPL")
        BY <1>6, <3>4 DEF Both
      <4>2. labels'[u] = labels[u]
        BY <1>1, <2>1, <2>4, <4>1
      <4>3. labels[Left(u)] \in {"FIRST_OCUR", "DONE"}
        BY <1>6, <3>1, <3>2, <3>4 DEF Both, Kinds
      <4> QED
        BY <1>9, <3>1, <4>2, <4>3 DEF Both
    <3> QED
      BY <3>3, <3>4
  <2> QED
    BY <2>2, <2>3, <2>4
<1>20. labels' \in [Nodes -> Kinds]
  BY <1>1, <1>5 DEF Kinds
<1>21. \A u \in Nodes : \/ tree'[u] = tree[u]
                        \/ u \in inner /\ ~baseline /\ Both(u, "SHIFT_DUPL")
  BY <1>4, <1>6
<1>22. \A u \in inner : labels'[u] = "DONE" => \A w \in {Left(u), Right(u)} :
         /\ labels[w] = "FIRST_OCUR" => w \in first_ocur_vec'
         /\ labels[w] = "SHIFT_DUPL" => w \in shift_dupl_vec'
  <2> SUFFICES ASSUME NEW u \in inner, labels'[u] = "DONE", NEW w \in {Left(u), Right(u)}
               PROVE  /\ labels[w] = "FIRST_OCUR" => w \in first_ocur_vec'
                      /\ labels[w] = "SHIFT_DUPL" => w \in shift_dupl_vec'
    OBVIOUS
  <2>1. CASE u \in ended
    BY <1>1, <1>16, <2>1
  <2>2. CASE Both(u, "DONE")
    BY <2>2 DEF Both
  <2> QED
    BY <1>19, <2>1, <2>2
<1>23. /\ \A w \in first_ocur_vec' \ first_ocur_vec :
            labels[w] = "FIRST_OCUR"
            /\ \E u \in inner : labels'[u] = "DONE" /\ w \in {Left(u), Right(u)}
       /\ \A w \in shift_dupl_vec' \ shift_dupl_vec :
            labels[w] = "SHIFT_DUPL"
            /\ \E u \in inner : labels'[u] = "DONE" /\ w \in {Left(u), Right(u)}
  BY <1>1, <1>15, <1>18
<1> QED
  BY <1>1, <1>2, <1>3, <1>4, <1>17, <1>19, <1>20, <1>21, <1>22, <1>23 DEF inner

\* What the kernel of the first forest does.
LEMMA FirstStep ==
  ASSUME ObjectTrue, LevelTrue, LabelsTrue, FirstForest
  PROVE  LET inner == InnerNodes(level, NumChunks)
             new == {u \in inner : Both(u, "FIRST_OCUR")}
         IN  /\ pc = "first" /\ pc' = pc /\ labels' \in [Nodes -> Kinds]
             /\ inner \subseteq Inner /\ inner \cap Visited = {} /\ FcnOn(tree', Nodes)
             /\ Visited' = Visited \cup inner
             /\ \A u \in new : labels[u] = "DONE" /\ labels'[u] = "FIRST_OCUR"
             /\ \A u \in Nodes \ new : labels'[u] = labels[u] /\ tree'[u] = tree[u]
             /\ \A u \in new : tree'[u] = HashOfChildren(tree, u)
             /\ \A u \in Visited \cup inner : {Left(u), Right(u)} \cap inner = {}
             /\ first_ocur' \in Inserted(first_ocur, tree', new)
             /\ first_ocur_vec' = first_ocur_vec \cup PushRoot(new)
<1> DEFINE inner == InnerNodes(level, NumChunks)
           new == {u \in inner : Both(u, "FIRST_OCUR")}
           newOf == {u \in inner : labels[Left(u)] = "FIRST_OCUR" /\ labels[Right(u)] = "FIRST_OCUR"}
<1>1. /\ pc = "first" /\ LevelInTree(level, Size) /\ pc' = pc
      /\ labels' = [u \in Nodes |-> IF u \in newOf THEN "FIRST_OCUR" ELSE labels[u]]
      /\ tree' = [u \in Nodes |-> IF u \in newOf THEN HashOfChildren(tree, u) ELSE tree[u]]
      /\ first_ocur' \in Inserted(first_ocur, tree', newOf)
      /\ first_ocur_vec' = first_ocur_vec \cup PushRoot(newOf)
      /\ level' = LevelAbove(level)
  BY DEF FirstForest
<1>2. newOf = new
  BY DEF Both
<1>3. IsLevel /\ inner \subseteq Inner /\ inner \cap Visited = {} /\ inner \subseteq Nodes
  BY <1>1, LevelNodes, TreeShape DEF LevelTrue
<1>4. Visited' = Visited \cup inner
  BY <1>1, <1>3, LevelStep
<1>5. \A u \in Visited \cup inner : {Left(u), Right(u)} \cap inner = {}
  <2>1. \A u \in Visited \cup inner : {Left(u), Right(u)} \subseteq LeafNodes \cup Visited
    BY <1>1, <1>3, LevelNodes
  <2> QED
    BY <1>3, <2>1, TreeShape
<1>6. \A u \in inner : labels[u] = "DONE"
  BY <1>1, <1>3 DEF LabelsTrue
<1>7. labels \in [Nodes -> Kinds]
  BY <1>1 DEF ObjectTrue, Kernels
<1>8. new \subseteq inner
  OBVIOUS
<1> HIDE DEF inner, new, newOf
<1>9. labels' \in [Nodes -> Kinds] /\ FcnOn(tree', Nodes)
  BY <1>1, <1>7 DEF FcnOn, Kinds
<1>10. \A u \in new : labels[u] = "DONE" /\ labels'[u] = "FIRST_OCUR"
                      /\ tree'[u] = HashOfChildren(tree, u)
  BY <1>1, <1>2, <1>3, <1>6, <1>8
<1>11. \A u \in Nodes \ new : labels'[u] = labels[u] /\ tree'[u] = tree[u]
  BY <1>1, <1>2
<1> QED
  BY <1>1, <1>2, <1>3, <1>4, <1>5, <1>9, <1>10, <1>11 DEF inner, new

LEMMA LabelsInit == Init => LabelsTrue
BY DEF Init, LabelsTrue, Second

LEMMA LabelsStep ==
  ASSUME ObjectTrue, LevelTrue, LabelsTrue, [Next]_vars
  PROVE  LabelsTrue'
<1>1. ASSUME NEW d \in Data, NEW make_baseline \in BOOLEAN, Checkpoint(d, make_baseline)
      PROVE  LabelsTrue'
  <2>1. pc' = "leaves" /\ labels' = [u \in Nodes |-> "DONE"] /\ todo' = LeafNodes
    BY <1>1 DEF Checkpoint, LeafTeams
  <2> QED
    BY <2>1, TreeShape DEF LabelsTrue, Second
<1>2. ASSUME NEW leaf \in todo, DedupLeaf(leaf) PROVE LabelsTrue'
  <2>1. /\ pc = "leaves" /\ pc' = pc /\ todo' = todo \ {leaf} /\ leaf \in LeafNodes
        /\ \A u \in Nodes \ {leaf} : labels'[u] = labels[u]
        /\ todo \subseteq LeafNodes
    BY <1>2, LeafStep DEF ObjectTrue
  <2>2. \A u \in Inner \cup todo' : labels'[u] = "DONE"
    BY <2>1, TreeShape DEF LabelsTrue
  <2> QED
    BY <2>1, <2>2 DEF LabelsTrue, Second
<1>3. CASE ChooseFirst
  <2>1. /\ pc = "leaves" /\ pc' = "first" /\ todo = {}
        /\ \A u \in Nodes \ LeafNodes : labels'[u] = labels[u]
    BY <1>3 DEF ChooseFirst
  <2>2. Visited' = {}
    BY <1>3, LevelBottom DEF ChooseFirst
  <2>3. \A u \in Inner : labels'[u] = "DONE"
    BY <2>1, TreeShape DEF LabelsTrue
  <2> QED
    BY <2>1, <2>2, <2>3 DEF LabelsTrue, Second
<1>4. CASE FirstForest
  <2> DEFINE inner == InnerNodes(level, NumChunks)
             new == {u \in inner : Both(u, "FIRST_OCUR")}
  <2>1. /\ pc = "first" /\ pc' = pc /\ Visited' = Visited \cup inner
        /\ \A u \in new : labels'[u] = "FIRST_OCUR"
        /\ \A u \in Nodes \ new : labels'[u] = labels[u]
        /\ \A u \in Visited \cup inner : {Left(u), Right(u)} \cap inner = {}
        /\ inner \cap Visited = {}
    BY <1>4, FirstStep
  <2> HIDE DEF inner
  <2>2. \A u \in Inner : labels[u] =
          IF u \in Visited /\ Both(u, "FIRST_OCUR") THEN "FIRST_OCUR" ELSE "DONE"
    BY <2>1 DEF LabelsTrue
  <2>3. \A u \in Visited \cup inner : u \in Inner => (Both(u, "FIRST_OCUR")' <=> Both(u, "FIRST_OCUR"))
    BY <2>1, TreeShape DEF Both
  <2>4. ASSUME NEW u \in Inner
        PROVE  labels'[u] = IF u \in Visited' /\ Both(u, "FIRST_OCUR")' THEN "FIRST_OCUR" ELSE "DONE"
    <3>1. CASE u \in new
      BY <2>1, <2>3, <3>1
    <3>2. CASE u \notin new
      BY <2>1, <2>2, <2>3, <3>2, TreeShape
    <3> QED
      BY <3>1, <3>2
  <2> QED
    BY <2>1, <2>4 DEF LabelsTrue, Second
<1>5. CASE EndFirstForest
  <2>1. /\ pc = "first" /\ ~LevelInTree(level, Size) /\ pc' = "forest" /\ UNCHANGED labels
    BY <1>5 DEF EndFirstForest, dedupVars
  <2>2. Visited = Inner
    BY <2>1 DEF Visited
  <2>3. \A u \in Inner : labels[u] = IF Both(u, "FIRST_OCUR") THEN "FIRST_OCUR" ELSE "DONE"
    BY <2>1, <2>2 DEF LabelsTrue
  <2>4. \A u \in Inner, l \in Kinds : Both(u, l)' <=> Both(u, l)
    BY <2>1 DEF Both
  <2> QED
    BY <2>1, <2>3, <2>4 DEF LabelsTrue, Second, Kinds, Both
<1>6. CASE BuildForest
  <2> DEFINE inner == InnerNodes(level, NumChunks)
  <2>1. /\ pc = "forest" /\ pc' \in {"forest", "insert"}
        /\ Labelled = Visited /\ Labelled' = Visited \cup inner
        /\ \A u \in Nodes \ inner : labels'[u] = labels[u]
        /\ \A u \in inner :
             \/ Both(u, "FIRST_OCUR") /\ labels'[u] = "FIRST_OCUR"
             \/ Both(u, "SHIFT_DUPL") /\ labels'[u] = "SHIFT_DUPL"
             \/ Both(u, "FIXED_DUPL") /\ labels'[u] = "FIXED_DUPL"
             \/ ~Both(u, "FIRST_OCUR") /\ labels'[u] = "DONE"
        /\ inner \subseteq Inner /\ inner \cap Visited = {}
    BY <1>6, BuildStep
  <2>2. /\ \A u \in inner : {Left(u), Right(u)} \cap inner = {}
        /\ \A u \in Visited : {Left(u), Right(u)} \cap inner = {}
    <3>1. \A u \in Visited \cup inner : {Left(u), Right(u)} \subseteq LeafNodes \cup Visited
      BY <1>6, LevelNodes DEF BuildForest, LevelTrue
    <3> QED
      BY <2>1, <3>1, TreeShape
  <2> HIDE DEF inner
  <2>3. ASSUME NEW u \in Visited \cup inner, NEW l
        PROVE  Both(u, l)' <=> Both(u, l)
    BY <2>1, <2>2, TreeShape DEF Both, Visited
  <2>4. ASSUME NEW u \in Inner
        PROVE  /\ Both(u, "FIRST_OCUR")' => labels'[u] = "FIRST_OCUR"
               /\ labels'[u] # "DONE" => Both(u, labels[u])'
               /\ u \in Labelled' \/ labels'[u] \in {"FIRST_OCUR", "DONE"}
    <3>1. /\ Both(u, "FIRST_OCUR") => labels[u] = "FIRST_OCUR"
          /\ labels[u] # "DONE" => Both(u, labels[u])
          /\ u \in Labelled \/ labels[u] \in {"FIRST_OCUR", "DONE"}
      BY <2>1 DEF LabelsTrue, Second
    <3>2. CASE u \in inner
      BY <2>1, <2>2, <3>2, TreeShape DEF Both
    <3>3. CASE u \in Visited
      BY <2>1, <2>2, <3>1, <3>3, TreeShape DEF Both
    <3>4. CASE u \notin Visited \cup inner
      <4>1. labels'[u] = labels[u] /\ labels[u] \in {"FIRST_OCUR", "DONE"}
        BY <2>1, <3>1, <3>4, TreeShape
      <4>2. ASSUME NEW w \in {Left(u), Right(u)}
            PROVE  labels'[w] = "FIRST_OCUR" <=> labels[w] = "FIRST_OCUR"
        <5>1. CASE w \in inner
          <6>1. w \in Inner /\ (Both(w, "FIRST_OCUR") <=> labels[w] = "FIRST_OCUR")
            BY <2>1, <5>1 DEF LabelsTrue, Second
          <6> QED
            BY <2>1, <5>1, <6>1 DEF Both
        <5>2. CASE w \notin inner
          BY <2>1, <5>2, TreeShape
        <5> QED
          BY <5>1, <5>2
      <4> QED
        BY <3>1, <4>1, <4>2 DEF Both
    <3> QED
      BY <3>2, <3>3, <3>4
  <2> QED
    BY <2>1, <2>4 DEF LabelsTrue, Second
<1>7. CASE InsertEntries
  <2>1. /\ pc = "insert" /\ pc' = "forest" /\ UNCHANGED labels
        /\ LevelInTree(level, Size) /\ IsLevel /\ level' = LevelAbove(level)
    BY <1>7 DEF InsertEntries, LevelTrue
  <2>2. Labelled' = Labelled
    BY <2>1, LevelStep DEF Labelled
  <2>3. \A u \in Inner :
          /\ Both(u, "FIRST_OCUR") => labels[u] = "FIRST_OCUR"
          /\ labels[u] # "DONE" => Both(u, labels[u])
          /\ u \in Labelled \/ labels[u] \in {"FIRST_OCUR", "DONE"}
    BY <2>1 DEF LabelsTrue, Second
  <2> QED
    BY <2>1, <2>2, <2>3 DEF LabelsTrue, Second, Both
<1>8. CASE EndBuildForest
  BY <1>8 DEF EndBuildForest, dedupVars, LabelsTrue, Second, Both, Labelled, Visited
<1>9. CASE FinishCheckpoint \/ FailToWrite
  BY <1>9 DEF FinishCheckpoint, FailToWrite, LabelsTrue, Second
<1>10. CASE Aside
  BY <1>10 DEF Aside, dedupVars, LabelsTrue, Second, Both, Labelled, Visited, Kernels
<1> QED
  BY <1>1, <1>2, <1>3, <1>4, <1>5, <1>6, <1>7, <1>8, <1>9, <1>10, Steps

-----------------------------------------------------------------------------
(* DigestsKnown *)

LEMMA DigestsInit == Init => DigestsKnown
BY DEF Init, DigestsKnown, Kernels, Forests

LEMMA DigestsStep ==
  ASSUME ObjectTrue, LevelTrue, LabelsTrue, DigestsKnown, [Next]_vars
  PROVE  DigestsKnown'
<1>1. ASSUME NEW d \in Data, NEW make_baseline \in BOOLEAN, Checkpoint(d, make_baseline)
      PROVE  DigestsKnown'
  <2>1. pc' = "leaves" /\ todo' = LeafNodes
    BY <1>1 DEF Checkpoint, LeafTeams
  <2> QED
    BY <2>1 DEF DigestsKnown, Forests
<1>2. ASSUME NEW leaf \in todo, DedupLeaf(leaf) PROVE DigestsKnown'
  <2> DEFINE digest == LeafDigest(leaf)
  <2>1. /\ pc = "leaves" /\ pc' = pc /\ todo' = todo \ {leaf} /\ leaf \in Nodes
        /\ tree'[leaf] = digest
        /\ \A u \in Nodes \ {leaf} : tree'[u] = tree[u] /\ labels'[u] = labels[u]
        /\ labels'[leaf] = "FIRST_OCUR" =>
             (digest \in DOMAIN first_ocur => first_ocur[digest].tree = current_id)
        /\ labels'[leaf] = "SHIFT_DUPL" =>
             digest \in DOMAIN first_ocur /\ first_ocur[digest].tree # current_id
        /\ DOMAIN first_ocur' = DOMAIN first_ocur \cup {digest}
        /\ \A d \in DOMAIN first_ocur : d # digest => first_ocur'[d] = first_ocur[d]
        /\ digest \notin DOMAIN first_ocur => first_ocur'[digest] = NodeID(leaf, current_id)
        /\ digest \in DOMAIN first_ocur =>
             \/ first_ocur'[digest] = first_ocur[digest]
             \/ /\ first_ocur[digest].tree = current_id
                /\ \E n \in {first_ocur[digest].node, leaf} :
                     first_ocur'[digest] = NodeID(n, current_id)
    BY <1>2, LeafStep
  <2>2. UNCHANGED <<data, current_id>> /\ \A u : LeafDigest(u)' = LeafDigest(u)
    BY <1>2 DEF DedupLeaf, LeafDigest
  <2> HIDE DEF digest
  <2>3. \A d \in DOMAIN first_ocur :
          d \in DOMAIN first_ocur' /\ first_ocur'[d].tree = first_ocur[d].tree
    BY <2>1 DEF NodeID
  <2>4. digest \notin DOMAIN first_ocur => first_ocur'[digest].tree = current_id
    BY <2>1 DEF NodeID
  <2>5. ASSUME NEW u \in LeafNodes \ todo'
        PROVE  /\ tree'[u] = LeafDigest(u) /\ tree'[u] \in DOMAIN first_ocur'
               /\ labels'[u] = "FIRST_OCUR" => first_ocur'[tree'[u]].tree = current_id
               /\ labels'[u] = "SHIFT_DUPL" => first_ocur'[tree'[u]].tree # current_id
    <3>1. CASE u = leaf
      BY <2>1, <2>3, <2>4, <3>1 DEF digest
    <3>2. CASE u # leaf
      <4>1. u \in LeafNodes \ todo /\ u \in Nodes
        BY <2>1, <3>2, TreeShape
      <4>2. /\ tree[u] = LeafDigest(u) /\ tree[u] \in DOMAIN first_ocur
            /\ labels[u] = "FIRST_OCUR" => first_ocur[tree[u]].tree = current_id
            /\ labels[u] = "SHIFT_DUPL" => first_ocur[tree[u]].tree # current_id
        BY <2>1, <4>1 DEF DigestsKnown, Kernels
      <4> QED
        BY <2>1, <2>3, <3>2, <4>1, <4>2
    <3> QED
      BY <3>1, <3>2
  <2> QED
    BY <2>1, <2>2, <2>5 DEF DigestsKnown, Forests
<1>3. CASE ChooseFirst
  <2>1. /\ pc = "leaves" /\ pc' = "first" /\ todo = {} /\ todo' = todo
        /\ UNCHANGED <<tree, first_ocur, current_id, data>>
        /\ \A u \in Nodes : labels'[u] =
             IF u \in LeafNodes /\ NotTheLowest(u) THEN "SHIFT_DUPL" ELSE labels[u]
    BY <1>3 DEF ChooseFirst
  <2>2. ASSUME NEW u \in LeafNodes
        PROVE  /\ tree[u] = LeafDigest(u) /\ tree[u] \in DOMAIN first_ocur
               /\ labels'[u] = "FIRST_OCUR" => first_ocur[tree[u]] = NodeID(u, current_id)
               /\ labels'[u] = "SHIFT_DUPL" => first_ocur[tree[u]] # NodeID(u, current_id)
    <3>1. /\ tree[u] = LeafDigest(u) /\ tree[u] \in DOMAIN first_ocur
          /\ labels[u] = "FIRST_OCUR" => first_ocur[tree[u]].tree = current_id
          /\ labels[u] = "SHIFT_DUPL" => first_ocur[tree[u]].tree # current_id
      BY <2>1 DEF DigestsKnown, Kernels
    <3>2. FcnOn(first_ocur[tree[u]], {"node", "tree"})
      BY <3>1 DEF ObjectTrue
    <3>3. first_ocur[tree[u]].node = u /\ first_ocur[tree[u]].tree = current_id <=>
            first_ocur[tree[u]] = NodeID(u, current_id)
      BY <3>2 DEF FcnOn, NodeID
    <3>4. NotTheLowest(u) <=> /\ labels[u] = "FIRST_OCUR"
                              /\ first_ocur[tree[u]].tree = current_id
                              /\ first_ocur[tree[u]].node # u
      BY DEF NotTheLowest
    <3> QED
      BY <2>1, <3>1, <3>3, <3>4, TreeShape
  <2>3. \A u \in Inner : labels'[u] = "DONE"
    BY <2>1, TreeShape DEF LabelsTrue
  <2>4. \A u : LeafDigest(u)' = LeafDigest(u)
    BY <2>1 DEF LeafDigest
  <2> QED
    BY <2>1, <2>2, <2>3, <2>4 DEF DigestsKnown, Kernels, Forests
<1>4. CASE FirstForest
  <2> DEFINE inner == InnerNodes(level, NumChunks)
             new == {u \in inner : Both(u, "FIRST_OCUR")}
  <2>1. /\ pc = "first" /\ pc' = pc
        /\ \A u \in new : labels'[u] = "FIRST_OCUR"
        /\ \A u \in Nodes \ new : labels'[u] = labels[u] /\ tree'[u] = tree[u]
        /\ \A u \in new : tree'[u] = HashOfChildren(tree, u)
        /\ \A u \in Visited \cup inner : {Left(u), Right(u)} \cap inner = {}
        /\ inner \subseteq Inner
        /\ first_ocur' \in Inserted(first_ocur, tree', new)
    BY <1>4, FirstStep
  <2>2. UNCHANGED <<data, current_id, todo>> /\ \A u : LeafDigest(u)' = LeafDigest(u)
    BY <1>4 DEF FirstForest, LeafDigest
  <2> HIDE DEF inner
  <2>3. new \subseteq inner
    OBVIOUS
  <2>4. /\ DOMAIN first_ocur \subseteq DOMAIN first_ocur'
        /\ \A u \in new : tree'[u] \in DOMAIN first_ocur'
        /\ \A d \in DOMAIN first_ocur : first_ocur'[d] = first_ocur[d]
    <3> HIDE DEF new
    <3>1. FcnOn(first_ocur, DOMAIN first_ocur)
      BY DEF ObjectTrue
    <3> QED
      BY <2>1, <3>1, InsertedTrue
  <2>5. ASSUME NEW u \in LeafNodes
        PROVE  /\ tree'[u] = LeafDigest(u) /\ tree'[u] \in DOMAIN first_ocur'
               /\ labels'[u] = "FIRST_OCUR" => first_ocur'[tree'[u]] = NodeID(u, current_id)
               /\ labels'[u] = "SHIFT_DUPL" => first_ocur'[tree'[u]] # NodeID(u, current_id)
    <3>1. u \in Nodes \ new
      BY <2>1, <2>3, TreeShape
    <3>2. /\ tree[u] = LeafDigest(u) /\ tree[u] \in DOMAIN first_ocur
          /\ labels[u] = "FIRST_OCUR" => first_ocur[tree[u]] = NodeID(u, current_id)
          /\ labels[u] = "SHIFT_DUPL" => first_ocur[tree[u]] # NodeID(u, current_id)
      BY <2>1 DEF DigestsKnown, Kernels, Forests, ObjectTrue
    <3> QED
      BY <2>1, <2>4, <3>1, <3>2
  <2>6. ASSUME NEW u \in Inner
        PROVE  /\ labels'[u] # "SHIFT_DUPL"
               /\ labels'[u] = "FIRST_OCUR" =>
                    tree'[u] = HashOfChildren(tree', u) /\ tree'[u] \in DOMAIN first_ocur'
    <3>1. CASE u \in new
      <4>1. HashOfChildren(tree', u) = HashOfChildren(tree, u)
        BY <2>1, <2>3, <3>1, TreeShape DEF HashOfChildren
      <4> QED
        BY <2>1, <2>4, <3>1, <4>1
    <3>2. CASE u \notin new
      <4>1. /\ labels'[u] = labels[u] /\ tree'[u] = tree[u] /\ labels[u] # "SHIFT_DUPL"
            /\ labels[u] = "FIRST_OCUR" => u \in Visited
        BY <2>1, <3>2, TreeShape DEF LabelsTrue
      <4>2. CASE labels[u] = "FIRST_OCUR"
        <5>1. HashOfChildren(tree', u) = HashOfChildren(tree, u)
          BY <2>1, <2>3, <4>1, <4>2, TreeShape DEF HashOfChildren
        <5>2. tree[u] = HashOfChildren(tree, u) /\ tree[u] \in DOMAIN first_ocur
          BY <2>1, <4>2 DEF DigestsKnown, Forests
        <5> QED
          BY <2>4, <4>1, <5>1, <5>2
      <4> QED
        BY <4>1, <4>2
    <3> QED
      BY <3>1, <3>2
  <2> QED
    BY <2>1, <2>2, <2>5, <2>6 DEF DigestsKnown, Forests, Kernels
<1>5. CASE EndFirstForest \/ EndBuildForest
  BY <1>5 DEF EndFirstForest, EndBuildForest, dedupVars, DigestsKnown, Kernels, Forests,
              LeafDigest
<1>6. CASE BuildForest
  <2> DEFINE inner == InnerNodes(level, NumChunks)
  <2>1. /\ pc = "forest" /\ pc' \in {"forest", "insert"} /\ inner \subseteq Inner
        /\ \A u \in Nodes : \/ tree'[u] = tree[u]
                            \/ u \in inner /\ ~baseline /\ Both(u, "SHIFT_DUPL")
        /\ \A u \in Nodes \ inner : labels'[u] = labels[u]
        /\ \A u \in inner :
             \/ Both(u, "FIRST_OCUR") /\ labels'[u] = "FIRST_OCUR"
             \/ labels'[u] = "SHIFT_DUPL" /\ tree'[u] \in DOMAIN first_ocur
             \/ labels'[u] = "FIXED_DUPL"
             \/ labels'[u] = "DONE"
    BY <1>6, BuildStep
  <2>2. /\ UNCHANGED <<data, current_id, todo, first_ocur>>
        /\ \A u : LeafDigest(u)' = LeafDigest(u)
    BY <1>6 DEF BuildForest, LeafDigest
  <2> HIDE DEF inner
  <2>3. \A u \in LeafNodes : u \in Nodes \ inner /\ tree'[u] = tree[u] /\ labels'[u] = labels[u]
    BY <2>1, TreeShape
  <2>4. \A u \in Inner : /\ Both(u, "FIRST_OCUR") => labels[u] = "FIRST_OCUR"
                         /\ labels[u] # "DONE" => Both(u, labels[u])
    BY <2>1 DEF LabelsTrue, Second
  <2>5. \A u \in Nodes : labels[u] = "FIRST_OCUR" => tree'[u] = tree[u]
    BY <2>1, <2>4, TreeShape DEF Both
  <2>6. ASSUME NEW u \in Inner
        PROVE  /\ labels'[u] = "FIRST_OCUR" =>
                    tree'[u] = HashOfChildren(tree', u) /\ tree'[u] \in DOMAIN first_ocur
               /\ labels'[u] = "SHIFT_DUPL" => tree'[u] \in DOMAIN first_ocur
    <3>1. CASE labels'[u] = "FIRST_OCUR"
      <4>1. labels[u] = "FIRST_OCUR" /\ Both(u, "FIRST_OCUR")
        BY <2>1, <2>4, <3>1, TreeShape
      <4>2. HashOfChildren(tree', u) = HashOfChildren(tree, u) /\ tree'[u] = tree[u]
        BY <2>5, <4>1, TreeShape DEF Both, HashOfChildren
      <4>3. tree[u] = HashOfChildren(tree, u) /\ tree[u] \in DOMAIN first_ocur
        BY <2>1, <4>1 DEF DigestsKnown, Forests
      <4> QED
        BY <3>1, <4>2, <4>3
    <3>2. CASE labels'[u] = "SHIFT_DUPL" /\ u \notin inner
      BY <2>1, <3>2, TreeShape DEF DigestsKnown, Forests
    <3>3. CASE labels'[u] = "SHIFT_DUPL" /\ u \in inner
      BY <2>1, <3>3
    <3> QED
      BY <3>1, <3>2, <3>3
  <2> QED
    BY <2>1, <2>2, <2>3, <2>6 DEF DigestsKnown, Forests, Kernels
<1>7. CASE InsertEntries
  <2> DEFINE inner == InnerNodes(level, NumChunks)
  <2>1. /\ pc = "insert" /\ pc' = "forest" /\ UNCHANGED <<data, current_id, todo, labels>>
        /\ \A u : LeafDigest(u)' = LeafDigest(u)
        /\ \A u \in Nodes :
             tree'[u] = IF u \in inner THEN HashOfChildren(tree, u) ELSE tree[u]
        /\ first_ocur' \in Inserted(first_ocur, tree', inner)
    BY <1>7 DEF InsertEntries, LeafDigest
  <2>2. inner \subseteq Inner
    BY <2>1, LevelNodes DEF LevelTrue
  <2> HIDE DEF inner
  <2>3. /\ DOMAIN first_ocur \subseteq DOMAIN first_ocur'
        /\ \A u \in inner : tree'[u] \in DOMAIN first_ocur'
        /\ \A d \in DOMAIN first_ocur : first_ocur'[d] = first_ocur[d]
    <3>1. FcnOn(first_ocur, DOMAIN first_ocur)
      BY DEF ObjectTrue
    <3> QED
      BY <2>1, <3>1, InsertedTrue
  <2>4. /\ \A u \in LeafNodes :
             /\ tree[u] = LeafDigest(u) /\ tree[u] \in DOMAIN first_ocur
             /\ labels[u] = "FIRST_OCUR" => first_ocur[tree[u]] = NodeID(u, current_id)
             /\ labels[u] = "SHIFT_DUPL" => first_ocur[tree[u]] # NodeID(u, current_id)
        /\ \A u \in Inner :
             /\ labels[u] = "FIRST_OCUR" =>
                  tree[u] = HashOfChildren(tree, u) /\ tree[u] \in DOMAIN first_ocur
             /\ labels[u] = "SHIFT_DUPL" => tree[u] \in DOMAIN first_ocur
             /\ labels[u] = "FIRST_OCUR" => Both(u, labels[u])
    BY <2>1 DEF DigestsKnown, Kernels, Forests, LabelsTrue, Second, ObjectTrue
  <2>5. \A u \in LeafNodes : tree'[u] = tree[u]
    BY <2>1, <2>2, TreeShape
  <2>6. \A u \in Nodes : labels[u] = "FIRST_OCUR" => tree'[u] = tree[u]
    BY <2>1, <2>2, <2>4
  <2>7. ASSUME NEW u \in Inner
        PROVE  /\ labels[u] = "FIRST_OCUR" =>
                    tree'[u] = HashOfChildren(tree', u) /\ tree'[u] \in DOMAIN first_ocur'
               /\ labels[u] = "SHIFT_DUPL" => tree'[u] \in DOMAIN first_ocur'
    <3>1. CASE labels[u] = "FIRST_OCUR"
      <4>1. HashOfChildren(tree', u) = HashOfChildren(tree, u) /\ tree'[u] = tree[u]
        BY <2>4, <2>6, <3>1, TreeShape DEF Both, HashOfChildren
      <4> QED
        BY <2>3, <2>4, <3>1, <4>1
    <3>2. CASE labels[u] = "SHIFT_DUPL"
      <4>1. u \in Nodes /\ tree[u] \in DOMAIN first_ocur
        BY <2>4, <3>2, TreeShape
      <4> QED
        BY <2>1, <2>3, <3>2, <4>1
    <3> QED
      BY <3>1, <3>2
  <2>8. \A u \in LeafNodes :
          /\ tree'[u] = LeafDigest(u) /\ tree'[u] \in DOMAIN first_ocur'
          /\ labels[u] = "FIRST_OCUR" => first_ocur'[tree'[u]] = NodeID(u, current_id)
          /\ labels[u] = "SHIFT_DUPL" => first_ocur'[tree'[u]] # NodeID(u, current_id)
    BY <2>3, <2>4, <2>5
  <2> QED
    BY <2>1, <2>7, <2>8 DEF DigestsKnown, Forests, Kernels
<1>8. CASE FinishCheckpoint \/ FailToWrite
  BY <1>8 DEF FinishCheckpoint, FailToWrite, DigestsKnown, Kernels, Forests
<1>9. CASE Aside
  BY <1>9 DEF Aside, dedupVars, DigestsKnown, Kernels, Forests, LeafDigest
<1> QED
  BY <1>1, <1>2, <1>3, <1>4, <1>5, <1>6, <1>7, <1>8, <1>9, Steps

-----------------------------------------------------------------------------
(* RoomLeft *)

\* Entries are made of nodes that were pending, at most one of each.
LEMMA RoomCount ==
  ASSUME RoomLeft, capacity' = capacity, Pending \subseteq Nodes,
         NEW gone \in SUBSET Pending, Pending' \subseteq Pending \ gone,
         IsFiniteSet(DOMAIN first_ocur'),
         Cardinality(DOMAIN first_ocur') <= Cardinality(DOMAIN first_ocur) + Cardinality(gone)
  PROVE  RoomLeft'
<1>1. IsFiniteSet(Pending)
  BY NodesFinite, FS_Subset
<1>2. IsFiniteSet(gone) /\ IsFiniteSet(Pending \ gone) /\ IsFiniteSet(Pending')
      /\ Cardinality(Pending') <= Cardinality(Pending \ gone)
  <2>1. IsFiniteSet(gone) /\ IsFiniteSet(Pending \ gone)
    BY <1>1, FS_Subset
  <2> QED
    BY <2>1, FS_Subset
<1>3. Cardinality(Pending \ gone) = Cardinality(Pending) - Cardinality(gone)
  <2>1. Cardinality(Pending \ gone) = Cardinality(Pending) - Cardinality(Pending \cap gone)
    BY <1>1, FS_Difference
  <2>2. Pending \cap gone = gone
    OBVIOUS
  <2> QED
    BY <2>1, <2>2
<1>4. /\ Cardinality(gone) \in Nat /\ Cardinality(Pending) \in Nat /\ Cardinality(Pending') \in Nat
      /\ Cardinality(DOMAIN first_ocur) \in Nat /\ Cardinality(DOMAIN first_ocur') \in Nat
  BY <1>1, <1>2, FS_CardinalityType DEF RoomLeft
<1>5. capacity \in Nat /\ Cardinality(DOMAIN first_ocur) + Cardinality(Pending) <= capacity
  BY DEF RoomLeft
<1>6. Cardinality(DOMAIN first_ocur') + Cardinality(Pending') <= capacity'
  BY <1>2, <1>3, <1>4, <1>5
<1> QED
  BY <1>5, <1>6 DEF RoomLeft

LEMMA RoomInit == Init => RoomLeft
<1> SUFFICES ASSUME Init PROVE RoomLeft
  OBVIOUS
<1>1. Pending = {} /\ DOMAIN first_ocur = {} /\ capacity = 0
  BY DEF Init, Pending
<1> QED
  BY <1>1, FS_EmptySet DEF RoomLeft

LEMMA RoomStep ==
  ASSUME ObjectTrue, LevelTrue, LabelsTrue, DigestsKnown, RoomLeft, [Next]_vars
  PROVE  RoomLeft'
<1>1. ASSUME NEW d \in Data, NEW make_baseline \in BOOLEAN, Checkpoint(d, make_baseline)
      PROVE  RoomLeft'
  <2> DEFINE room == IF make_baseline THEN Size ELSE capacity
             size == Cardinality(DOMAIN first_ocur')
  <2>1. IsFiniteSet(DOMAIN first_ocur')
    <3>1. CASE make_baseline
      <4>1. DOMAIN first_ocur' = {}
        BY <1>1, <3>1 DEF Checkpoint, MapAtStart
      <4> QED
        BY <4>1, FS_EmptySet
    <3>2. CASE ~make_baseline
      BY <1>1, <3>2 DEF Checkpoint, MapAtStart, RoomLeft
    <3> QED
      BY <3>1, <3>2
  <2>2. size \in Nat /\ room \in Nat /\ Size \in Nat
    BY <2>1, TreeShape, FS_CardinalityType DEF RoomLeft
  <2>3. capacity' = Rehashed(room, size)
    BY <1>1 DEF Checkpoint
  <2>4. Pending' = Nodes
    BY <1>1, TreeShape DEF Checkpoint, Pending, LeafTeams
  <2>5. Cardinality(Pending') = Size
    BY <2>4, NodesFinite
  <2> HIDE DEF room, size
  <2>6. capacity' \in Nat /\ size + Size <= capacity'
    BY <2>2, <2>3 DEF Rehashed
  <2> QED
    BY <2>1, <2>5, <2>6 DEF RoomLeft, size
<1>2. ASSUME NEW leaf \in todo, DedupLeaf(leaf) PROVE RoomLeft'
  <2> DEFINE digest == LeafDigest(leaf)
  <2>1. /\ pc = "leaves" /\ pc' = pc /\ todo' = todo \ {leaf}
        /\ DOMAIN first_ocur' = DOMAIN first_ocur \cup {digest}
    BY <1>2, LeafStep
  <2>2. capacity' = capacity /\ todo \subseteq LeafNodes
    BY <1>2 DEF DedupLeaf, ObjectTrue
  <2>3. Pending = todo \cup Inner /\ Pending' = todo' \cup Inner
    BY <2>1 DEF Pending
  <2>4. Pending \subseteq Nodes /\ {leaf} \in SUBSET Pending /\ Pending' \subseteq Pending \ {leaf}
    BY <2>1, <2>2, <2>3, TreeShape
  <2> HIDE DEF digest
  <2>5. /\ IsFiniteSet(DOMAIN first_ocur')
        /\ Cardinality(DOMAIN first_ocur') <= Cardinality(DOMAIN first_ocur) + 1
    <3>1. IsFiniteSet(DOMAIN first_ocur)
      BY DEF RoomLeft
    <3>2. Cardinality(DOMAIN first_ocur) \in Nat
      BY <3>1, FS_CardinalityType
    <3>3. /\ IsFiniteSet(DOMAIN first_ocur \cup {digest})
          /\ Cardinality(DOMAIN first_ocur \cup {digest}) =
               IF digest \in DOMAIN first_ocur THEN Cardinality(DOMAIN first_ocur)
               ELSE Cardinality(DOMAIN first_ocur) + 1
      BY <3>1, FS_AddElement
    <3> QED
      BY <2>1, <3>2, <3>3
  <2>6. Cardinality({leaf}) = 1
    BY FS_Singleton
  <2> QED
    BY <2>2, <2>4, <2>5, <2>6, RoomCount
<1>3. ASSUME capacity' = capacity, DOMAIN first_ocur' = DOMAIN first_ocur,
             Pending \subseteq Nodes, Pending' \subseteq Pending
      PROVE  RoomLeft'
  <2>1. Cardinality(DOMAIN first_ocur) \in Nat /\ Cardinality({}) = 0
        /\ IsFiniteSet(DOMAIN first_ocur)
    BY FS_CardinalityType, FS_EmptySet DEF RoomLeft
  <2>2. Cardinality(DOMAIN first_ocur') <= Cardinality(DOMAIN first_ocur) + Cardinality({})
    BY <1>3, <2>1
  <2>3. {} \in SUBSET Pending /\ Pending' \subseteq Pending \ {}
    BY <1>3
  <2> QED
    BY <1>3, <2>1, <2>2, <2>3, RoomCount
<1>4. Pending \subseteq Nodes
  BY TreeShape DEF Pending, ObjectTrue
<1>5. CASE ChooseFirst
  <2>1. capacity' = capacity /\ first_ocur' = first_ocur /\ pc = "leaves" /\ pc' = "first"
    BY <1>5 DEF ChooseFirst
  <2>2. Pending' \subseteq Pending
    BY <2>1 DEF Pending
  <2> QED
    BY <1>3, <1>4, <2>1, <2>2
<1>6. CASE FirstForest
  <2> DEFINE inner == InnerNodes(level, NumChunks)
             new == {u \in inner : Both(u, "FIRST_OCUR")}
  <2>1. /\ pc = "first" /\ pc' = pc /\ inner \subseteq Inner
        /\ \A u \in new : labels[u] = "DONE" /\ labels'[u] = "FIRST_OCUR"
        /\ \A u \in Nodes \ new : labels'[u] = labels[u]
        /\ first_ocur' \in Inserted(first_ocur, tree', new)
    BY <1>6, FirstStep
  <2>2. capacity' = capacity
    BY <1>6 DEF FirstForest
  <2>3. new \subseteq Inner
    BY <2>1
  <2> HIDE DEF new, inner
  <2>4. new \in SUBSET Pending /\ Pending' \subseteq Pending \ new
    BY <2>1, <2>3, TreeShape DEF Pending
  <2>5. /\ IsFiniteSet(DOMAIN first_ocur')
        /\ Cardinality(DOMAIN first_ocur') <= Cardinality(DOMAIN first_ocur) + Cardinality(new)
    <3>1. IsFiniteSet(new) /\ IsFiniteSet(DOMAIN first_ocur)
          /\ FcnOn(first_ocur, DOMAIN first_ocur)
      BY <2>3, NodesFinite, FS_Subset DEF RoomLeft, ObjectTrue
    <3>2. {} \in SUBSET new /\ new \ {} = new
      OBVIOUS
    <3>3. /\ IsFiniteSet(DOMAIN first_ocur')
          /\ Cardinality(DOMAIN first_ocur') <=
               Cardinality(DOMAIN first_ocur) + Cardinality(new \ {})
      BY <2>1, <3>1, <3>2, InsertedRoom
    <3> QED
      BY <3>2, <3>3
  <2> QED
    BY <1>4, <2>2, <2>4, <2>5, RoomCount
<1>7. CASE EndFirstForest
  <2>1. capacity' = capacity /\ first_ocur' = first_ocur /\ pc = "first" /\ pc' = "forest"
        /\ labels' = labels
    BY <1>7 DEF EndFirstForest, dedupVars
  <2>2. Pending' \subseteq Pending
    BY <2>1 DEF Pending
  <2> QED
    BY <1>3, <1>4, <2>1, <2>2
<1>8. CASE BuildForest
  <2> DEFINE inner == InnerNodes(level, NumChunks)
  <2>1. /\ pc = "forest" /\ pc' \in {"forest", "insert"} /\ inner \subseteq Inner
        /\ Visited' = IF baseline THEN Visited ELSE Visited \cup inner
        /\ \A u \in Nodes \ inner : labels'[u] = labels[u]
        /\ \A u \in inner :
             \/ Both(u, "FIRST_OCUR") /\ labels'[u] = "FIRST_OCUR"
             \/ Both(u, "SHIFT_DUPL")
             \/ Both(u, "FIXED_DUPL")
             \/ ~Both(u, "FIRST_OCUR")
    BY <1>8, BuildStep
  <2>2. capacity' = capacity /\ first_ocur' = first_ocur
    BY <1>8 DEF BuildForest
  <2> HIDE DEF inner
  <2>3. \A u \in Inner : labels[u] = "FIRST_OCUR" => Both(u, "FIRST_OCUR")
    BY <2>1 DEF LabelsTrue, Second
  <2>4. \A u \in Inner : labels[u] = "FIRST_OCUR" => labels'[u] = "FIRST_OCUR"
    BY <2>1, <2>3, TreeShape DEF Both
  <2>5. Pending' \subseteq Pending
    BY <2>1, <2>4 DEF Pending
  <2> QED
    BY <1>3, <1>4, <2>2, <2>5
<1>9. CASE InsertEntries
  <2> DEFINE inner == InnerNodes(level, NumChunks)
             known == {u \in inner : labels[u] = "FIRST_OCUR"}
  <2>1. /\ pc = "insert" /\ pc' = "forest" /\ UNCHANGED <<labels, capacity>>
        /\ \A u \in Nodes :
             tree'[u] = IF u \in inner THEN HashOfChildren(tree, u) ELSE tree[u]
        /\ first_ocur' \in Inserted(first_ocur, tree', inner)
        /\ level' = LevelAbove(level)
    BY <1>9 DEF InsertEntries
  <2>2. inner \subseteq Inner /\ inner \cap Visited = {} /\ Visited' = Visited \cup inner
    BY <2>1, LevelNodes, LevelStep DEF LevelTrue
  <2>3. known \in SUBSET inner /\ \A u \in known : tree'[u] \in DOMAIN first_ocur
    <3>1. ASSUME NEW u \in known PROVE tree'[u] \in DOMAIN first_ocur
      <4>1. u \in Inner /\ u \in inner /\ labels[u] = "FIRST_OCUR" /\ u \in Nodes
        BY <2>2, TreeShape
      <4>2. tree[u] = HashOfChildren(tree, u) /\ tree[u] \in DOMAIN first_ocur
        BY <2>1, <4>1 DEF DigestsKnown, Forests
      <4> QED
        BY <2>1, <4>1, <4>2
    <3> QED
      BY <3>1
  <2>4. inner \ known \in SUBSET Pending /\ Pending' \subseteq Pending \ (inner \ known)
    BY <2>1, <2>2 DEF Pending
  <2> HIDE DEF inner, known
  <2>5. /\ IsFiniteSet(DOMAIN first_ocur')
        /\ Cardinality(DOMAIN first_ocur') <=
             Cardinality(DOMAIN first_ocur) + Cardinality(inner \ known)
    <3>1. IsFiniteSet(inner) /\ IsFiniteSet(DOMAIN first_ocur)
          /\ FcnOn(first_ocur, DOMAIN first_ocur)
      BY <2>2, NodesFinite, FS_Subset DEF RoomLeft, ObjectTrue
    <3> QED
      BY <2>1, <2>3, <3>1, InsertedRoom
  <2> QED
    BY <1>4, <2>1, <2>4, <2>5, RoomCount
<1>10. CASE EndBuildForest \/ FinishCheckpoint \/ FailToWrite
  <2>1. capacity' = capacity /\ first_ocur' = first_ocur /\ pc' \in {"collect", "idle"}
    BY <1>10 DEF EndBuildForest, FinishCheckpoint, FailToWrite, dedupVars
  <2>2. Pending' = {}
    BY <2>1 DEF Pending
  <2> QED
    BY <1>3, <1>4, <2>1, <2>2
<1>11. CASE Aside
  <2>1. capacity' = capacity /\ first_ocur' = first_ocur
    BY <1>11 DEF Aside, dedupVars
  <2>2. Pending' = Pending
    BY <1>11 DEF Aside, dedupVars, Pending, Kernels, Visited
  <2> QED
    BY <1>3, <1>4, <2>1, <2>2
<1> QED
  BY <1>1, <1>2, <1>5, <1>6, <1>7, <1>8, <1>9, <1>10, <1>11, Steps

-----------------------------------------------------------------------------
(* RootsTrue *)

LEMMA RootsInit == Init => RootsTrue
BY DEF Init, RootsTrue, Kernels

LEMMA RootsStep ==
  ASSUME ObjectTrue, LevelTrue, LabelsTrue, RootsTrue, [Next]_vars
  PROVE  RootsTrue'
<1>1. ASSUME NEW d \in Data, NEW make_baseline \in BOOLEAN, Checkpoint(d, make_baseline)
      PROVE  RootsTrue'
  BY <1>1 DEF Checkpoint, RootsTrue
<1>2. ASSUME pc = "leaves", pc' \in {"leaves", "first"},
             UNCHANGED <<first_ocur_vec, shift_dupl_vec>>
      PROVE  RootsTrue'
  BY <1>2 DEF RootsTrue
<1>3. ASSUME NEW leaf \in todo, DedupLeaf(leaf) PROVE RootsTrue'
  BY <1>2, <1>3 DEF DedupLeaf
<1>4. CASE ChooseFirst
  BY <1>2, <1>4 DEF ChooseFirst
<1>5. CASE FirstForest
  <2> DEFINE inner == InnerNodes(level, NumChunks)
             new == {u \in inner : Both(u, "FIRST_OCUR")}
  <2>1. /\ pc = "first" /\ pc' = pc
        /\ \A u \in new : labels'[u] = "FIRST_OCUR"
        /\ \A u \in Nodes \ new : labels'[u] = labels[u]
        /\ first_ocur_vec' = first_ocur_vec \cup PushRoot(new)
    BY <1>5, FirstStep
  <2>2. shift_dupl_vec' = shift_dupl_vec
    BY <1>5 DEF FirstForest
  <2> HIDE DEF new
  <2>3. first_ocur_vec' \subseteq {0} /\ shift_dupl_vec' = {} /\ 0 \in Nodes
    BY <2>1, <2>2, TreeShape DEF RootsTrue, PushRoot
  <2>4. \A u \in first_ocur_vec' : labels'[u] = "FIRST_OCUR"
    BY <2>1, <2>3 DEF RootsTrue, PushRoot, Kernels
  <2>5. \A u \in Inner : Left(u) # 0 /\ Right(u) # 0
    BY DEF Inner, Left, Right
  <2> QED
    BY <2>1, <2>3, <2>4, <2>5 DEF RootsTrue
<1>6. CASE EndFirstForest
  <2>1. /\ pc = "first" /\ pc' = "forest"
        /\ UNCHANGED <<labels, first_ocur_vec, shift_dupl_vec>>
    BY <1>6 DEF EndFirstForest, dedupVars
  <2> QED
    BY <2>1 DEF RootsTrue, Kernels
<1>7. CASE BuildForest
  <2> DEFINE inner == InnerNodes(level, NumChunks)
             Child(u) == {Left(u), Right(u)}
  <2>1. /\ pc = "forest" /\ pc' \in {"forest", "insert"}
        /\ Labelled = Visited /\ Labelled' = Visited \cup inner
        /\ inner \subseteq Inner /\ inner \cap Visited = {}
        /\ \A u \in Nodes \ inner : labels'[u] = labels[u]
        /\ \A u \in inner :
             \/ Both(u, "FIRST_OCUR") /\ labels'[u] = "FIRST_OCUR"
             \/ Both(u, "SHIFT_DUPL") /\ labels'[u] = "SHIFT_DUPL"
             \/ Both(u, "FIXED_DUPL") /\ labels'[u] = "FIXED_DUPL"
             \/ ~Both(u, "FIRST_OCUR") /\ labels'[u] = "DONE"
        /\ first_ocur_vec \subseteq first_ocur_vec' /\ shift_dupl_vec \subseteq shift_dupl_vec'
        /\ \A w \in first_ocur_vec' \ first_ocur_vec :
             labels[w] = "FIRST_OCUR" /\ \E u \in inner : labels'[u] = "DONE" /\ w \in Child(u)
        /\ \A w \in shift_dupl_vec' \ shift_dupl_vec :
             labels[w] = "SHIFT_DUPL" /\ \E u \in inner : labels'[u] = "DONE" /\ w \in Child(u)
    BY <1>7, BuildStep
  <2> HIDE DEF inner
  <2>2. \A u, v \in Inner : Child(u) \cap Child(v) # {} => u = v
    BY DEF Inner, Left, Right
  <2>3. \A u \in Inner : Child(u) \subseteq Nodes
    BY TreeShape
  <2>4. first_ocur_vec' \subseteq Nodes /\ shift_dupl_vec' \subseteq Nodes
    BY <2>1, <2>3 DEF RootsTrue
  <2>5. \A u \in inner : /\ labels[u] \in {"FIRST_OCUR", "DONE"}
                         /\ labels[u] = "FIRST_OCUR" => Both(u, "FIRST_OCUR")
    BY <2>1 DEF LabelsTrue, Second
  <2>6. /\ \A w \in first_ocur_vec' : labels[w] = "FIRST_OCUR"
        /\ \A w \in shift_dupl_vec' : labels[w] = "SHIFT_DUPL"
    BY <2>1 DEF RootsTrue, Kernels
  <2>7. /\ \A w \in first_ocur_vec' : labels'[w] = "FIRST_OCUR"
        /\ \A w \in shift_dupl_vec' : labels'[w] = "SHIFT_DUPL"
    <3>1. ASSUME NEW w \in first_ocur_vec' PROVE labels'[w] = "FIRST_OCUR"
      BY <2>1, <2>4, <2>5, <2>6 DEF Both
    <3>2. ASSUME NEW w \in shift_dupl_vec' PROVE labels'[w] = "SHIFT_DUPL"
      BY <2>1, <2>4, <2>5, <2>6
    <3> QED
      BY <3>1, <3>2
  <2>8. ASSUME NEW u \in Inner, labels'[u] = "FIRST_OCUR"
        PROVE  Child(u) \cap first_ocur_vec' = {}
    <3>1. labels[u] = "FIRST_OCUR"
      <4>1. CASE u \in inner
        BY <2>1, <2>8, <4>1 DEF LabelsTrue, Second
      <4>2. CASE u \notin inner
        BY <2>1, <2>8, <4>2, TreeShape
      <4> QED
        BY <4>1, <4>2
    <3>2. Child(u) \cap first_ocur_vec = {}
      BY <2>1, <3>1 DEF RootsTrue, Kernels
    <3>3. ASSUME NEW w \in Child(u), w \in first_ocur_vec' PROVE FALSE
      <4>1. w \in first_ocur_vec' \ first_ocur_vec
        BY <3>2, <3>3
      <4>2. PICK v \in inner : labels'[v] = "DONE" /\ w \in Child(v)
        BY <2>1, <4>1
      <4>3. v = u
        BY <2>1, <2>2, <4>2
      <4> QED
        BY <2>8, <4>2, <4>3
    <3> QED
      BY <3>3
  <2>9. ASSUME NEW u \in Inner, labels'[u] = "SHIFT_DUPL" \/ u \notin Labelled'
        PROVE  Child(u) \cap shift_dupl_vec' = {}
    <3>1. labels[u] = "SHIFT_DUPL" \/ u \notin Labelled
      BY <2>1, <2>9, TreeShape
    <3>2. Child(u) \cap shift_dupl_vec = {}
      BY <2>1, <3>1 DEF RootsTrue, Kernels
    <3>3. ASSUME NEW w \in Child(u), w \in shift_dupl_vec' PROVE FALSE
      <4>1. w \in shift_dupl_vec' \ shift_dupl_vec
        BY <3>2, <3>3
      <4>2. PICK v \in inner : labels'[v] = "DONE" /\ w \in Child(v)
        BY <2>1, <4>1
      <4>3. v = u
        BY <2>1, <2>2, <4>2
      <4> QED
        BY <2>1, <2>9, <4>2, <4>3
    <3> QED
      BY <3>3
  <2> QED
    BY <2>1, <2>4, <2>7, <2>8, <2>9 DEF RootsTrue
<1>8. CASE InsertEntries
  <2>1. /\ pc = "insert" /\ pc' = "forest"
        /\ UNCHANGED <<labels, first_ocur_vec, shift_dupl_vec>>
        /\ LevelInTree(level, Size) /\ IsLevel /\ level' = LevelAbove(level)
    BY <1>8 DEF InsertEntries, LevelTrue
  <2>2. Labelled' = Labelled
    BY <2>1, LevelStep DEF Labelled
  <2> QED
    BY <2>1, <2>2 DEF RootsTrue, Kernels
<1>9. CASE EndBuildForest
  <2>1. /\ pc = "forest" /\ pc' = "collect"
        /\ UNCHANGED <<labels, first_ocur_vec, shift_dupl_vec, level>>
    BY <1>9 DEF EndBuildForest, dedupVars
  <2>2. Labelled' = Labelled
    BY <2>1 DEF Labelled, Visited
  <2> QED
    BY <2>1, <2>2 DEF RootsTrue, Kernels
<1>10. CASE FinishCheckpoint \/ FailToWrite
  BY <1>10 DEF FinishCheckpoint, FailToWrite, RootsTrue, Kernels
<1>11. CASE Aside
  <2>1. UNCHANGED <<labels, first_ocur_vec, shift_dupl_vec>>
    BY <1>11 DEF Aside, dedupVars
  <2>2. CASE pc' = pc
    <3>1. Labelled' = Labelled
      BY <1>11, <2>2 DEF Aside, Labelled, Visited
    <3> QED
      BY <2>1, <2>2, <3>1 DEF RootsTrue
  <2>3. CASE pc' \in {"idle", "regions", "repeats", "same", "load", "restarted"}
    BY <2>1, <2>3 DEF RootsTrue, Kernels
  <2> QED
    BY <1>11, <2>2, <2>3 DEF Aside
<1> QED
  BY <1>1, <1>3, <1>4, <1>5, <1>6, <1>7, <1>8, <1>9, <1>10, <1>11, Steps

-----------------------------------------------------------------------------
(* The regions of the nodes pushed *)

\* What a node is labelled, all nodes below it are.
LEMMA LabelsBelow ==
  ASSUME LabelsTrue, pc \in Second, NEW u \in Nodes, labels[u] # "DONE",
         NEW v \in Below(u) \cap Nodes
  PROVE  labels[v] = labels[u]
<1> DEFINE l == labels[u]
           S == {x \in Nat : x \in Nodes => labels[x] = l}
<1>1. ASSUME NEW x \in Nat, Left(x) \in Nodes \/ Right(x) \in Nodes PROVE x \in Inner
  BY <1>1, TreeShape DEF Nodes, Inner, Left, Right
<1>2. ChildClosed(S)
  <2> SUFFICES ASSUME NEW x \in S PROVE Left(x) \in S /\ Right(x) \in S
    BY DEF ChildClosed
  <2>1. x \in Nat /\ Left(x) \in Nat /\ Right(x) \in Nat
    BY ChildrenAbove
  <2>2. CASE x \in Inner
    <3>1. labels[x] = l
      BY <2>2, TreeShape
    <3>2. Both(x, l)
      BY <2>2, <3>1 DEF LabelsTrue
    <3> QED
      BY <2>1, <3>2 DEF Both
  <2>3. CASE x \notin Inner
    BY <1>1, <2>1, <2>3
  <2> QED
    BY <2>2, <2>3
<1>3. u \in S /\ S \in SUBSET Nat
  BY TreeShape
<1> HIDE DEF S
<1>4. Below(u) \subseteq S
  BY <1>2, <1>3, BelowLeast
<1> QED
  BY <1>4 DEF S

\* No node pushed is below another.
LEMMA RootsNotBelow ==
  ASSUME ObjectTrue, LabelsTrue, RootsTrue, pc \in Kernels,
         NEW u \in first_ocur_vec \cup shift_dupl_vec,
         NEW v \in first_ocur_vec \cup shift_dupl_vec, v \in Below(u)
  PROVE  v = u
<1>1. CASE pc \in {"leaves", "first"}
  BY <1>1 DEF RootsTrue
<1>2. CASE pc \in Second
  <2> SUFFICES ASSUME v # u PROVE FALSE
    OBVIOUS
  <2> DEFINE l == labels[u]
             p == Above(v)
  <2>1. /\ u \in Nodes /\ v \in Nodes /\ u \in Nat /\ v \in Nat
        /\ \A x \in first_ocur_vec : labels[x] = "FIRST_OCUR"
        /\ \A x \in shift_dupl_vec : labels[x] = "SHIFT_DUPL"
    BY TreeShape DEF RootsTrue
  <2>2. l \in {"FIRST_OCUR", "SHIFT_DUPL"}
    BY <2>1
  <2>3. v > u /\ p \in Below(u)
    BY <2>1, BelowAbove
  <2>4. p \in Nat /\ (v = Left(p) \/ v = Right(p))
    BY <2>1, <2>3, ChildrenAbove
  <2> HIDE DEF p
  <2>5. p \in Inner
    BY <2>1, <2>4, TreeShape DEF Nodes, Inner, Left, Right
  <2>6. labels[p] = l /\ labels[v] = l
    BY <1>2, <2>1, <2>2, <2>3, <2>5, TreeShape, LabelsBelow
  <2>7. /\ l = "FIRST_OCUR" => v \notin first_ocur_vec
        /\ l = "SHIFT_DUPL" => v \notin shift_dupl_vec
    BY <1>2, <2>4, <2>5, <2>6 DEF RootsTrue, Second, Kernels
  <2> QED
    BY <2>1, <2>2, <2>6, <2>7
<1> QED
  BY <1>1, <1>2 DEF Kernels, Second

\* The region of a node is a row of leaves below it.
LEMMA RegionTrue ==
  ASSUME NEW u \in Nodes
  PROVE  /\ Leftmost[u] \in LeafNodes /\ NumLeaves[u] \in Nat /\ NumLeaves[u] > 0
         /\ Leftmost[u] + NumLeaves[u] <= Size
         /\ Leftmost[u] >= NumChunks - 1 /\ Leftmost[u] \in Below(u)
         /\ \A i \in 0 .. NumLeaves[u] - 1 : Leftmost[u] + i \in Below(u)
<1> DEFINE a == leftmost_leaf(u, Size)
           b == rightmost_leaf(u, Size)
<1>1. /\ a \in Nat /\ b \in Nat /\ NumChunks - 1 <= a /\ a <= b /\ b < Size
      /\ a .. b \subseteq Below(u)
  BY TreeShape, RegionBelow DEF Size, Nodes
<1>2. Leftmost[u] = a /\ NumLeaves[u] = b - a + 1
  BY DEF Leftmost, NumLeaves, num_leaf_descendents
<1> HIDE DEF a, b
<1>3. a \in LeafNodes
  BY <1>1, TreeShape DEF LeafNodes, Leaves, NumNodes
<1>4. \A i \in 0 .. NumLeaves[u] - 1 : Leftmost[u] + i \in a .. b
  BY <1>1, <1>2
<1>5. NumLeaves[u] \in Nat /\ NumLeaves[u] > 0 /\ Leftmost[u] + NumLeaves[u] <= Size
  BY <1>1, <1>2, TreeShape
<1>6. a \in a .. b
  BY <1>1
<1> QED
  BY <1>1, <1>2, <1>3, <1>4, <1>5, <1>6

\* The chunks of a region are chunks of the data.
LEMMA ChunkTrue ==
  ASSUME NEW u \in Nodes, NEW i \in 0 .. NumLeaves[u] - 1
  PROVE  RegionChunk(u, i) \in Chunks /\ i \in Chunks
<1>1. /\ Leftmost[u] \in Int /\ NumLeaves[u] \in Nat /\ Leftmost[u] >= NumChunks - 1
      /\ Leftmost[u] + NumLeaves[u] <= 2 * NumChunks - 1 /\ NumChunks \in Nat
  BY RegionTrue, TreeShape DEF LeafNodes, Leaves, NumNodes
<1> QED
  BY <1>1 DEF RegionChunk, Chunks

\* Two nodes with a chunk in common are one below the other.
LEMMA ChunksBelow ==
  ASSUME NEW u \in Nodes, NEW v \in Nodes,
         NEW i \in 0 .. NumLeaves[u] - 1, NEW j \in 0 .. NumLeaves[v] - 1,
         RegionChunk(u, i) = RegionChunk(v, j)
  PROVE  u \in Below(v) \/ v \in Below(u)
<1>1. /\ Leftmost[u] \in Int /\ Leftmost[v] \in Int /\ NumChunks \in Nat
      /\ NumLeaves[u] \in Nat /\ NumLeaves[v] \in Nat
  BY RegionTrue, TreeShape DEF LeafNodes, Leaves, NumNodes
<1>2. Leftmost[u] + i = Leftmost[v] + j
  BY <1>1 DEF RegionChunk
<1>3. Leftmost[u] + i \in Below(u) \cap Below(v)
  BY <1>2, RegionTrue
<1> QED
  BY <1>3, TreeShape, BelowBoth

LEMMA RootsApart ==
  ASSUME ObjectTrue, LabelsTrue, RootsTrue, pc \in Kernels
  PROVE  /\ first_ocur_vec \cap shift_dupl_vec = {}
         /\ \A u, v \in first_ocur_vec \cup shift_dupl_vec :
              u # v => ChunksOf(u) \cap ChunksOf(v) = {}
<1>1. first_ocur_vec \cap shift_dupl_vec = {}
  BY DEF RootsTrue
<1>2. ASSUME NEW u \in first_ocur_vec \cup shift_dupl_vec,
             NEW v \in first_ocur_vec \cup shift_dupl_vec,
             NEW c \in ChunksOf(u) \cap ChunksOf(v)
      PROVE  u = v
  <2>1. u \in Nodes /\ v \in Nodes
    BY DEF RootsTrue
  <2>2. PICK i \in 0 .. NumLeaves[u] - 1 : c = RegionChunk(u, i)
    BY DEF ChunksOf
  <2>3. PICK j \in 0 .. NumLeaves[v] - 1 : c = RegionChunk(v, j)
    BY DEF ChunksOf
  <2>4. u \in Below(v) \/ v \in Below(u)
    BY <2>1, <2>2, <2>3, ChunksBelow
  <2> QED
    BY <2>4, RootsNotBelow
<1> QED
  BY <1>1, <1>2

\* So a vector holds no more nodes than there are leaves.
LEMMA RootsCount == ObjectTrue /\ LabelsTrue /\ RootsTrue /\ pc \in Kernels => VectorsFit
<1> SUFFICES ASSUME ObjectTrue, LabelsTrue, RootsTrue, pc \in Kernels PROVE VectorsFit
  OBVIOUS
<1>1. ASSUME NEW S \in SUBSET (first_ocur_vec \cup shift_dupl_vec)
      PROVE  Cardinality(S) <= NumChunks
  <2> DEFINE f == [u \in S |-> Leftmost[u]]
  <2>1. S \subseteq Nodes
    BY DEF RootsTrue
  <2>2. \A u \in S : Leftmost[u] \in LeafNodes /\ Leftmost[u] \in Below(u)
    BY <2>1, RegionTrue
  <2>3. ASSUME NEW u \in S, NEW v \in S, Leftmost[u] = Leftmost[v] PROVE u = v
    <3>1. u \in Below(v) \/ v \in Below(u)
      BY <2>1, <2>2, <2>3, TreeShape, BelowBoth
    <3> QED
      BY <3>1, RootsNotBelow
  <2>4. f \in Injection(S, LeafNodes)
    BY <2>2, <2>3 DEF Injection, IsInjective
  <2>5. IsFiniteSet(LeafNodes) /\ Cardinality(LeafNodes) = NumChunks
    BY NodesFinite
  <2> HIDE DEF f
  <2>6. IsFiniteSet(S) /\ Cardinality(S) <= Cardinality(LeafNodes)
    BY <2>4, <2>5, FS_Injection
  <2> QED
    BY <2>5, <2>6
<1> QED
  BY <1>1 DEF VectorsFit

LEMMA VectorsInit == Init => VectorsFit
BY TreeShape, FS_EmptySet DEF Init, VectorsFit

LEMMA VectorsStep ==
  ASSUME ObjectTrue, LevelTrue, LabelsTrue, RootsTrue, VectorsFit, [Next]_vars
  PROVE  VectorsFit'
<1>1. ObjectTrue' /\ LabelsTrue' /\ RootsTrue'
  BY ObjectStep, LabelsStep, RootsStep
<1>2. CASE pc' \in Kernels
  <2>1. ObjectTrue' /\ LabelsTrue' /\ RootsTrue' /\ (pc \in Kernels)' => VectorsFit'
    BY RootsCount, PTL
  <2> QED
    BY <1>1, <1>2, <2>1
<1>3. CASE pc' \notin Kernels
  <2>1. FinishCheckpoint \/ FailToWrite \/ Aside
    <3>1. /\ \A d, m : Checkpoint(d, m) => pc' \in Kernels
          /\ \A leaf : DedupLeaf(leaf) => pc' \in Kernels
          /\ ChooseFirst => pc' \in Kernels
          /\ FirstForest => pc' \in Kernels
          /\ EndFirstForest => pc' \in Kernels
          /\ BuildForest => pc' \in Kernels
          /\ InsertEntries => pc' \in Kernels
          /\ EndBuildForest => pc' \in Kernels
      BY DEF Checkpoint, DedupLeaf, ChooseFirst, FirstForest, EndFirstForest, BuildForest,
             InsertEntries, EndBuildForest, Kernels
    <3> QED
      BY <1>3, <3>1, Steps
  <2>2. UNCHANGED <<first_ocur_vec, shift_dupl_vec>>
    BY <2>1 DEF FinishCheckpoint, FailToWrite, Aside, dedupVars
  <2> QED
    BY <2>2 DEF VectorsFit
<1> QED
  BY <1>2, <1>3

-----------------------------------------------------------------------------
(* DiffsTrue *)

\* The checkpoints taken are numbered below the one under way.
LEMMA TakenTrue == ObjectTrue => Taken = 0 .. current_id - 1 /\ current_id \in Nat
<1> SUFFICES ASSUME ObjectTrue PROVE Taken = 0 .. current_id - 1 /\ current_id \in Nat
  OBVIOUS
<1>1. current_id \in Nat /\ FcnOn(incr_chkpts, 1 .. current_id)
  BY DEF ObjectTrue
<1>2. Len(incr_chkpts) = current_id
  BY <1>1, AppendTrue
<1> QED
  BY <1>1, <1>2 DEF Taken

LEMMA FinishStep ==
  ASSUME ObjectTrue, FinishCheckpoint
  PROVE  /\ current_id' = current_id + 1 /\ current_id \in Nat
         /\ Taken = 0 .. current_id - 1 /\ Taken' = 0 .. current_id
         /\ \A k \in Taken : Chkpt(k)' = Chkpt(k) /\ history'[k + 1] = history[k + 1]
         /\ incr_chkpts'[current_id + 1] = Diff /\ history'[current_id + 1] = data
<1>1. /\ incr_chkpts' = Append(incr_chkpts, Diff) /\ history' = Append(history, data)
      /\ current_id' = current_id + 1
  BY DEF FinishCheckpoint
<1>2. /\ current_id \in Nat /\ FcnOn(incr_chkpts, 1 .. current_id)
      /\ FcnOn(history, 1 .. current_id)
  BY DEF ObjectTrue
<1>3. /\ FcnOn(incr_chkpts', 1 .. current_id + 1)
      /\ \A i \in 1 .. current_id : incr_chkpts'[i] = incr_chkpts[i]
      /\ incr_chkpts'[current_id + 1] = Diff
      /\ Len(incr_chkpts) = current_id
  BY <1>1, <1>2, AppendTrue
<1>4. /\ \A i \in 1 .. current_id : history'[i] = history[i]
      /\ history'[current_id + 1] = data
  <2>1. /\ \A i \in 1 .. current_id : Append(history, data)[i] = history[i]
        /\ Append(history, data)[current_id + 1] = data
    BY <1>2, AppendTrue
  <2> QED
    BY <1>1, <2>1
<1>5. current_id + 1 \in Nat
  BY <1>2
<1>6. Len(incr_chkpts') = current_id + 1
  BY <1>3, <1>5, AppendTrue
<1>7. Taken = 0 .. current_id - 1 /\ Taken' = 0 .. current_id
  BY <1>2, <1>3, <1>6 DEF Taken
<1>8. \A k \in Taken : k + 1 \in 1 .. current_id
  BY <1>2, <1>7
<1> QED
  BY <1>1, <1>2, <1>3, <1>4, <1>7, <1>8 DEF Chkpt

\* No other step changes the diffs.
LEMMA DiffsKept ==
  ASSUME [Next]_vars
  PROVE  FinishCheckpoint \/ UNCHANGED <<incr_chkpts, history>>
BY Steps DEF Checkpoint, DedupLeaf, ChooseFirst, FirstForest, EndFirstForest, BuildForest,
             InsertEntries, EndBuildForest, FailToWrite, Aside, dedupVars

LEMMA DiffsInit == Init => DiffsTrue
BY DEF Init, DiffsTrue, Taken

LEMMA DiffsStep ==
  ASSUME ObjectTrue, LabelsTrue, DigestsKnown, RootsTrue, DiffsTrue, [Next]_vars
  PROVE  DiffsTrue'
<1>1. CASE UNCHANGED <<incr_chkpts, history>>
  <2>1. Taken' = Taken /\ \A k : Chkpt(k)' = Chkpt(k) /\ history' = history
    BY <1>1 DEF Taken, Chkpt
  <2>2. ASSUME NEW k \in Taken PROVE DiffTrue(k)'
    <3>1. DiffTrue(k)
      BY <2>2 DEF DiffsTrue
    <3>2. Chkpt(k)' = Chkpt(k) /\ history' = history
      BY <2>1
    <3> HIDE DEF Chkpt
    <3> QED
      BY <3>1, <3>2 DEF DiffTrue
  <2> QED
    BY <2>1, <2>2 DEF DiffsTrue
<1>2. CASE FinishCheckpoint
  <2>1. /\ Taken = 0 .. current_id - 1 /\ Taken' = 0 .. current_id /\ current_id \in Nat
        /\ \A k \in Taken : Chkpt(k)' = Chkpt(k) /\ history'[k + 1] = history[k + 1]
        /\ incr_chkpts'[current_id + 1] = Diff /\ history'[current_id + 1] = data
    BY <1>2, FinishStep
  <2>2. ASSUME NEW k \in Taken PROVE DiffTrue(k)'
    <3>1. DiffTrue(k)
      BY <2>2 DEF DiffsTrue
    <3>2. Chkpt(k)' = Chkpt(k) /\ history'[k + 1] = history[k + 1]
      BY <2>1, <2>2
    <3> HIDE DEF Chkpt
    <3> QED
      BY <3>1, <3>2 DEF DiffTrue
  <2>3. pc = "collect"
    BY <1>2 DEF FinishCheckpoint
  <2>4. ASSUME NEW k, k = current_id PROVE DiffTrue(k)'
    <3> DEFINE diff == Chkpt(k)'
               shifted == {e.node : e \in diff.shift_dupl}
               roots == DOMAIN diff.first_ocur \cup shifted
    <3>1. diff = Diff /\ history'[k + 1] = data
      BY <2>1, <2>4 DEF Chkpt
    <3>2. diff.ref_id = baseline_id /\ diff.ref_id \in 0 .. k
      BY <2>4, <3>1 DEF Diff, ObjectTrue
    <3>3. data \in Data
      BY <2>3 DEF ObjectTrue, Kernels
    <3>4. /\ diff.first_ocur = NewRegions
          /\ DOMAIN diff.first_ocur \subseteq first_ocur_vec
          /\ \A u \in DOMAIN diff.first_ocur : diff.first_ocur[u] =
               [i \in 0 .. NumLeaves[u] - 1 |-> data[RegionChunk(u, i)]]
      BY <3>1 DEF Diff, NewRegions
    <3>5. /\ diff.shift_dupl = ShiftedRegions
          /\ \A e \in diff.shift_dupl : e.node \in shift_dupl_vec /\ e.prev = FirstOcur(e.node)
      BY <3>1 DEF Diff, ShiftedRegions
    <3>6. shifted \subseteq shift_dupl_vec
      BY <3>5
    <3>7. first_ocur_vec \subseteq Nodes /\ shift_dupl_vec \subseteq Nodes
      BY DEF RootsTrue
    <3>8. ASSUME NEW e \in diff.shift_dupl
          PROVE  e.prev.node \in Nodes /\ e.prev.tree \in diff.ref_id .. k
      <4>1. e.node \in Nodes /\ labels[e.node] = "SHIFT_DUPL"
        BY <2>3, <3>5, <3>7 DEF RootsTrue, Kernels
      <4>2. tree[e.node] \in DOMAIN first_ocur
        BY <2>3, <4>1, TreeShape DEF DigestsKnown, Kernels, Forests, ObjectTrue
      <4> QED
        BY <2>4, <3>2, <3>5, <4>2 DEF ObjectTrue, FirstOcur
    <3>9. /\ first_ocur_vec \cap shift_dupl_vec = {}
          /\ \A u, v \in first_ocur_vec \cup shift_dupl_vec :
               u # v => ChunksOf(u) \cap ChunksOf(v) = {}
      BY <2>3, RootsApart DEF Kernels
    <3>10. /\ \A u, v \in roots : u # v => ChunksOf(u) \cap ChunksOf(v) = {}
           /\ DOMAIN diff.first_ocur \cap shifted = {}
      BY <3>4, <3>6, <3>9
    <3> QED
      BY <3>1, <3>2, <3>3, <3>4, <3>6, <3>7, <3>8, <3>10 DEF DiffTrue
  <2>5. \A k \in Taken' : k \in Taken \/ k = current_id
    BY <2>1
  <2> QED
    BY <2>2, <2>4, <2>5 DEF DiffsTrue
<1> QED
  BY <1>1, <1>2, DiffsKept

-----------------------------------------------------------------------------
(* SavedKnown and SavedApart *)

\* What a diff has saved, and of which chunk.
SavedTrue ==
  \A k \in Taken : \A p \in SavedChunks(k) :
    /\ p = <<p[1], p[2]>>
    /\ p[1] \in DOMAIN Chkpt(k).first_ocur /\ p[1] \in Nodes
    /\ p[2] \in 0 .. NumLeaves[p[1]] - 1
    /\ Chkpt(k).first_ocur[p[1]][p[2]] = history[k + 1][RegionChunk(p[1], p[2])]

LEMMA SavedOf == DiffsTrue => SavedTrue
<1> SUFFICES ASSUME DiffsTrue, NEW k \in Taken, NEW p \in SavedChunks(k)
             PROVE  /\ p = <<p[1], p[2]>>
                    /\ p[1] \in DOMAIN Chkpt(k).first_ocur /\ p[1] \in Nodes
                    /\ p[2] \in 0 .. NumLeaves[p[1]] - 1
                    /\ Chkpt(k).first_ocur[p[1]][p[2]] = history[k + 1][RegionChunk(p[1], p[2])]
  BY DEF SavedTrue
<1>1. PICK u \in DOMAIN Chkpt(k).first_ocur : p \in {<<u, i>> : i \in DOMAIN Chkpt(k).first_ocur[u]}
  BY DEF SavedChunks
<1>2. PICK i \in DOMAIN Chkpt(k).first_ocur[u] : p = <<u, i>>
  BY <1>1
<1>3. /\ u \in Nodes
      /\ Chkpt(k).first_ocur[u] = [n \in 0 .. NumLeaves[u] - 1 |-> history[k + 1][RegionChunk(u, n)]]
  BY DEF DiffsTrue, DiffTrue
<1>4. i \in 0 .. NumLeaves[u] - 1
  BY <1>2, <1>3
<1>5. Chkpt(k).first_ocur[u][i] = history[k + 1][RegionChunk(u, i)]
  BY <1>3, <1>4
<1>6. p[1] = u /\ p[2] = i /\ p = <<p[1], p[2]>>
  BY <1>2
<1> QED
  BY <1>1, <1>3, <1>4, <1>5, <1>6

\* Entries of earlier checkpoints stay as they are, unless a baseline drops all.
LEMMA EntriesKept ==
  ASSUME ObjectTrue, LevelTrue, LabelsTrue, [Next]_vars, baseline_id' = baseline_id,
         NEW d \in DOMAIN first_ocur, first_ocur[d].tree < current_id
  PROVE  d \in DOMAIN first_ocur' /\ first_ocur'[d] = first_ocur[d]
<1>1. FcnOn(first_ocur, DOMAIN first_ocur) /\ current_id \in Nat
      /\ first_ocur[d].tree \in baseline_id .. current_id /\ baseline_id \in 0 .. current_id
  BY DEF ObjectTrue
<1>2. ASSUME NEW e \in Data, NEW make_baseline \in BOOLEAN, Checkpoint(e, make_baseline)
      PROVE  first_ocur' = first_ocur
  <2>1. ~make_baseline
    BY <1>1, <1>2 DEF Checkpoint
  <2> QED
    BY <1>2, <2>1 DEF Checkpoint, MapAtStart
<1>3. ASSUME NEW leaf \in todo, DedupLeaf(leaf)
      PROVE  d \in DOMAIN first_ocur' /\ first_ocur'[d] = first_ocur[d]
  <2> DEFINE digest == LeafDigest(leaf)
  <2>1. /\ DOMAIN first_ocur' = DOMAIN first_ocur \cup {digest}
        /\ \A x \in DOMAIN first_ocur : x # digest => first_ocur'[x] = first_ocur[x]
        /\ digest \in DOMAIN first_ocur =>
             first_ocur'[digest] = first_ocur[digest] \/ first_ocur[digest].tree = current_id
    BY <1>3, LeafStep
  <2> HIDE DEF digest
  <2> QED
    BY <1>1, <2>1
<1>4. ASSUME NEW t, NEW S, first_ocur' \in Inserted(first_ocur, t, S)
      PROVE  d \in DOMAIN first_ocur' /\ first_ocur'[d] = first_ocur[d]
  BY <1>1, <1>4, InsertedTrue
<1>5. CASE FirstForest
  BY <1>4, <1>5 DEF FirstForest
<1>6. CASE InsertEntries
  BY <1>4, <1>6 DEF InsertEntries
<1>7. CASE \/ ChooseFirst \/ EndFirstForest \/ BuildForest \/ EndBuildForest
           \/ FinishCheckpoint \/ FailToWrite \/ Aside
  BY <1>7 DEF ChooseFirst, EndFirstForest, BuildForest, EndBuildForest, FinishCheckpoint,
              FailToWrite, Aside, dedupVars
<1> QED
  BY <1>2, <1>3, <1>5, <1>6, <1>7, Steps

LEMMA SavedInit == Init => SavedKnown /\ SavedApart
BY DEF Init, SavedKnown, SavedApart, Taken

\* A chain starts with the checkpoint under way, or goes on.
LEMMA ChainStep ==
  ASSUME ObjectTrue, [Next]_vars
  PROVE  baseline_id' = baseline_id \/ (baseline_id' = current_id /\ current_id' = current_id)
BY Steps DEF Checkpoint, DedupLeaf, ChooseFirst, FirstForest, EndFirstForest, BuildForest,
             InsertEntries, EndBuildForest, FinishCheckpoint, FailToWrite, Aside, dedupVars

LEMMA SavedKnownStep ==
  ASSUME ObjectTrue, LevelTrue, LabelsTrue, DigestsKnown, RootsTrue, DiffsTrue, SavedKnown,
         [Next]_vars
  PROVE  SavedKnown'
<1> DEFINE Known(k) ==
      Chkpt(k).ref_id = baseline_id =>
        \A u \in DOMAIN Chkpt(k).first_ocur : \A i \in 0 .. NumLeaves[u] - 1 :
          LET digest == Hash(history[k + 1][RegionChunk(u, i)])
          IN  /\ digest \in DOMAIN first_ocur
              /\ first_ocur[digest] = NodeID(Leftmost[u] + i, k)
<1>1. SavedKnown <=> \A k \in Taken : Known(k)
  BY DEF SavedKnown
<1>2. SavedKnown' <=> \A k \in Taken' : Known(k)'
  BY DEF SavedKnown
<1>3. Taken = 0 .. current_id - 1 /\ current_id \in Nat
  BY TakenTrue
<1>4. ASSUME NEW k \in Taken, Chkpt(k)' = Chkpt(k), history'[k + 1] = history[k + 1]
      PROVE  Known(k)'
  <2>1. CASE baseline_id' = baseline_id
    <3> SUFFICES ASSUME Chkpt(k).ref_id = baseline_id,
                        NEW u \in DOMAIN Chkpt(k).first_ocur,
                        NEW i \in 0 .. NumLeaves[u] - 1
                 PROVE  LET digest == Hash(history[k + 1][RegionChunk(u, i)])
                        IN  /\ digest \in DOMAIN first_ocur'
                            /\ first_ocur'[digest] = NodeID(Leftmost[u] + i, k)
      BY <1>4, <2>1
    <3> DEFINE digest == Hash(history[k + 1][RegionChunk(u, i)])
    <3>1. digest \in DOMAIN first_ocur /\ first_ocur[digest] = NodeID(Leftmost[u] + i, k)
      BY <1>1
    <3> HIDE DEF digest
    <3>2. first_ocur[digest].tree < current_id
      BY <1>3, <3>1 DEF NodeID
    <3>3. digest \in DOMAIN first_ocur' /\ first_ocur'[digest] = first_ocur[digest]
      BY <2>1, <3>1, <3>2, EntriesKept
    <3> QED
      BY <3>1, <3>3 DEF digest
  <2>2. CASE baseline_id' = current_id
    <3>1. Chkpt(k).ref_id \in 0 .. k
      BY DEF DiffsTrue, DiffTrue
    <3>2. Chkpt(k).ref_id # current_id
      BY <1>3, <3>1
    <3> QED
      BY <1>4, <2>2, <3>2
  <2> QED
    BY <2>1, <2>2, ChainStep
<1>5. CASE UNCHANGED <<incr_chkpts, history>>
  <2>1. Taken' = Taken /\ \A k : Chkpt(k)' = Chkpt(k)
    BY <1>5 DEF Taken, Chkpt
  <2> HIDE DEF Known
  <2> QED
    BY <1>2, <1>4, <1>5, <2>1
<1>6. CASE FinishCheckpoint
  <2>1. /\ Taken' = 0 .. current_id
        /\ \A k \in Taken : Chkpt(k)' = Chkpt(k) /\ history'[k + 1] = history[k + 1]
        /\ incr_chkpts'[current_id + 1] = Diff /\ history'[current_id + 1] = data
    BY <1>6, FinishStep
  <2>2. pc = "collect" /\ UNCHANGED <<first_ocur, baseline_id>>
    BY <1>6 DEF FinishCheckpoint
  <2>3. ASSUME NEW k, k = current_id PROVE Known(k)'
    <3>1. Chkpt(k)' = Diff /\ history'[k + 1] = data
      BY <2>1, <2>3 DEF Chkpt
    <3>2. DOMAIN Diff.first_ocur \subseteq first_ocur_vec
      BY DEF Diff, NewRegions
    <3> SUFFICES ASSUME NEW u \in first_ocur_vec, NEW i \in 0 .. NumLeaves[u] - 1
                 PROVE  LET digest == Hash(data[RegionChunk(u, i)])
                        IN  /\ digest \in DOMAIN first_ocur
                            /\ first_ocur[digest] = NodeID(Leftmost[u] + i, k)
      BY <2>2, <3>1, <3>2
    <3> DEFINE w == Leftmost[u] + i
    <3>3. u \in Nodes /\ labels[u] = "FIRST_OCUR"
      BY <2>2 DEF RootsTrue, Kernels
    <3>4. w \in LeafNodes /\ w \in Below(u) /\ w - (NumChunks - 1) = RegionChunk(u, i)
      <4>1. /\ Leftmost[u] \in Int /\ Leftmost[u] >= NumChunks - 1 /\ NumLeaves[u] \in Nat
            /\ Leftmost[u] + NumLeaves[u] <= 2 * NumChunks - 1 /\ NumChunks \in Nat
            /\ w \in Below(u)
        BY <3>3, RegionTrue, TreeShape DEF LeafNodes, Leaves, NumNodes
      <4> QED
        BY <4>1 DEF RegionChunk, LeafNodes, Leaves, NumNodes
    <3> HIDE DEF w
    <3>5. labels[w] = "FIRST_OCUR"
      BY <2>2, <3>3, <3>4, TreeShape, LabelsBelow DEF Second
    <3>6. tree[w] = LeafDigest(w) /\ tree[w] \in DOMAIN first_ocur
          /\ first_ocur[tree[w]] = NodeID(w, current_id)
      BY <2>2, <3>4, <3>5 DEF DigestsKnown, Kernels, Forests, ObjectTrue
    <3>7. LeafDigest(w) = Hash(data[RegionChunk(u, i)])
      BY <3>4 DEF LeafDigest
    <3> QED
      BY <2>3, <3>6, <3>7 DEF w
  <2>4. \A k \in Taken' : k \in Taken \/ k = current_id
    BY <1>3, <2>1
  <2> HIDE DEF Known
  <2> QED
    BY <1>2, <1>4, <2>1, <2>3, <2>4
<1> QED
  BY <1>5, <1>6, DiffsKept

LEMMA SavedApartStep ==
  ASSUME ObjectTrue, DiffsTrue, SavedKnown, SavedApart, DiffsTrue', SavedKnown', [Next]_vars
  PROVE  SavedApart'
<1>1. CASE UNCHANGED <<incr_chkpts, history>>
  <2>1. Taken' = Taken /\ \A k : Chkpt(k)' = Chkpt(k)
    BY <1>1 DEF Taken, Chkpt
  <2>2. \A k : SavedChunks(k)' = SavedChunks(k)
    BY <2>1 DEF SavedChunks
  <2> HIDE DEF Chkpt, SavedChunks
  <2> QED
    BY <2>1, <2>2 DEF SavedApart
<1>2. CASE FinishCheckpoint
  <2> SUFFICES ASSUME NEW j \in Taken', NEW k \in Taken',
                      Chkpt(j)'.ref_id = Chkpt(k)'.ref_id,
                      NEW p \in SavedChunks(j)', NEW q \in SavedChunks(k)',
                      Chkpt(j)'.first_ocur[p[1]][p[2]] = Chkpt(k)'.first_ocur[q[1]][q[2]]
               PROVE  j = k /\ p = q
    BY DEF SavedApart
  <2>1. /\ Taken = 0 .. current_id - 1 /\ Taken' = 0 .. current_id /\ current_id \in Nat
        /\ \A n \in Taken : Chkpt(n)' = Chkpt(n)
        /\ incr_chkpts'[current_id + 1] = Diff
    BY <1>2, FinishStep
  <2>2. CASE j \in Taken /\ k \in Taken
    <3>1. p \in SavedChunks(j) /\ q \in SavedChunks(k)
      BY <2>1, <2>2 DEF SavedChunks
    <3> QED
      BY <2>1, <2>2, <3>1 DEF SavedApart
  <2>3. CASE ~(j \in Taken /\ k \in Taken)
    <3>2. \A n \in Taken' : n \notin Taken => n = current_id /\ Chkpt(n)' = Diff
      BY <2>1 DEF Chkpt
    <3>3. Diff.ref_id = baseline_id /\ baseline_id' = baseline_id
      BY <1>2 DEF Diff, FinishCheckpoint
    <3>4. Chkpt(j)'.ref_id = baseline_id' /\ Chkpt(k)'.ref_id = baseline_id'
      BY <2>3, <3>2, <3>3
    <3>5. SavedTrue'
      BY SavedOf, PTL
    <3>6. /\ p = <<p[1], p[2]>> /\ p[1] \in DOMAIN Chkpt(j)'.first_ocur /\ p[1] \in Nodes
          /\ p[2] \in 0 .. NumLeaves[p[1]] - 1
          /\ Chkpt(j)'.first_ocur[p[1]][p[2]] = history'[j + 1][RegionChunk(p[1], p[2])]
      BY <3>5 DEF SavedTrue
    <3>7. /\ q = <<q[1], q[2]>> /\ q[1] \in DOMAIN Chkpt(k)'.first_ocur /\ q[1] \in Nodes
          /\ q[2] \in 0 .. NumLeaves[q[1]] - 1
          /\ Chkpt(k)'.first_ocur[q[1]][q[2]] = history'[k + 1][RegionChunk(q[1], q[2])]
      BY <3>5 DEF SavedTrue
    <3> DEFINE d == Hash(history'[j + 1][RegionChunk(p[1], p[2])])
    <3>8. d = Hash(history'[k + 1][RegionChunk(q[1], q[2])])
      BY <3>6, <3>7
    <3>9. first_ocur'[d] = NodeID(Leftmost[p[1]] + p[2], j)
      BY <3>4, <3>6 DEF SavedKnown
    <3>10. first_ocur'[d] = NodeID(Leftmost[q[1]] + q[2], k)
      BY <3>4, <3>7, <3>8 DEF SavedKnown
    <3>11. j = k /\ Leftmost[p[1]] + p[2] = Leftmost[q[1]] + q[2]
      BY <3>9, <3>10 DEF NodeID
    <3> HIDE DEF d
    <3>12. /\ Leftmost[p[1]] \in Int /\ Leftmost[q[1]] \in Int /\ NumChunks \in Nat
           /\ NumLeaves[p[1]] \in Nat /\ NumLeaves[q[1]] \in Nat
      BY <3>6, <3>7, RegionTrue, TreeShape DEF LeafNodes, Leaves, NumNodes
    <3>13. RegionChunk(p[1], p[2]) = RegionChunk(q[1], q[2])
      BY <3>6, <3>7, <3>11, <3>12 DEF RegionChunk
    <3>14. RegionChunk(p[1], p[2]) \in ChunksOf(p[1]) \cap ChunksOf(q[1])
      BY <3>6, <3>7, <3>13 DEF ChunksOf
    <3>15. p[1] = q[1]
      BY <3>6, <3>7, <3>11, <3>14 DEF DiffsTrue, DiffTrue
    <3>16. p[2] = q[2]
      BY <3>6, <3>7, <3>11, <3>12, <3>15
    <3> QED
      BY <3>6, <3>7, <3>11, <3>15, <3>16
  <2> QED
    BY <2>2, <2>3
<1> QED
  BY <1>1, <1>2, DiffsKept

-----------------------------------------------------------------------------
(* Coherent, and the properties it implies *)

\* What every checkpoint keeps to holds in every state, the level under way
\* being one of the tree's.
THEOREM CoherentAlways == Spec => [](Coherent /\ LevelTrue)
<1>1. Init => Coherent /\ LevelTrue
  BY ObjectInit, LevelInit, LabelsInit, DigestsInit, RoomInit, RootsInit, VectorsInit,
     DiffsInit, SavedInit DEF Coherent
<1>2. Coherent /\ LevelTrue /\ [Next]_vars => (Coherent /\ LevelTrue)'
  <2> SUFFICES ASSUME Coherent, LevelTrue, [Next]_vars PROVE Coherent' /\ LevelTrue'
    OBVIOUS
  <2>1. /\ ObjectTrue /\ LabelsTrue /\ DigestsKnown /\ RoomLeft /\ RootsTrue /\ VectorsFit
        /\ DiffsTrue /\ SavedKnown /\ SavedApart
    BY DEF Coherent
  <2>2. ObjectTrue' /\ LevelTrue' /\ LabelsTrue'
    BY <2>1, ObjectStep, LevelTrueStep, LabelsStep
  <2>3. DigestsKnown' /\ RoomLeft'
    BY <2>1, DigestsStep, RoomStep
  <2>4. RootsTrue' /\ VectorsFit'
    BY <2>1, RootsStep, VectorsStep
  <2>5. DiffsTrue' /\ SavedKnown'
    BY <2>1, DiffsStep, SavedKnownStep
  <2>6. SavedApart'
    BY <2>1, <2>5, SavedApartStep
  <2> QED
    BY <2>2, <2>3, <2>4, <2>5, <2>6 DEF Coherent
<1> QED
  BY <1>1, <1>2, PTL DEF Spec

\* push() and insert() never run out of the room the object has allocated,
\* however often a chain is added to, in whatever order the teams run, and
\* whichever files fail to be written.
THEOREM RoomAlwaysEnough == Spec => []RoomEnough
<1>1. Coherent => RoomEnough
  <2> SUFFICES ASSUME Coherent PROVE RoomEnough
    OBVIOUS
  <2>1. /\ IsFiniteSet(DOMAIN first_ocur) /\ capacity \in Nat
        /\ Cardinality(DOMAIN first_ocur) + Cardinality(Pending) <= capacity
    BY DEF Coherent, RoomLeft
  <2>2. IsFiniteSet(Pending)
    <3>1. Pending \subseteq Nodes
      BY TreeShape DEF Coherent, ObjectTrue, Pending
    <3> QED
      BY <3>1, NodesFinite, FS_Subset
  <2>3. Cardinality(DOMAIN first_ocur) \in Nat /\ Cardinality(Pending) \in Nat
    BY <2>1, <2>2, FS_CardinalityType
  <2>4. Cardinality(DOMAIN first_ocur) <= capacity
    BY <2>1, <2>3
  <2> QED
    BY <2>4 DEF Coherent, VectorsFit, RoomEnough
<1> QED
  BY <1>1, CoherentAlways, PTL

\* No two regions of a diff share a chunk, so no team of a restart writes what
\* another writes: regions are pushed only where no region goes on above.
THEOREM RegionsAlwaysDisjoint == Spec => []RegionsDisjoint
<1>1. Coherent => RegionsDisjoint
  <2> SUFFICES ASSUME Coherent, NEW k \in Taken
               PROVE  /\ \A u, v \in Roots(k) : u # v => ChunksOf(u) \cap ChunksOf(v) = {}
                      /\ DOMAIN Chkpt(k).first_ocur
                           \cap {e.node : e \in Chkpt(k).shift_dupl} = {}
    BY DEF RegionsDisjoint, Roots
  <2>1. DiffTrue(k)
    BY DEF Coherent, DiffsTrue
  <2> QED
    BY <2>1 DEF DiffTrue, Roots
<1> QED
  BY <1>1, CoherentAlways, PTL

\* No chunk's content is saved twice in a chain, by one checkpoint or by two,
\* whatever order the leaf teams ran in and whatever writes failed.
THEOREM SavedOnceAlways == Spec => []SavedOnce
<1>1. Coherent => SavedOnce
  BY DEF Coherent, SavedApart, SavedOnce
<1> QED
  BY <1>1, CoherentAlways, PTL

-----------------------------------------------------------------------------
(* The digests of the nodes when the chunks hold dat *)

HashClosed(S, dat) ==
  /\ \A u \in LeafNodes : <<Hash(dat[u - (NumChunks - 1)]), u>> \in S
  /\ \A u \in Inner, l, r \in Digests :
       <<l, Left(u)>> \in S /\ <<r, Right(u)>> \in S /\ HashPair(l, r) \in Digests =>
         <<HashPair(l, r), u>> \in S

\* Node u hashes to digest d.
Hashes(dat, u, d) ==
  /\ u \in Nodes /\ d \in Digests
  /\ \A S \in SUBSET (Digests \X Nodes) : HashClosed(S, dat) => <<d, u>> \in S

LEMMA HashesLeaf ==
  ASSUME NEW dat \in Data, NEW u \in LeafNodes
  PROVE  Hashes(dat, u, Hash(dat[u - (NumChunks - 1)]))
<1>1. u - (NumChunks - 1) \in Chunks /\ u \in Nodes
  BY TreeShape DEF LeafNodes, Leaves, NumNodes, Chunks
<1>2. Hash(dat[u - (NumChunks - 1)]) \in Digests
  BY <1>1, HashAssumption DEF Data
<1> QED
  BY <1>1, <1>2 DEF Hashes, HashClosed

LEMMA HashesInner ==
  ASSUME NEW dat, NEW u \in Inner, NEW l, NEW r,
         Hashes(dat, Left(u), l), Hashes(dat, Right(u), r), HashPair(l, r) \in Digests
  PROVE  Hashes(dat, u, HashPair(l, r))
<1>1. l \in Digests /\ r \in Digests /\ u \in Nodes
  BY TreeShape DEF Hashes
<1>2. ASSUME NEW S \in SUBSET (Digests \X Nodes), HashClosed(S, dat)
      PROVE  <<HashPair(l, r), u>> \in S
  <2>1. <<l, Left(u)>> \in S /\ <<r, Right(u)>> \in S
    BY <1>2 DEF Hashes
  <2> QED
    BY <1>1, <1>2, <2>1 DEF HashClosed
<1> QED
  BY <1>1, <1>2 DEF Hashes

\* What a node hashes to is made of what its children do.
LEMMA HashesMade ==
  ASSUME NEW dat \in Data, NEW u, NEW d, Hashes(dat, u, d)
  PROVE  /\ u \in LeafNodes => d = Hash(dat[u - (NumChunks - 1)])
         /\ u \in Inner => \E l, r : /\ d = HashPair(l, r)
                                     /\ Hashes(dat, Left(u), l) /\ Hashes(dat, Right(u), r)
<1> DEFINE Made(v, e) ==
             /\ v \in LeafNodes => e = Hash(dat[v - (NumChunks - 1)])
             /\ v \in Inner => \E l, r : /\ e = HashPair(l, r)
                                         /\ Hashes(dat, Left(v), l) /\ Hashes(dat, Right(v), r)
           S == {p \in Digests \X Nodes : Hashes(dat, p[2], p[1]) /\ Made(p[2], p[1])}
<1>1. ASSUME NEW v \in LeafNodes PROVE <<Hash(dat[v - (NumChunks - 1)]), v>> \in S
  <2> DEFINE e == Hash(dat[v - (NumChunks - 1)])
  <2>1. Hashes(dat, v, e)
    BY HashesLeaf
  <2>2. Made(v, e)
    BY TreeShape
  <2>3. e \in Digests /\ v \in Nodes
    BY <2>1 DEF Hashes
  <2> HIDE DEF Made, e
  <2> QED
    BY <2>1, <2>2, <2>3 DEF e
<1>2. ASSUME NEW v \in Inner, NEW l \in Digests, NEW r \in Digests,
             <<l, Left(v)>> \in S, <<r, Right(v)>> \in S, HashPair(l, r) \in Digests
      PROVE  <<HashPair(l, r), v>> \in S
  <2> DEFINE e == HashPair(l, r)
  <2>1. Hashes(dat, Left(v), l) /\ Hashes(dat, Right(v), r)
    <3> HIDE DEF Made
    <3> QED
      BY <1>2
  <2>2. Hashes(dat, v, e)
    BY <1>2, <2>1, HashesInner
  <2>3. Made(v, e)
    BY <2>1, TreeShape
  <2>4. e \in Digests /\ v \in Nodes
    BY <2>2 DEF Hashes
  <2> HIDE DEF Made, e
  <2> QED
    BY <2>2, <2>3, <2>4 DEF e
<1>3. S \in SUBSET (Digests \X Nodes) /\ HashClosed(S, dat)
  <2> HIDE DEF Made
  <2>1. S \in SUBSET (Digests \X Nodes)
    OBVIOUS
  <2> HIDE DEF S
  <2> QED
    BY <1>1, <1>2, <2>1 DEF HashClosed
<1>4. <<d, u>> \in S
  <2> HIDE DEF S
  <2> QED
    BY <1>3 DEF Hashes
<1>5. Made(u, d)
  <2> HIDE DEF Made
  <2> QED
    BY <1>4
<1> QED
  BY <1>5

\* And is among the digests of the node.
LEMMA HashesClosed ==
  ASSUME NEW f, DigestsClosed(f), NEW dat \in Data, NEW u, NEW d, Hashes(dat, u, d)
  PROVE  d \in f[u]
<1> DEFINE S == {p \in Digests \X Nodes : p[1] \in f[p[2]]}
<1>1. \A v \in Nodes : f[v] \subseteq Digests
  BY DEF DigestsClosed
<1>2. ASSUME NEW v \in LeafNodes PROVE <<Hash(dat[v - (NumChunks - 1)]), v>> \in S
  <2>1. v - (NumChunks - 1) \in Chunks /\ v \in Nodes
    BY TreeShape DEF LeafNodes, Leaves, NumNodes, Chunks
  <2>2. Hash(dat[v - (NumChunks - 1)]) \in f[v]
    BY <2>1 DEF DigestsClosed, Data
  <2> QED
    BY <1>1, <2>1, <2>2
<1>3. ASSUME NEW v \in Inner, NEW l \in Digests, NEW r \in Digests,
             <<l, Left(v)>> \in S, <<r, Right(v)>> \in S, HashPair(l, r) \in Digests
      PROVE  <<HashPair(l, r), v>> \in S
  <2>1. l \in f[Left(v)] /\ r \in f[Right(v)] /\ v \in Nodes
    BY <1>3, TreeShape
  <2>2. HashPair(l, r) \in f[v]
    BY <2>1 DEF DigestsClosed
  <2> QED
    BY <1>3, <2>1, <2>2
<1>4. S \in SUBSET (Digests \X Nodes) /\ HashClosed(S, dat)
  <2>1. S \in SUBSET (Digests \X Nodes)
    OBVIOUS
  <2> HIDE DEF S
  <2> QED
    BY <1>2, <1>3, <2>1 DEF HashClosed
<1>5. <<d, u>> \in S
  <2> HIDE DEF S
  <2> QED
    BY <1>4 DEF Hashes
<1> QED
  BY <1>5

\* So the digest of two children that hash to digests is one, and the node's.
LEMMA HashesUp ==
  ASSUME NEW f, DigestsClosed(f), NEW dat \in Data, NEW u \in Inner, NEW l, NEW r,
         Hashes(dat, Left(u), l), Hashes(dat, Right(u), r)
  PROVE  Hashes(dat, u, HashPair(l, r)) /\ HashPair(l, r) \in Digests
<1>1. l \in f[Left(u)] /\ r \in f[Right(u)]
  BY HashesClosed
<1>2. HashPair(l, r) \in Digests
  BY <1>1, TreeShape DEF DigestsClosed
<1> QED
  BY <1>2, HashesInner

\* No node hashes both to the digest of a chunk and to that of two children.
LEMMA HashesApart ==
  ASSUME NEW dat, NEW u, NEW v, NEW l, NEW r, Hashes(dat, u, l), Hashes(dat, v, r)
  PROVE  /\ \A x \in Vals : HashPair(l, r) # Hash(x)
         /\ \A m, s \in Digests : HashPair(l, r) = HashPair(m, s) => l = m /\ r = s
         /\ HashPair(l, r) # NoDigest
<1>1. l \in Digests /\ r \in Digests
  BY DEF Hashes
<1> QED
  BY <1>1, HashAssumption

\* Nodes that hash to one digest have regions of one shape and content.
LEMMA HashesSame ==
  ASSUME NEW a \in Data, NEW b \in Data, NEW u, NEW v, NEW d,
         Hashes(a, u, d), Hashes(b, v, d)
  PROVE  /\ NumLeaves[u] = NumLeaves[v]
         /\ \A i \in 0 .. NumLeaves[u] - 1 : a[RegionChunk(u, i)] = b[RegionChunk(v, i)]
<1> DEFINE Same(x, y) == IF x \in Nodes THEN \E e : Hashes(a, x, e) /\ Hashes(b, y, e)
                         ELSE y \notin Nodes
           match == {p \in Nat \X Nat : Same(p[1], p[2])}
<1>1. /\ u \in Nodes /\ v \in Nodes /\ u \in Nat /\ v \in Nat
      /\ NumChunks \in Nat /\ NumChunks > 0 /\ Size = NumNodes(NumChunks)
      /\ Nodes = 0 .. NumNodes(NumChunks) - 1
  BY TreeShape DEF Hashes, Size, Nodes
<1>2. \A x, y \in Nat : <<x, y>> \in match <=> Same(x, y)
  <2> HIDE DEF Same
  <2> QED
    OBVIOUS
<1>3. \A x \in Nat : x < NumNodes(NumChunks) <=> x \in Nodes
  BY <1>1, TreeShape DEF Nodes
<1>4. ASSUME NEW x \in Nat, NEW y \in Nat, Same(x, y) PROVE x \in Nodes <=> y \in Nodes
  BY <1>4 DEF Hashes
<1>5. ASSUME NEW x \in Nat, NEW y \in Nat, Same(x, y)
      PROVE  /\ Left(x) \in Nat /\ Left(y) \in Nat /\ Right(x) \in Nat /\ Right(y) \in Nat
             /\ Same(Left(x), Left(y)) /\ Same(Right(x), Right(y))
  <2>1. /\ Left(x) \in Nat /\ Left(y) \in Nat /\ Right(x) \in Nat /\ Right(y) \in Nat
        /\ \A z \in {x, y} : z \notin Inner => Left(z) \notin Nodes /\ Right(z) \notin Nodes
    BY TreeShape DEF Nodes, Inner, Left, Right
  <2>2. CASE x \in Inner
    <3>1. PICK e : Hashes(a, x, e) /\ Hashes(b, y, e)
      BY <1>5, <2>2, TreeShape
    <3>2. PICK l, r : e = HashPair(l, r) /\ Hashes(a, Left(x), l) /\ Hashes(a, Right(x), r)
      BY <2>2, <3>1, HashesMade
    <3>3. y \in Inner
      <4>1. ASSUME y \in LeafNodes PROVE FALSE
        <5>1. y - (NumChunks - 1) \in Chunks
          BY <4>1, TreeShape DEF LeafNodes, Leaves, NumNodes, Chunks
        <5>2. e = Hash(b[y - (NumChunks - 1)])
          BY <3>1, <4>1, HashesMade
        <5>3. b[y - (NumChunks - 1)] \in Vals
          BY <5>1 DEF Data
        <5> QED
          <6>1. HashPair(l, r) # Hash(b[y - (NumChunks - 1)])
            BY <3>2, <5>3, HashesApart
          <6> QED
            BY <3>2, <5>2, <6>1
      <4> QED
        BY <3>1, <4>1, TreeShape DEF Hashes
    <3>4. PICK m, s : e = HashPair(m, s) /\ Hashes(b, Left(y), m) /\ Hashes(b, Right(y), s)
      BY <3>1, <3>3, HashesMade
    <3>5. l = m /\ r = s
      <4>1. m \in Digests /\ s \in Digests
        BY <3>4 DEF Hashes
      <4> QED
        <5>1. HashPair(l, r) = HashPair(m, s)
          BY <3>2, <3>4
        <5>2. \A p, q \in Digests : HashPair(l, r) = HashPair(p, q) => l = p /\ r = q
          BY <3>2, HashesApart
        <5> QED
          BY <4>1, <5>1, <5>2
    <3> QED
      BY <2>1, <2>2, <3>2, <3>4, <3>5, TreeShape
  <2>3. CASE x \notin Inner
    <3>1. y \notin Inner
      <4>1. ASSUME y \in Inner PROVE FALSE
        <5>1. x \in LeafNodes
          BY <1>4, <1>5, <2>3, <4>1, TreeShape
        <5>2. PICK e : Hashes(a, x, e) /\ Hashes(b, y, e)
          BY <1>5, <5>1, TreeShape
        <5>3. PICK m, s : e = HashPair(m, s) /\ Hashes(b, Left(y), m) /\ Hashes(b, Right(y), s)
          BY <4>1, <5>2, HashesMade
        <5>4. x - (NumChunks - 1) \in Chunks
          BY <5>1, TreeShape DEF LeafNodes, Leaves, NumNodes, Chunks
        <5>5. e = Hash(a[x - (NumChunks - 1)])
          BY <5>1, <5>2, HashesMade
        <5>6. a[x - (NumChunks - 1)] \in Vals
          BY <5>4 DEF Data
        <5> QED
          <6>1. HashPair(m, s) # Hash(a[x - (NumChunks - 1)])
            BY <5>3, <5>6, HashesApart
          <6> QED
            BY <5>3, <5>5, <6>1
      <4> QED
        BY <4>1
    <3> QED
      BY <2>1, <2>3, <3>1
  <2> QED
    BY <2>2, <2>3
<1>6. Same(u, v)
  BY <1>1
<1> HIDE DEF Same, match
<1>7. match \in SUBSET (Nat \X Nat) /\ <<u, v>> \in match
  BY <1>1, <1>2, <1>6 DEF match
<1>8. \A x, y \in Nat : <<x, y>> \in match =>
        /\ <<Left(x), Left(y)>> \in match /\ <<Right(x), Right(y)>> \in match
        /\ x < NumNodes(NumChunks) <=> y < NumNodes(NumChunks)
  BY <1>2, <1>3, <1>4, <1>5
<1>9. /\ num_leaf_descendents(u, Size) = num_leaf_descendents(v, Size)
      /\ \A i \in 0 .. num_leaf_descendents(u, Size) - 1 :
           <<leftmost_leaf(u, Size) + i, leftmost_leaf(v, Size) + i>> \in match
  BY <1>1, <1>7, <1>8, RegionsMatched
<1>10. /\ NumLeaves[u] = NumLeaves[v]
       /\ \A i \in 0 .. NumLeaves[u] - 1 : <<Leftmost[u] + i, Leftmost[v] + i>> \in match
  BY <1>1, <1>9 DEF NumLeaves, Leftmost
<1>11. ASSUME NEW i \in 0 .. NumLeaves[u] - 1
       PROVE  a[RegionChunk(u, i)] = b[RegionChunk(v, i)]
  <2> DEFINE x == Leftmost[u] + i
             y == Leftmost[v] + i
  <2>1. /\ Leftmost[u] \in Int /\ Leftmost[u] >= NumChunks - 1 /\ NumLeaves[u] \in Nat
        /\ Leftmost[u] + NumLeaves[u] <= 2 * NumChunks - 1
        /\ Leftmost[v] \in Int /\ Leftmost[v] >= NumChunks - 1
        /\ Leftmost[v] + NumLeaves[v] <= 2 * NumChunks - 1
    BY <1>1, RegionTrue, TreeShape DEF LeafNodes, Leaves, NumNodes
  <2>2. x \in LeafNodes /\ y \in LeafNodes /\ x \in Nat /\ y \in Nat
        /\ x - (NumChunks - 1) = RegionChunk(u, i) /\ y - (NumChunks - 1) = RegionChunk(v, i)
    <3>1. NumLeaves[v] = NumLeaves[u] /\ NumChunks \in Nat
      BY <1>1, <1>10
    <3>2. LeafNodes = NumChunks - 1 .. 2 * NumChunks - 2
      BY TreeShape DEF LeafNodes, Leaves, NumNodes
    <3> DEFINE lu == Leftmost[u]
               lv == Leftmost[v]
               n == NumLeaves[u]
    <3>3. /\ lu \in Int /\ lv \in Int /\ n \in Nat /\ lu >= NumChunks - 1 /\ lv >= NumChunks - 1
          /\ lu + n <= 2 * NumChunks - 1 /\ lv + n <= 2 * NumChunks - 1 /\ i \in 0 .. n - 1
      BY <2>1, <3>1
    <3> HIDE DEF lu, lv, n
    <3>4. /\ lu + i \in NumChunks - 1 .. 2 * NumChunks - 2 /\ lu + i \in Nat
          /\ lv + i \in NumChunks - 1 .. 2 * NumChunks - 2 /\ lv + i \in Nat
          /\ lu + i - (NumChunks - 1) = lu - (NumChunks - 1) + i
          /\ lv + i - (NumChunks - 1) = lv - (NumChunks - 1) + i
      BY <1>1, <3>1, <3>3
    <3>5. /\ x = lu + i /\ y = lv + i
          /\ RegionChunk(u, i) = lu - (NumChunks - 1) + i
          /\ RegionChunk(v, i) = lv - (NumChunks - 1) + i
      BY DEF lu, lv, RegionChunk
    <3> HIDE DEF x, y
    <3> QED
      BY <1>1, <3>2, <3>3, <3>4, <3>5
  <2>3. Same(x, y)
    BY <1>2, <1>10, <2>2
  <2> HIDE DEF x, y
  <2>4. PICK e : Hashes(a, x, e) /\ Hashes(b, y, e)
    BY <2>2, <2>3, TreeShape DEF Same
  <2>5. e = Hash(a[RegionChunk(u, i)]) /\ e = Hash(b[RegionChunk(v, i)])
    BY <2>2, <2>4, HashesMade
  <2>6. RegionChunk(u, i) \in Chunks /\ RegionChunk(v, i) \in Chunks
    BY <1>1, <1>10, ChunkTrue
  <2> QED
    BY <2>5, <2>6, HashAssumption DEF Data
<1> QED
  BY <1>10, <1>11

-----------------------------------------------------------------------------
(* MapClosed, BaselineTrue, and the digests of the tree *)

\* What is labelled new or shifted, or what a baseline has visited, holds the
\* digest of its chunks.
TreeTrue ==
  pc \in Forests => \A u \in Inner :
    \/ labels[u] \in {"FIRST_OCUR", "SHIFT_DUPL"}
    \/ baseline /\ pc \in Second /\ u \in Visited
    => Hashes(data, u, tree[u])

LEMMA LeavesTrue ==
  ASSUME ObjectTrue, DigestsKnown, pc \in Kernels, NEW u \in LeafNodes \ todo
  PROVE  Hashes(data, u, tree[u]) /\ tree[u] \in DOMAIN first_ocur
<1>1. tree[u] = LeafDigest(u) /\ tree[u] \in DOMAIN first_ocur
  BY DEF DigestsKnown
<1>2. data \in Data
  BY DEF ObjectTrue
<1> QED
  BY <1>1, <1>2, HashesLeaf DEF LeafDigest

LEMMA NodesTrue ==
  ASSUME ObjectTrue, DigestsKnown, BaselineTrue, TreeTrue, pc \in Forests, NEW u \in Nodes,
         \/ u \in LeafNodes
         \/ labels[u] \in {"FIRST_OCUR", "SHIFT_DUPL"}
         \/ baseline /\ pc \in Second /\ u \in Visited
  PROVE  Hashes(data, u, tree[u]) /\ tree[u] \in DOMAIN first_ocur
<1>1. pc \in Kernels /\ todo = {} /\ (u \in LeafNodes \/ u \in Inner)
  BY TreeShape DEF Forests, Kernels, ObjectTrue
<1>2. CASE u \in LeafNodes
  BY <1>1, <1>2, LeavesTrue
<1>3. CASE u \in Inner
  <2>1. Hashes(data, u, tree[u])
    BY <1>3, TreeShape DEF TreeTrue
  <2>2. tree[u] \in DOMAIN first_ocur
    BY <1>1, <1>3, TreeShape DEF DigestsKnown, BaselineTrue
  <2> QED
    BY <2>1, <2>2
<1> QED
  BY <1>1, <1>2, <1>3

\* A node whose children hold digests of their chunks may be given theirs.
LEMMA UpTrue ==
  ASSUME NEW f, DigestsClosed(f),
         ObjectTrue, DigestsKnown, BaselineTrue, TreeTrue, pc \in Forests, NEW u \in Inner,
         \A c \in {Left(u), Right(u)} :
           \/ c \in LeafNodes
           \/ labels[c] \in {"FIRST_OCUR", "SHIFT_DUPL"}
           \/ baseline /\ pc \in Second /\ c \in Visited
  PROVE  /\ Hashes(data, u, HashOfChildren(tree, u)) /\ HashOfChildren(tree, u) \in Digests
         /\ \A c \in {Left(u), Right(u)} : tree[c] \in Digests /\ tree[c] \in DOMAIN first_ocur
<1>1. data \in Data
  BY DEF ObjectTrue, Forests, Kernels
<1>2. ASSUME NEW c \in {Left(u), Right(u)}
      PROVE  Hashes(data, c, tree[c]) /\ tree[c] \in DOMAIN first_ocur /\ tree[c] \in Digests
  <2>1. Hashes(data, c, tree[c]) /\ tree[c] \in DOMAIN first_ocur
    BY TreeShape, NodesTrue
  <2> QED
    BY <2>1 DEF Hashes
<1>3. /\ Hashes(data, u, HashPair(tree[Left(u)], tree[Right(u)]))
      /\ HashPair(tree[Left(u)], tree[Right(u)]) \in Digests
  BY <1>1, <1>2, HashesUp
<1> QED
  BY <1>2, <1>3 DEF HashOfChildren

LEMMA ExactInit == Init => MapClosed /\ BaselineTrue /\ TreeTrue
BY DEF Init, MapClosed, BaselineTrue, TreeTrue, Kernels, Forests

LEMMA BaselineStep ==
  ASSUME ObjectTrue, LevelTrue, LabelsTrue, MapClosed, BaselineTrue, [Next]_vars
  PROVE  BaselineTrue'
<1>1. ASSUME NEW d \in Data, NEW make_baseline \in BOOLEAN, Checkpoint(d, make_baseline)
      PROVE  BaselineTrue'
  <2>1. /\ pc' = "leaves" /\ baseline' = make_baseline
        /\ labels' = [u \in Nodes |-> "DONE"]
        /\ make_baseline => tree' = [u \in Nodes |-> NoDigest]
    BY <1>1 DEF Checkpoint
  <2>2. \A u \in Inner : u \in Nodes
    BY TreeShape
  <2> QED
    BY <2>1, <2>2 DEF BaselineTrue, Second
<1>2. ASSUME NEW leaf \in todo, DedupLeaf(leaf) PROVE BaselineTrue'
  <2>1. /\ pc = "leaves" /\ pc' = pc /\ leaf \in LeafNodes
        /\ \A u \in Nodes \ {leaf} : tree'[u] = tree[u] /\ labels'[u] = labels[u]
    BY <1>2, LeafStep DEF ObjectTrue
  <2>2. baseline' = baseline /\ \A u \in Inner : u \in Nodes \ {leaf}
    BY <1>2, <2>1, TreeShape DEF DedupLeaf
  <2> QED
    BY <2>1, <2>2 DEF BaselineTrue, Kernels, Second
<1>3. CASE ChooseFirst
  <2>1. /\ pc = "leaves" /\ pc' = "first" /\ UNCHANGED <<tree, baseline>>
        /\ \A u \in Inner : labels'[u] = labels[u]
    BY <1>3, TreeShape DEF ChooseFirst
  <2> QED
    BY <2>1 DEF BaselineTrue, Kernels, Second
<1>4. CASE FirstForest
  <2> DEFINE inner == InnerNodes(level, NumChunks)
             new == {u \in inner : Both(u, "FIRST_OCUR")}
  <2>1. /\ pc = "first" /\ pc' = pc
        /\ \A u \in new : labels'[u] = "FIRST_OCUR"
        /\ \A u \in Nodes \ new : labels'[u] = labels[u] /\ tree'[u] = tree[u]
    BY <1>4, FirstStep
  <2>2. baseline' = baseline /\ \A u \in Inner : u \in Nodes
    BY <1>4, TreeShape DEF FirstForest
  <2> HIDE DEF new
  <2>3. ASSUME baseline, NEW u \in Inner
        PROVE  labels'[u] # "SHIFT_DUPL" /\ (labels'[u] # "FIRST_OCUR" => tree'[u] = NoDigest)
    <3>1. /\ labels[u] # "SHIFT_DUPL" /\ (labels[u] # "FIRST_OCUR" => tree[u] = NoDigest)
          /\ u \in Nodes
      BY <2>1, <2>2, <2>3 DEF BaselineTrue, Kernels, Second
    <3> QED
      BY <2>1, <3>1
  <2> QED
    BY <2>1, <2>2, <2>3 DEF BaselineTrue, Second
<1>5. CASE EndFirstForest
  <2>1. /\ pc = "first" /\ pc' = "forest" /\ UNCHANGED <<labels, tree, baseline>>
        /\ level' = BottomLevel(Size)
    BY <1>5 DEF EndFirstForest, dedupVars
  <2>2. Visited' = {}
    BY <2>1, LevelBottom
  <2> QED
    BY <2>1, <2>2 DEF BaselineTrue, Kernels, Second
<1>6. CASE BuildForest
  <2> DEFINE inner == InnerNodes(level, NumChunks)
  <2>1. /\ pc = "forest" /\ pc' \in {"forest", "insert"}
        /\ inner \subseteq Inner /\ inner \cap Visited = {}
        /\ Visited' = (IF baseline THEN Visited ELSE Visited \cup inner)
        /\ \A u \in Nodes : \/ tree'[u] = tree[u]
                            \/ u \in inner /\ ~baseline /\ Both(u, "SHIFT_DUPL")
        /\ \A u \in Nodes \ inner : labels'[u] = labels[u]
        /\ \A u \in inner :
             \/ Both(u, "FIRST_OCUR") /\ labels'[u] = "FIRST_OCUR"
             \/ /\ Both(u, "SHIFT_DUPL") /\ labels'[u] = "SHIFT_DUPL"
                /\ tree'[u] \in DOMAIN first_ocur
             \/ Both(u, "FIXED_DUPL") /\ labels'[u] = "FIXED_DUPL"
             \/ ~Both(u, "FIRST_OCUR") /\ labels'[u] = "DONE"
    BY <1>6, BuildStep
  <2>2. /\ baseline' = baseline /\ first_ocur' = first_ocur /\ \A u \in Inner : u \in Nodes
        /\ pc' = "insert" => baseline
    BY <1>6, TreeShape DEF BuildForest
  <2> HIDE DEF inner
  <2>3. ASSUME baseline, NEW u \in Inner
        PROVE  /\ labels'[u] # "SHIFT_DUPL"
               /\ IF u \in Visited THEN tree'[u] \in DOMAIN first_ocur
                  ELSE labels'[u] # "FIRST_OCUR" => tree'[u] = NoDigest
    <3>1. /\ labels[u] # "SHIFT_DUPL"
          /\ IF u \in Visited THEN tree[u] \in DOMAIN first_ocur
             ELSE labels[u] # "FIRST_OCUR" => tree[u] = NoDigest
      BY <2>1, <2>3 DEF BaselineTrue, Kernels, Second
    <3>2. tree'[u] = tree[u]
      BY <2>1, <2>2, <2>3
    <3>3. CASE u \notin inner
      BY <2>1, <2>2, <3>1, <3>2, <3>3
    <3>4. CASE u \in inner
      <4>1. u \notin Visited /\ (labels[u] # "DONE" => Both(u, labels[u]))
        BY <2>1, <3>4 DEF LabelsTrue, Second
      <4>2. NoDigest \notin DOMAIN first_ocur
        BY HashAssumption DEF MapClosed
      <4>3. ~Both(u, "FIRST_OCUR") => tree[u] = NoDigest
        BY <3>1, <4>1
      <4>4. \A l, k \in Kinds : Both(u, l) /\ Both(u, k) => l = k
        BY DEF Both
      <4> QED
        BY <2>1, <3>2, <3>4, <4>1, <4>2, <4>3, <4>4 DEF Kinds
    <3> QED
      BY <3>3, <3>4
  <2> QED
    BY <2>1, <2>2, <2>3 DEF BaselineTrue, Second
<1>7. CASE InsertEntries
  <2> DEFINE inner == InnerNodes(level, NumChunks)
  <2>1. /\ pc = "insert" /\ pc' = "forest" /\ UNCHANGED <<labels, baseline>>
        /\ \A u \in Nodes :
             tree'[u] = IF u \in inner THEN HashOfChildren(tree, u) ELSE tree[u]
        /\ first_ocur' \in Inserted(first_ocur, tree', inner)
        /\ level' = LevelAbove(level)
    BY <1>7 DEF InsertEntries
  <2>2. inner \cap Visited = {} /\ Visited' = Visited \cup inner
    BY <2>1, LevelNodes, LevelStep DEF LevelTrue
  <2> HIDE DEF inner
  <2>3. /\ DOMAIN first_ocur \subseteq DOMAIN first_ocur'
        /\ \A u \in inner : tree'[u] \in DOMAIN first_ocur'
    <3>1. FcnOn(first_ocur, DOMAIN first_ocur)
      BY DEF ObjectTrue
    <3> QED
      BY <2>1, <3>1, InsertedTrue
  <2>4. \A u \in Inner : u \in Nodes
    BY TreeShape
  <2>5. \A u \in Inner :
          /\ labels[u] # "SHIFT_DUPL"
          /\ IF u \in Visited THEN tree[u] \in DOMAIN first_ocur
             ELSE labels[u] # "FIRST_OCUR" => tree[u] = NoDigest
    BY <2>1 DEF BaselineTrue, Kernels, Second
  <2> QED
    BY <2>1, <2>2, <2>3, <2>4, <2>5 DEF BaselineTrue, Second
<1>8. CASE EndBuildForest
  BY <1>8 DEF EndBuildForest, dedupVars, BaselineTrue, Kernels, Second, Visited
<1>9. CASE FinishCheckpoint \/ FailToWrite
  BY <1>9 DEF FinishCheckpoint, FailToWrite, BaselineTrue, Kernels
<1>10. CASE Aside
  BY <1>10 DEF Aside, dedupVars, BaselineTrue, Kernels, Second, Visited
<1> QED
  BY <1>1, <1>2, <1>3, <1>4, <1>5, <1>6, <1>7, <1>8, <1>9, <1>10, Steps

LEMMA TreeTrueStep ==
  ASSUME NEW f, DigestsClosed(f), ObjectTrue, LevelTrue, LabelsTrue, DigestsKnown, BaselineTrue,
         BaselineTrue', TreeTrue, [Next]_vars
  PROVE  TreeTrue'
<1>1. ASSUME pc' \notin Forests PROVE TreeTrue'
  BY <1>1 DEF TreeTrue
<1>2. ASSUME NEW d \in Data, NEW make_baseline \in BOOLEAN, Checkpoint(d, make_baseline)
      PROVE  TreeTrue'
  BY <1>1, <1>2 DEF Checkpoint, Forests
<1>3. ASSUME NEW leaf \in todo, DedupLeaf(leaf) PROVE TreeTrue'
  <2>1. pc' = "leaves"
    BY <1>3 DEF DedupLeaf
  <2> QED
    BY <1>1, <2>1 DEF Forests
<1>4. CASE ChooseFirst
  <2>1. pc = "leaves" /\ pc' = "first" /\ \A u \in Inner : labels'[u] = labels[u]
    BY <1>4, TreeShape DEF ChooseFirst
  <2>2. \A u \in Inner : labels'[u] = "DONE"
    BY <2>1 DEF LabelsTrue
  <2> QED
    BY <2>1, <2>2 DEF TreeTrue, Second
<1>6. CASE FirstForest
  <2> DEFINE inner == InnerNodes(level, NumChunks)
             new == {u \in inner : Both(u, "FIRST_OCUR")}
  <2>1. /\ pc = "first" /\ pc' = pc /\ inner \subseteq Inner
        /\ \A u \in Nodes \ new : labels'[u] = labels[u] /\ tree'[u] = tree[u]
        /\ \A u \in new : tree'[u] = HashOfChildren(tree, u)
    BY <1>6, FirstStep
  <2>2. data' = data /\ \A u \in Inner : u \in Nodes
    BY <1>6, TreeShape DEF FirstForest
  <2> HIDE DEF inner
  <2>3. ASSUME NEW u \in new PROVE Hashes(data, u, tree'[u])
    BY <2>1, <2>3, UpTrue DEF Both, Forests
  <2>4. ASSUME NEW u \in Inner \ new, labels'[u] \in {"FIRST_OCUR", "SHIFT_DUPL"}
        PROVE  Hashes(data, u, tree'[u])
    BY <2>1, <2>2, <2>4 DEF TreeTrue, Forests
  <2> HIDE DEF new
  <2> QED
    BY <2>1, <2>2, <2>3, <2>4 DEF TreeTrue, Second
<1>7. CASE EndFirstForest
  <2>1. /\ pc = "first" /\ pc' = "forest" /\ UNCHANGED <<labels, tree, data>>
        /\ level' = BottomLevel(Size)
    BY <1>7 DEF EndFirstForest, dedupVars
  <2>2. Visited' = {}
    BY <2>1, LevelBottom
  <2> QED
    BY <2>1, <2>2 DEF TreeTrue, Forests
<1>8. CASE BuildForest
  <2> DEFINE inner == InnerNodes(level, NumChunks)
  <2>1. /\ pc = "forest" /\ pc' \in {"forest", "insert"} /\ inner \subseteq Inner
        /\ Visited' = (IF baseline THEN Visited ELSE Visited \cup inner)
        /\ \A u \in Nodes : \/ tree'[u] = tree[u]
                            \/ u \in inner /\ ~baseline /\ Both(u, "SHIFT_DUPL")
        /\ \A u \in Nodes \ inner : labels'[u] = labels[u]
        /\ \A u \in inner :
             \/ Both(u, "FIRST_OCUR") /\ labels'[u] = "FIRST_OCUR"
             \/ /\ Both(u, "SHIFT_DUPL") /\ labels'[u] = "SHIFT_DUPL"
                /\ tree'[u] = IF baseline THEN tree[u] ELSE HashOfChildren(tree, u)
             \/ labels'[u] = "FIXED_DUPL"
             \/ labels'[u] = "DONE"
    BY <1>8, BuildStep
  <2>2. data' = data /\ baseline' = baseline /\ \A u \in Inner : u \in Nodes
    BY <1>8, TreeShape DEF BuildForest
  <2> HIDE DEF inner
  <2>3. ASSUME NEW u \in inner, labels'[u] = "FIRST_OCUR" PROVE Hashes(data, u, tree'[u])
    <3>1. Both(u, "FIRST_OCUR") /\ u \in Inner /\ u \in Nodes
      BY <2>1, <2>2, <2>3
    <3>2. labels[u] = "FIRST_OCUR" /\ tree'[u] = tree[u]
      BY <2>1, <3>1 DEF LabelsTrue, Second, Both
    <3> QED
      BY <2>1, <3>1, <3>2 DEF TreeTrue, Forests
  <2>4. ASSUME NEW u \in inner, labels'[u] = "SHIFT_DUPL", ~baseline
        PROVE  Hashes(data, u, tree'[u])
    <3>1. Both(u, "SHIFT_DUPL") /\ tree'[u] = HashOfChildren(tree, u) /\ u \in Inner
      BY <2>1, <2>4
    <3> QED
      BY <2>1, <3>1, UpTrue DEF Both, Forests
  <2>5. \A u \in Inner : baseline => labels'[u] # "SHIFT_DUPL"
    BY <2>1, <2>2 DEF BaselineTrue, Kernels
  <2>6. ASSUME NEW u \in Inner \ inner,
               \/ labels'[u] \in {"FIRST_OCUR", "SHIFT_DUPL"}
               \/ baseline /\ u \in Visited
        PROVE  Hashes(data, u, tree'[u])
    BY <2>1, <2>2, <2>6 DEF TreeTrue, Forests, Second
  <2>7. ASSUME NEW u \in inner, baseline, u \in Visited
        PROVE  Hashes(data, u, tree'[u])
    <3>1. tree'[u] = tree[u] /\ u \in Inner
      BY <2>1, <2>2, <2>7
    <3> QED
      BY <2>1, <2>7, <3>1 DEF TreeTrue, Forests, Second
  <2> QED
    BY <2>1, <2>2, <2>3, <2>4, <2>5, <2>6, <2>7 DEF TreeTrue
<1>9. CASE InsertEntries
  <2> DEFINE inner == InnerNodes(level, NumChunks)
  <2>1. /\ pc = "insert" /\ pc' = "forest" /\ UNCHANGED <<labels, baseline, data>>
        /\ \A u \in Nodes :
             tree'[u] = IF u \in inner THEN HashOfChildren(tree, u) ELSE tree[u]
        /\ level' = LevelAbove(level)
    BY <1>9 DEF InsertEntries
  <2>2. /\ Visited' = Visited \cup inner /\ inner \subseteq Inner
        /\ \A u \in inner : {Left(u), Right(u)} \subseteq LeafNodes \cup Visited
    BY <2>1, LevelNodes, LevelStep DEF LevelTrue
  <2>3. baseline /\ \A u \in Inner : u \in Nodes
    BY <2>1, TreeShape DEF BaselineTrue
  <2> HIDE DEF inner
  <2>4. ASSUME NEW u \in inner PROVE Hashes(data, u, tree'[u])
    <3>1. tree'[u] = HashOfChildren(tree, u)
      BY <2>1, <2>2, <2>3
    <3> QED
      BY <2>1, <2>2, <2>3, <3>1, UpTrue DEF Forests, Second
  <2>5. ASSUME NEW u \in Inner \ inner,
               \/ labels'[u] \in {"FIRST_OCUR", "SHIFT_DUPL"}
               \/ baseline /\ u \in Visited
        PROVE  Hashes(data, u, tree'[u])
    BY <2>1, <2>3, <2>5 DEF TreeTrue, Forests, Second
  <2> QED
    BY <2>1, <2>2, <2>4, <2>5 DEF TreeTrue
<1>10. CASE EndBuildForest
  BY <1>10 DEF EndBuildForest, dedupVars, TreeTrue, Forests, Second, Visited
<1>11. CASE FinishCheckpoint \/ FailToWrite
  BY <1>11 DEF FinishCheckpoint, FailToWrite, TreeTrue, Forests
<1>12. CASE Aside
  BY <1>12 DEF Aside, dedupVars, TreeTrue, Kernels, Forests, Second, Visited
<1> QED
  BY <1>2, <1>3, <1>4, <1>6, <1>7, <1>8, <1>9, <1>10, <1>11, <1>12, Steps

\* Entries made for nodes whose children's digests the map has close it again.
LEMMA ClosedInserted ==
  ASSUME MapClosed, FcnOn(first_ocur, DOMAIN first_ocur), NEW t, NEW S,
         NEW m \in Inserted(first_ocur, t, S),
         \A d \in DOMAIN first_ocur : first_ocur[d].tree <= current_id,
         \A u \in S : /\ t[u] \in Digests
                      /\ \E a, b \in Digests \cap DOMAIN first_ocur : t[u] = HashPair(a, b)
  PROVE  /\ DOMAIN first_ocur \subseteq DOMAIN m /\ DOMAIN m \subseteq Digests
         /\ \A l, r \in Digests : HashPair(l, r) \in DOMAIN m =>
              \A d \in {l, r} : d \in DOMAIN m /\ m[d].tree <= m[HashPair(l, r)].tree
<1>1. /\ DOMAIN first_ocur \subseteq DOMAIN m
      /\ \A d \in DOMAIN first_ocur : m[d] = first_ocur[d]
      /\ \A d \in DOMAIN m \ DOMAIN first_ocur :
           \E u \in S : t[u] = d /\ m[d] = NodeID(u, current_id)
  BY InsertedTrue
<1>2. DOMAIN m \subseteq Digests
  BY <1>1 DEF MapClosed
<1>3. ASSUME NEW l \in Digests, NEW r \in Digests, HashPair(l, r) \in DOMAIN m,
             NEW d \in {l, r}
      PROVE  d \in DOMAIN m /\ m[d].tree <= m[HashPair(l, r)].tree
  <2>1. CASE HashPair(l, r) \in DOMAIN first_ocur
    <3>1. /\ d \in DOMAIN first_ocur
          /\ first_ocur[d].tree <= first_ocur[HashPair(l, r)].tree
      BY <1>3, <2>1 DEF MapClosed
    <3> QED
      BY <1>1, <2>1, <3>1
  <2>2. CASE HashPair(l, r) \notin DOMAIN first_ocur
    <3>1. PICK u \in S : t[u] = HashPair(l, r) /\ m[HashPair(l, r)] = NodeID(u, current_id)
      BY <1>1, <1>3, <2>2
    <3>2. PICK a \in Digests \cap DOMAIN first_ocur, b \in Digests \cap DOMAIN first_ocur :
            HashPair(l, r) = HashPair(a, b)
      BY <3>1
    <3>3. l = a /\ r = b
      BY <1>3, <3>2, HashAssumption
    <3>4. m[HashPair(l, r)].tree = current_id
      BY <3>1 DEF NodeID
    <3> QED
      BY <1>1, <1>3, <3>2, <3>3, <3>4
  <2> QED
    BY <2>1, <2>2
<1> QED
  BY <1>1, <1>2, <1>3

LEMMA MapClosedStep ==
  ASSUME NEW f, DigestsClosed(f), ObjectTrue, ObjectTrue', LevelTrue, LabelsTrue, DigestsKnown,
         MapClosed, BaselineTrue, TreeTrue, [Next]_vars
  PROVE  MapClosed'
<1>1. /\ FcnOn(first_ocur, DOMAIN first_ocur)
      /\ \A d \in DOMAIN first_ocur : first_ocur[d].tree <= current_id
      /\ NoDigest \notin DOMAIN first_ocur
  BY HashAssumption DEF ObjectTrue, MapClosed
<1>2. ASSUME NEW d \in Data, NEW make_baseline \in BOOLEAN, Checkpoint(d, make_baseline)
      PROVE  MapClosed'
  <2>1. CASE make_baseline
    <3>1. DOMAIN first_ocur' = {} /\ tree' = [u \in Nodes |-> NoDigest]
      BY <1>2, <2>1 DEF Checkpoint, MapAtStart
    <3> QED
      BY <3>1, TreeShape DEF MapClosed
  <2>2. CASE ~make_baseline
    <3>1. first_ocur' = first_ocur /\ tree' = tree /\ current_id > 0
      BY <1>2, <2>2 DEF Checkpoint, MapAtStart, ObjectTrue
    <3> QED
      BY <3>1 DEF MapClosed
  <2> QED
    BY <2>1, <2>2
<1>3. ASSUME NEW leaf \in todo, DedupLeaf(leaf) PROVE MapClosed'
  <2> DEFINE digest == LeafDigest(leaf)
  <2>1. /\ pc = "leaves" /\ tree'[leaf] = digest /\ leaf \in LeafNodes
        /\ \A u \in Nodes \ {leaf} : tree'[u] = tree[u]
        /\ DOMAIN first_ocur' = DOMAIN first_ocur \cup {digest}
        /\ \A d \in DOMAIN first_ocur : d # digest => first_ocur'[d] = first_ocur[d]
        /\ digest \in DOMAIN first_ocur =>
             \/ first_ocur'[digest] = first_ocur[digest]
             \/ /\ first_ocur[digest].tree = current_id
                /\ \E n \in {first_ocur[digest].node, leaf} :
                     first_ocur'[digest] = NodeID(n, current_id)
    BY <1>3, LeafStep DEF ObjectTrue
  <2>2. data \in Data /\ leaf - (NumChunks - 1) \in Chunks
    BY <2>1, TreeShape DEF ObjectTrue, Kernels, LeafNodes, Leaves, NumNodes, Chunks
  <2>3. digest \in Digests /\ \A l, r \in Digests : HashPair(l, r) # digest
    BY <2>2, HashAssumption DEF LeafDigest, Data
  <2> HIDE DEF digest
  <2>4. \A d \in DOMAIN first_ocur : first_ocur'[d].tree = first_ocur[d].tree
    BY <2>1 DEF NodeID
  <2>5. DOMAIN first_ocur' \subseteq Digests
    BY <2>1, <2>3 DEF MapClosed
  <2>6. \A u \in LeafNodes : tree'[u] \in DOMAIN first_ocur' \cup {NoDigest}
    BY <2>1, TreeShape DEF MapClosed, Kernels
  <2>7. ASSUME NEW l \in Digests, NEW r \in Digests, HashPair(l, r) \in DOMAIN first_ocur',
               NEW d \in {l, r}
        PROVE  d \in DOMAIN first_ocur' /\ first_ocur'[d].tree <= first_ocur'[HashPair(l, r)].tree
    <3>1. HashPair(l, r) \in DOMAIN first_ocur
      BY <2>1, <2>3, <2>7
    <3>2. /\ d \in DOMAIN first_ocur
          /\ first_ocur[d].tree <= first_ocur[HashPair(l, r)].tree
      BY <2>7, <3>1 DEF MapClosed
    <3> QED
      BY <2>1, <2>4, <3>1, <3>2
  <2> QED
    BY <2>5, <2>6, <2>7 DEF MapClosed
<1>4. CASE ChooseFirst
  BY <1>4 DEF ChooseFirst, MapClosed, Kernels
<1>5. ASSUME NEW S \in SUBSET Inner, pc \in Forests, pc' \in Forests,
             first_ocur' \in Inserted(first_ocur, tree', S),
             \A u \in LeafNodes : tree'[u] = tree[u],
             \A u \in S : tree'[u] = HashOfChildren(tree, u),
             \A u \in S : \A c \in {Left(u), Right(u)} :
               \/ c \in LeafNodes
               \/ labels[c] \in {"FIRST_OCUR", "SHIFT_DUPL"}
               \/ baseline /\ pc \in Second /\ c \in Visited
      PROVE  MapClosed'
  <2>1. ASSUME NEW u \in S
        PROVE  /\ tree'[u] \in Digests
               /\ \E a, b \in Digests \cap DOMAIN first_ocur : tree'[u] = HashPair(a, b)
    <3>1. /\ HashOfChildren(tree, u) \in Digests
          /\ \A c \in {Left(u), Right(u)} : tree[c] \in Digests /\ tree[c] \in DOMAIN first_ocur
      BY <1>5, UpTrue
    <3> QED
      BY <1>5, <3>1 DEF HashOfChildren
  <2>2. /\ DOMAIN first_ocur \subseteq DOMAIN first_ocur' /\ DOMAIN first_ocur' \subseteq Digests
        /\ \A l, r \in Digests : HashPair(l, r) \in DOMAIN first_ocur' =>
             \A d \in {l, r} :
               d \in DOMAIN first_ocur' /\ first_ocur'[d].tree <= first_ocur'[HashPair(l, r)].tree
    BY <1>1, <1>5, <2>1, ClosedInserted
  <2>3. \A u \in LeafNodes : tree'[u] \in DOMAIN first_ocur' \cup {NoDigest}
    BY <1>5, <2>2 DEF MapClosed, Forests, Kernels
  <2> QED
    BY <2>2, <2>3 DEF MapClosed
<1>6. CASE FirstForest
  <2> DEFINE inner == InnerNodes(level, NumChunks)
             new == {u \in inner : Both(u, "FIRST_OCUR")}
  <2>1. /\ pc = "first" /\ pc' = pc /\ inner \subseteq Inner
        /\ \A u \in Nodes \ new : tree'[u] = tree[u]
        /\ \A u \in new : tree'[u] = HashOfChildren(tree, u)
        /\ first_ocur' \in Inserted(first_ocur, tree', new)
    BY <1>6, FirstStep
  <2> HIDE DEF inner
  <2>2. new \in SUBSET Inner /\ \A u \in new : \A c \in {Left(u), Right(u)} :
          labels[c] \in {"FIRST_OCUR", "SHIFT_DUPL"}
    BY <2>1 DEF Both
  <2> HIDE DEF new
  <2>3. \A u \in LeafNodes : tree'[u] = tree[u]
    BY <2>1, <2>2, TreeShape
  <2> QED
    BY <1>5, <2>1, <2>2, <2>3 DEF Forests
<1>7. CASE EndFirstForest \/ EndBuildForest
  BY <1>7 DEF EndFirstForest, EndBuildForest, dedupVars, MapClosed, Kernels
<1>8. CASE BuildForest
  <2>1. /\ pc = "forest" /\ \A u \in LeafNodes : tree'[u] = tree[u]
    <3> DEFINE inner == InnerNodes(level, NumChunks)
    <3>1. /\ pc = "forest" /\ inner \subseteq Inner
          /\ \A u \in Nodes : tree'[u] = tree[u] \/ u \in inner
      BY <1>8, BuildStep
    <3> HIDE DEF inner
    <3> QED
      BY <3>1, TreeShape
  <2>2. first_ocur' = first_ocur
    BY <1>8 DEF BuildForest
  <2> QED
    BY <2>1, <2>2 DEF MapClosed, Kernels
<1>9. CASE InsertEntries
  <2> DEFINE inner == InnerNodes(level, NumChunks)
  <2>1. /\ pc = "insert" /\ pc' = "forest"
        /\ \A u \in Nodes :
             tree'[u] = IF u \in inner THEN HashOfChildren(tree, u) ELSE tree[u]
        /\ first_ocur' \in Inserted(first_ocur, tree', inner)
    BY <1>9 DEF InsertEntries
  <2>2. /\ inner \in SUBSET Inner
        /\ \A u \in inner : {Left(u), Right(u)} \subseteq LeafNodes \cup Visited
    BY <2>1, LevelNodes DEF LevelTrue
  <2>3. baseline
    BY <2>1 DEF BaselineTrue
  <2> HIDE DEF inner
  <2>4. /\ \A u \in LeafNodes : tree'[u] = tree[u]
        /\ \A u \in inner : tree'[u] = HashOfChildren(tree, u)
    BY <2>1, <2>2, TreeShape
  <2>5. \A u \in inner : \A c \in {Left(u), Right(u)} :
          c \in LeafNodes \/ (baseline /\ pc \in Second /\ c \in Visited)
    BY <2>1, <2>2, <2>3 DEF Second
  <2> QED
    BY <1>5, <2>1, <2>2, <2>4, <2>5 DEF Forests
<1>10. CASE FinishCheckpoint \/ FailToWrite
  BY <1>10 DEF FinishCheckpoint, FailToWrite, MapClosed, Kernels
<1>11. CASE Aside
  BY <1>11 DEF Aside, dedupVars, MapClosed, Kernels
<1> QED
  BY <1>2, <1>3, <1>4, <1>6, <1>7, <1>8, <1>9, <1>10, <1>11, Steps

-----------------------------------------------------------------------------
(* EntriesNew, and that the map knows the sources of a diff *)

LEMMA EntriesNewInit == Init => EntriesNew
BY DEF Init, EntriesNew, Kernels, Forests

\* While the first forest is built, the map names each new node by its digest.
NewNamed ==
  \A u \in Nodes : labels[u] = "FIRST_OCUR" =>
    /\ tree[u] \in DOMAIN first_ocur /\ tree[u] \in Digests
    /\ FirstOcur(u) = NodeID(u, current_id)
    /\ u \in Inner => Both(u, "FIRST_OCUR") /\ tree[u] = HashOfChildren(tree, u)

LEMMA NamedOf ==
  ASSUME ObjectTrue, LabelsTrue, DigestsKnown, MapClosed, EntriesNew, current_id \notin spoiled,
         pc = "first"
  PROVE  NewNamed
<1>1. ASSUME NEW u \in Nodes, labels[u] = "FIRST_OCUR"
      PROVE  /\ tree[u] \in DOMAIN first_ocur /\ FirstOcur(u) = NodeID(u, current_id)
             /\ u \in Inner => Both(u, "FIRST_OCUR") /\ tree[u] = HashOfChildren(tree, u)
  <2>1. CASE u \in LeafNodes
    <3>1. tree[u] \in DOMAIN first_ocur /\ u \notin Inner
      BY <2>1, TreeShape DEF DigestsKnown, Kernels, ObjectTrue
    <3>2. FirstOcur(u) = NodeID(u, current_id)
      BY <1>1, <2>1 DEF DigestsKnown, Forests, FirstOcur
    <3> QED
      BY <3>1, <3>2
  <2>2. CASE u \in Inner
    <3>1. tree[u] \in DOMAIN first_ocur /\ tree[u] = HashOfChildren(tree, u)
      BY <1>1, <2>2 DEF DigestsKnown, Forests
    <3>2. FirstOcur(u) = NodeID(u, current_id)
      BY <1>1, <2>2 DEF EntriesNew, Forests
    <3>3. Both(u, "FIRST_OCUR")
      BY <1>1, <2>2 DEF LabelsTrue
    <3> QED
      BY <3>1, <3>2, <3>3
  <2> QED
    BY <2>1, <2>2, TreeShape
<1> QED
  BY <1>1 DEF NewNamed, MapClosed

\* Two nodes whose children are new do not hash to one digest.
LEMMA NewApart ==
  ASSUME NewNamed, NEW u \in Inner, NEW v \in Inner, Both(u, "FIRST_OCUR"), Both(v, "FIRST_OCUR"),
         HashOfChildren(tree, u) = HashOfChildren(tree, v)
  PROVE  u = v
<1>1. \A w \in {u, v} : Left(w) \in Nodes /\ tree[Left(w)] \in Digests /\ tree[Right(w)] \in Digests
                        /\ FirstOcur(Left(w)) = NodeID(Left(w), current_id)
  BY TreeShape DEF NewNamed, Both
<1>2. tree[Left(u)] = tree[Left(v)]
  BY <1>1, HashAssumption DEF HashOfChildren
<1>3. NodeID(Left(u), current_id) = NodeID(Left(v), current_id)
  BY <1>1, <1>2 DEF FirstOcur
<1>4. Left(u) = Left(v)
  BY <1>3 DEF NodeID
<1> QED
  BY <1>4, TreeShape DEF Left, Inner

LEMMA EntriesNewStep ==
  ASSUME ObjectTrue, LevelTrue, LabelsTrue, DigestsKnown, MapClosed, EntriesNew, BaselineTrue,
         [Next]_vars
  PROVE  EntriesNew'
<1>1. /\ FcnOn(first_ocur, DOMAIN first_ocur) /\ current_id \in Nat
      /\ \A d \in DOMAIN first_ocur : /\ FcnOn(first_ocur[d], {"node", "tree"})
                                      /\ first_ocur[d].node \in Nodes
                                      /\ first_ocur[d].tree \in baseline_id .. current_id
      /\ baseline_id \in 0 .. current_id /\ NoDigest \notin DOMAIN first_ocur
  BY HashAssumption DEF ObjectTrue, MapClosed
<1>2. ASSUME NEW e \in Data, NEW make_baseline \in BOOLEAN, Checkpoint(e, make_baseline)
      PROVE  EntriesNew'
  <2>1. pc = "idle" /\ pc' = "leaves" /\ current_id' = current_id
    BY <1>2 DEF Checkpoint
  <2>2. CASE make_baseline
    <3>1. DOMAIN first_ocur' = {}
      BY <1>2, <2>2 DEF Checkpoint, MapAtStart
    <3> QED
      BY <2>1, <3>1 DEF EntriesNew, Kernels, Forests
  <2>3. CASE ~make_baseline
    <3>1. first_ocur' = first_ocur /\ spoiled' = spoiled
      BY <1>2, <2>3 DEF Checkpoint, MapAtStart
    <3>2. ASSUME current_id \notin spoiled
          PROVE  \A d \in DOMAIN first_ocur : first_ocur[d].tree # current_id
      BY <2>1, <3>2 DEF EntriesNew, Kernels
    <3> QED
      BY <2>1, <3>1, <3>2 DEF EntriesNew, Kernels, Forests
  <2> QED
    BY <2>2, <2>3
<1>3. ASSUME NEW leaf \in todo, DedupLeaf(leaf) PROVE EntriesNew'
  <2> DEFINE digest == LeafDigest(leaf)
  <2>1. /\ pc = "leaves" /\ pc' = pc /\ leaf \in LeafNodes /\ leaf \in Nodes
        /\ tree'[leaf] = digest
        /\ \A u \in Nodes \ {leaf} : tree'[u] = tree[u] /\ labels'[u] = labels[u]
        /\ labels' \in [Nodes -> Kinds]
        /\ labels'[leaf] # "DONE"
        /\ labels'[leaf] = "FIXED_DUPL" => digest = tree[leaf]
        /\ labels'[leaf] = "SHIFT_DUPL" =>
             digest \in DOMAIN first_ocur /\ first_ocur[digest].tree # current_id
        /\ DOMAIN first_ocur' = DOMAIN first_ocur \cup {digest}
        /\ \A d \in DOMAIN first_ocur : d # digest => first_ocur'[d] = first_ocur[d]
        /\ digest \notin DOMAIN first_ocur => first_ocur'[digest] = NodeID(leaf, current_id)
        /\ digest \in DOMAIN first_ocur =>
             \/ first_ocur'[digest] = first_ocur[digest]
             \/ /\ digest # tree[leaf] /\ first_ocur[digest].tree = current_id
                /\ \E n \in {first_ocur[digest].node, leaf} :
                     first_ocur'[digest] = NodeID(n, current_id)
    BY <1>3, LeafStep DEF ObjectTrue
  <2>2. UNCHANGED <<current_id, spoiled, baseline>>
    BY <1>3 DEF DedupLeaf
  <2>3. data \in Data /\ leaf - (NumChunks - 1) \in Chunks
    BY <2>1, TreeShape DEF ObjectTrue, Kernels, LeafNodes, Leaves, NumNodes, Chunks
  <2>4. digest \in Digests /\ digest # NoDigest
    BY <2>3, HashAssumption DEF LeafDigest, Data
  <2> HIDE DEF digest
  <2>5. ASSUME current_id \notin spoiled, NEW d \in DOMAIN first_ocur, first_ocur[d].tree = current_id
        PROVE  LET u == first_ocur[d].node
               IN  tree'[u] = d /\ labels'[u] = "FIRST_OCUR"
    <3> DEFINE u == first_ocur[d].node
    <3>1. tree[u] = d /\ labels[u] = "FIRST_OCUR" /\ u \in Nodes
      BY <1>1, <2>1, <2>5 DEF EntriesNew, Kernels, Second
    <3>2. labels[leaf] = "DONE"
      BY <2>1 DEF LabelsTrue
    <3> HIDE DEF u
    <3>3. tree'[u] = d /\ labels'[u] = "FIRST_OCUR"
      BY <2>1, <3>1, <3>2
    <3> QED
      BY <3>3 DEF u
  <2>6. labels'[leaf] = "FIRST_OCUR" \/ digest = tree[leaf]
        \/ (digest \in DOMAIN first_ocur /\ first_ocur[digest].tree # current_id)
    BY <2>1 DEF Kinds
  <2>7. digest = tree[leaf] => digest \in DOMAIN first_ocur
    BY <2>1, <2>4 DEF MapClosed, Kernels
  <2>8. ASSUME current_id \notin spoiled, NEW d \in DOMAIN first_ocur',
               first_ocur'[d].tree = current_id
        PROVE  tree'[first_ocur'[d].node] = d /\ labels'[first_ocur'[d].node] = "FIRST_OCUR"
    <3>1. CASE d \in DOMAIN first_ocur /\ first_ocur'[d] = first_ocur[d]
      BY <2>5, <2>8, <3>1
    <3>2. CASE /\ d \in DOMAIN first_ocur /\ first_ocur'[d] # first_ocur[d]
      <4>1. d = digest /\ digest # tree[leaf] /\ first_ocur[digest].tree = current_id
        BY <2>1, <3>2
      <4>2. PICK n \in {first_ocur[digest].node, leaf} : first_ocur'[digest] = NodeID(n, current_id)
        BY <2>1, <3>2, <4>1
      <4>3. first_ocur'[d].node = n
        BY <4>1, <4>2 DEF NodeID
      <4>4. CASE n = leaf
        BY <2>1, <2>6, <4>1, <4>3, <4>4
      <4>5. CASE n = first_ocur[digest].node
        BY <2>5, <2>8, <3>2, <4>1, <4>3, <4>5
      <4> QED
        BY <4>2, <4>4, <4>5
    <3>3. CASE d \notin DOMAIN first_ocur
      <4>1. d = digest /\ first_ocur'[d] = NodeID(leaf, current_id)
        BY <2>1, <2>8, <3>3
      <4>2. first_ocur'[d].node = leaf
        BY <4>1 DEF NodeID
      <4> QED
        BY <2>1, <2>6, <2>7, <3>3, <4>1, <4>2
    <3> QED
      BY <3>1, <3>2, <3>3
  <2> QED
    BY <2>1, <2>2, <2>8 DEF EntriesNew, Kernels, Forests
<1>4. CASE ChooseFirst
  <2>1. /\ pc = "leaves" /\ pc' = "first"
        /\ UNCHANGED <<tree, first_ocur, current_id, spoiled, baseline>>
        /\ \A u \in Nodes : labels'[u] =
             IF u \in LeafNodes /\ NotTheLowest(u) THEN "SHIFT_DUPL" ELSE labels[u]
    BY <1>4 DEF ChooseFirst
  <2>2. \A u \in Inner : labels[u] = "DONE" /\ labels'[u] = "DONE"
    BY <2>1, TreeShape DEF LabelsTrue
  <2>3. ASSUME current_id \notin spoiled, NEW d \in DOMAIN first_ocur, first_ocur[d].tree = current_id
        PROVE  tree[first_ocur[d].node] = d /\ labels'[first_ocur[d].node] = "FIRST_OCUR"
    <3> DEFINE u == first_ocur[d].node
    <3>1. tree[u] = d /\ labels[u] = "FIRST_OCUR" /\ u \in Nodes
      BY <1>1, <2>1, <2>3 DEF EntriesNew, Kernels, Second
    <3>2. ~NotTheLowest(u)
      BY <3>1 DEF NotTheLowest
    <3> HIDE DEF u
    <3>3. tree[u] = d /\ labels'[u] = "FIRST_OCUR"
      BY <2>1, <3>1, <3>2
    <3> QED
      BY <3>3 DEF u
  <2> QED
    BY <2>1, <2>2, <2>3 DEF EntriesNew, Kernels, Forests
<1>5. CASE FirstForest
  <2> DEFINE inner == InnerNodes(level, NumChunks)
             new == {u \in inner : Both(u, "FIRST_OCUR")}
  <2>1. /\ pc = "first" /\ pc' = pc /\ inner \subseteq Inner
        /\ \A u \in new : labels[u] = "DONE" /\ labels'[u] = "FIRST_OCUR"
        /\ \A u \in Nodes \ new : labels'[u] = labels[u] /\ tree'[u] = tree[u]
        /\ \A u \in new : tree'[u] = HashOfChildren(tree, u)
        /\ first_ocur' \in Inserted(first_ocur, tree', new)
    BY <1>5, FirstStep
  <2> HIDE DEF inner
  <2>2. UNCHANGED <<current_id, spoiled, baseline>>
    BY <1>5 DEF FirstForest
  <2>3. \A u \in new : u \in Inner /\ Both(u, "FIRST_OCUR")
    BY <2>1
  <2> HIDE DEF new
  <2>4. /\ DOMAIN first_ocur \subseteq DOMAIN first_ocur'
        /\ \A u \in new : tree'[u] \in DOMAIN first_ocur'
        /\ \A d \in DOMAIN first_ocur : first_ocur'[d] = first_ocur[d]
        /\ \A d \in DOMAIN first_ocur' \ DOMAIN first_ocur :
             \E u \in new : tree'[u] = d /\ first_ocur'[d] = NodeID(u, current_id)
    BY <1>1, <2>1, InsertedTrue
  <2>5. SUFFICES ASSUME current_id \notin spoiled PROVE EntriesNew'
    BY <2>2 DEF EntriesNew
  <2>6. NewNamed
    BY <2>1, <2>5, NamedOf
  <2>7. \A d \in DOMAIN first_ocur : first_ocur[d].tree = current_id =>
          /\ tree[first_ocur[d].node] = d /\ labels[first_ocur[d].node] = "FIRST_OCUR"
          /\ first_ocur[d].node \in Nodes
    BY <1>1, <2>1, <2>5 DEF EntriesNew, Kernels, Second
  <2>8. ASSUME NEW d \in DOMAIN first_ocur', first_ocur'[d].tree = current_id
        PROVE  tree'[first_ocur'[d].node] = d /\ labels'[first_ocur'[d].node] = "FIRST_OCUR"
    <3>1. CASE d \in DOMAIN first_ocur
      <4>1. /\ tree[first_ocur[d].node] = d /\ labels[first_ocur[d].node] = "FIRST_OCUR"
            /\ first_ocur[d].node \in Nodes /\ first_ocur'[d] = first_ocur[d]
        BY <2>4, <2>7, <2>8, <3>1
      <4>2. first_ocur[d].node \notin new
        BY <2>1, <4>1
      <4> QED
        BY <2>1, <4>1, <4>2
    <3>2. CASE d \notin DOMAIN first_ocur
      <4>1. PICK u \in new : tree'[u] = d /\ first_ocur'[d] = NodeID(u, current_id)
        BY <2>4, <2>8, <3>2
      <4>2. first_ocur'[d].node = u
        BY <4>1 DEF NodeID
      <4> QED
        BY <2>1, <4>1, <4>2
    <3> QED
      BY <3>1, <3>2
  <2>9. ASSUME NEW u \in new PROVE tree'[u] \notin DOMAIN first_ocur
    <3> DEFINE d == HashOfChildren(tree, u)
    <3>1. SUFFICES ASSUME d \in DOMAIN first_ocur PROVE FALSE
      BY <2>1
    <3>2. /\ Left(u) \in Nodes /\ Right(u) \in Nodes
          /\ tree[Left(u)] \in Digests /\ tree[Right(u)] \in Digests
          /\ FirstOcur(Left(u)) = NodeID(Left(u), current_id)
      BY <2>3, <2>6, TreeShape DEF Both, NewNamed
    <3>3. first_ocur[tree[Left(u)]].tree = current_id
      BY <3>2 DEF FirstOcur, NodeID
    <3>4. first_ocur[tree[Left(u)]].tree <= first_ocur[d].tree
      BY <3>1, <3>2 DEF MapClosed, HashOfChildren
    <3> HIDE DEF d
    <3>5. first_ocur[d].tree = current_id
      <4> DEFINE t == first_ocur[d].tree
      <4>1. t \in baseline_id .. current_id /\ current_id <= t
        BY <1>1, <3>1, <3>3, <3>4
      <4> HIDE DEF t
      <4>2. t = current_id
        BY <1>1, <4>1
      <4> QED
        BY <4>2 DEF t
    <3> DEFINE v == first_ocur[d].node
    <3>6. tree[v] = d /\ labels[v] = "FIRST_OCUR" /\ v \in Nodes
      BY <2>7, <3>1, <3>5
    <3> HIDE DEF v
    <3>7. CASE v \in LeafNodes
      <4>1. tree[v] = LeafDigest(v)
        BY <2>1, <3>7 DEF DigestsKnown, Kernels, ObjectTrue
      <4>2. data \in Data /\ v - (NumChunks - 1) \in Chunks
        BY <2>1, <3>7, TreeShape DEF ObjectTrue, Kernels, LeafNodes, Leaves, NumNodes, Chunks
      <4>3. data[v - (NumChunks - 1)] \in Vals
        BY <4>2 DEF Data
      <4>4. HashPair(tree[Left(u)], tree[Right(u)]) # Hash(data[v - (NumChunks - 1)])
        BY <3>2, <4>3, HashAssumption
      <4> QED
        BY <3>6, <4>1, <4>4 DEF LeafDigest, HashOfChildren, d
    <3>8. CASE v \in Inner
      <4>1. Both(v, "FIRST_OCUR") /\ tree[v] = HashOfChildren(tree, v)
        BY <2>6, <3>6, <3>8 DEF NewNamed
      <4>2. u = v
        BY <2>3, <2>6, <3>6, <3>8, <4>1, NewApart DEF d
      <4> QED
        BY <2>1, <3>6, <4>2
    <3> QED
      BY <3>6, <3>7, <3>8, TreeShape
  <2>10. ASSUME NEW u \in Inner, labels'[u] = "FIRST_OCUR"
         PROVE  first_ocur'[tree'[u]] = NodeID(u, current_id)
    <3>1. CASE u \notin new
      <4>1. labels[u] = "FIRST_OCUR" /\ tree'[u] = tree[u] /\ u \in Nodes
        BY <2>1, <2>10, <3>1, TreeShape
      <4> QED
        BY <2>4, <2>6, <4>1 DEF NewNamed, FirstOcur
    <3>2. CASE u \in new
      <4>1. PICK v \in new : tree'[v] = tree'[u] /\ first_ocur'[tree'[u]] = NodeID(v, current_id)
        BY <2>4, <2>9, <3>2
      <4>2. HashOfChildren(tree, u) = HashOfChildren(tree, v)
        BY <2>1, <3>2, <4>1
      <4>3. u = v
        BY <2>3, <2>6, <3>2, <4>2, NewApart
      <4> QED
        BY <4>1, <4>3
    <3> QED
      BY <3>1, <3>2
  <2> QED
    BY <2>1, <2>2, <2>8, <2>10 DEF EntriesNew, Kernels, Forests, FirstOcur
<1>6. CASE EndFirstForest
  <2>1. /\ pc = "first" /\ pc' = "forest"
        /\ UNCHANGED <<tree, first_ocur, current_id, spoiled, baseline, labels>>
    BY <1>6 DEF EndFirstForest, dedupVars
  <2> QED
    BY <2>1 DEF EntriesNew, Kernels, Forests, Second, FirstOcur
<1>7. CASE BuildForest
  <2> DEFINE inner == InnerNodes(level, NumChunks)
  <2>1. /\ pc = "forest" /\ pc' \in {"forest", "insert"} /\ inner \subseteq Inner
        /\ Visited' = (IF baseline THEN Visited ELSE Visited \cup inner)
        /\ \A u \in Nodes : \/ tree'[u] = tree[u]
                            \/ u \in inner /\ ~baseline /\ Both(u, "SHIFT_DUPL")
        /\ \A u \in Nodes \ inner : labels'[u] = labels[u]
        /\ \A u \in inner :
             \/ Both(u, "FIRST_OCUR") /\ labels'[u] = "FIRST_OCUR"
             \/ Both(u, "SHIFT_DUPL") /\ labels'[u] = "SHIFT_DUPL"
             \/ Both(u, "FIXED_DUPL") /\ labels'[u] = "FIXED_DUPL"
             \/ ~Both(u, "FIRST_OCUR") /\ labels'[u] = "DONE"
    BY <1>7, BuildStep
  <2>2. UNCHANGED <<first_ocur, current_id, spoiled, baseline>> /\ \A u \in Inner : u \in Nodes
    BY <1>7, TreeShape DEF BuildForest
  <2> HIDE DEF inner
  <2>3. \A u \in Inner : labels[u] = "FIRST_OCUR" <=> Both(u, "FIRST_OCUR")
    BY <2>1 DEF LabelsTrue, Second
  <2>4. \A u \in Nodes : /\ labels[u] = "FIRST_OCUR" => /\ tree'[u] = tree[u]
                                                        /\ labels'[u] = "FIRST_OCUR"
                         /\ u \in Inner /\ labels'[u] = "FIRST_OCUR" => labels[u] = "FIRST_OCUR"
    BY <2>1, <2>3 DEF Both
  <2>5. baseline => Visited' = Visited /\ \A u \in Nodes : tree'[u] = tree[u]
    BY <2>1
  <2>6. ASSUME current_id \notin spoiled, NEW d \in DOMAIN first_ocur, first_ocur[d].tree = current_id
        PROVE  LET u == first_ocur[d].node
               IN  /\ tree'[u] = d
                   /\ labels'[u] = "FIRST_OCUR" \/ (baseline /\ u \in Visited')
    <3> DEFINE u == first_ocur[d].node
    <3>1. /\ tree[u] = d /\ u \in Nodes
          /\ labels[u] = "FIRST_OCUR" \/ (baseline /\ u \in Visited)
      BY <1>1, <2>1, <2>6 DEF EntriesNew, Kernels
    <3> HIDE DEF u
    <3>2. tree'[u] = d /\ (labels'[u] = "FIRST_OCUR" \/ (baseline /\ u \in Visited'))
      BY <2>4, <2>5, <3>1
    <3> QED
      BY <3>2 DEF u
  <2>7. ASSUME current_id \notin spoiled, NEW u \in Inner, labels'[u] = "FIRST_OCUR"
        PROVE  first_ocur[tree'[u]] = NodeID(u, current_id)
    <3>1. labels[u] = "FIRST_OCUR" /\ tree'[u] = tree[u]
      BY <2>2, <2>4, <2>7
    <3> QED
      BY <2>1, <2>7, <3>1 DEF EntriesNew, Forests, FirstOcur
  <2> QED
    BY <2>1, <2>2, <2>6, <2>7 DEF EntriesNew, Kernels, Forests, Second, FirstOcur
<1>8. CASE InsertEntries
  <2> DEFINE inner == InnerNodes(level, NumChunks)
  <2>1. /\ pc = "insert" /\ pc' = "forest"
        /\ UNCHANGED <<labels, baseline, current_id, spoiled>>
        /\ \A u \in Nodes :
             tree'[u] = IF u \in inner THEN HashOfChildren(tree, u) ELSE tree[u]
        /\ first_ocur' \in Inserted(first_ocur, tree', inner)
        /\ level' = LevelAbove(level)
    BY <1>8 DEF InsertEntries
  <2>2. inner \subseteq Inner /\ inner \cap Visited = {} /\ Visited' = Visited \cup inner
    BY <2>1, LevelNodes, LevelStep DEF LevelTrue
  <2>3. baseline /\ \A u \in Inner : u \in Nodes
    BY <2>1, TreeShape DEF BaselineTrue
  <2> HIDE DEF inner
  <2>4. /\ \A u \in inner : tree'[u] \in DOMAIN first_ocur'
        /\ \A d \in DOMAIN first_ocur : first_ocur'[d] = first_ocur[d]
        /\ \A d \in DOMAIN first_ocur' \ DOMAIN first_ocur :
             \E u \in inner : tree'[u] = d /\ first_ocur'[d] = NodeID(u, current_id)
    BY <1>1, <2>1, InsertedTrue
  <2>5. \A u \in Inner : labels[u] = "FIRST_OCUR" =>
          /\ tree'[u] = tree[u] /\ tree[u] \in DOMAIN first_ocur
    BY <2>1, <2>3 DEF DigestsKnown, Forests
  <2>6. \A u \in Nodes : labels[u] = "FIRST_OCUR" \/ u \in Visited => tree'[u] = tree[u]
    BY <2>1, <2>2, <2>5
  <2>7. ASSUME current_id \notin spoiled, NEW d \in DOMAIN first_ocur',
               first_ocur'[d].tree = current_id
        PROVE  LET u == first_ocur'[d].node
               IN  tree'[u] = d /\ (labels[u] = "FIRST_OCUR" \/ u \in Visited')
    <3> DEFINE u == first_ocur'[d].node
    <3>1. CASE d \in DOMAIN first_ocur
      <4>1. u = first_ocur[d].node /\ first_ocur[d].tree = current_id
        BY <2>4, <2>7, <3>1
      <4>2. /\ tree[u] = d /\ u \in Nodes /\ (labels[u] = "FIRST_OCUR" \/ u \in Visited)
        BY <1>1, <2>1, <2>7, <3>1, <4>1 DEF EntriesNew, Kernels
      <4> HIDE DEF u
      <4>3. tree'[u] = d /\ (labels[u] = "FIRST_OCUR" \/ u \in Visited')
        BY <2>2, <2>6, <4>2
      <4> QED
        BY <4>3 DEF u
    <3>2. CASE d \notin DOMAIN first_ocur
      <4>1. PICK w \in inner : tree'[w] = d /\ first_ocur'[d] = NodeID(w, current_id)
        BY <2>4, <2>7, <3>2
      <4>2. u = w
        BY <4>1 DEF NodeID
      <4> QED
        BY <2>2, <4>1, <4>2
    <3> QED
      BY <3>1, <3>2
  <2>8. ASSUME current_id \notin spoiled, NEW u \in Inner, labels[u] = "FIRST_OCUR"
        PROVE  first_ocur'[tree'[u]] = NodeID(u, current_id)
    <3>1. first_ocur[tree[u]] = NodeID(u, current_id)
      BY <2>1, <2>8 DEF EntriesNew, Forests, FirstOcur
    <3> QED
      BY <2>4, <2>5, <2>8, <3>1
  <2> QED
    BY <2>1, <2>3, <2>7, <2>8 DEF EntriesNew, Kernels, Forests, Second, FirstOcur
<1>9. CASE EndBuildForest
  <2>1. /\ pc = "forest" /\ pc' = "collect" /\ level' = level
        /\ UNCHANGED <<tree, first_ocur, current_id, spoiled, baseline, labels>>
    BY <1>9 DEF EndBuildForest, dedupVars
  <2>2. Visited' = Visited
    BY <2>1 DEF Visited
  <2> QED
    BY <2>1, <2>2 DEF EntriesNew, Kernels, Forests, Second, FirstOcur
<1>10. CASE FinishCheckpoint
  <2>1. /\ pc' = "idle" /\ first_ocur' = first_ocur /\ current_id' = current_id + 1
    BY <1>10 DEF FinishCheckpoint
  <2>2. \A d \in DOMAIN first_ocur : first_ocur[d].tree # current_id + 1
    BY <1>1
  <2> QED
    BY <2>1, <2>2 DEF EntriesNew, Kernels, Forests
<1>11. CASE FailToWrite
  BY <1>11 DEF FailToWrite, EntriesNew
<1>12. CASE Aside
  BY <1>12 DEF Aside, dedupVars, EntriesNew, Kernels, Forests, Second, Visited, FirstOcur
<1> QED
  BY <1>2, <1>3, <1>4, <1>5, <1>6, <1>7, <1>8, <1>9, <1>10, <1>11, <1>12, Steps

-----------------------------------------------------------------------------
(* Exact, and that the map knows the sources of a diff *)

\* What the checkpoints no failed write has spoiled keep to holds in every state,
\* where Digests has the digests of all data of the tree's shape.
THEOREM ExactAlways ==
  ASSUME NEW CONSTANT f, DigestsClosed(f)
  PROVE  Spec => [](Coherent /\ LevelTrue /\ Exact /\ TreeTrue)
<1> DEFINE I == Coherent /\ LevelTrue
           E == Exact /\ TreeTrue
<1>1. Init => E
  BY ExactInit, EntriesNewInit DEF Exact
<1>2. I /\ I' /\ E /\ [Next]_vars => E'
  <2> SUFFICES ASSUME I, I', E, [Next]_vars PROVE E'
    OBVIOUS
  <2>1. /\ ObjectTrue /\ LevelTrue /\ LabelsTrue /\ DigestsKnown /\ ObjectTrue'
        /\ MapClosed /\ EntriesNew /\ BaselineTrue /\ TreeTrue
    BY DEF Coherent, Exact
  <2>2. BaselineTrue'
    BY <2>1, BaselineStep
  <2>3. MapClosed' /\ TreeTrue'
    BY <2>1, <2>2, MapClosedStep, TreeTrueStep
  <2>4. EntriesNew'
    BY <2>1, EntriesNewStep
  <2> QED
    BY <2>2, <2>3, <2>4 DEF Exact
<1>3. Spec => []I
  BY CoherentAlways
<1>4. I /\ E => Coherent /\ LevelTrue /\ Exact /\ TreeTrue
  OBVIOUS
<1> HIDE DEF I, E
<1> QED
  BY <1>1, <1>2, <1>3, <1>4, PTL DEF Spec

LEMMA SourcesOf == Coherent /\ Exact => SourcesKnown
<1> SUFFICES ASSUME Coherent, Exact, pc = "collect"
             PROVE  /\ \A u \in first_ocur_vec \cup shift_dupl_vec :
                         /\ tree[u] \in DOMAIN first_ocur
                         /\ FirstOcur(u).tree \in baseline_id .. current_id
                    /\ current_id \notin spoiled =>
                         /\ \A u \in first_ocur_vec : FirstOcur(u) = NodeID(u, current_id)
                         /\ \A u \in shift_dupl_vec : FirstOcur(u) # NodeID(u, current_id)
  BY DEF SourcesKnown
<1>1. /\ ObjectTrue /\ DigestsKnown /\ RootsTrue /\ EntriesNew /\ BaselineTrue
      /\ pc \in Kernels /\ pc \in Forests /\ todo = {}
  BY DEF Coherent, Exact, Kernels, Forests, ObjectTrue
<1>2. ASSUME NEW u \in first_ocur_vec \cup shift_dupl_vec
      PROVE  /\ u \in LeafNodes \/ u \in Inner
             /\ u \in first_ocur_vec => labels[u] = "FIRST_OCUR"
             /\ u \in shift_dupl_vec => labels[u] = "SHIFT_DUPL"
             /\ tree[u] \in DOMAIN first_ocur
  <2>1. /\ u \in LeafNodes \/ u \in Inner
        /\ u \in first_ocur_vec => labels[u] = "FIRST_OCUR"
        /\ u \in shift_dupl_vec => labels[u] = "SHIFT_DUPL"
    BY <1>1, <1>2, TreeShape DEF RootsTrue
  <2> QED
    BY <1>1, <1>2, <2>1 DEF DigestsKnown
<1>3. ASSUME NEW u \in first_ocur_vec \cup shift_dupl_vec
      PROVE  FirstOcur(u).tree \in baseline_id .. current_id
  BY <1>1, <1>2 DEF ObjectTrue, FirstOcur
<1>4. ASSUME current_id \notin spoiled, NEW u \in first_ocur_vec
      PROVE  FirstOcur(u) = NodeID(u, current_id)
  BY <1>1, <1>2, <1>4 DEF DigestsKnown, EntriesNew, FirstOcur
<1>5. ASSUME current_id \notin spoiled, NEW u \in shift_dupl_vec,
             FirstOcur(u) = NodeID(u, current_id)
      PROVE  FALSE
  <2>1. u \in Inner /\ labels[u] = "SHIFT_DUPL"
    BY <1>1, <1>2, <1>5 DEF DigestsKnown, FirstOcur
  <2>2. ~baseline
    BY <1>1, <2>1 DEF BaselineTrue
  <2>3. first_ocur[tree[u]].node = u /\ first_ocur[tree[u]].tree = current_id
    BY <1>5 DEF FirstOcur, NodeID
  <2> QED
    BY <1>1, <1>2, <1>5, <2>1, <2>2, <2>3 DEF EntriesNew
<1> QED
  BY <1>2, <1>3, <1>4, <1>5

\* When a diff is gathered, the map knows the digest of every region pushed; and
\* unless a failed write has spoiled the chain, the regions to be saved are first
\* occurrences and those to be pointed from are not, however the teams raced.
THEOREM SourcesAlwaysKnown ==
  ASSUME NEW CONSTANT f, DigestsClosed(f)
  PROVE  Spec => []SourcesKnown
<1>1. Coherent /\ Exact => SourcesKnown
  BY SourcesOf
<1>2. Spec => [](Coherent /\ LevelTrue /\ Exact /\ TreeTrue)
  BY ExactAlways
<1> QED
  BY <1>1, <1>2, PTL

-----------------------------------------------------------------------------
(* The entries of earlier checkpoints, and that duplicates are true *)

\* The map names, for a digest entered by an earlier checkpoint, a node that had
\* it then.
EntriesTrue ==
  current_id \notin spoiled =>
    \A d \in DOMAIN first_ocur : first_ocur[d].tree < current_id =>
      Hashes(history[first_ocur[d].tree + 1], first_ocur[d].node, d)

\* And for one entered by the checkpoint under way, a node that has it now.
LEMMA PresentTrue ==
  ASSUME ObjectTrue, LabelsTrue, DigestsKnown, Exact, TreeTrue, pc \in Kernels,
         current_id \notin spoiled, NEW d \in DOMAIN first_ocur, first_ocur[d].tree = current_id
  PROVE  Hashes(data, first_ocur[d].node, d)
<1> DEFINE u == first_ocur[d].node
<1>1. /\ tree[u] = d /\ u \in Nodes
      /\ labels[u] = "FIRST_OCUR" \/ (baseline /\ pc \in Second /\ u \in Visited)
  BY DEF ObjectTrue, Exact, EntriesNew
<1> HIDE DEF u
<1>2. CASE pc = "leaves"
  <2>1. labels[u] = "FIRST_OCUR" /\ u \in LeafNodes \ todo
    BY <1>1, <1>2, TreeShape DEF Second, LabelsTrue
  <2> QED
    BY <1>1, <2>1, LeavesTrue DEF u
<1>3. CASE pc \in Forests
  BY <1>1, <1>3, NodesTrue DEF Exact, u
<1> QED
  BY <1>2, <1>3 DEF Kernels, Forests

\* Entries of earlier checkpoints are kept, and the new ones are of this one.
LEMMA EntriesPast ==
  ASSUME ObjectTrue, LevelTrue, LabelsTrue, [Next]_vars, baseline_id' = baseline_id,
         NEW d \in DOMAIN first_ocur', first_ocur'[d].tree < current_id
  PROVE  d \in DOMAIN first_ocur /\ first_ocur'[d] = first_ocur[d]
<1>1. FcnOn(first_ocur, DOMAIN first_ocur) /\ current_id \in Nat
  BY DEF ObjectTrue
<1>2. \A n : NodeID(n, current_id).tree = current_id
  BY DEF NodeID
<1>3. ASSUME NEW e \in Data, NEW make_baseline \in BOOLEAN, Checkpoint(e, make_baseline)
      PROVE  d \in DOMAIN first_ocur /\ first_ocur'[d] = first_ocur[d]
  BY <1>3 DEF Checkpoint, MapAtStart
<1>4. ASSUME NEW leaf \in todo, DedupLeaf(leaf)
      PROVE  d \in DOMAIN first_ocur /\ first_ocur'[d] = first_ocur[d]
  <2> DEFINE digest == LeafDigest(leaf)
  <2>1. /\ DOMAIN first_ocur' = DOMAIN first_ocur \cup {digest}
        /\ \A x \in DOMAIN first_ocur : x # digest => first_ocur'[x] = first_ocur[x]
        /\ digest \notin DOMAIN first_ocur => first_ocur'[digest] = NodeID(leaf, current_id)
        /\ digest \in DOMAIN first_ocur =>
             \/ first_ocur'[digest] = first_ocur[digest]
             \/ \E n \in {first_ocur[digest].node, leaf} :
                  first_ocur'[digest] = NodeID(n, current_id)
    BY <1>4, LeafStep
  <2> HIDE DEF digest
  <2> QED
    BY <1>1, <1>2, <2>1
<1>5. ASSUME NEW t, NEW S, first_ocur' \in Inserted(first_ocur, t, S)
      PROVE  d \in DOMAIN first_ocur /\ first_ocur'[d] = first_ocur[d]
  <2>1. /\ \A x \in DOMAIN first_ocur : first_ocur'[x] = first_ocur[x]
        /\ \A x \in DOMAIN first_ocur' \ DOMAIN first_ocur :
             \E u \in S : first_ocur'[x] = NodeID(u, current_id)
    BY <1>1, <1>5, InsertedTrue
  <2> QED
    BY <1>1, <1>2, <2>1
<1>6. CASE FirstForest
  BY <1>5, <1>6 DEF FirstForest
<1>7. CASE InsertEntries
  BY <1>5, <1>7 DEF InsertEntries
<1>8. CASE \/ ChooseFirst \/ EndFirstForest \/ BuildForest \/ EndBuildForest
           \/ FinishCheckpoint \/ FailToWrite \/ Aside
  BY <1>8 DEF ChooseFirst, EndFirstForest, BuildForest, EndBuildForest, FinishCheckpoint,
              FailToWrite, Aside, dedupVars
<1> QED
  BY <1>3, <1>4, <1>6, <1>7, <1>8, Steps

\* A chain that is spoiled stays so until a baseline.
LEMMA SpoiledStep ==
  ASSUME ObjectTrue, [Next]_vars
  PROVE  /\ current_id \in spoiled =>
              \/ current_id' \in spoiled'
              \/ DOMAIN first_ocur' = {} /\ pc' \in Kernels
         /\ \A k \in Taken' : k # current_id => (k \in spoiled <=> k \in spoiled')
         /\ FinishCheckpoint => (current_id \in spoiled <=> current_id \in spoiled')
         /\ FinishCheckpoint \/ (current_id' = current_id /\ Taken' = Taken)
<1>1. ASSUME NEW e \in Data, NEW make_baseline \in BOOLEAN, Checkpoint(e, make_baseline)
      PROVE  /\ spoiled' = (IF make_baseline THEN spoiled \ {current_id} ELSE spoiled)
             /\ make_baseline => DOMAIN first_ocur' = {}
             /\ pc' \in Kernels /\ current_id' = current_id /\ incr_chkpts' = incr_chkpts
  BY <1>1 DEF Checkpoint, MapAtStart, Kernels
<1>2. ASSUME NEW leaf \in todo, DedupLeaf(leaf)
      PROVE  UNCHANGED <<current_id, spoiled, incr_chkpts>>
  BY <1>2 DEF DedupLeaf
<1>3. CASE ChooseFirst \/ FirstForest \/ EndFirstForest \/ BuildForest \/ InsertEntries
           \/ EndBuildForest \/ Aside
  BY <1>3 DEF ChooseFirst, FirstForest, EndFirstForest, BuildForest, InsertEntries,
              EndBuildForest, Aside, dedupVars, Taken
<1>4. ASSUME FailToWrite
      PROVE  spoiled' = spoiled \cup {current_id} /\ UNCHANGED <<current_id, incr_chkpts>>
  BY <1>4 DEF FailToWrite
<1>5. CASE FinishCheckpoint
  <2>1. /\ spoiled' = IF current_id \in spoiled THEN spoiled \cup {current_id + 1} ELSE spoiled
        /\ current_id' = current_id + 1 /\ current_id \in Nat /\ Taken' = 0 .. current_id
    BY <1>5, FinishStep DEF FinishCheckpoint
  <2> QED
    BY <1>5, <2>1
<1> QED
  BY <1>1, <1>2, <1>3, <1>4, <1>5, Steps DEF Taken

LEMMA EntriesTrueStep ==
  ASSUME ObjectTrue, LevelTrue, LabelsTrue, DigestsKnown, Exact, TreeTrue, EntriesTrue,
         [Next]_vars
  PROVE  EntriesTrue'
<1>1. /\ current_id \in Nat /\ baseline_id \in 0 .. current_id
      /\ FcnOn(first_ocur, DOMAIN first_ocur)
      /\ \A d \in DOMAIN first_ocur : first_ocur[d].tree \in baseline_id .. current_id
  BY DEF ObjectTrue
<1>2. CASE DOMAIN first_ocur' = {}
  BY <1>2 DEF EntriesTrue
<1>3. SUFFICES ASSUME current_id \notin spoiled, DOMAIN first_ocur' # {},
                      NEW d \in DOMAIN first_ocur', first_ocur'[d].tree < current_id'
               PROVE  Hashes(history'[first_ocur'[d].tree + 1], first_ocur'[d].node, d)
  BY <1>2, SpoiledStep DEF EntriesTrue
<1>4. CASE FinishCheckpoint
  <2>1. /\ current_id' = current_id + 1 /\ Taken = 0 .. current_id - 1
        /\ \A k \in Taken : history'[k + 1] = history[k + 1]
        /\ history'[current_id + 1] = data
    BY <1>4, FinishStep
  <2>2. first_ocur' = first_ocur /\ pc = "collect"
    BY <1>4 DEF FinishCheckpoint
  <2> DEFINE t == first_ocur[d].tree
  <2>3. t \in 0 .. current_id
    BY <1>1, <1>3, <2>2
  <2>4. CASE t = current_id
    <3>1. Hashes(data, first_ocur[d].node, d)
      BY <1>3, <2>2, <2>4, PresentTrue DEF Kernels
    <3> QED
      BY <2>1, <2>2, <2>4, <3>1
  <2>5. CASE t # current_id
    <3> HIDE DEF t
    <3>1. t < current_id /\ t \in Taken
      BY <1>1, <2>1, <2>3, <2>5
    <3>2. Hashes(history[t + 1], first_ocur[d].node, d)
      BY <1>3, <2>2, <3>1 DEF EntriesTrue, t
    <3> QED
      BY <2>1, <2>2, <3>1, <3>2 DEF t
  <2> QED
    BY <2>4, <2>5
<1>5. CASE ~FinishCheckpoint
  <2>1. current_id' = current_id /\ history' = history
    BY <1>5, SpoiledStep, DiffsKept
  <2>2. baseline_id' = baseline_id
    <3>1. ASSUME NEW e \in Data, NEW make_baseline \in BOOLEAN, Checkpoint(e, make_baseline)
          PROVE  baseline_id' = baseline_id
      BY <1>3, <3>1 DEF Checkpoint, MapAtStart
    <3>2. ASSUME NEW leaf \in todo, DedupLeaf(leaf) PROVE baseline_id' = baseline_id
      BY <3>2 DEF DedupLeaf
    <3>3. CASE ChooseFirst \/ FirstForest \/ EndFirstForest \/ BuildForest \/ InsertEntries
               \/ EndBuildForest \/ Aside \/ FailToWrite
      BY <3>3 DEF ChooseFirst, FirstForest, EndFirstForest, BuildForest, InsertEntries,
                  EndBuildForest, Aside, dedupVars, FailToWrite
    <3> QED
      BY <1>5, <3>1, <3>2, <3>3, Steps
  <2>3. d \in DOMAIN first_ocur /\ first_ocur'[d] = first_ocur[d]
    BY <1>3, <2>1, <2>2, EntriesPast
  <2> QED
    BY <1>3, <2>1, <2>3 DEF EntriesTrue
<1> QED
  BY <1>4, <1>5

\* DuplicatesTrue, of the diffs kept in any state.
DuplicateTrue(k, e) ==
  /\ e.prev.tree \in Chkpt(k).ref_id .. k
  /\ NumLeaves[e.node] = NumLeaves[e.prev.node]
  /\ \A i \in 0 .. NumLeaves[e.node] - 1 :
       history[k + 1][RegionChunk(e.node, i)] =
         history[e.prev.tree + 1][RegionChunk(e.prev.node, i)]

DuplicatesKept ==
  \A k \in Taken \ spoiled : \A e \in Chkpt(k).shift_dupl : DuplicateTrue(k, e)

LEMMA DuplicatesStep ==
  ASSUME Coherent, Coherent', Exact, TreeTrue, EntriesTrue, DuplicatesKept, [Next]_vars
  PROVE  DuplicatesKept'
<1>0. /\ ObjectTrue /\ LabelsTrue /\ DigestsKnown /\ RootsTrue /\ DiffsTrue
      /\ ObjectTrue' /\ DiffsTrue' /\ MapClosed /\ BaselineTrue
  BY DEF Coherent, Exact
<1>1. CASE ~FinishCheckpoint
  <2>1. /\ Taken' = Taken /\ incr_chkpts' = incr_chkpts /\ history' = history
        /\ \A k \in Taken : k \in spoiled <=> k \in spoiled'
    BY <1>0, <1>1, SpoiledStep, DiffsKept, TakenTrue
  <2> QED
    BY <2>1 DEF DuplicatesKept, DuplicateTrue, Chkpt
<1>2. CASE FinishCheckpoint
  <2>1. /\ current_id' = current_id + 1 /\ current_id \in Nat
        /\ Taken = 0 .. current_id - 1 /\ Taken' = 0 .. current_id
        /\ \A k \in Taken : Chkpt(k)' = Chkpt(k) /\ history'[k + 1] = history[k + 1]
        /\ incr_chkpts'[current_id + 1] = Diff /\ history'[current_id + 1] = data
    BY <1>0, <1>2, FinishStep
  <2>2. \A k \in Taken' : k \in spoiled <=> k \in spoiled'
    BY <1>0, <1>2, SpoiledStep
  <2>3. pc = "collect" /\ pc \in Kernels /\ pc \in Forests
    BY <1>2 DEF FinishCheckpoint, Kernels, Forests
  <2>4. \A k \in Taken' : k \in Taken \/ k = current_id
    BY <2>1
  <2>5. ASSUME NEW k \in Taken, k \notin spoiled, NEW e \in Chkpt(k).shift_dupl
        PROVE  DuplicateTrue(k, e)'
    <3>1. DuplicateTrue(k, e)
      BY <2>5 DEF DuplicatesKept
    <3>2. e.prev.tree \in Taken
      <4>1. Chkpt(k).ref_id \in 0 .. k /\ e.prev.tree \in Chkpt(k).ref_id .. k
        BY <1>0, <2>5, <3>1 DEF DiffsTrue, DiffTrue, DuplicateTrue
      <4> DEFINE r == Chkpt(k).ref_id
                 t == e.prev.tree
      <4>2. r \in 0 .. k /\ t \in r .. k
        BY <4>1
      <4> HIDE DEF r, t
      <4>3. t \in Taken
        BY <2>1, <2>5, <4>2
      <4> QED
        BY <4>3 DEF t
    <3>3. /\ Chkpt(k)' = Chkpt(k) /\ history'[k + 1] = history[k + 1]
          /\ history'[e.prev.tree + 1] = history[e.prev.tree + 1]
      BY <2>1, <2>5, <3>2
    <3> QED
      BY <3>1, <3>3 DEF DuplicateTrue
  <2>6. ASSUME NEW k, k = current_id, current_id \notin spoiled, NEW e \in Chkpt(k)'.shift_dupl
        PROVE  DuplicateTrue(k, e)'
    <3>1. Chkpt(k)' = Diff
      BY <2>1, <2>6 DEF Chkpt
    <3>2. PICK u \in shift_dupl_vec : e = [node |-> u, prev |-> FirstOcur(u)]
      BY <2>6, <3>1 DEF Diff, ShiftedRegions
    <3> DEFINE x == first_ocur[tree[u]]
               then == IF x.tree = current_id THEN data ELSE history[x.tree + 1]
    <3>3. u \in Nodes /\ labels[u] = "SHIFT_DUPL"
      BY <1>0, <2>3, <3>2 DEF RootsTrue
    <3>4. Hashes(data, u, tree[u]) /\ tree[u] \in DOMAIN first_ocur
      BY <1>0, <2>3, <3>3, NodesTrue
    <3>5. /\ x.node \in Nodes /\ x.tree \in baseline_id .. current_id
          /\ baseline_id \in 0 .. current_id /\ data \in Data
      BY <1>0, <2>3, <3>4 DEF ObjectTrue
    <3>6. e.node = u /\ e.prev = x
      BY <3>2 DEF FirstOcur
    <3>7. Diff.ref_id = baseline_id
      BY DEF Diff
    <3>8. Hashes(then, x.node, tree[u]) /\ then \in Data /\ history'[x.tree + 1] = then
      <4>1. CASE x.tree = current_id
        BY <1>0, <2>1, <2>3, <2>6, <3>4, <3>5, <4>1, PresentTrue
      <4>2. CASE x.tree # current_id
        <5> DEFINE t == x.tree
        <5>1. t \in baseline_id .. current_id /\ t # current_id
          BY <3>5, <4>2
        <5> HIDE DEF t
        <5>2. t < current_id /\ t \in Taken
          BY <2>1, <3>5, <5>1
        <5>3. Hashes(history[t + 1], x.node, tree[u])
          BY <2>6, <3>4, <5>2 DEF EntriesTrue, t
        <5>4. history[t + 1] \in Data /\ history'[t + 1] = history[t + 1]
          BY <1>0, <2>1, <5>2 DEF DiffsTrue, DiffTrue
        <5> QED
          BY <4>2, <5>3, <5>4 DEF t
      <4> QED
        BY <4>1, <4>2
    <3> HIDE DEF then
    <3>9. /\ NumLeaves[u] = NumLeaves[x.node]
          /\ \A i \in 0 .. NumLeaves[u] - 1 :
               data[RegionChunk(u, i)] = then[RegionChunk(x.node, i)]
      BY <3>4, <3>5, <3>8, HashesSame
    <3> HIDE DEF x
    <3> QED
      BY <2>1, <2>6, <3>1, <3>5, <3>6, <3>7, <3>8, <3>9 DEF DuplicateTrue
  <2> QED
    BY <2>1, <2>2, <2>4, <2>5, <2>6 DEF DuplicatesKept
<1> QED
  BY <1>1, <1>2

\* A restart that follows a shifted region finds what the chunks held: the region
\* it points to has the same shape, and held the same chunks when the checkpoint
\* it names was taken, whoever won the races for the map.
THEOREM DuplicatesAlwaysTrue ==
  ASSUME NEW CONSTANT f, DigestsClosed(f)
  PROVE  Spec => []DuplicatesTrue
<1> DEFINE I == Coherent /\ LevelTrue /\ Exact /\ TreeTrue
           D == EntriesTrue /\ DuplicatesKept
<1>1. Init => D
  BY DEF Init, EntriesTrue, DuplicatesKept, Taken
<1>2. I /\ I' /\ D /\ [Next]_vars => D'
  BY EntriesTrueStep, DuplicatesStep DEF Coherent
<1>3. Spec => []I
  BY ExactAlways
<1>4. D => DuplicatesTrue
  BY DEF DuplicatesKept, DuplicatesTrue, DuplicateTrue
<1> HIDE DEF I, D
<1> QED
  BY <1>1, <1>2, <1>3, <1>4, PTL DEF Spec

-----------------------------------------------------------------------------
(* Types *)

\* What Coherent and Exact leave out of TypeOK: the digests of the whole tree, and
\* what is kept while no checkpoint is under way.
ObjectTyped ==
  /\ DOMAIN tree \in {{}, Nodes} /\ \A u \in DOMAIN tree : tree[u] \in Digests \cup {NoDigest}
  /\ data \in Data \cup {[c \in {} |-> NoVal]}
  /\ labels \in [DOMAIN tree -> Kinds]
  /\ spoiled \subseteq 0 .. current_id

\* The restart: while one runs, its checkpoint and the next one to be loaded are
\* among those taken, whatever the node list says.
RestartTyped ==
  /\ target \in Nat /\ via \in {"memory", "files"} /\ idx \in Int /\ ref_id \in Nat
  /\ pc \in Restarting => target \in Taken /\ idx < Len(incr_chkpts)
  /\ DOMAIN node_list = IF pc \in Restarting THEN Chunks ELSE {}
  /\ \A c \in DOMAIN node_list : node_list[c] \in NodeIDs
  /\ out \in [DOMAIN node_list -> Vals \cup {NoVal}]

LEMMA TypedInit == Init => ObjectTyped /\ RestartTyped
<1> SUFFICES ASSUME Init PROVE ObjectTyped /\ RestartTyped
  OBVIOUS
<1>1. ObjectTyped
  BY DEF Init, ObjectTyped
<1>2. RestartTyped
  BY DEF Init, RestartTyped, Restarting
<1> QED
  BY <1>1, <1>2

LEMMA ObjectTypedStep ==
  ASSUME NEW f, DigestsClosed(f), ObjectTrue, LevelTrue, LabelsTrue, DigestsKnown, BaselineTrue,
         TreeTrue, ObjectTyped, [Next]_vars
  PROVE  ObjectTyped'
<1>0. /\ current_id \in Nat
      /\ pc \in Kernels \/ current_id > 0 => FcnOn(tree, Nodes) /\ DOMAIN tree = Nodes
      /\ pc \in Kernels => data \in Data /\ labels \in [Nodes -> Kinds]
  BY DEF ObjectTrue, FcnOn
<1>1. ASSUME pc \in Kernels, FcnOn(tree', Nodes), labels' \in [Nodes -> Kinds],
             \A u \in Nodes : tree'[u] = tree[u] \/ tree'[u] \in Digests,
             data' = data, spoiled' = spoiled, current_id' = current_id
      PROVE  ObjectTyped'
  <2>1. DOMAIN tree' = Nodes /\ DOMAIN tree = Nodes
    BY <1>0, <1>1 DEF FcnOn
  <2> QED
    BY <1>0, <1>1, <2>1 DEF ObjectTyped
<1>2. ASSUME NEW d \in Data, NEW make_baseline \in BOOLEAN, Checkpoint(d, make_baseline)
      PROVE  ObjectTyped'
  <2>1. /\ data' = d /\ labels' = [u \in Nodes |-> "DONE"] /\ current_id' = current_id
        /\ spoiled' \subseteq spoiled
        /\ tree' = (IF make_baseline THEN [u \in Nodes |-> NoDigest] ELSE tree)
        /\ current_id = 0 => make_baseline
    BY <1>2 DEF Checkpoint
  <2>2. DOMAIN tree' = Nodes /\ \A u \in Nodes : tree'[u] \in Digests \cup {NoDigest}
    BY <1>0, <2>1 DEF ObjectTyped
  <2>3. labels' \in [Nodes -> Kinds]
    BY <2>1 DEF Kinds
  <2> QED
    BY <2>1, <2>2, <2>3 DEF ObjectTyped
<1>3. ASSUME NEW leaf \in todo, DedupLeaf(leaf) PROVE ObjectTyped'
  <2> DEFINE digest == LeafDigest(leaf)
  <2>1. /\ pc = "leaves" /\ leaf \in LeafNodes
        /\ FcnOn(tree', Nodes) /\ tree'[leaf] = digest /\ labels' \in [Nodes -> Kinds]
        /\ \A u \in Nodes \ {leaf} : tree'[u] = tree[u]
    BY <1>3, LeafStep DEF ObjectTrue
  <2>2. data \in Data /\ leaf - (NumChunks - 1) \in Chunks
    BY <1>0, <2>1, TreeShape DEF Kernels, LeafNodes, Leaves, NumNodes, Chunks
  <2>3. digest \in Digests
    BY <2>2, HashAssumption DEF LeafDigest, Data
  <2>4. data' = data /\ spoiled' = spoiled /\ current_id' = current_id
    BY <1>3 DEF DedupLeaf
  <2> QED
    BY <1>1, <2>1, <2>3, <2>4 DEF Kernels
<1>4. CASE ChooseFirst
  <2>1. /\ pc \in Kernels
        /\ UNCHANGED <<tree, data, spoiled, current_id>>
        /\ labels' = [u \in Nodes |->
             IF u \in LeafNodes /\ NotTheLowest(u) THEN "SHIFT_DUPL" ELSE labels[u]]
    BY <1>4 DEF ChooseFirst, Kernels
  <2>2. labels' \in [Nodes -> Kinds]
    BY <1>0, <2>1 DEF Kinds
  <2> QED
    BY <1>0, <1>1, <2>1, <2>2 DEF FcnOn
<1>5. CASE FirstForest
  <2> DEFINE new == {u \in InnerNodes(level, NumChunks) : Both(u, "FIRST_OCUR")}
  <2>1. /\ pc = "first" /\ labels' \in [Nodes -> Kinds] /\ FcnOn(tree', Nodes)
        /\ new \subseteq Inner
        /\ \A u \in Nodes \ new : tree'[u] = tree[u]
        /\ \A u \in new : tree'[u] = HashOfChildren(tree, u)
    BY <1>5, FirstStep
  <2>2. pc \in Kernels /\ pc \in Forests
    BY <2>1 DEF Kernels, Forests
  <2>3. ASSUME NEW u \in new PROVE HashOfChildren(tree, u) \in Digests
    <3>1. u \in Inner /\ Both(u, "FIRST_OCUR")
      BY <2>1
    <3> QED
      BY <2>2, <3>1, UpTrue DEF Both
  <2>4. UNCHANGED <<data, spoiled, current_id>>
    BY <1>5 DEF FirstForest
  <2> HIDE DEF new
  <2> QED
    BY <1>1, <2>1, <2>2, <2>3, <2>4
<1>6. CASE BuildForest
  <2> DEFINE inner == InnerNodes(level, NumChunks)
  <2>1. /\ pc = "forest" /\ labels' \in [Nodes -> Kinds] /\ FcnOn(tree', Nodes)
        /\ inner \subseteq Inner
        /\ \A u \in Nodes :
             tree'[u] = tree[u] \/ (u \in inner /\ ~baseline /\ Both(u, "SHIFT_DUPL"))
        /\ \A u \in inner :
             \/ Both(u, "FIRST_OCUR")
             \/ Both(u, "SHIFT_DUPL") /\ tree'[u] = IF baseline THEN tree[u] ELSE HashOfChildren(tree, u)
             \/ Both(u, "FIXED_DUPL")
             \/ ~Both(u, "FIRST_OCUR") /\ labels'[u] = "DONE"
    BY <1>6, BuildStep
  <2>2. pc \in Kernels /\ pc \in Forests
    BY <2>1 DEF Kernels, Forests
  <2>3. tree' = TreeToLookUp({u \in inner : labels[Left(u)] = "SHIFT_DUPL" /\ labels[Right(u)] = "SHIFT_DUPL"})
    BY <1>6 DEF BuildForest
  <2>4. ASSUME NEW u \in Nodes PROVE tree'[u] = tree[u] \/ tree'[u] \in Digests
    <3>1. CASE u \in inner /\ Both(u, "SHIFT_DUPL")
      <4>1. HashOfChildren(tree, u) \in Digests
        BY <2>1, <2>2, <3>1, UpTrue DEF Both
      <4>2. tree'[u] \in {tree[u], HashOfChildren(tree, u)}
        BY <2>3 DEF TreeToLookUp
      <4> QED
        BY <4>1, <4>2
    <3> QED
      BY <2>1, <3>1
  <2>5. UNCHANGED <<data, spoiled, current_id>>
    BY <1>6 DEF BuildForest
  <2> QED
    BY <1>1, <2>1, <2>2, <2>4, <2>5
<1>7. CASE InsertEntries
  <2> DEFINE inner == InnerNodes(level, NumChunks)
  <2>1. /\ pc = "insert" /\ UNCHANGED <<labels, data, spoiled, current_id>>
        /\ tree' = [u \in Nodes |-> IF u \in inner THEN HashOfChildren(tree, u) ELSE tree[u]]
    BY <1>7 DEF InsertEntries
  <2>2. pc \in Kernels /\ pc \in Forests /\ pc \in Second /\ baseline
    BY <2>1 DEF Kernels, Forests, Second, BaselineTrue
  <2>3. /\ inner \subseteq Inner
        /\ \A u \in inner : {Left(u), Right(u)} \subseteq LeafNodes \cup Visited
    BY <2>1, LevelNodes DEF LevelTrue
  <2>4. ASSUME NEW u \in inner PROVE HashOfChildren(tree, u) \in Digests
    BY <2>2, <2>3, UpTrue
  <2>5. FcnOn(tree', Nodes)
    BY <2>1 DEF FcnOn
  <2> HIDE DEF inner
  <2> QED
    BY <1>0, <1>1, <2>1, <2>2, <2>4, <2>5
<1>8. CASE FinishCheckpoint
  <2>1. UNCHANGED <<tree, data, labels>> /\ current_id' = current_id + 1
        /\ spoiled' \subseteq spoiled \cup {current_id + 1}
    BY <1>8 DEF FinishCheckpoint
  <2>2. spoiled' \subseteq 0 .. current_id + 1
    BY <1>0, <2>1 DEF ObjectTyped
  <2> QED
    BY <2>1, <2>2 DEF ObjectTyped
<1>9. CASE FailToWrite
  <2>1. UNCHANGED <<tree, data, labels, current_id>> /\ spoiled' = spoiled \cup {current_id}
    BY <1>9 DEF FailToWrite
  <2>2. spoiled' \subseteq 0 .. current_id
    BY <1>0, <2>1 DEF ObjectTyped
  <2> QED
    BY <2>1, <2>2 DEF ObjectTyped
<1>10. CASE EndFirstForest \/ EndBuildForest \/ Aside
  <2>1. UNCHANGED dedupVars
    BY <1>10 DEF EndFirstForest, EndBuildForest, Aside
  <2> QED
    BY <2>1 DEF dedupVars, ObjectTyped
<1> QED
  BY <1>2, <1>3, <1>4, <1>5, <1>6, <1>7, <1>8, <1>9, <1>10, Steps

\* What a restart reads from a diff is a value, wherever it looks.
LEMMA SavedTyped ==
  ASSUME NEW k, DiffTrue(k), NEW u, NEW i
  PROVE  Saved(k, u, i) \in Vals \cup {NoVal}
<1> DEFINE regions == DOMAIN Chkpt(k).first_ocur
           root == CHOOSE v \in regions : u \in Region[v]
           chunks == Chkpt(k).first_ocur[root]
           pos == Leftmost[u] - Leftmost[root] + i
<1>1. Saved(k, u, i) = IF u \in distinct_map(k) /\ pos \in DOMAIN chunks THEN chunks[pos] ELSE NoVal
  BY DEF Saved
<1>2. ASSUME u \in distinct_map(k), pos \in DOMAIN chunks PROVE chunks[pos] \in Vals
  <2>1. \E v \in regions : u \in Region[v]
    BY <1>2 DEF distinct_map
  <2>2. root \in regions
    BY <2>1
  <2> DEFINE taken == history[k + 1]
  <2>3. /\ taken \in Data /\ root \in Nodes
        /\ chunks = [j \in 0 .. NumLeaves[root] - 1 |-> taken[RegionChunk(root, j)]]
    BY <2>2 DEF DiffTrue
  <2> HIDE DEF root, chunks, pos, taken
  <2>4. pos \in 0 .. NumLeaves[root] - 1 /\ chunks[pos] = taken[RegionChunk(root, pos)]
    BY <1>2, <2>3
  <2>5. RegionChunk(root, pos) \in Chunks
    BY <2>3, <2>4, ChunkTrue
  <2> QED
    BY <2>3, <2>4, <2>5 DEF Data
<1> QED
  BY <1>1, <1>2

LEMMA FollowTyped ==
  ASSUME NEW k \in Int, DiffTrue(k), NEW id \in NodeIDs
  PROVE  Follow(k, id) \in NodeIDs
<1>1. id.node \in Int
  BY DEF NodeIDs
<1>2. ASSUME NEW e \in Chkpt(k).shift_dupl
      PROVE  NodeID(Leftmost[e.prev.node] + id.node - Leftmost[e.node], e.prev.tree) \in NodeIDs
  <2>1. /\ e.node \in Nodes /\ e.prev.node \in Nodes
        /\ Chkpt(k).ref_id \in 0 .. k /\ e.prev.tree \in Chkpt(k).ref_id .. k
    BY DEF DiffTrue
  <2>2. Leftmost[e.prev.node] \in Int /\ Leftmost[e.node] \in Int /\ e.prev.tree \in Int
    BY <2>1, RegionTrue, TreeShape DEF LeafNodes, Leaves, NumNodes
  <2> QED
    BY <1>1, <2>2 DEF NodeID, NodeIDs
<1>3. repeat_map(k, id.node) \subseteq NodeIDs
  BY <1>2 DEF repeat_map
<1>4. NodeID(id.node, k - 1) \in NodeIDs
  BY <1>1 DEF NodeID, NodeIDs
<1> QED
  BY <1>3, <1>4 DEF Follow

\* What a kernel of a restart may leave in the View are contents.
LEMMA CopiedTyped ==
  ASSUME NEW view \in [Chunks -> Vals \cup {NoVal}], NEW copy \in Copied(view)
  PROVE  copy \in [Chunks -> Vals \cup {NoVal}]
BY DEF Copied

LEMMA RestartTypedStep ==
  ASSUME ObjectTrue, DiffsTrue, RestartTyped, [Next]_vars
  PROVE  RestartTyped'
<1>0. Taken = 0 .. current_id - 1 /\ current_id \in Nat /\ Len(incr_chkpts) = current_id
      /\ \A k \in Taken : DiffTrue(k) /\ Chkpt(k).ref_id \in 0 .. k /\ k \in Nat
  <2>1. Taken = 0 .. current_id - 1 /\ current_id \in Nat
    BY TakenTrue
  <2>2. Len(incr_chkpts) = current_id
    BY <2>1, AppendTrue DEF ObjectTrue
  <2>3. \A k \in Taken : DiffTrue(k) /\ Chkpt(k).ref_id \in 0 .. k
    BY DEF DiffsTrue, DiffTrue
  <2> QED
    BY <2>1, <2>2, <2>3
<1>1. ASSUME pc \notin Restarting, pc' \notin Restarting, UNCHANGED restartVars PROVE RestartTyped'
  BY <1>1 DEF RestartTyped, restartVars
<1>2. ASSUME NEW d \in Data, NEW make_baseline \in BOOLEAN, Checkpoint(d, make_baseline)
      PROVE  RestartTyped'
  BY <1>1, <1>2 DEF Checkpoint, Restarting
<1>3. ASSUME NEW leaf \in todo, DedupLeaf(leaf) PROVE RestartTyped'
  BY <1>1, <1>3 DEF DedupLeaf, Restarting
<1>4. CASE \/ ChooseFirst \/ FirstForest \/ EndFirstForest \/ BuildForest \/ InsertEntries
           \/ EndBuildForest \/ FinishCheckpoint \/ FailToWrite
  <2>1. pc \notin Restarting /\ pc' \notin Restarting /\ UNCHANGED restartVars
    BY <1>4 DEF ChooseFirst, FirstForest, EndFirstForest, BuildForest, InsertEntries,
                EndBuildForest, FinishCheckpoint, FailToWrite, Restarting
  <2> QED
    BY <1>1, <2>1
<1>5. ASSUME pc' \in Restarting, UNCHANGED incr_chkpts,
             target' \in Taken, via' \in {"memory", "files"}, idx' \in Int,
             idx' < Len(incr_chkpts), ref_id' \in Nat,
             DOMAIN node_list' = Chunks, \A c \in Chunks : node_list'[c] \in NodeIDs,
             out' \in [Chunks -> Vals \cup {NoVal}]
      PROVE  RestartTyped'
  <2>1. target' \in Nat /\ Taken' = Taken
    BY <1>0, <1>5 DEF Taken
  <2> QED
    BY <1>5, <2>1 DEF RestartTyped
<1>6. ASSUME pc \in Restarting
      PROVE  /\ target \in Taken /\ idx < Len(incr_chkpts) /\ DOMAIN node_list = Chunks
             /\ \A c \in Chunks : node_list[c] \in NodeIDs
             /\ out \in [Chunks -> Vals \cup {NoVal}]
             /\ target \in Nat /\ target < Len(incr_chkpts) /\ DiffTrue(target)
  BY <1>0, <1>6 DEF RestartTyped
<1>7. ASSUME NEW k \in 0 .. Len(incr_chkpts) - 1, RestartFromViews(k) \/ RestartFromFiles(k)
      PROVE  RestartTyped'
  <2>1. /\ via' \in {"memory", "files"} /\ target' = k /\ idx' = k /\ ref_id' = Chkpt(k).ref_id
        /\ node_list' = [c \in Chunks |-> Untouched] /\ out' = [c \in Chunks |-> NoVal]
        /\ pc' = "regions" /\ UNCHANGED incr_chkpts
    BY <1>7 DEF RestartFromViews, RestartFromFiles, OpenCheckpoint, dedupVars
  <2>2. k \in Taken /\ Chkpt(k).ref_id \in Nat /\ k \in Int /\ k < Len(incr_chkpts)
    BY <1>0
  <2>3. Untouched \in NodeIDs
    BY DEF Untouched, NodeID, NodeIDs
  <2> QED
    BY <1>5, <2>1, <2>2, <2>3 DEF Restarting
<1>8. CASE RestartRegions
  <2> DEFINE regions == DOMAIN Chkpt(target).first_ocur
             At(c) == {p \in regions \X Chunks :
                         p[2] < NumLeaves[p[1]] /\ RegionChunk(p[1], p[2]) = c}
             Value(c) == LET p == CHOOSE p \in At(c) : TRUE IN Saved(target, p[1], p[2])
             view == [c \in Chunks |-> IF At(c) # {} THEN Value(c) ELSE out[c]]
  <2>1. /\ pc = "regions" /\ pc' = "repeats"
        /\ node_list' = [c \in Chunks |-> IF At(c) # {} THEN NodeID(c, target) ELSE node_list[c]]
        /\ out' \in Copied(view)
        /\ UNCHANGED <<incr_chkpts, target, via, idx, ref_id>>
    BY <1>8 DEF RestartRegions, dedupVars
  <2>2. pc \in Restarting /\ pc' \in Restarting
    BY <2>1 DEF Restarting
  <2>3. \A c \in Chunks : Value(c) \in Vals \cup {NoVal}
    BY <1>6, <2>2, SavedTyped
  <2>4. \A c \in Chunks : NodeID(c, target) \in NodeIDs
    BY <1>6, <2>2, TreeShape DEF NodeID, NodeIDs, Chunks
  <2> HIDE DEF At, Value
  <2>5. view \in [Chunks -> Vals \cup {NoVal}]
    BY <1>6, <2>2, <2>3
  <2> HIDE DEF view
  <2>6. out' \in [Chunks -> Vals \cup {NoVal}]
    BY <2>1, <2>5, CopiedTyped
  <2> QED
    BY <1>5, <1>6, <2>1, <2>2, <2>4, <2>6 DEF RestartTyped
<1>9. CASE RestartRepeats
  <2> DEFINE dupl == Chkpt(target).shift_dupl
             At(c) == {p \in dupl \X Chunks :
                         p[2] < NumLeaves[p[1].prev.node] /\ RegionChunk(p[1].node, p[2]) = c}
             Entry(c) == CHOOSE p \in At(c) : TRUE
             prev(c) == Entry(c)[1].prev
             Id(c) == NodeID(Leftmost[prev(c).node] + Entry(c)[2], prev(c).tree)
             Value(c) == Saved(target, prev(c).node, Entry(c)[2])
             view == [c \in Chunks |->
                        IF At(c) # {} /\ prev(c).tree = target THEN Value(c) ELSE out[c]]
  <2>1. /\ pc = "repeats" /\ pc' = "same"
        /\ node_list' = [c \in Chunks |-> IF At(c) # {} THEN Id(c) ELSE node_list[c]]
        /\ out' \in Copied(view)
        /\ UNCHANGED <<incr_chkpts, target, via, idx, ref_id>>
    BY <1>9 DEF RestartRepeats, dedupVars
  <2>2. pc \in Restarting /\ pc' \in Restarting
    BY <2>1 DEF Restarting
  <2>3. \A c \in Chunks : Value(c) \in Vals \cup {NoVal}
    BY <1>6, <2>2, SavedTyped
  <2>4. ASSUME NEW c \in Chunks, At(c) # {} PROVE Id(c) \in NodeIDs
    <3>1. PICK p \in dupl \X Chunks : p = Entry(c)
      BY <2>4
    <3>2. p[1] \in dupl /\ p[2] \in Chunks
      BY <3>1
    <3>3. p[1].prev.node \in Nodes
      BY <1>6, <2>2, <3>2 DEF DiffTrue
    <3>4. PICK t \in Int : p[1].prev.tree = t
      <4>1. /\ p[1].prev.tree \in Chkpt(target).ref_id .. target
            /\ Chkpt(target).ref_id \in 0 .. target
        BY <1>6, <2>2, <3>2 DEF DiffTrue
      <4> QED
        BY <1>6, <2>2, <4>1
    <3>5. PICK first \in Int : Leftmost[p[1].prev.node] = first
      BY <3>3, RegionTrue, TreeShape DEF LeafNodes, Leaves, NumNodes
    <3>6. PICK i \in Int : p[2] = i
      BY <3>2, TreeShape DEF Chunks
    <3>7. Id(c) = NodeID(first + i, t)
      BY <3>1, <3>4, <3>5, <3>6
    <3> HIDE DEF Id
    <3> QED
      BY <3>7 DEF NodeID, NodeIDs
  <2> HIDE DEF At, Value, Id, prev
  <2>5. view \in [Chunks -> Vals \cup {NoVal}]
    BY <1>6, <2>2, <2>3
  <2> HIDE DEF view
  <2>6. out' \in [Chunks -> Vals \cup {NoVal}]
    BY <2>1, <2>5, CopiedTyped
  <2> QED
    BY <1>5, <1>6, <2>1, <2>2, <2>4, <2>6 DEF RestartTyped
<1>10. CASE FillSame
  <2>1. /\ pc = "same" /\ pc' = "load" /\ idx' = target - 1
        /\ node_list' = [c \in Chunks |->
             IF node_list[c] = Untouched THEN NodeID(c + NumChunks - 1, target - 1)
             ELSE node_list[c]]
        /\ UNCHANGED <<incr_chkpts, target, via, ref_id, out>>
    BY <1>10 DEF FillSame, dedupVars
  <2>2. pc \in Restarting /\ pc' \in Restarting
    BY <2>1 DEF Restarting
  <2>3. \A c \in Chunks : NodeID(c + NumChunks - 1, target - 1) \in NodeIDs
    BY <1>6, <2>2, TreeShape DEF NodeID, NodeIDs, Chunks
  <2>4. target - 1 \in Int /\ target - 1 < Len(incr_chkpts)
    BY <1>0, <1>6, <2>2
  <2> QED
    BY <1>5, <1>6, <2>1, <2>2, <2>3, <2>4 DEF RestartTyped
<1>11. CASE RestartPrior
  <2> DEFINE due == {c \in Chunks : node_list[c].tree = idx}
             here == {c \in due : node_list[c].node \in distinct_map(idx)}
             nextOf(c) == Follow(idx, node_list[c])
             moved == {c \in due \ here : nextOf(c).tree # idx}
             copied == [c \in Chunks |->
               CASE c \in here -> Saved(idx, node_list[c].node, 0)
                 [] c \in due \ (here \cup moved) -> Saved(idx, nextOf(c).node, 0)
                 [] OTHER -> out[c]]
  <2>1. /\ pc = "load" /\ pc' = "load" /\ idx >= ref_id /\ ref_id' = Chkpt(idx).ref_id
        /\ idx' = idx - 1 /\ UNCHANGED <<incr_chkpts, target, via>>
    BY <1>11 DEF RestartPrior, dedupVars
  <2>2. PICK raced, again, lost :
          /\ \A c \in raced : again[c] \in Moves(idx)
          /\ \A c \in DOMAIN lost : lost[c] \in Vals \cup {NoVal}
          /\ out' \in Copied([c \in Chunks |-> IF c \in DOMAIN lost THEN lost[c] ELSE copied[c]])
          /\ node_list' = [c \in Chunks |->
               CASE c \in raced -> again[c]
                 [] c \in moved \ raced -> nextOf(c)
                 [] OTHER -> node_list[c]]
    BY <1>11 DEF RestartPrior
  <2>3. pc \in Restarting /\ pc' \in Restarting
    BY <2>1 DEF Restarting
  <2>4. idx \in Taken /\ DiffTrue(idx) /\ Chkpt(idx).ref_id \in Nat /\ idx \in Int
    <3>1. idx \in Int /\ ref_id \in Nat /\ idx < current_id
      BY <1>0, <1>6, <2>3 DEF RestartTyped
    <3>2. idx \in Taken
      BY <1>0, <2>1, <3>1
    <3> QED
      BY <1>0, <3>1, <3>2
  <2>5. (\A c \in Chunks : nextOf(c) \in NodeIDs) /\ Moves(idx) \subseteq NodeIDs
    <3>1. \A id \in NodeIDs : Follow(idx, id) \in NodeIDs
      BY <2>4, FollowTyped
    <3>2. \A d \in LeafNodes : NodeID(d, idx) \in NodeIDs /\ NodeID(d, idx - 1) \in NodeIDs
      BY <2>4, TreeShape DEF NodeID, NodeIDs, LeafNodes, Leaves, NumNodes
    <3>3. Moves(idx) \subseteq NodeIDs
      BY <3>1, <3>2 DEF Moves
    <3> QED
      BY <1>6, <2>3, <3>1, <3>3
  <2>6. \A u, i : Saved(idx, u, i) \in Vals \cup {NoVal}
    BY <2>4, SavedTyped
  <2> HIDE DEF due, here, nextOf, moved
  <2>7. DOMAIN node_list' = Chunks /\ \A c \in Chunks : node_list'[c] \in NodeIDs
    <3>1. ASSUME NEW c \in Chunks PROVE node_list'[c] \in NodeIDs
      <4>1. c \in raced => again[c] \in NodeIDs
        BY <2>2, <2>5
      <4>2. node_list'[c] \in {nextOf(c), node_list[c]} \/ (c \in raced /\ node_list'[c] = again[c])
        BY <2>2
      <4> QED
        BY <1>6, <2>3, <2>5, <4>1, <4>2
    <3> QED
      BY <2>2, <3>1
  <2>8. out' \in [Chunks -> Vals \cup {NoVal}]
    <3>1. ASSUME NEW c \in Chunks PROVE copied[c] \in Vals \cup {NoVal}
      <4>1. copied[c] \in {Saved(idx, node_list[c].node, 0), Saved(idx, nextOf(c).node, 0),
                           out[c]}
        OBVIOUS
      <4> QED
        BY <1>6, <2>3, <2>6, <4>1
    <3> HIDE DEF copied
    <3>2. [c \in Chunks |-> IF c \in DOMAIN lost THEN lost[c] ELSE copied[c]]
            \in [Chunks -> Vals \cup {NoVal}]
      BY <2>2, <3>1
    <3> QED
      BY <2>2, <3>2, CopiedTyped
  <2>9. idx - 1 \in Int /\ idx - 1 < Len(incr_chkpts)
    BY <1>0, <1>6, <2>3, <2>4
  <2> QED
    BY <1>5, <1>6, <2>1, <2>3, <2>4, <2>7, <2>8, <2>9 DEF RestartTyped
<1>12. CASE FinishRestart \/ UNCHANGED vars
  <2>1. UNCHANGED restartVars /\ UNCHANGED incr_chkpts
        /\ (pc \in Restarting <=> pc' \in Restarting)
    BY <1>12 DEF FinishRestart, vars, dedupVars, Restarting
  <2> QED
    BY <2>1 DEF RestartTyped, restartVars, Taken
<1>13. CASE Release
  <2>1. /\ target' = 0 /\ via' = "memory" /\ idx' = 0 /\ ref_id' = 0 /\ pc' \notin Restarting
        /\ node_list' = [c \in {} |-> Untouched] /\ out' = [c \in {} |-> NoVal]
    BY <1>13 DEF Release, Restarting
  <2> QED
    BY <2>1 DEF RestartTyped
<1> QED
  BY <1>2, <1>3, <1>4, <1>7, <1>8, <1>9, <1>10, <1>11, <1>12, <1>13 DEF Next, Progress, Call

\* Every variable keeps its type, whatever fails and races: above all the tree and
\* the map hold digests only, and a restart finds its way within the diffs taken,
\* for trees of any shape.
THEOREM TypeCorrect ==
  ASSUME NEW CONSTANT f, DigestsClosed(f)
  PROVE  Spec => []TypeOK
<1> DEFINE I == Coherent /\ LevelTrue /\ Exact /\ TreeTrue
           T == ObjectTyped /\ RestartTyped
<1>1. Init => T
  BY TypedInit
<1>2. I /\ T /\ [Next]_vars => T'
  BY ObjectTypedStep, RestartTypedStep DEF Coherent, Exact
<1>3. Spec => []I
  BY ExactAlways
<1>4. I /\ T => TypeOK
  <2> SUFFICES ASSUME I, T PROVE TypeOK
    OBVIOUS
  <2>1. /\ current_id \in Nat /\ baseline_id \in Nat /\ baseline \in BOOLEAN
        /\ pc \in Kernels \cup {"idle", "regions", "repeats", "same", "load", "restarted"}
        /\ todo \subseteq LeafNodes
        /\ FcnOn(incr_chkpts, 1 .. current_id) /\ FcnOn(history, 1 .. current_id)
    BY DEF Coherent, ObjectTrue
  <2>2. Len(incr_chkpts) = current_id /\ Len(history) = current_id
    BY <2>1, AppendTrue
  <2>3. ASSUME NEW d \in DOMAIN first_ocur PROVE d \in Digests /\ first_ocur[d] \in NodeIDs
    <3>1. /\ FcnOn(first_ocur[d], {"node", "tree"}) /\ first_ocur[d].node \in Nodes
          /\ first_ocur[d].tree \in baseline_id .. current_id
      BY DEF Coherent, ObjectTrue
    <3>2. first_ocur[d] = [node |-> first_ocur[d].node, tree |-> first_ocur[d].tree]
      BY <3>1 DEF FcnOn
    <3>3. first_ocur[d].node \in Int /\ first_ocur[d].tree \in Int
      BY <2>1, <3>1, TreeShape
    <3> QED
      BY <3>2, <3>3 DEF Exact, MapClosed, NodeIDs
  <2>4. capacity \in Nat /\ first_ocur_vec \subseteq Nodes /\ shift_dupl_vec \subseteq Nodes
    BY DEF Coherent, RoomLeft, RootsTrue
  <2>5. \A k \in Taken : Chkpt(k).ref_id \in 0 .. k /\ history[k + 1] \in Data
    BY DEF Coherent, DiffsTrue, DiffTrue
  <2>6. DOMAIN node_list \in {{}, Chunks}
    BY DEF RestartTyped
  <2>7. pc \in {"idle", "leaves", "first", "forest", "insert", "collect", "regions",
                "repeats", "same", "load", "restarted"}
    BY <2>1 DEF Kernels
  <2> QED
    BY <2>1, <2>2, <2>3, <2>4, <2>5, <2>6, <2>7 DEF TypeOK, ObjectTyped, RestartTyped, Kinds
<1> HIDE DEF I, T
<1> QED
  BY <1>1, <1>2, <1>3, <1>4, PTL DEF Spec

-----------------------------------------------------------------------------
(* The nodes below a node, in a tree with all leaves on one level *)

LEMMA PowerLevel ==
  ASSUME PowerOfTwo(NumChunks)
  PROVE  NumChunks - 1 \in LevelStarts
<1>1. PICK S \in SUBSET (1 .. NumChunks) :
        NumChunks \in S /\ \A x \in S : x = 1 \/ (x % 2 = 0 /\ x \div 2 \in S)
  BY DEF PowerOfTwo
<1> DEFINE T == {x - 1 : x \in S}
<1>2. ASSUME NEW b \in T PROVE b = 0 \/ (b % 2 = 1 /\ (b - 1) \div 2 \in T)
  <2>1. PICK x \in S : b = x - 1
    BY <1>2
  <2>2. x \in Nat /\ x > 0
    BY <1>1, TreeShape
  <2>3. CASE x # 1
    <3>1. x % 2 = 0 /\ x \div 2 \in S
      BY <1>1, <2>3
    <3>2. PICK y \in Nat : y = x \div 2 /\ x = 2 * y /\ y \in S
      BY <2>2, <3>1
    <3>3. b % 2 = 1 /\ (b - 1) \div 2 = y - 1
      BY <2>1, <2>2, <3>2
    <3> QED
      BY <3>2, <3>3
  <2> QED
    BY <2>1, <2>2, <2>3
<1>3. T \in SUBSET Nat /\ NumChunks - 1 \in T
  BY <1>1, TreeShape
<1> HIDE DEF T
<1> QED
  BY <1>2, <1>3 DEF LevelStarts, HalvesToZero

\* The region of a node is all leaves below it, and a restart enters all nodes
\* below it.
LEMMA RegionWhole ==
  ASSUME PowerOfTwo(NumChunks), NEW u \in Nodes
  PROVE  /\ \A l \in LeafNodes \cap Below(u) :
              l - Leftmost[u] \in 0 .. NumLeaves[u] - 1
         /\ Region[u] = Below(u) \cap Nodes
<1>1. /\ NumChunks \in Nat /\ NumChunks > 0 /\ Size = NumNodes(NumChunks)
      /\ u \in 0 .. NumNodes(NumChunks) - 1 /\ NumChunks - 1 \in LevelStarts
      /\ Nodes = 0 .. NumNodes(NumChunks) - 1
  BY TreeShape, PowerLevel DEF Size, Nodes
<1>0. OnOneLevel(u, NumChunks)
  BY <1>1, LeavesLevel
<1> DEFINE a == leftmost_leaf(u, NumNodes(NumChunks))
           b == rightmost_leaf(u, NumNodes(NumChunks))
<1>2. a .. b = LeafNodes \cap Below(u)
  BY <1>0, <1>1, LeavesWhole DEF LeafNodes
<1>3. a \in Nat /\ b \in Nat /\ a <= b
  BY <1>1, RegionBelow
<1>4. Leftmost[u] = a /\ NumLeaves[u] = b - a + 1
  BY <1>1 DEF Leftmost, NumLeaves, num_leaf_descendents
<1>5. Region[u] = RegionNodes(u, NumNodes(NumChunks))
  BY <1>1 DEF Region
<1>6. Region[u] = Below(u) \cap Nodes
  BY <1>0, <1>1, <1>5, NodesWhole
<1> HIDE DEF a, b
<1>7. ASSUME NEW l \in LeafNodes \cap Below(u)
      PROVE  l - Leftmost[u] \in 0 .. NumLeaves[u] - 1
  <2>1. l \in a .. b
    BY <1>2
  <2>2. l - a \in 0 .. (b - a + 1) - 1
    BY <1>3, <2>1
  <2> QED
    BY <1>4, <2>2
<1> QED
  BY <1>6, <1>7

\* The leaf of a chunk.
LeafOf(c) == c + NumChunks - 1

LEMMA LeafOfTrue ==
  /\ \A c \in Chunks : LeafOf(c) \in LeafNodes /\ LeafOf(c) - (NumChunks - 1) = c
  /\ \A l \in LeafNodes : l - (NumChunks - 1) \in Chunks /\ LeafOf(l - (NumChunks - 1)) = l
BY TreeShape DEF LeafNodes, Leaves, NumNodes, Chunks, LeafOf

LEMMA ChunksWhole ==
  ASSUME PowerOfTwo(NumChunks), NEW u \in Nodes, NEW c \in Chunks
  PROVE  c \in ChunksOf(u) <=> LeafOf(c) \in Below(u)
<1>1. /\ Leftmost[u] \in Int /\ NumLeaves[u] \in Nat /\ NumChunks \in Nat
      /\ c \in Int /\ LeafOf(c) \in LeafNodes /\ LeafOf(c) = c + NumChunks - 1
  BY RegionTrue, TreeShape, LeafOfTrue DEF LeafNodes, Leaves, NumNodes, LeafOf, Chunks
<1>2. ASSUME c \in ChunksOf(u) PROVE LeafOf(c) \in Below(u)
  <2>1. PICK i \in 0 .. NumLeaves[u] - 1 : c = RegionChunk(u, i)
    BY <1>2 DEF ChunksOf
  <2>2. LeafOf(c) = Leftmost[u] + i
    BY <1>1, <2>1 DEF RegionChunk
  <2> QED
    BY <2>2, RegionTrue
<1>3. ASSUME LeafOf(c) \in Below(u) PROVE c \in ChunksOf(u)
  <2> DEFINE i == LeafOf(c) - Leftmost[u]
  <2>1. i \in 0 .. NumLeaves[u] - 1
    BY <1>1, <1>3, RegionWhole
  <2>2. c = RegionChunk(u, i)
    BY <1>1 DEF RegionChunk
  <2> HIDE DEF i
  <2> QED
    BY <2>1, <2>2 DEF ChunksOf
<1> QED
  BY <1>2, <1>3

\* The region of a leaf is the leaf.
LEMMA LeafAlone ==
  ASSUME NEW l \in LeafNodes
  PROVE  l \in Nodes /\ Leftmost[l] = l /\ RegionChunk(l, 0) = l - (NumChunks - 1)
         /\ 0 \in 0 .. NumLeaves[l] - 1
<1>1. /\ l \in Nodes /\ NumChunks \in Nat /\ NumChunks > 0 /\ LeafNodes = Leaves(NumChunks)
      /\ Size = NumNodes(NumChunks) /\ l \in Nat
  BY TreeShape DEF LeafNodes, Size
<1>2. /\ Leftmost[l] \in LeafNodes /\ Leftmost[l] \in Below(l)
      /\ NumLeaves[l] \in Nat /\ NumLeaves[l] > 0
  BY <1>1, RegionTrue
<1>3. Leftmost[l] < NumNodes(NumChunks)
  BY <1>1, <1>2 DEF Leaves, NumNodes
<1>4. Leftmost[l] = l
  BY <1>1, <1>2, <1>3, BelowLeaf
<1> QED
  BY <1>1, <1>2, <1>4 DEF RegionChunk

-----------------------------------------------------------------------------
(* PushedTrue *)

LEMMA PushedInit == Init => PushedTrue
BY DEF Init, PushedTrue, Kernels, Forests, Second

LEMMA PushedStep ==
  ASSUME NumChunks > 1, ObjectTrue, LevelTrue, LabelsTrue, PushedTrue, [Next]_vars
  PROVE  PushedTrue'
<1>0. 0 \in Inner
  BY TreeShape DEF Inner
<1>1. ASSUME NEW d \in Data, NEW make_baseline \in BOOLEAN, Checkpoint(d, make_baseline)
      PROVE  PushedTrue'
  <2>1. pc' = "leaves" /\ todo' = LeafNodes
    BY <1>1 DEF Checkpoint, LeafTeams
  <2> QED
    BY <2>1 DEF PushedTrue, Forests, Second
<1>2. ASSUME NEW leaf \in todo, DedupLeaf(leaf) PROVE PushedTrue'
  <2>1. /\ pc = "leaves" /\ pc' = pc /\ todo' = todo \ {leaf} /\ leaf \in Nodes
        /\ \A u \in Nodes \ {leaf} : labels'[u] = labels[u]
        /\ labels'[leaf] # "DONE"
    BY <1>2, LeafStep
  <2>2. \A u \in LeafNodes \ todo : labels[u] # "DONE"
    BY <2>1 DEF PushedTrue, Kernels
  <2>3. \A u \in LeafNodes \ todo' : labels'[u] # "DONE"
    BY <2>1, <2>2, TreeShape
  <2> QED
    BY <2>1, <2>3 DEF PushedTrue, Forests, Second
<1>3. CASE ChooseFirst
  <2>1. /\ pc = "leaves" /\ pc' = "first" /\ todo = {} /\ todo' = {}
        /\ labels' = [u \in Nodes |->
             IF u \in LeafNodes /\ NotTheLowest(u) THEN "SHIFT_DUPL" ELSE labels[u]]
    BY <1>3 DEF ChooseFirst
  <2>2. \A u \in LeafNodes : labels[u] # "DONE"
    BY <2>1 DEF PushedTrue, Kernels
  <2>3. \A u \in LeafNodes : labels'[u] # "DONE"
    BY <2>1, <2>2, TreeShape
  <2>4. labels'[0] = "DONE"
    <3>1. labels[0] = "DONE" /\ 0 \in Nodes /\ 0 \notin LeafNodes
      BY <1>0, <2>1, TreeShape DEF LabelsTrue
    <3> QED
      BY <2>1, <3>1
  <2> QED
    BY <2>1, <2>3, <2>4 DEF PushedTrue, Second
<1>4. CASE FirstForest
  <2> DEFINE inner == InnerNodes(level, NumChunks)
             new == {u \in inner : Both(u, "FIRST_OCUR")}
  <2>1. /\ pc = "first" /\ pc' = pc /\ inner \subseteq Inner
        /\ \A u \in new : labels'[u] = "FIRST_OCUR"
        /\ \A u \in Nodes \ new : labels'[u] = labels[u]
        /\ first_ocur_vec' = first_ocur_vec \cup PushRoot(new)
    BY <1>4, FirstStep
  <2>2. todo' = todo
    BY <1>4 DEF FirstForest
  <2>3. new \subseteq Inner
    BY <2>1
  <2> HIDE DEF new
  <2>4. \A u \in LeafNodes \ todo' : labels'[u] # "DONE"
    BY <2>1, <2>2, <2>3, TreeShape DEF PushedTrue, Kernels
  <2>5. labels'[0] = "FIRST_OCUR" => 0 \in first_ocur_vec'
    BY <2>1, TreeShape DEF PushedTrue, Forests, PushRoot
  <2> QED
    BY <2>1, <2>4, <2>5 DEF PushedTrue, Second
<1>5. CASE EndFirstForest
  <2>1. /\ pc = "first" /\ pc' = "forest" /\ level' = BottomLevel(Size)
        /\ UNCHANGED <<labels, first_ocur_vec, todo>>
    BY <1>5 DEF EndFirstForest, dedupVars
  <2>2. Labelled' = {}
    BY <2>1, LevelBottom DEF Labelled
  <2> QED
    BY <2>1, <2>2 DEF PushedTrue, Kernels, Forests
<1>6. CASE BuildForest
  <2> DEFINE inner == InnerNodes(level, NumChunks)
             Child(u) == {Left(u), Right(u)}
  <2>1. /\ pc = "forest" /\ pc' \in {"forest", "insert"}
        /\ Labelled = Visited /\ Labelled' = Visited \cup inner
        /\ \A u \in Nodes \ inner : labels'[u] = labels[u]
        /\ \A u \in inner :
             \/ Both(u, "FIRST_OCUR") /\ labels'[u] = "FIRST_OCUR"
             \/ Both(u, "SHIFT_DUPL") /\ labels'[u] = "SHIFT_DUPL"
             \/ Both(u, "FIXED_DUPL") /\ labels'[u] = "FIXED_DUPL"
             \/ ~Both(u, "FIRST_OCUR") /\ labels'[u] = "DONE"
        /\ \A u \in inner : labels'[u] = "DONE" => \A w \in Child(u) :
             /\ labels[w] = "FIRST_OCUR" => w \in first_ocur_vec'
             /\ labels[w] = "SHIFT_DUPL" => w \in shift_dupl_vec'
        /\ first_ocur_vec \subseteq first_ocur_vec' /\ shift_dupl_vec \subseteq shift_dupl_vec'
        /\ inner \subseteq Inner /\ inner \cap Visited = {}
    BY <1>6, BuildStep
  <2>2. /\ \A u \in inner : {Left(u), Right(u)} \cap inner = {}
        /\ \A u \in Visited : {Left(u), Right(u)} \cap inner = {}
    <3>1. \A u \in Visited \cup inner : {Left(u), Right(u)} \subseteq LeafNodes \cup Visited
      BY <1>6, LevelNodes DEF BuildForest, LevelTrue
    <3> QED
      BY <2>1, <3>1, TreeShape
  <2>3. todo' = todo
    BY <1>6 DEF BuildForest
  <2> HIDE DEF inner
  <2>4. \A u \in LeafNodes \ todo' : labels'[u] # "DONE"
    BY <2>1, <2>3, TreeShape DEF PushedTrue, Kernels
  <2>5. labels'[0] = "FIRST_OCUR" => 0 \in first_ocur_vec'
    <3>1. labels'[0] = "FIRST_OCUR" => labels[0] = "FIRST_OCUR"
      <4>1. Both(0, "FIRST_OCUR") => labels[0] = "FIRST_OCUR"
        BY <1>0, <2>1 DEF LabelsTrue, Second
      <4> QED
        BY <2>1, <4>1, TreeShape
    <3> QED
      BY <2>1, <3>1 DEF PushedTrue, Forests
  <2>6. ASSUME NEW u \in Labelled', labels'[u] = "DONE", NEW w \in {Left(u), Right(u)}
        PROVE  /\ labels'[w] = "FIRST_OCUR" => w \in first_ocur_vec'
               /\ labels'[w] = "SHIFT_DUPL" => w \in shift_dupl_vec'
    <3>1. u \in Inner /\ (u \in inner \/ u \in Visited)
      BY <2>1, <2>6 DEF Visited
    <3>2. w \in Nodes /\ labels'[w] = labels[w]
      BY <2>1, <2>2, <2>6, <3>1, TreeShape
    <3>3. CASE u \in inner
      BY <2>1, <2>6, <3>2, <3>3
    <3>4. CASE u \in Visited
      <4>1. labels[u] = "DONE"
        BY <2>1, <2>6, <3>1, <3>4, TreeShape
      <4>2. /\ labels[w] = "FIRST_OCUR" => w \in first_ocur_vec
            /\ labels[w] = "SHIFT_DUPL" => w \in shift_dupl_vec
        BY <2>1, <2>6, <3>4, <4>1 DEF PushedTrue, Second
      <4> QED
        BY <2>1, <3>2, <4>2
    <3> QED
      BY <3>1, <3>3, <3>4
  <2> QED
    BY <2>4, <2>5, <2>6 DEF PushedTrue
<1>7. CASE InsertEntries
  <2>1. /\ pc = "insert" /\ pc' = "forest"
        /\ UNCHANGED <<labels, first_ocur_vec, shift_dupl_vec, todo>>
        /\ LevelInTree(level, Size) /\ IsLevel /\ level' = LevelAbove(level)
    BY <1>7 DEF InsertEntries, LevelTrue
  <2>2. Labelled' = Labelled
    BY <2>1, LevelStep DEF Labelled
  <2> QED
    BY <2>1, <2>2 DEF PushedTrue, Kernels, Forests, Second
<1>8. CASE EndBuildForest
  <2>1. /\ pc = "forest" /\ pc' = "collect"
        /\ UNCHANGED <<labels, first_ocur_vec, shift_dupl_vec, todo, level>>
    BY <1>8 DEF EndBuildForest, dedupVars
  <2>2. Labelled' = Labelled
    BY <2>1 DEF Labelled, Visited
  <2> QED
    BY <2>1, <2>2 DEF PushedTrue, Kernels, Forests, Second
<1>9. CASE FinishCheckpoint \/ FailToWrite
  BY <1>9 DEF FinishCheckpoint, FailToWrite, PushedTrue, Kernels, Forests, Second
<1>10. CASE Aside
  <2>1. UNCHANGED <<labels, first_ocur_vec, shift_dupl_vec, todo>>
    BY <1>10 DEF Aside, dedupVars
  <2>2. CASE pc' = pc
    <3>1. Labelled' = Labelled
      BY <1>10, <2>2 DEF Aside, Labelled, Visited
    <3> QED
      BY <2>1, <2>2, <3>1 DEF PushedTrue
  <2>3. CASE pc' \in {"idle", "regions", "repeats", "same", "load", "restarted"}
    BY <2>1, <2>3 DEF PushedTrue, Kernels, Forests, Second
  <2> QED
    BY <1>10, <2>2, <2>3 DEF Aside
<1> QED
  BY <1>1, <1>2, <1>3, <1>4, <1>5, <1>6, <1>7, <1>8, <1>9, <1>10, Steps

-----------------------------------------------------------------------------
(* LeavesPast *)

LEMMA PastInit == Init => LeavesPast
BY DEF Init, LeavesPast, Kernels

\* No kernel but that of the leaves changes which leaves are unchanged.
LEMMA FixedKept ==
  ASSUME ObjectTrue, LevelTrue, LabelsTrue, pc \in Kernels, pc' \in Kernels, [Next]_vars,
         ~\E leaf \in todo : DedupLeaf(leaf)
  PROVE  /\ UNCHANGED <<data, baseline, baseline_id, current_id, history, spoiled, todo>>
         /\ \A u \in LeafNodes : labels[u] = "FIXED_DUPL" <=> labels'[u] = "FIXED_DUPL"
         /\ todo = {} \/ tree' = tree
<1>1. ASSUME NEW d \in Data, NEW make_baseline \in BOOLEAN, Checkpoint(d, make_baseline)
      PROVE  FALSE
  BY <1>1 DEF Checkpoint, Kernels
<1>2. CASE ChooseFirst
  <2>1. /\ todo = {} /\ labels' = [u \in Nodes |->
             IF u \in LeafNodes /\ NotTheLowest(u) THEN "SHIFT_DUPL" ELSE labels[u]]
        /\ UNCHANGED <<data, baseline, baseline_id, current_id, history, spoiled, todo>>
    BY <1>2 DEF ChooseFirst
  <2>2. \A u \in LeafNodes : NotTheLowest(u) => labels[u] # "FIXED_DUPL"
    BY DEF NotTheLowest
  <2> QED
    BY <2>1, <2>2, TreeShape
<1>3. CASE FirstForest
  <2>1. /\ todo = {}
        /\ UNCHANGED <<data, baseline, baseline_id, current_id, history, spoiled, todo>>
    BY <1>3 DEF FirstForest, ObjectTrue
  <2>2. \A u \in LeafNodes : labels'[u] = labels[u]
    BY <1>3, FirstStep, TreeShape
  <2> QED
    BY <2>1, <2>2
<1>4. CASE BuildForest
  <2>1. /\ todo = {}
        /\ UNCHANGED <<data, baseline, baseline_id, current_id, history, spoiled, todo>>
    BY <1>4 DEF BuildForest, ObjectTrue
  <2>2. \A u \in LeafNodes : labels'[u] = labels[u]
    BY <1>4, BuildStep, TreeShape
  <2> QED
    BY <2>1, <2>2
<1>5. CASE EndFirstForest \/ InsertEntries \/ EndBuildForest
  <2>1. /\ todo = {} /\ labels' = labels
        /\ UNCHANGED <<data, baseline, baseline_id, current_id, history, spoiled, todo>>
    BY <1>5 DEF EndFirstForest, InsertEntries, EndBuildForest, ObjectTrue, dedupVars
  <2> QED
    BY <2>1
<1>6. CASE FinishCheckpoint \/ FailToWrite
  BY <1>6 DEF FinishCheckpoint, FailToWrite, Kernels
<1>7. CASE Aside
  BY <1>7 DEF Aside, dedupVars
<1> QED
  BY <1>1, <1>2, <1>3, <1>4, <1>5, <1>6, <1>7, Steps

LEMMA PastStep ==
  ASSUME ObjectTrue, LevelTrue, LabelsTrue, DigestsKnown, LeavesPast, [Next]_vars
  PROVE  LeavesPast'
<1>0. current_id \in Nat /\ baseline_id \in 0 .. current_id
  BY DEF ObjectTrue
<1>1. ASSUME NEW d \in Data, NEW make_baseline \in BOOLEAN, Checkpoint(d, make_baseline)
      PROVE  LeavesPast'
  <2>1. /\ pc = "idle" /\ pc' = "leaves" /\ todo' = LeafNodes /\ baseline' = make_baseline
        /\ tree' = (IF make_baseline THEN [u \in Nodes |-> NoDigest] ELSE tree)
        /\ baseline_id' = (IF make_baseline THEN current_id ELSE baseline_id)
        /\ spoiled' = (IF make_baseline THEN spoiled \ {current_id} ELSE spoiled)
        /\ current_id = 0 => make_baseline
        /\ UNCHANGED <<current_id, history>>
    BY <1>1 DEF Checkpoint, LeafTeams
  <2>2. CASE make_baseline
    BY <2>1, <2>2, TreeShape DEF LeavesPast, Kernels
  <2>3. CASE ~make_baseline
    <3>1. \A u \in LeafNodes : PastDigest(u)' = PastDigest(u)
      BY <2>1 DEF PastDigest
    <3>2. current_id \notin spoiled =>
            baseline_id < current_id /\ \A u \in LeafNodes : tree[u] = PastDigest(u)
      BY <1>0, <2>1, <2>3 DEF LeavesPast, Kernels
    <3> QED
      BY <2>1, <2>3, <3>1, <3>2 DEF LeavesPast, Kernels
  <2> QED
    BY <2>2, <2>3
<1>2. ASSUME NEW leaf \in todo, DedupLeaf(leaf) PROVE LeavesPast'
  <2>1. /\ pc = "leaves" /\ pc' = pc /\ todo' = todo \ {leaf} /\ leaf \in Nodes
        /\ leaf \in LeafNodes
        /\ \A u \in Nodes \ {leaf} : tree'[u] = tree[u] /\ labels'[u] = labels[u]
    BY <1>2, LeafStep DEF ObjectTrue
  <2>2. /\ labels'[leaf] = "FIXED_DUPL" <=> LeafDigest(leaf) = tree[leaf]
        /\ UNCHANGED <<baseline, baseline_id, current_id, history, spoiled, data>>
    <3>1. labels \in [Nodes -> Kinds]
      BY <2>1 DEF ObjectTrue, Kernels
    <3> QED
      BY <1>2, <2>1, <3>1 DEF DedupLeaf, LeafDigest
  <2>3. \A u \in LeafNodes : PastDigest(u)' = PastDigest(u) /\ LeafDigest(u)' = LeafDigest(u)
    BY <2>2 DEF PastDigest, LeafDigest
  <2>4. LeafDigest(leaf) # NoDigest
    <3>1. data \in Data
      BY <2>1 DEF ObjectTrue, Kernels
    <3>2. Hashes(data, leaf, LeafDigest(leaf))
      BY <2>1, <3>1, HashesLeaf DEF LeafDigest
    <3> QED
      BY <3>2, HashAssumption DEF Hashes
  <2>5. baseline => tree[leaf] = NoDigest
    BY <2>1 DEF LeavesPast, Kernels
  <2>6. current_id \notin spoiled /\ ~baseline => tree[leaf] = PastDigest(leaf)
    BY <2>1 DEF LeavesPast, Kernels
  <2>7. baseline => /\ baseline_id = current_id
                    /\ \A u \in LeafNodes :
                         IF u \in todo THEN tree[u] = NoDigest ELSE labels[u] # "FIXED_DUPL"
    BY <2>1 DEF LeavesPast, Kernels
  <2>8. current_id \notin spoiled /\ ~baseline =>
          /\ baseline_id < current_id
          /\ \A u \in LeafNodes :
               IF u \in todo THEN tree[u] = PastDigest(u)
               ELSE labels[u] = "FIXED_DUPL" <=> LeafDigest(u) = PastDigest(u)
    BY <2>1 DEF LeavesPast, Kernels
  <2>9. baseline => /\ baseline_id = current_id
                    /\ \A u \in LeafNodes :
                         IF u \in todo' THEN tree'[u] = NoDigest ELSE labels'[u] # "FIXED_DUPL"
    BY <2>1, <2>2, <2>4, <2>5, <2>7, TreeShape
  <2>10. current_id \notin spoiled /\ ~baseline =>
          /\ baseline_id < current_id
          /\ \A u \in LeafNodes :
               IF u \in todo' THEN tree'[u] = PastDigest(u)
               ELSE labels'[u] = "FIXED_DUPL" <=> LeafDigest(u) = PastDigest(u)
    BY <2>1, <2>2, <2>6, <2>8, TreeShape
  <2> QED
    BY <2>1, <2>2, <2>3, <2>9, <2>10 DEF LeavesPast, Kernels
<1>3. CASE pc \in Kernels /\ pc' \in Kernels /\ ~\E leaf \in todo : DedupLeaf(leaf)
  <2>1. /\ UNCHANGED <<data, baseline, baseline_id, current_id, history, spoiled, todo>>
        /\ \A u \in LeafNodes : labels[u] = "FIXED_DUPL" <=> labels'[u] = "FIXED_DUPL"
        /\ todo = {} \/ tree' = tree
    BY <1>3, FixedKept
  <2>2. \A u \in LeafNodes : PastDigest(u)' = PastDigest(u) /\ LeafDigest(u)' = LeafDigest(u)
    BY <2>1 DEF PastDigest, LeafDigest
  <2> QED
    BY <1>3, <2>1, <2>2 DEF LeavesPast
<1>4. CASE FinishCheckpoint
  <2>1. /\ current_id' = current_id + 1 /\ history'[current_id + 1] = data
    BY <1>4, FinishStep
  <2>2. /\ pc = "collect" /\ pc' = "idle" /\ UNCHANGED <<baseline_id, tree, data>>
    BY <1>4 DEF FinishCheckpoint
  <2>3. \A u \in LeafNodes : tree[u] = LeafDigest(u)
    BY <2>2 DEF DigestsKnown, Kernels, ObjectTrue
  <2>4. \A u \in LeafNodes : PastDigest(u)' = LeafDigest(u)
    BY <2>1, <2>2 DEF PastDigest, LeafDigest
  <2> QED
    BY <1>0, <2>1, <2>2, <2>3, <2>4 DEF LeavesPast, Kernels
<1>5. CASE FailToWrite
  BY <1>5 DEF FailToWrite, LeavesPast, Kernels
<1>6. CASE Aside /\ pc \notin Kernels
  <2>1. /\ UNCHANGED <<baseline, baseline_id, current_id, history, spoiled, todo, tree>>
        /\ pc' \notin Kernels
    BY <1>6 DEF Aside, dedupVars, Kernels
  <2>2. \A u \in LeafNodes : PastDigest(u)' = PastDigest(u)
    BY <2>1 DEF PastDigest
  <2> QED
    BY <1>6, <2>1, <2>2 DEF LeavesPast
<1>7. ChooseFirst \/ FirstForest \/ EndFirstForest \/ BuildForest \/ InsertEntries
      \/ EndBuildForest => pc \in Kernels /\ pc' \in Kernels
  BY DEF ChooseFirst, FirstForest, EndFirstForest, BuildForest, InsertEntries, EndBuildForest,
         Kernels
<1>8. Aside /\ pc \in Kernels => pc' \in Kernels
  BY DEF Aside
<1> QED
  BY <1>1, <1>2, <1>3, <1>4, <1>5, <1>6, <1>7, <1>8, Steps

-----------------------------------------------------------------------------
(* ChainsTrue *)

LEMMA ChainsInit == Init => ChainsTrue
BY DEF Init, ChainsTrue, Taken

LEMMA SpoiledKept ==
  ASSUME ObjectTrue, [Next]_vars, ~FinishCheckpoint
  PROVE  current_id' = current_id /\ Taken' = Taken /\ UNCHANGED <<incr_chkpts, history>>
         /\ \A k \in Taken : k \in spoiled <=> k \in spoiled'
<1>1. current_id' = current_id /\ Taken' = Taken /\ UNCHANGED <<incr_chkpts, history>>
      /\ \A k \in Taken' : k # current_id => (k \in spoiled <=> k \in spoiled')
  BY SpoiledStep, DiffsKept
<1>2. \A k \in Taken : k # current_id
  BY TakenTrue
<1> QED
  BY <1>1, <1>2

LEMMA ChainsTrueStep ==
  ASSUME ObjectTrue, DiffsTrue, ChainsTrue, [Next]_vars
  PROVE  ChainsTrue'
<1>0. /\ current_id \in Nat /\ baseline_id \in 0 .. current_id /\ Taken = 0 .. current_id - 1
      /\ \A k \in Taken : Chkpt(k).ref_id \in 0 .. k
  BY TakenTrue DEF ObjectTrue, DiffsTrue, DiffTrue
<1>1. ASSUME NEW k \in Taken, NEW j \in Chkpt(k).ref_id .. k
      PROVE  j \in Taken /\ Chkpt(j).ref_id = Chkpt(k).ref_id /\ (j \in spoiled => k \in spoiled)
  <2> DEFINE r == Chkpt(k).ref_id
  <2>1. r \in 0 .. k /\ j \in r .. k
    BY <1>0
  <2> HIDE DEF r
  <2>2. j \in Taken
    BY <1>0, <2>1
  <2> QED
    BY <2>2 DEF ChainsTrue
<1>2. ASSUME NEW j \in baseline_id .. current_id - 1
      PROVE  j \in Taken /\ Chkpt(j).ref_id = baseline_id /\ (j \in spoiled => current_id \in spoiled)
  BY <1>0 DEF ChainsTrue
<1>3. CASE ~FinishCheckpoint
  <2>1. /\ current_id' = current_id /\ Taken' = Taken /\ UNCHANGED <<incr_chkpts, history>>
        /\ \A k \in Taken : k \in spoiled <=> k \in spoiled'
    BY <1>3, SpoiledKept
  <2>2. \A k : Chkpt(k)' = Chkpt(k)
    BY <2>1 DEF Chkpt
  <2>3. ASSUME NEW k \in Taken, NEW j \in Chkpt(k).ref_id .. k
        PROVE  Chkpt(j).ref_id = Chkpt(k).ref_id /\ (j \in spoiled' => k \in spoiled')
    BY <1>1, <2>1
  <2>4. ASSUME NEW j \in baseline_id' .. current_id - 1
        PROVE  Chkpt(j).ref_id = baseline_id' /\ (j \in spoiled' => current_id \in spoiled')
    <3>1. baseline_id' = baseline_id
      <4>1. baseline_id' # current_id
        BY <1>0, <2>4
      <4> QED
        BY <4>1, ChainStep
    <3>2. j \in baseline_id .. current_id - 1
      BY <2>4, <3>1
    <3>3. current_id \in spoiled => current_id \in spoiled'
      <4>1. ASSUME NEW d \in Data, NEW make_baseline \in BOOLEAN, Checkpoint(d, make_baseline)
            PROVE  spoiled' = spoiled \/ baseline_id' = current_id
        BY <4>1 DEF Checkpoint
      <4>2. ASSUME NEW leaf \in todo, DedupLeaf(leaf) PROVE spoiled' = spoiled
        BY <4>2 DEF DedupLeaf
      <4>3. CASE ChooseFirst \/ FirstForest \/ EndFirstForest \/ BuildForest \/ InsertEntries
                 \/ EndBuildForest \/ Aside
        BY <4>3 DEF ChooseFirst, FirstForest, EndFirstForest, BuildForest, InsertEntries,
                    EndBuildForest, Aside, dedupVars
      <4>4. CASE FailToWrite
        BY <4>4 DEF FailToWrite
      <4>5. baseline_id' # current_id
        BY <1>0, <2>4
      <4> QED
        BY <1>3, <4>1, <4>2, <4>3, <4>4, <4>5, Steps
    <3> QED
      BY <1>2, <2>1, <3>1, <3>2, <3>3
  <2> QED
    BY <2>1, <2>2, <2>3, <2>4 DEF ChainsTrue
<1>4. CASE FinishCheckpoint
  <2>1. /\ current_id' = current_id + 1 /\ Taken' = 0 .. current_id
        /\ \A k \in Taken : Chkpt(k)' = Chkpt(k)
        /\ incr_chkpts'[current_id + 1] = Diff
    BY <1>4, FinishStep
  <2>2. /\ baseline_id' = baseline_id
        /\ spoiled' = IF current_id \in spoiled THEN spoiled \cup {current_id + 1} ELSE spoiled
    BY <1>4 DEF FinishCheckpoint
  <2>3. \A k \in 0 .. current_id : k \in spoiled' <=> k \in spoiled
    BY <1>0, <2>2
  <2>4. ASSUME NEW k \in Taken, NEW j \in Chkpt(k)'.ref_id .. k
        PROVE  Chkpt(j)'.ref_id = Chkpt(k)'.ref_id /\ (j \in spoiled' => k \in spoiled')
    <3>1. Chkpt(k)' = Chkpt(k)
      BY <2>1
    <3>2. j \in Taken /\ Chkpt(j).ref_id = Chkpt(k).ref_id /\ (j \in spoiled => k \in spoiled)
      BY <1>1, <2>4, <3>1
    <3>3. Chkpt(j)' = Chkpt(j) /\ j \in 0 .. current_id /\ k \in 0 .. current_id
      BY <1>0, <2>1, <3>2
    <3> QED
      BY <2>3, <3>1, <3>2, <3>3
  <2>5. ASSUME NEW k, k = current_id PROVE Chkpt(k)'.ref_id = baseline_id
    BY <2>1, <2>5 DEF Chkpt, Diff
  <2>6. ASSUME NEW j \in baseline_id .. current_id
        PROVE  /\ Chkpt(j)'.ref_id = baseline_id
               /\ j \in spoiled' => current_id \in spoiled' /\ current_id + 1 \in spoiled'
    <3>1. CASE j = current_id
      BY <1>0, <2>2, <2>3, <2>5, <3>1
    <3>2. CASE j # current_id
      <4>1. j \in baseline_id .. current_id - 1
        BY <1>0, <3>2
      <4>2. Chkpt(j)' = Chkpt(j) /\ j \in 0 .. current_id /\ current_id \in 0 .. current_id
        BY <1>0, <1>2, <2>1, <4>1
      <4> QED
        BY <1>2, <2>2, <2>3, <4>1, <4>2
    <3> QED
      BY <3>1, <3>2
  <2>7. ASSUME NEW k \in Taken', NEW j \in Chkpt(k)'.ref_id .. k
        PROVE  Chkpt(j)'.ref_id = Chkpt(k)'.ref_id /\ (j \in spoiled' => k \in spoiled')
    <3>1. CASE k = current_id
      BY <2>5, <2>6, <2>7, <3>1
    <3>2. CASE k # current_id
      <4>1. k \in Taken
        BY <1>0, <2>1, <3>2
      <4> QED
        BY <2>4, <2>7, <4>1
    <3> QED
      BY <3>1, <3>2
  <2>8. current_id' - 1 = current_id
    BY <1>0, <2>1
  <2> QED
    BY <2>1, <2>2, <2>6, <2>7, <2>8 DEF ChainsTrue
<1> QED
  BY <1>3, <1>4

-----------------------------------------------------------------------------
(* OmittedSame *)

\* The diff that is gathered has every region pushed.
LEMMA DiffWhole ==
  ASSUME Coherent, Exact, current_id \notin spoiled, pc = "collect"
  PROVE  /\ DOMAIN Diff.first_ocur = first_ocur_vec
         /\ {e.node : e \in Diff.shift_dupl} = shift_dupl_vec
         /\ Diff.ref_id = baseline_id
         /\ \A e \in Diff.shift_dupl : e.node \in shift_dupl_vec /\ e.prev = FirstOcur(e.node)
<1>1. \A u \in first_ocur_vec : FirstOcur(u) = NodeID(u, current_id)
  BY SourcesOf DEF SourcesKnown
<1>2. /\ Diff.first_ocur = NewRegions /\ Diff.shift_dupl = ShiftedRegions
      /\ Diff.ref_id = baseline_id
  BY DEF Diff
<1>3. DOMAIN NewRegions = first_ocur_vec
  BY <1>1 DEF NewRegions
<1>4. /\ \A e \in ShiftedRegions : e.node \in shift_dupl_vec /\ e.prev = FirstOcur(e.node)
      /\ \A u \in shift_dupl_vec : \E e \in ShiftedRegions : e.node = u
  <2>1. \A e \in ShiftedRegions : e.node \in shift_dupl_vec /\ e.prev = FirstOcur(e.node)
    BY DEF ShiftedRegions
  <2>2. ASSUME NEW u \in shift_dupl_vec PROVE \E e \in ShiftedRegions : e.node = u
    <3> DEFINE e == [node |-> u, prev |-> FirstOcur(u)]
    <3>1. e \in ShiftedRegions
      BY DEF ShiftedRegions
    <3>2. e.node = u
      OBVIOUS
    <3> HIDE DEF e
    <3> QED
      BY <3>1, <3>2
  <2> QED
    BY <2>1, <2>2
<1>5. {e.node : e \in ShiftedRegions} = shift_dupl_vec
  BY <1>4
<1> QED
  BY <1>2, <1>3, <1>4, <1>5

\* A leaf is under a region pushed, or unchanged, unless the whole region is a
\* duplicate.
LEMMA LeafCovered ==
  ASSUME ObjectTrue, LevelTrue, LabelsTrue, RootsTrue, PushedTrue, pc = "collect",
         NEW l \in LeafNodes
  PROVE  \/ \E r \in first_ocur_vec \cup shift_dupl_vec : l \in Below(r)
         \/ labels[l] = "FIXED_DUPL"
         \/ labels[0] = "SHIFT_DUPL"
<1> DEFINE pushed == first_ocur_vec \cup shift_dupl_vec
           Covered(w) == \/ \E r \in pushed : w \in Below(r)
                         \/ labels[w] \in {"FIXED_DUPL", "DONE"}
                         \/ labels[0] = "SHIFT_DUPL"
           S == {w \in Nat : w \in Nodes => Covered(w)}
<1>1. pc \in Kernels /\ pc \in Forests /\ pc \in Second /\ labels \in [Nodes -> Kinds] /\ todo = {}
  BY DEF Kernels, Forests, Second, ObjectTrue
<1>2. Labelled = Inner
  BY DEF Labelled, Visited, LevelTrue
<1>3. 0 \in S
  <2>1. labels[0] \in Kinds /\ 0 \in Below(0)
    BY <1>1, TreeShape, BelowChildren
  <2>2. labels[0] = "FIRST_OCUR" => 0 \in first_ocur_vec
    BY <1>1 DEF PushedTrue
  <2> QED
    BY <2>1, <2>2 DEF Kinds
<1>4. ASSUME NEW x \in S, NEW y \in {Left(x), Right(x)} PROVE y \in S
  <2>1. x \in Nat /\ y \in Nat
    BY <1>4, ChildrenAbove
  <2>2. SUFFICES ASSUME y \in Nodes PROVE Covered(y)
    BY <2>1
  <2>3. x \in Inner /\ x \in Nodes
    BY <1>4, <2>1, <2>2, TreeShape DEF Nodes, Inner, Left, Right
  <2>4. CASE \E r \in pushed : x \in Below(r)
    <3>1. PICK r \in pushed : x \in Below(r)
      BY <2>4
    <3>2. r \in Nat
      BY TreeShape DEF RootsTrue
    <3>3. y \in Below(r)
      BY <1>4, <3>1, <3>2, BelowChildren DEF ChildClosed
    <3> QED
      BY <3>3
  <2>5. CASE labels[x] = "FIXED_DUPL"
    BY <1>1, <1>4, <2>3, <2>5 DEF LabelsTrue, Both
  <2>6. CASE labels[x] = "DONE"
    <3>1. /\ labels[y] = "FIRST_OCUR" => y \in pushed
          /\ labels[y] = "SHIFT_DUPL" => y \in pushed
      BY <1>1, <1>2, <1>4, <2>3, <2>6 DEF PushedTrue
    <3>2. labels[y] \in Kinds /\ y \in Below(y)
      BY <1>1, <2>1, <2>2, BelowChildren
    <3> QED
      BY <3>1, <3>2 DEF Kinds
  <2> QED
    BY <1>4, <2>3, <2>4, <2>5, <2>6
<1>5. ChildClosed(S) /\ S \in SUBSET Nat
  <2>1. S \in SUBSET Nat
    OBVIOUS
  <2> HIDE DEF S
  <2> QED
    BY <1>4, <2>1 DEF ChildClosed
<1>6. l \in Nodes /\ l \in Nat /\ l \in Below(0) /\ labels[l] # "DONE"
  <2>1. l \in Nodes /\ l \in Nat
    BY TreeShape
  <2> QED
    BY <1>1, <2>1, BelowRoot DEF PushedTrue
<1>7. l \in S
  <2> HIDE DEF S
  <2> QED
    BY <1>3, <1>5, <1>6, BelowLeast
<1> QED
  BY <1>6, <1>7

\* The whole region is a duplicate only of one before the checkpoint before.
LEMMA RootReturns ==
  ASSUME NumChunks > 1, PowerOfTwo(NumChunks), Coherent, LevelTrue, Exact, TreeTrue,
         EntriesTrue, LeavesPast, pc = "collect", current_id \notin spoiled, labels[0] = "SHIFT_DUPL"
  PROVE  \E j \in baseline_id .. current_id - 2 : history[j + 1] = data
<1>1. /\ ObjectTrue /\ LabelsTrue /\ DigestsKnown /\ DiffsTrue /\ BaselineTrue /\ EntriesNew
      /\ pc \in Kernels /\ pc \in Forests /\ pc \in Second /\ todo = {}
  BY DEF Coherent, Exact, ObjectTrue, Kernels, Forests, Second
<1>2. /\ 0 \in Inner /\ 0 \in Nodes /\ current_id \in Nat /\ baseline_id \in 0 .. current_id
      /\ data \in Data
  BY <1>1, TreeShape DEF Inner, ObjectTrue
<1>3. ~baseline
  BY <1>1, <1>2 DEF BaselineTrue
<1>4. Hashes(data, 0, tree[0]) /\ tree[0] \in DOMAIN first_ocur
  BY <1>1, <1>2, NodesTrue
<1> DEFINE t == first_ocur[tree[0]].tree
           v == first_ocur[tree[0]].node
<1>5. v \in Nodes /\ t \in baseline_id .. current_id
  BY <1>1, <1>4 DEF ObjectTrue
<1>6. ASSUME t = current_id PROVE FALSE
  <2>1. labels[v] = "FIRST_OCUR"
    BY <1>1, <1>3, <1>4, <1>6 DEF EntriesNew
  <2>2. v \in Below(0)
    BY <1>5, TreeShape, BelowRoot
  <2> HIDE DEF v
  <2> QED
    BY <1>1, <1>2, <1>5, <2>1, <2>2, LabelsBelow
<1>7. t < current_id
  <2>1. t # current_id
    BY <1>6
  <2> HIDE DEF t
  <2> QED
    BY <1>2, <1>5, <2>1
<1>8. Hashes(history[t + 1], v, tree[0])
  BY <1>4, <1>7 DEF EntriesTrue
<1> HIDE DEF t, v
<1>9. t \in Taken /\ history[t + 1] \in Data
  <2>1. t \in Taken
    BY <1>1, <1>2, <1>5, <1>7, TakenTrue
  <2> QED
    BY <1>1, <2>1 DEF DiffsTrue, DiffTrue
<1>10. /\ NumLeaves[0] = NumLeaves[v]
       /\ \A i \in 0 .. NumLeaves[0] - 1 : data[RegionChunk(0, i)] = history[t + 1][RegionChunk(v, i)]
  BY <1>2, <1>4, <1>8, <1>9, HashesSame
<1>11. /\ Leftmost[0] = NumChunks - 1 /\ Leftmost[v] = NumChunks - 1
       /\ \A c \in Chunks : c \in 0 .. NumLeaves[0] - 1
  <2> DEFINE a == Leftmost[0]
             b == Leftmost[v]
             n == NumLeaves[0]
  <2>1. /\ a \in Int /\ b \in Int /\ a >= NumChunks - 1 /\ b >= NumChunks - 1
        /\ n \in Nat /\ b + n <= Size
    <3>1. /\ Leftmost[0] \in LeafNodes /\ Leftmost[v] \in LeafNodes /\ NumLeaves[0] \in Nat
          /\ Leftmost[0] >= NumChunks - 1 /\ Leftmost[v] >= NumChunks - 1
          /\ Leftmost[v] + NumLeaves[v] <= Size
      BY <1>2, <1>5, RegionTrue
    <3> QED
      BY <1>10, <3>1, TreeShape
  <2>2. \A l \in LeafNodes : l - a \in 0 .. n - 1
    BY <1>2, TreeShape, BelowRoot, RegionWhole
  <2>3. NumChunks - 1 \in LeafNodes /\ Size - 1 \in LeafNodes
        /\ NumChunks \in Nat /\ NumChunks > 0 /\ Size = 2 * NumChunks - 1
    BY TreeShape DEF LeafNodes, Leaves, NumNodes
  <2>4. NumChunks - 1 - a \in 0 .. n - 1 /\ Size - 1 - a \in 0 .. n - 1
    BY <2>2, <2>3
  <2> HIDE DEF a, b, n
  <2>5. a = NumChunks - 1 /\ n >= NumChunks /\ b = NumChunks - 1
    BY <2>1, <2>3, <2>4
  <2>6. \A c \in Chunks : c \in 0 .. n - 1
    BY <2>1, <2>3, <2>5 DEF Chunks
  <2> QED
    BY <2>5, <2>6 DEF a, b, n
<1>12. \A c \in Chunks : data[c] = history[t + 1][c]
  <2> SUFFICES ASSUME NEW c \in Chunks PROVE data[c] = history[t + 1][c]
    OBVIOUS
  <2>1. RegionChunk(0, c) = c /\ RegionChunk(v, c) = c
    BY <1>11, TreeShape DEF RegionChunk, Chunks
  <2> QED
    BY <1>10, <1>11, <2>1
<1>13. data = history[t + 1]
  <2> DEFINE past == history[t + 1]
  <2>1. past \in Data /\ \A c \in Chunks : data[c] = past[c]
    BY <1>9, <1>12
  <2> HIDE DEF past
  <2>2. data = past
    BY <1>2, <2>1 DEF Data
  <2> QED
    BY <2>2 DEF past
<1>14. ASSUME t = current_id - 1 PROVE FALSE
  <2> DEFINE l == NumChunks - 1
  <2>1. l \in LeafNodes /\ l \in Nodes /\ l - (NumChunks - 1) \in Chunks
    BY TreeShape DEF LeafNodes, Leaves, NumNodes, Chunks
  <2>2. labels[l] = "SHIFT_DUPL"
    BY <1>1, <1>2, <2>1, TreeShape, BelowRoot, LabelsBelow
  <2>3. labels[l] = "FIXED_DUPL" <=> LeafDigest(l) = PastDigest(l)
    BY <1>1, <1>3, <2>1 DEF LeavesPast
  <2>4. t + 1 = current_id
    BY <1>2, <1>14
  <2>5. LeafDigest(l) = PastDigest(l)
    BY <1>13, <2>4 DEF LeafDigest, PastDigest
  <2> QED
    BY <2>2, <2>3, <2>5
<1>15. t \in baseline_id .. current_id - 2
  BY <1>2, <1>5, <1>7, <1>14
<1> QED
  BY <1>13, <1>15

LEMMA OmittedInit == Init => OmittedSame
BY DEF Init, OmittedSame, Taken

LEMMA OmittedStep ==
  ASSUME NumChunks > 1, PowerOfTwo(NumChunks), Coherent, LevelTrue, Exact, TreeTrue, EntriesTrue,
         PushedTrue, LeavesPast, OmittedSame, [Next]_vars
  PROVE  OmittedSame'
<1>0. /\ ObjectTrue /\ LabelsTrue /\ RootsTrue /\ DiffsTrue
      /\ current_id \in Nat /\ baseline_id \in 0 .. current_id /\ Taken = 0 .. current_id - 1
  BY TakenTrue DEF Coherent, ObjectTrue
<1>1. CASE ~FinishCheckpoint
  <2>1. /\ Taken' = Taken /\ UNCHANGED <<incr_chkpts, history>>
        /\ \A k \in Taken : k \in spoiled <=> k \in spoiled'
    BY <1>0, <1>1, SpoiledKept
  <2> QED
    BY <2>1 DEF OmittedSame, Returns, Roots, Chkpt
<1>2. CASE FinishCheckpoint
  <2>1. /\ Taken' = 0 .. current_id
        /\ \A k \in Taken : Chkpt(k)' = Chkpt(k) /\ history'[k + 1] = history[k + 1]
        /\ incr_chkpts'[current_id + 1] = Diff /\ history'[current_id + 1] = data
    BY <1>0, <1>2, FinishStep
  <2>2. \A k \in Taken' : k \in spoiled <=> k \in spoiled'
    BY <1>0, <1>2, SpoiledStep
  <2>3. pc = "collect" /\ pc \in Kernels /\ todo = {}
    BY <1>0, <1>2 DEF FinishCheckpoint, Kernels, ObjectTrue
  <2>4. ASSUME NEW k \in Taken, k \notin spoiled, ~Returns(k)',
               NEW c \in Chunks \ UNION {ChunksOf(u) : u \in Roots(k)'}
        PROVE  k > Chkpt(k)'.ref_id /\ history'[k][c] = history'[k + 1][c]
    <3>1. Chkpt(k)' = Chkpt(k) /\ history'[k + 1] = history[k + 1]
      BY <2>1
    <3>2. Roots(k)' = Roots(k)
      BY <3>1 DEF Roots
    <3>3. Chkpt(k).ref_id \in 0 .. k
      BY <1>0 DEF DiffsTrue, DiffTrue
    <3>4. \A j \in Chkpt(k).ref_id .. k - 2 : history'[j + 1] = history[j + 1]
      <4> DEFINE r == Chkpt(k).ref_id
      <4>1. r \in 0 .. k
        BY <3>3
      <4> HIDE DEF r
      <4>2. \A j \in r .. k - 2 : j \in Taken
        BY <1>0, <4>1
      <4>3. \A j \in r .. k - 2 : history'[j + 1] = history[j + 1]
        BY <2>1, <4>2
      <4> QED
        BY <4>3 DEF r
    <3>5. ~Returns(k)
      BY <2>4, <3>1, <3>4 DEF Returns
    <3>6. k > Chkpt(k).ref_id /\ history[k][c] = history[k + 1][c]
      BY <2>4, <3>2, <3>5 DEF OmittedSame
    <3>7. history'[k] = history[k]
      <4> DEFINE r == Chkpt(k).ref_id
      <4>1. r \in 0 .. k /\ k > r
        BY <3>3, <3>6
      <4> HIDE DEF r
      <4>2. k - 1 \in Taken /\ k - 1 + 1 = k
        BY <1>0, <4>1
      <4>3. history'[(k - 1) + 1] = history[(k - 1) + 1]
        BY <2>1, <4>2
      <4> QED
        BY <4>2, <4>3
    <3> QED
      BY <3>1, <3>6, <3>7
  <2>5. ASSUME NEW k, k = current_id, k \notin spoiled, ~Returns(k)',
               NEW c \in Chunks \ UNION {ChunksOf(u) : u \in Roots(k)'}
        PROVE  k > Chkpt(k)'.ref_id /\ history'[k][c] = history'[k + 1][c]
    <3>1. Chkpt(k)' = Diff
      BY <2>1, <2>5 DEF Chkpt
    <3>2. Diff.ref_id = baseline_id /\ Roots(k)' = first_ocur_vec \cup shift_dupl_vec
      BY <2>3, <2>5, <3>1, DiffWhole DEF Roots
    <3>3. labels[0] # "SHIFT_DUPL"
      <4>1. ASSUME labels[0] = "SHIFT_DUPL" PROVE FALSE
        <5>1. PICK j \in baseline_id .. current_id - 2 : history[j + 1] = data
          BY <2>3, <2>5, <4>1, RootReturns
        <5>2. j \in Taken
          BY <1>0, <5>1
        <5>3. history'[j + 1] = history'[k + 1]
          BY <2>1, <2>5, <5>1, <5>2
        <5> QED
          BY <2>5, <3>1, <3>2, <5>1, <5>3 DEF Returns
      <4> QED
        BY <4>1
    <3> DEFINE l == LeafOf(c)
    <3>4. l \in LeafNodes /\ l - (NumChunks - 1) = c
      BY LeafOfTrue
    <3>5. ASSUME NEW r \in first_ocur_vec \cup shift_dupl_vec, l \in Below(r) PROVE FALSE
      <4>1. r \in Nodes
        BY <1>0 DEF RootsTrue
      <4>2. c \in ChunksOf(r)
        BY <3>5, <4>1, ChunksWhole
      <4> QED
        BY <2>5, <3>2, <4>2
    <3> HIDE DEF l
    <3>6. labels[l] = "FIXED_DUPL"
      BY <1>0, <2>3, <3>3, <3>4, <3>5, LeafCovered
    <3>7. ~baseline
      BY <2>3, <3>4, <3>6 DEF LeavesPast
    <3>8. baseline_id < current_id /\ LeafDigest(l) = PastDigest(l)
      BY <2>3, <2>5, <3>4, <3>6, <3>7 DEF LeavesPast
    <3> DEFINE past == history[current_id]
    <3>9. /\ Hash(data[c]) = Hash(past[c]) /\ data \in Data
          /\ past \in Data /\ history'[current_id] = past
      <4>1. current_id - 1 \in Taken /\ current_id - 1 + 1 = current_id
        BY <1>0, <3>8
      <4>2. history[(current_id - 1) + 1] \in Data
            /\ history'[(current_id - 1) + 1] = history[(current_id - 1) + 1]
        BY <1>0, <2>1, <4>1 DEF DiffsTrue, DiffTrue
      <4>3. data \in Data
        BY <1>0, <2>3 DEF ObjectTrue
      <4> QED
        BY <3>4, <3>8, <4>1, <4>2, <4>3 DEF LeafDigest, PastDigest
    <3> HIDE DEF past
    <3>10. data[c] = past[c]
      <4>1. data[c] \in Vals /\ past[c] \in Vals
        BY <3>9 DEF Data
      <4> QED
        BY <3>9, <4>1, HashAssumption
    <3> QED
      BY <2>1, <2>5, <3>1, <3>2, <3>8, <3>9, <3>10
  <2>6. ASSUME NEW k \in Taken' PROVE k \in Taken \/ k = current_id
    BY <1>0, <2>1
  <2>7. SUFFICES ASSUME NEW k \in Taken', k \notin spoiled', ~Returns(k)',
                        NEW c \in Chunks \ UNION {ChunksOf(u) : u \in Roots(k)'}
                 PROVE  k > Chkpt(k)'.ref_id /\ history'[k][c] = history'[k + 1][c]
    BY DEF OmittedSame
  <2>8. k \notin spoiled
    BY <2>2, <2>7
  <2> QED
    BY <2>4, <2>5, <2>6, <2>7, <2>8
<1> QED
  BY <1>1, <1>2

-----------------------------------------------------------------------------
(* SourcesSaved *)

\* A new node is in a region that is pushed.
LEMMA NewCovered ==
  ASSUME ObjectTrue, LevelTrue, LabelsTrue, RootsTrue, PushedTrue, pc = "collect",
         NEW l \in Nodes, labels[l] = "FIRST_OCUR"
  PROVE  \E r \in first_ocur_vec : l \in Below(r)
<1> DEFINE Covered(w) == labels[w] = "FIRST_OCUR" => \E r \in first_ocur_vec : w \in Below(r)
           S == {w \in Nat : w \in Nodes => Covered(w)}
<1>1. pc \in Kernels /\ pc \in Forests /\ pc \in Second /\ labels \in [Nodes -> Kinds] /\ todo = {}
  BY DEF Kernels, Forests, Second, ObjectTrue
<1>2. Labelled = Inner
  BY DEF Labelled, Visited, LevelTrue
<1>3. 0 \in S
  <2>1. 0 \in Below(0) /\ 0 \in Nat
    BY BelowChildren
  <2> QED
    BY <1>1, <2>1 DEF PushedTrue
<1>4. ASSUME NEW x \in S, NEW y \in {Left(x), Right(x)} PROVE y \in S
  <2>1. x \in Nat /\ y \in Nat
    BY <1>4, ChildrenAbove
  <2>2. SUFFICES ASSUME y \in Nodes, labels[y] = "FIRST_OCUR"
                 PROVE  \E r \in first_ocur_vec : y \in Below(r)
    BY <2>1
  <2>3. x \in Inner /\ x \in Nodes
    BY <1>4, <2>1, <2>2, TreeShape DEF Nodes, Inner, Left, Right
  <2>4. CASE labels[x] = "DONE"
    <3>1. y \in first_ocur_vec
      BY <1>1, <1>2, <1>4, <2>2, <2>3, <2>4 DEF PushedTrue
    <3>2. y \in Below(y)
      BY <2>1, BelowChildren
    <3> QED
      BY <3>1, <3>2
  <2>5. CASE labels[x] # "DONE"
    <3>1. labels[x] = "FIRST_OCUR"
      BY <1>1, <1>4, <2>2, <2>3, <2>5 DEF LabelsTrue, Both
    <3>2. PICK r \in first_ocur_vec : x \in Below(r)
      BY <1>4, <2>3, <3>1
    <3>3. r \in Nat
      BY TreeShape DEF RootsTrue
    <3>4. y \in Below(r)
      BY <1>4, <3>2, <3>3, BelowChildren DEF ChildClosed
    <3> QED
      BY <3>4
  <2> QED
    BY <2>4, <2>5
<1>5. ChildClosed(S) /\ S \in SUBSET Nat
  <2>1. S \in SUBSET Nat
    OBVIOUS
  <2> HIDE DEF S
  <2> QED
    BY <1>4, <2>1 DEF ChildClosed
<1>6. l \in Nat /\ l \in Below(0)
  BY TreeShape, BelowRoot
<1>7. l \in S
  <2> HIDE DEF S
  <2> QED
    BY <1>3, <1>5, <1>6, BelowLeast
<1> QED
  BY <1>7

LEMMA SourcesSavedInit == Init => SourcesSaved
BY DEF Init, SourcesSaved, Taken

LEMMA SourcesSavedStep ==
  ASSUME PowerOfTwo(NumChunks), Coherent, LevelTrue, Exact, TreeTrue, PushedTrue, SourcesSaved,
         [Next]_vars
  PROVE  SourcesSaved'
<1>0. /\ ObjectTrue /\ LabelsTrue /\ DigestsKnown /\ RootsTrue /\ DiffsTrue
      /\ BaselineTrue /\ EntriesNew
      /\ current_id \in Nat /\ Taken = 0 .. current_id - 1
  BY TakenTrue DEF Coherent, Exact, ObjectTrue
<1>1. CASE ~FinishCheckpoint
  <2>1. /\ Taken' = Taken /\ UNCHANGED incr_chkpts
        /\ \A k \in Taken : k \in spoiled <=> k \in spoiled'
    BY <1>0, <1>1, SpoiledKept
  <2> QED
    BY <2>1 DEF SourcesSaved, distinct_map, Chkpt
<1>2. CASE FinishCheckpoint
  <2>1. /\ Taken' = 0 .. current_id
        /\ \A k \in Taken : Chkpt(k)' = Chkpt(k)
        /\ incr_chkpts'[current_id + 1] = Diff
    BY <1>0, <1>2, FinishStep
  <2>2. \A k \in Taken' : k \in spoiled <=> k \in spoiled'
    BY <1>0, <1>2, SpoiledStep
  <2>3. pc = "collect" /\ pc \in Kernels /\ pc \in Forests /\ pc \in Second /\ todo = {}
    BY <1>0, <1>2 DEF FinishCheckpoint, Kernels, Forests, Second, ObjectTrue
  <2>4. ASSUME NEW k \in Taken, k \notin spoiled, NEW e \in Chkpt(k)'.shift_dupl, e.prev.tree = k
        PROVE  e.prev.node \in distinct_map(k)'
    BY <2>1, <2>4 DEF SourcesSaved, distinct_map
  <2>5. ASSUME NEW k, k = current_id, k \notin spoiled,
               NEW e \in Chkpt(k)'.shift_dupl, e.prev.tree = k
        PROVE  e.prev.node \in distinct_map(k)'
    <3>1. Chkpt(k)' = Diff
      BY <2>1, <2>5 DEF Chkpt
    <3>2. /\ DOMAIN Diff.first_ocur = first_ocur_vec
          /\ e.node \in shift_dupl_vec /\ e.prev = FirstOcur(e.node)
      BY <2>3, <2>5, <3>1, DiffWhole
    <3> DEFINE u == e.node
               d == tree[u]
               v == first_ocur[d].node
    <3>3. u \in Nodes /\ labels[u] = "SHIFT_DUPL"
      BY <1>0, <2>3, <3>2 DEF RootsTrue
    <3>4. d \in DOMAIN first_ocur /\ first_ocur[d].tree = current_id /\ e.prev.node = v
      <4>1. d \in DOMAIN first_ocur
        BY <1>0, <2>3, <3>3, TreeShape DEF DigestsKnown
      <4> QED
        BY <2>5, <3>2, <4>1 DEF FirstOcur
    <3>5. v \in Nodes /\ (labels[v] = "FIRST_OCUR" \/ (baseline /\ v \in Visited))
      BY <1>0, <2>3, <2>5, <3>4 DEF EntriesNew, ObjectTrue
    <3> HIDE DEF v
    <3>6. ASSUME baseline, v \in Inner PROVE FALSE
      <4>1. u \in LeafNodes
        BY <1>0, <2>3, <3>3, <3>6, TreeShape DEF BaselineTrue
      <4>2. d = LeafDigest(u) /\ data \in Data /\ u - (NumChunks - 1) \in Chunks
        BY <1>0, <2>3, <4>1, LeafOfTrue DEF DigestsKnown, ObjectTrue
      <4>3. Hashes(data, v, d)
        BY <1>0, <2>3, <2>5, <3>4, PresentTrue DEF v
      <4> HIDE DEF d, u
      <4>4. PICK l, r : d = HashPair(l, r) /\ Hashes(data, Left(v), l) /\ Hashes(data, Right(v), r)
        BY <3>6, <4>2, <4>3, HashesMade
      <4>5. data[u - (NumChunks - 1)] \in Vals
        BY <4>2 DEF Data
      <4>6. d # Hash(data[u - (NumChunks - 1)])
        BY <4>4, <4>5, HashesApart
      <4> QED
        BY <4>2, <4>6 DEF LeafDigest
    <3>7. labels[v] = "FIRST_OCUR"
      BY <3>5, <3>6 DEF Visited
    <3>8. PICK r \in first_ocur_vec : v \in Below(r)
      BY <1>0, <2>3, <3>5, <3>7, NewCovered
    <3>9. r \in Nodes /\ r \in DOMAIN Diff.first_ocur
      BY <1>0, <3>2 DEF RootsTrue
    <3>10. v \in Region[r]
      BY <3>5, <3>8, <3>9, RegionWhole
    <3> QED
      BY <3>1, <3>4, <3>9, <3>10 DEF distinct_map
  <2>6. ASSUME NEW k \in Taken' PROVE k \in Taken \/ k = current_id
    BY <1>0, <2>1
  <2>7. SUFFICES ASSUME NEW k \in Taken', k \notin spoiled',
                        NEW e \in Chkpt(k)'.shift_dupl, e.prev.tree = k
                 PROVE  e.prev.node \in distinct_map(k)'
    BY DEF SourcesSaved
  <2>8. k \notin spoiled
    BY <2>2, <2>7
  <2> QED
    BY <2>4, <2>5, <2>6, <2>7, <2>8
<1> QED
  BY <1>1, <1>2

-----------------------------------------------------------------------------
(* Where a restart finds the chunks *)

LEMMA MapNodes ==
  ASSUME PowerOfTwo(NumChunks), NEW k, DiffTrue(k)
  PROVE  /\ distinct_map(k) \subseteq Nodes
         /\ \A u \in distinct_map(k) : \A w \in Below(u) \cap Nodes : w \in distinct_map(k)
         /\ DOMAIN Chkpt(k).first_ocur \subseteq distinct_map(k)
<1> DEFINE regions == DOMAIN Chkpt(k).first_ocur
<1>1. \A r \in regions : r \in Nodes /\ r \in Nat
  BY TreeShape DEF DiffTrue
<1>2. \A r \in regions : Region[r] = Below(r) \cap Nodes /\ r \in Below(r)
  BY <1>1, RegionWhole, BelowChildren
<1>3. distinct_map(k) = UNION {Region[r] : r \in regions}
  BY DEF distinct_map
<1> HIDE DEF regions
<1>4. ASSUME NEW u \in distinct_map(k), NEW w \in Below(u) \cap Nodes
      PROVE  u \in Nodes /\ w \in distinct_map(k)
  <2>1. PICK r \in regions : u \in Below(r) /\ u \in Nodes
    BY <1>2, <1>3
  <2>2. w \in Below(r)
    BY <1>1, <2>1, BelowBelow
  <2> QED
    BY <1>2, <1>3, <2>1, <2>2
<1>5. distinct_map(k) \subseteq Nodes
  BY <1>2, <1>3
<1>6. regions \subseteq distinct_map(k)
  BY <1>1, <1>2, <1>3
<1> QED
  BY <1>4, <1>5, <1>6 DEF regions

\* A position of the data of a diff holds the chunk it stands for.
LEMMA SavedIs ==
  ASSUME PowerOfTwo(NumChunks), NEW k, DiffTrue(k),
         NEW u \in distinct_map(k), NEW i \in 0 .. NumLeaves[u] - 1
  PROVE  Saved(k, u, i) = history[k + 1][RegionChunk(u, i)]
<1> DEFINE regions == DOMAIN Chkpt(k).first_ocur
           root == CHOOSE v \in regions : u \in Region[v]
           pos == Leftmost[u] - Leftmost[root] + i
           chunks == Chkpt(k).first_ocur[root]
<1>1. u \in Nodes
  BY MapNodes
<1>2. root \in regions /\ u \in Region[root]
  BY DEF distinct_map
<1>3. root \in Nodes /\ chunks = [n \in 0 .. NumLeaves[root] - 1 |->
                                    history[k + 1][RegionChunk(root, n)]]
  BY <1>2 DEF DiffTrue
<1> HIDE DEF root
<1>4. u \in Below(root) /\ root \in Nat
  BY <1>2, <1>3, RegionWhole, TreeShape
<1>5. /\ Leftmost[u] + i \in Below(root) /\ Leftmost[u] \in Int /\ Leftmost[root] \in Int
      /\ NumChunks \in Int /\ Leftmost[u] + i \in LeafNodes
  <2>1. /\ Leftmost[u] + i \in Below(u) /\ Leftmost[u] >= NumChunks - 1
        /\ Leftmost[u] + NumLeaves[u] <= Size /\ NumLeaves[u] \in Nat
        /\ Leftmost[u] \in LeafNodes /\ Leftmost[root] \in LeafNodes
    BY <1>1, <1>3, RegionTrue
  <2>2. Leftmost[u] + i \in LeafNodes
    BY <2>1, TreeShape DEF LeafNodes, Leaves, NumNodes
  <2>3. Leftmost[u] + i \in Below(root)
    BY <1>4, <2>1, BelowBelow
  <2> QED
    BY <2>1, <2>2, <2>3, TreeShape
<1>6. pos \in 0 .. NumLeaves[root] - 1
  <2>1. (Leftmost[u] + i) - Leftmost[root] \in 0 .. NumLeaves[root] - 1
    BY <1>3, <1>5, RegionWhole
  <2> QED
    BY <1>5, <2>1
<1>7. RegionChunk(root, pos) = RegionChunk(u, i)
  BY <1>5 DEF RegionChunk
<1>8. Saved(k, u, i) = chunks[pos]
  BY <1>3, <1>6 DEF Saved, root
<1> QED
  BY <1>3, <1>6, <1>7, <1>8

LEMMA LeafSaved ==
  ASSUME PowerOfTwo(NumChunks), NEW k, DiffTrue(k), NEW l \in distinct_map(k), l \in LeafNodes
  PROVE  Saved(k, l, 0) = history[k + 1][l - (NumChunks - 1)]
<1>1. 0 \in 0 .. NumLeaves[l] - 1 /\ RegionChunk(l, 0) = l - (NumChunks - 1)
  BY LeafAlone
<1> QED
  BY <1>1, SavedIs

\* The leaf a duplicate points to for its i-th chunk.
LEMMA SourceLeaf ==
  ASSUME NEW u \in Nodes, NEW i \in 0 .. NumLeaves[u] - 1
  PROVE  Leftmost[u] + i \in LeafNodes /\ Leftmost[u] + i \in Below(u)
<1>1. /\ Leftmost[u] + i \in Below(u) /\ Leftmost[u] >= NumChunks - 1
      /\ Leftmost[u] + NumLeaves[u] <= Size /\ NumLeaves[u] \in Nat /\ Leftmost[u] \in LeafNodes
  BY RegionTrue
<1>2. Leftmost[u] \in Int /\ NumChunks \in Int /\ Size = 2 * NumChunks - 1
      /\ LeafNodes = NumChunks - 1 .. 2 * NumChunks - 2
  BY <1>1, TreeShape DEF LeafNodes, Leaves, NumNodes
<1> QED
  BY <1>1, <1>2, SMTT(30)

\* Following a chunk that checkpoint k has not saved leads to where it was, in
\* checkpoint k, or in an earlier one of its chain.
LEMMA FollowTrue ==
  ASSUME PowerOfTwo(NumChunks), ObjectTrue, DiffsTrue, SourcesSaved, OmittedSame, DuplicatesKept,
         NEW k \in Taken \ spoiled, ~Returns(k), NEW id, id.node \in LeafNodes,
         id.node \notin distinct_map(k), NEW next, next = Follow(k, id),
         NEW want, want = history[k + 1][id.node - (NumChunks - 1)]
  PROVE  \/ next.tree = k /\ Saved(k, next.node, 0) = want
         \/ /\ next.node \in LeafNodes /\ next.tree \in Chkpt(k).ref_id .. k - 1
            /\ history[next.tree + 1][next.node - (NumChunks - 1)] = want
<1> DEFINE l == id.node
           dupl == Chkpt(k).shift_dupl
<1>0. DiffTrue(k) /\ k \in Nat /\ Chkpt(k).ref_id \in 0 .. k
  BY TakenTrue DEF DiffsTrue, DiffTrue
<1>1. ASSUME NEW e \in dupl
      PROVE  DuplicateTrue(k, e) /\ e.node \in Nodes /\ e.prev.node \in Nodes
             /\ (e.prev.tree = k => e.prev.node \in distinct_map(k))
  BY <1>0 DEF DuplicatesKept, SourcesSaved, DiffTrue
<1>2. CASE repeat_map(k, l) # {}
  <2>1. next \in repeat_map(k, l)
    BY <1>2 DEF Follow
  <2>2. PICK e \in dupl : /\ l - Leftmost[e.node] \in 0 .. NumLeaves[e.node] - 1
                          /\ next = NodeID(Leftmost[e.prev.node] + l - Leftmost[e.node], e.prev.tree)
    BY <2>1 DEF repeat_map
  <2> DEFINE v == e.node
             p == e.prev.node
             t == e.prev.tree
             r == Chkpt(k).ref_id
  <2>3. /\ v \in Nodes /\ p \in Nodes /\ t \in r .. k
        /\ NumLeaves[v] = NumLeaves[p]
        /\ \A n \in 0 .. NumLeaves[v] - 1 :
             history[k + 1][RegionChunk(v, n)] = history[t + 1][RegionChunk(p, n)]
        /\ t = k => p \in distinct_map(k)
    BY <1>1 DEF DuplicateTrue
  <2>4. PICK i \in 0 .. NumLeaves[v] - 1 : i = l - Leftmost[v]
    BY <2>2
  <2>5. /\ next.node = Leftmost[p] + i /\ next.tree = t
        /\ RegionChunk(v, i) = l - (NumChunks - 1)
    <3>1. Leftmost[p] \in Int /\ Leftmost[v] \in Int /\ l \in Int /\ NumChunks \in Int
      <4>1. Leftmost[p] \in LeafNodes /\ Leftmost[v] \in LeafNodes /\ l \in LeafNodes
        BY <2>3, RegionTrue
      <4> QED
        BY <4>1, TreeShape
    <3>2. Leftmost[p] + l - Leftmost[v] = Leftmost[p] + i
      BY <2>4, <3>1
    <3>3. RegionChunk(v, i) = l - (NumChunks - 1)
      BY <2>4, <3>1 DEF RegionChunk
    <3>4. next.node = Leftmost[p] + l - Leftmost[v] /\ next.tree = t
      BY <2>2 DEF NodeID
    <3> QED
      BY <3>2, <3>3, <3>4
  <2> HIDE DEF v, p, t, r
  <2>6. /\ next.node \in LeafNodes /\ next.node \in Below(p)
        /\ next.node - (NumChunks - 1) = RegionChunk(p, i)
    <3>1. p \in Nodes /\ i \in 0 .. NumLeaves[p] - 1
      BY <2>3
    <3> DEFINE m == Leftmost[p] + i
    <3>2. m \in LeafNodes /\ m \in Below(p) /\ m - (NumChunks - 1) = RegionChunk(p, i)
      <4>0. i \in Int /\ Leftmost[p] \in Int /\ NumLeaves[p] \in Int
        BY <3>1, RegionTrue, TreeShape
      <4>1. m \in LeafNodes /\ m \in Below(p)
        BY <3>1, SourceLeaf
      <4>2. m - (NumChunks - 1) = RegionChunk(p, i)
        BY <4>0, TreeShape DEF RegionChunk
      <4> QED
        BY <4>1, <4>2
    <3>3. next.node = m
      BY <2>5
    <3> HIDE DEF m
    <3> QED
      BY <3>2, <3>3
  <2>7. history[t + 1][next.node - (NumChunks - 1)] = want
    BY <2>3, <2>4, <2>5, <2>6
  <2>8. CASE t = k
    <3>1. next.node \in distinct_map(k)
      BY <1>0, <2>3, <2>6, <2>8, TreeShape, MapNodes
    <3> QED
      BY <1>0, <2>5, <2>6, <2>7, <2>8, <3>1, LeafSaved
  <2>9. CASE t # k
    <3>1. r \in 0 .. k
      BY <1>0 DEF r
    <3>2. t \in r .. k - 1
      BY <1>0, <2>3, <2>9, <3>1
    <3> QED
      BY <2>5, <2>6, <2>7, <3>2 DEF r
  <2> QED
    BY <2>8, <2>9
<1>3. CASE repeat_map(k, l) = {}
  <2> DEFINE c == l - (NumChunks - 1)
  <2>1. c \in Chunks /\ LeafOf(c) = l
    BY LeafOfTrue
  <2>2. next = NodeID(l, k - 1)
    BY <1>3 DEF Follow
  <2> HIDE DEF c
  <2>3. ASSUME NEW u \in Roots(k), c \in ChunksOf(u) PROVE FALSE
    <3>1. u \in Nodes
      BY <1>0 DEF Roots, DiffTrue
    <3>2. l \in Below(u)
      BY <2>1, <2>3, <3>1, ChunksWhole
    <3>3. CASE u \in DOMAIN Chkpt(k).first_ocur
      BY <1>0, <3>2, <3>3, TreeShape, MapNodes
    <3>4. CASE u \notin DOMAIN Chkpt(k).first_ocur
      <4>1. PICK e \in dupl : u = e.node
        BY <3>4 DEF Roots
      <4>2. l - Leftmost[u] \in 0 .. NumLeaves[u] - 1
        BY <3>1, <3>2, RegionWhole
      <4>3. NodeID(Leftmost[e.prev.node] + l - Leftmost[e.node], e.prev.tree) \in repeat_map(k, l)
        BY <4>1, <4>2 DEF repeat_map
      <4> QED
        BY <1>3, <4>3
    <3> QED
      BY <3>3, <3>4
  <2>4. c \in Chunks \ UNION {ChunksOf(u) : u \in Roots(k)}
    BY <2>1, <2>3
  <2>5. k > Chkpt(k).ref_id /\ history[k][c] = history[k + 1][c]
    BY <2>4 DEF OmittedSame
  <2>6. next.node = l /\ next.tree = k - 1
    BY <2>2 DEF NodeID
  <2> DEFINE r == Chkpt(k).ref_id
  <2>7. r \in 0 .. k /\ k > r
    BY <1>0, <2>5
  <2> HIDE DEF r
  <2>8. k - 1 \in r .. k - 1 /\ k - 1 + 1 = k
    BY <1>0, <2>7
  <2>9. next.node - (NumChunks - 1) = c
    BY <2>6 DEF c
  <2>10. want = history[k + 1][c]
    BY DEF c
  <2> QED
    BY <2>5, <2>6, <2>8, <2>9, <2>10 DEF r
<1> QED
  BY <1>2, <1>3

-----------------------------------------------------------------------------
(* WalkTrue *)

LEMMA WalkInit == Init => WalkTrue
BY DEF Init, WalkTrue, Restarting

\* Where products do not wrap a kernel of a restart copies what it is to copy.
LEMMA CopiedAsMeant ==
  ASSUME Clear
  PROVE  \A view : Copied(view) = {view}
BY DEF Clear, Copied, Wraps

\* The View has a content for each chunk, whatever was copied.
LEMMA CopiedFcn ==
  ASSUME NEW view, FcnOn(view, Chunks), NEW copy \in Copied(view)
  PROVE  FcnOn(copy, Chunks)
BY DEF Copied, FcnOn

\* A kernel of a restart changes nothing a restart reads.
LEMMA AsideKept ==
  ASSUME UNCHANGED <<dedupVars, target, via>>
  PROVE  /\ Taken' = Taken /\ (Clear' => Clear) /\ UNCHANGED history
         /\ \A k : Chkpt(k)' = Chkpt(k) /\ Roots(k)' = Roots(k)
         /\ \A c : Wanted(c)' = Wanted(c)
<1>1. UNCHANGED <<incr_chkpts, history, spoiled, target, via>>
  BY DEF dedupVars
<1>2. \A k : Chkpt(k)' = Chkpt(k) /\ Roots(k)' = Roots(k) /\ (Returns(k)' <=> Returns(k))
  BY <1>1 DEF Chkpt, Roots, Returns
<1> QED
  BY <1>1, <1>2 DEF Taken, Clear, OneThread, Wraps, Wanted

\* What holds of the checkpoint a restart is of.
LEMMA TargetTrue ==
  ASSUME ObjectTrue, DiffsTrue, DuplicatesKept, SourcesSaved, target \in Taken, Clear
  PROVE  /\ target \in Nat /\ Chkpt(target).ref_id \in 0 .. target /\ DiffTrue(target)
         /\ target \notin spoiled /\ ~Returns(target)
         /\ \A e \in Chkpt(target).shift_dupl :
              /\ DuplicateTrue(target, e) /\ e.node \in Nodes /\ e.prev.node \in Nodes
              /\ e.prev.tree = target => e.prev.node \in distinct_map(target)
<1>1. target \in Nat /\ DiffTrue(target) /\ target \notin spoiled
  BY TakenTrue DEF DiffsTrue, Clear
<1>2. Chkpt(target).ref_id \in 0 .. target
  BY <1>1 DEF DiffTrue
<1> DEFINE r == Chkpt(target).ref_id
<1>3. target \in r .. target
  <2>1. r \in 0 .. target
    BY <1>2
  <2> HIDE DEF r
  <2> QED
    BY <1>1, <2>1
<1>4. ~Returns(target)
  BY <1>3 DEF Clear
<1>5. \A e \in Chkpt(target).shift_dupl :
        /\ DuplicateTrue(target, e) /\ e.node \in Nodes /\ e.prev.node \in Nodes
        /\ e.prev.tree = target => e.prev.node \in distinct_map(target)
  BY <1>1 DEF DuplicatesKept, SourcesSaved, DiffTrue
<1> QED
  BY <1>1, <1>2, <1>4, <1>5

LEMMA WalkOpen ==
  ASSUME NEW k \in 0 .. Len(incr_chkpts) - 1, RestartFromViews(k) \/ RestartFromFiles(k)
  PROVE  WalkTrue'
<1>1. /\ target' = k /\ pc' = "regions" /\ ref_id' = Chkpt(k).ref_id /\ UNCHANGED incr_chkpts
      /\ node_list' = [c \in Chunks |-> Untouched] /\ out' = [c \in Chunks |-> NoVal]
  BY DEF RestartFromViews, RestartFromFiles, OpenCheckpoint, dedupVars
<1>2. target' \in Taken' /\ Chkpt(target)'.ref_id = Chkpt(k).ref_id
  BY <1>1 DEF Taken, Chkpt
<1>3. \A c \in Chunks : FoundTrue(c)'
  BY <1>1 DEF FoundTrue
<1> QED
  BY <1>1, <1>2, <1>3 DEF WalkTrue, FcnOn

LEMMA WalkRegions ==
  ASSUME PowerOfTwo(NumChunks), ObjectTrue, DiffsTrue, DuplicatesKept, SourcesSaved, WalkTrue,
         RestartRegions
  PROVE  WalkTrue'
<1> DEFINE regions == DOMAIN Chkpt(target).first_ocur
           At(c) == {p \in regions \X Chunks :
                       p[2] < NumLeaves[p[1]] /\ RegionChunk(p[1], p[2]) = c}
           Its(c) == CHOOSE p \in At(c) : TRUE
           view == [c \in Chunks |-> IF At(c) # {} THEN Saved(target, Its(c)[1], Its(c)[2])
                                     ELSE out[c]]
<1>1. /\ pc = "regions" /\ pc' = "repeats"
      /\ UNCHANGED <<dedupVars, target, via, idx, ref_id>>
      /\ node_list' = [c \in Chunks |-> IF At(c) # {} THEN NodeID(c, target) ELSE node_list[c]]
      /\ out' \in Copied(view)
  BY DEF RestartRegions
<1>2. /\ Taken' = Taken /\ (Clear' => Clear)
      /\ \A k : Chkpt(k)' = Chkpt(k) /\ \A c : Wanted(c)' = Wanted(c)
  BY <1>1, AsideKept
<1>3. target \in Taken /\ (Clear => /\ ref_id = Chkpt(target).ref_id
                                    /\ \A c \in Chunks : FoundTrue(c))
  BY <1>1 DEF WalkTrue, Restarting
<1>6. Clear => out' = view
  <2> HIDE DEF view
  <2> QED
    BY <1>1, CopiedAsMeant
<1>4. ASSUME Clear, NEW c \in Chunks PROVE FoundTrue(c)'
  <2>1. DiffTrue(target) /\ node_list[c] = Untouched
    BY <1>1, <1>3, <1>4, TargetTrue DEF FoundTrue
  <2>2. regions \subseteq Nodes /\ regions \subseteq distinct_map(target)
    BY <2>1, MapNodes
  <2>3. CASE At(c) # {}
    <3>1. Its(c) \in At(c)
      BY <2>3
    <3> DEFINE u == Its(c)[1]
               i == Its(c)[2]
    <3>2. u \in regions /\ i \in Chunks /\ i < NumLeaves[u] /\ RegionChunk(u, i) = c
      BY <3>1
    <3>3. out'[c] = Saved(target, u, i) /\ node_list'[c] = NodeID(c, target)
      BY <1>1, <1>4, <1>6, <2>3
    <3> HIDE DEF u, i
    <3>4. i \in 0 .. NumLeaves[u] - 1
      <4>1. NumLeaves[u] \in Nat
        BY <2>2, <3>2, RegionTrue
      <4> QED
        BY <3>2, <4>1 DEF Chunks
    <3>5. out'[c] = Wanted(c)
      BY <2>1, <2>2, <3>2, <3>3, <3>4, SavedIs DEF Wanted
    <3> QED
      BY <1>1, <1>2, <3>3, <3>5 DEF FoundTrue, Restored
  <2>4. CASE At(c) = {}
    <3>1. ASSUME NEW u \in regions, c \in ChunksOf(u) PROVE FALSE
      <4>1. PICK i \in 0 .. NumLeaves[u] - 1 : c = RegionChunk(u, i)
        BY <3>1 DEF ChunksOf
      <4>2. u \in Nodes /\ i \in Chunks /\ NumLeaves[u] \in Nat
        BY <2>2, RegionTrue, ChunkTrue
      <4>3. i < NumLeaves[u]
        BY <4>2
      <4>4. <<u, i>> \in At(c)
        BY <4>1, <4>2, <4>3
      <4> QED
        BY <2>4, <4>4
    <3>2. node_list'[c] = Untouched
      BY <1>1, <2>1, <2>4
    <3> QED
      BY <1>1, <1>2, <3>1, <3>2 DEF FoundTrue
  <2> QED
    BY <2>3, <2>4
<1>5. FcnOn(node_list', Chunks) /\ FcnOn(out', Chunks)
  <2>1. FcnOn(view, Chunks)
    BY DEF FcnOn
  <2> HIDE DEF view
  <2> QED
    BY <1>1, <2>1, CopiedFcn DEF FcnOn
<1> QED
  BY <1>1, <1>2, <1>3, <1>4, <1>5 DEF WalkTrue

LEMMA WalkRepeats ==
  ASSUME PowerOfTwo(NumChunks), ObjectTrue, DiffsTrue, DuplicatesKept, SourcesSaved, WalkTrue,
         RestartRepeats
  PROVE  WalkTrue'
<1> DEFINE dupl == Chkpt(target).shift_dupl
           At(c) == {p \in dupl \X Chunks :
                       p[2] < NumLeaves[p[1].prev.node] /\ RegionChunk(p[1].node, p[2]) = c}
           Entry(c) == CHOOSE p \in At(c) : TRUE
           prev(c) == Entry(c)[1].prev
           view == [c \in Chunks |->
             IF At(c) # {} /\ prev(c).tree = target THEN Saved(target, prev(c).node, Entry(c)[2])
             ELSE out[c]]
<1>1. /\ pc = "repeats" /\ pc' = "same"
      /\ UNCHANGED <<dedupVars, target, via, idx, ref_id>>
      /\ node_list' = [c \in Chunks |->
           IF At(c) # {} THEN NodeID(Leftmost[prev(c).node] + Entry(c)[2], prev(c).tree)
           ELSE node_list[c]]
      /\ out' \in Copied(view)
  BY DEF RestartRepeats
<1>2. /\ Taken' = Taken /\ (Clear' => Clear) /\ UNCHANGED history
      /\ \A k : Chkpt(k)' = Chkpt(k) /\ Roots(k)' = Roots(k)
      /\ \A c : Wanted(c)' = Wanted(c)
  BY <1>1, AsideKept
<1>3. target \in Taken /\ (Clear => /\ ref_id = Chkpt(target).ref_id
                                    /\ \A c \in Chunks : FoundTrue(c))
  BY <1>1 DEF WalkTrue, Restarting
<1>6. Clear => out' = view
  <2> HIDE DEF view
  <2> QED
    BY <1>1, CopiedAsMeant
<1>4. ASSUME Clear, NEW c \in Chunks PROVE FoundTrue(c)'
  <2>1. /\ DiffTrue(target) /\ target \in Nat /\ Chkpt(target).ref_id \in 0 .. target
        /\ \A e \in dupl :
             /\ DuplicateTrue(target, e) /\ e.node \in Nodes /\ e.prev.node \in Nodes
             /\ e.prev.tree = target => e.prev.node \in distinct_map(target)
    BY <1>3, <1>4, TargetTrue
  <2>2. \/ node_list[c] = NodeID(c, target) /\ Restored(c)
        \/ /\ node_list[c] = Untouched
           /\ \A u \in DOMAIN Chkpt(target).first_ocur : c \notin ChunksOf(u)
    BY <1>1, <1>3, <1>4 DEF FoundTrue
  <2>3. CASE At(c) # {}
    <3>1. Entry(c) \in At(c)
      BY <2>3
    <3> DEFINE e == Entry(c)[1]
               n == Entry(c)[2]
               s == Leftmost[e.prev.node] + n
    <3>2. /\ e \in dupl /\ n \in Chunks /\ n < NumLeaves[e.prev.node]
          /\ RegionChunk(e.node, n) = c
      <4> HIDE DEF dupl, Entry
      <4> QED
        BY <3>1
    <3>3. /\ node_list'[c] = NodeID(s, e.prev.tree)
          /\ e.prev.tree = target => out'[c] = Saved(target, e.prev.node, n)
      BY <1>1, <1>4, <1>6, <2>3
    <3> HIDE DEF e, n
    <3>4. PICK i \in 0 .. NumLeaves[e.prev.node] - 1 : i = n
      <4>1. NumLeaves[e.prev.node] \in Nat
        BY <2>1, <3>2, RegionTrue
      <4> QED
        BY <3>2, <4>1 DEF Chunks
    <3>5. history[e.prev.tree + 1][RegionChunk(e.prev.node, i)] = Wanted(c)
      BY <2>1, <3>2, <3>4 DEF DuplicateTrue, Wanted
    <3>6. CASE e.prev.tree = target
      <4>1. out'[c] = Wanted(c)
        BY <2>1, <3>2, <3>3, <3>4, <3>5, <3>6, SavedIs
      <4>2. node_list'[c].tree = target
        BY <3>3, <3>6 DEF NodeID
      <4> QED
        BY <1>1, <1>2, <4>1, <4>2 DEF FoundTrue, Restored
    <3>7. CASE e.prev.tree # target
      <4> DEFINE t == e.prev.tree
                 r == Chkpt(target).ref_id
      <4>1. t \in r .. target /\ r \in 0 .. target /\ t # target
        BY <2>1, <3>2, <3>7 DEF DuplicateTrue
      <4> HIDE DEF t, r
      <4>2. t \in r .. target /\ t < target
        BY <2>1, <4>1
      <4>3. s \in LeafNodes /\ s - (NumChunks - 1) = RegionChunk(e.prev.node, i)
        <5>1. e.prev.node \in Nodes
          BY <2>1, <3>2
        <5>2. Leftmost[e.prev.node] \in Int /\ s = Leftmost[e.prev.node] + i
          BY <3>4, <5>1, RegionTrue, TreeShape
        <5>3. s \in LeafNodes
          BY <3>4, <5>1, SourceLeaf
        <5>4. s - (NumChunks - 1) = RegionChunk(e.prev.node, i)
          BY <5>2, TreeShape DEF RegionChunk
        <5> QED
          BY <5>3, <5>4
      <4> HIDE DEF s
      <4>4. node_list'[c].node = s /\ node_list'[c].tree = t
        BY <3>3 DEF NodeID, t
      <4>5. history[t + 1][s - (NumChunks - 1)] = Wanted(c)
        BY <3>5, <4>3 DEF t
      <4>6. Sought(c)'
        BY <1>1, <1>2, <4>2, <4>3, <4>4, <4>5 DEF Sought, r
      <4> QED
        BY <1>1, <4>2, <4>4, <4>6 DEF FoundTrue
    <3> QED
      BY <3>6, <3>7
  <2>4. CASE At(c) = {}
    <3>1. node_list'[c] = node_list[c] /\ out'[c] = out[c]
      BY <1>1, <1>4, <1>6, <2>4
    <3>2. CASE node_list[c] = NodeID(c, target) /\ Restored(c)
      <4>1. node_list'[c].tree = target /\ out'[c] = Wanted(c)
        BY <3>1, <3>2 DEF Restored, NodeID
      <4> QED
        BY <1>1, <1>2, <4>1 DEF FoundTrue, Restored
    <3>3. CASE /\ node_list[c] = Untouched
               /\ \A u \in DOMAIN Chkpt(target).first_ocur : c \notin ChunksOf(u)
      <4>1. ASSUME NEW u \in Roots(target), c \in ChunksOf(u) PROVE FALSE
        <5>1. PICK e \in dupl : u = e.node
          BY <3>3, <4>1 DEF Roots
        <5>2. PICK i \in 0 .. NumLeaves[u] - 1 : c = RegionChunk(u, i)
          BY <4>1 DEF ChunksOf
        <5>3. u \in Nodes /\ i \in Chunks /\ NumLeaves[u] \in Nat
              /\ NumLeaves[u] = NumLeaves[e.prev.node]
          BY <2>1, <5>1, RegionTrue, ChunkTrue DEF DuplicateTrue
        <5>4. i < NumLeaves[e.prev.node]
          BY <5>3
        <5>5. <<e, i>> \in At(c)
          BY <5>1, <5>2, <5>3, <5>4
        <5> QED
          BY <2>4, <5>5
      <4> QED
        BY <1>1, <1>2, <3>1, <3>3, <4>1 DEF FoundTrue
    <3> QED
      BY <2>2, <3>2, <3>3
  <2> QED
    BY <2>3, <2>4
<1>5. FcnOn(node_list', Chunks) /\ FcnOn(out', Chunks)
  <2> DEFINE id(c) == IF At(c) # {} THEN NodeID(Leftmost[prev(c).node] + Entry(c)[2], prev(c).tree)
                      ELSE node_list[c]
             val(c) == IF At(c) # {} /\ prev(c).tree = target
                       THEN Saved(target, prev(c).node, Entry(c)[2])
                       ELSE out[c]
  <2>1. node_list' = [c \in Chunks |-> id(c)] /\ view = [c \in Chunks |-> val(c)]
    BY <1>1
  <2> HIDE DEF id, val, view
  <2>2. FcnOn(view, Chunks)
    BY <2>1 DEF FcnOn
  <2>3. FcnOn(out', Chunks)
    BY <1>1, <2>2, CopiedFcn
  <2> QED
    BY <2>1, <2>3 DEF FcnOn
<1> QED
  BY <1>1, <1>2, <1>3, <1>4, <1>5 DEF WalkTrue

LEMMA WalkSame ==
  ASSUME ObjectTrue, DiffsTrue, DuplicatesKept, SourcesSaved, OmittedSame, WalkTrue, FillSame
  PROVE  WalkTrue'
<1>1. /\ pc = "same" /\ pc' = "load" /\ idx' = target - 1
      /\ UNCHANGED <<dedupVars, target, via, ref_id, out>>
      /\ node_list' = [c \in Chunks |->
           IF node_list[c] = Untouched THEN NodeID(c + NumChunks - 1, target - 1)
           ELSE node_list[c]]
  BY DEF FillSame
<1>2. /\ Taken' = Taken /\ (Clear' => Clear) /\ UNCHANGED history
      /\ \A k : Chkpt(k)' = Chkpt(k)
      /\ \A c : Wanted(c)' = Wanted(c)
  BY <1>1, AsideKept
<1>3. /\ target \in Taken /\ FcnOn(out, Chunks)
      /\ Clear => /\ ref_id = Chkpt(target).ref_id
                  /\ \A c \in Chunks : FoundTrue(c)
  BY <1>1 DEF WalkTrue, Restarting
<1> DEFINE r == Chkpt(target).ref_id
<1>4. ASSUME Clear
      PROVE  target \in Nat /\ r \in 0 .. target /\ target \notin spoiled /\ ~Returns(target)
  BY <1>3, <1>4, TargetTrue
<1>5. ASSUME Clear, NEW c \in Chunks PROVE FoundTrue(c)'
  <2> DEFINE old == node_list[c]
             new == node_list'[c]
  <2>1. \/ old.tree = target /\ Restored(c)
        \/ old.tree < target /\ Sought(c)
        \/ old = Untouched /\ \A u \in Roots(target) : c \notin ChunksOf(u)
    BY <1>1, <1>3, <1>5 DEF FoundTrue
  <2>2. new = IF old = Untouched THEN NodeID(c + NumChunks - 1, target - 1) ELSE old
    BY <1>1
  <2>3. Restored(c)' = Restored(c)
    BY <1>1, <1>2 DEF Restored
  <2>4. CASE old = Untouched
    <3>1. old.tree = -1 /\ old.node = -1
      BY <2>4 DEF Untouched, NodeID
    <3>2. \A u \in Roots(target) : c \notin ChunksOf(u)
      <4>1. old.tree # target
        BY <1>4, <1>5, <3>1
      <4>2. ~Sought(c)
        BY <3>1, TreeShape DEF Sought
      <4> QED
        BY <2>1, <4>1, <4>2
    <3>3. target > r /\ history[target][c] = Wanted(c)
      BY <1>3, <1>4, <1>5, <3>2 DEF OmittedSame, Wanted
    <3>4. new.node = LeafOf(c) /\ new.tree = target - 1
      BY <2>2, <2>4 DEF NodeID, LeafOf
    <3> HIDE DEF r, new
    <3>5. target - 1 \in r .. target /\ target - 1 + 1 = target /\ target - 1 \in Int
      BY <1>4, <1>5, <3>3
    <3>6. LeafOf(c) \in LeafNodes /\ LeafOf(c) - (NumChunks - 1) = c
      BY LeafOfTrue
    <3>7. Sought(c)'
      <4>1. /\ new.node \in LeafNodes /\ new.tree \in r .. target
            /\ history[new.tree + 1][new.node - (NumChunks - 1)] = Wanted(c)
        BY <3>3, <3>4, <3>5, <3>6
      <4> QED
        BY <1>1, <1>2, <4>1 DEF Sought, r, new
    <3>8. new.tree \in Int /\ ~(new.tree > idx')
      BY <1>1, <3>4, <3>5
    <3> QED
      BY <1>1, <3>7, <3>8 DEF FoundTrue, new
  <2>5. CASE old # Untouched /\ old.tree = target /\ Restored(c)
    <3>1. new.tree \in Int /\ new.tree > idx'
      BY <1>1, <1>4, <1>5, <2>2, <2>5
    <3> QED
      BY <1>1, <2>3, <2>5, <3>1 DEF FoundTrue
  <2>6. CASE old # Untouched /\ old.tree < target /\ Sought(c)
    <3>1. new = old
      BY <2>2, <2>6
    <3>2. Sought(c)'
      BY <1>1, <1>2, <2>6, <3>1 DEF Sought
    <3>3. old.tree \in r .. target
      BY <2>6 DEF Sought
    <3> DEFINE t == old.tree
    <3>4. t \in r .. target /\ t < target /\ new.tree = t
      BY <2>6, <3>1, <3>3
    <3> HIDE DEF t, r
    <3>5. t \in Int /\ ~(t > idx')
      BY <1>1, <1>4, <1>5, <3>4
    <3> QED
      BY <1>1, <3>2, <3>4, <3>5 DEF FoundTrue
  <2> QED
    BY <2>1, <2>4, <2>5, <2>6
<1>6. Clear => idx' \in ref_id' - 1 .. target' - 1
  <2> SUFFICES ASSUME Clear PROVE idx' \in ref_id' - 1 .. target' - 1
    OBVIOUS
  <2> HIDE DEF r
  <2>1. ref_id' = r /\ target' = target /\ idx' = target - 1
    BY <1>1, <1>3 DEF r
  <2> QED
    BY <1>4, <2>1
<1>7. FcnOn(node_list', Chunks) /\ FcnOn(out', Chunks)
  BY <1>1, <1>3 DEF FcnOn
<1> QED
  BY <1>1, <1>2, <1>3, <1>5, <1>6, <1>7 DEF WalkTrue

LEMMA WalkFinish ==
  ASSUME ObjectTrue, DiffsTrue, DuplicatesKept, SourcesSaved, WalkTrue, FinishRestart
  PROVE  WalkTrue'
<1>1. /\ pc = "load" /\ pc' = "restarted" /\ idx < ref_id
      /\ UNCHANGED <<dedupVars, target, via, idx, ref_id, node_list, out>>
  BY DEF FinishRestart, restartVars
<1>2. /\ Taken' = Taken /\ (Clear' => Clear)
      /\ \A c : Wanted(c)' = Wanted(c)
  BY <1>1, AsideKept
<1>3. /\ target \in Taken /\ FcnOn(out, Chunks) /\ FcnOn(node_list, Chunks)
      /\ Clear => /\ ref_id = Chkpt(target).ref_id /\ idx \in ref_id - 1 .. target - 1
                  /\ \A c \in Chunks : FoundTrue(c)
  BY <1>1 DEF WalkTrue, Restarting
<1>4. ASSUME Clear, NEW c \in Chunks PROVE FoundTrue(c)'
  <2> DEFINE t == node_list[c].tree
             r == Chkpt(target).ref_id
  <2>1. /\ t \in Int /\ (IF t > idx THEN Restored(c) ELSE Sought(c))
        /\ r \in 0 .. target /\ target \in Nat /\ idx < r /\ idx \in r - 1 .. target - 1
    BY <1>1, <1>3, <1>4, TargetTrue DEF FoundTrue
  <2>2. Sought(c) => t \in r .. target
    BY DEF Sought
  <2> HIDE DEF t, r
  <2>3. t \in r .. target => t > idx
    BY <2>1
  <2>4. Restored(c)
    BY <2>1, <2>2, <2>3
  <2> QED
    BY <1>1, <1>2, <2>4 DEF FoundTrue, Restored
<1>5. FcnOn(node_list', Chunks) /\ FcnOn(out', Chunks)
  BY <1>1, <1>3
<1> QED
  BY <1>1, <1>2, <1>3, <1>4, <1>5 DEF WalkTrue

\* What a round of the loop does to chunk c when one thread moves it.
LEMMA PriorMoves ==
  ASSUME RestartPrior, Clear, WideTeams => via = "files", NEW c \in Chunks,
         NEW id, id = node_list[c], NEW next, next = Follow(idx, id)
  PROVE  /\ out'[c] =
              IF id.tree = idx /\ id.node \in distinct_map(idx) THEN Saved(idx, id.node, 0)
              ELSE IF id.tree = idx /\ next.tree = idx THEN Saved(idx, next.node, 0)
              ELSE out[c]
         /\ node_list'[c] =
              IF id.tree = idx /\ id.node \notin distinct_map(idx) /\ next.tree # idx THEN next
              ELSE id
<1> DEFINE due == {x \in Chunks : node_list[x].tree = idx}
           here == {x \in due : node_list[x].node \in distinct_map(idx)}
           nextOf(x) == Follow(idx, node_list[x])
           moved == {x \in due \ here : nextOf(x).tree # idx}
           parts == \E d \in LeafNodes : Follow(idx, NodeID(d, idx)).tree = idx
           copied == [x \in Chunks |->
             CASE x \in here -> Saved(idx, node_list[x].node, 0)
               [] x \in due \ (here \cup moved) -> Saved(idx, nextOf(x).node, 0)
               [] OTHER -> out[x]]
<1>1. PICK raced \in (IF WideTeams /\ via = "memory" THEN SUBSET moved ELSE {{}}) :
        /\ \E again \in [raced -> Moves(idx)] :
             node_list' = [x \in Chunks |->
               CASE x \in raced -> again[x]
                 [] x \in moved \ raced -> nextOf(x)
                 [] OTHER -> node_list[x]]
        /\ \E lost \in [IF parts THEN raced ELSE {} -> Vals \cup {NoVal}] :
             out' \in Copied([x \in Chunks |-> IF x \in DOMAIN lost THEN lost[x] ELSE copied[x]])
  BY DEF RestartPrior
<1>2. raced = {}
  BY <1>1
<1>3. /\ c \in due <=> id.tree = idx
      /\ c \in here <=> id.tree = idx /\ id.node \in distinct_map(idx)
      /\ c \in moved <=> id.tree = idx /\ id.node \notin distinct_map(idx) /\ next.tree # idx
      /\ nextOf(c) = next
  OBVIOUS
<1> HIDE DEF due, here, nextOf, moved, parts, copied
<1>5. PICK again, lost :
        /\ node_list' = [x \in Chunks |->
             CASE x \in raced -> again[x]
               [] x \in moved \ raced -> nextOf(x)
               [] OTHER -> node_list[x]]
        /\ DOMAIN lost = {}
        /\ out' \in Copied([x \in Chunks |-> IF x \in DOMAIN lost THEN lost[x] ELSE copied[x]])
  <2>1. PICK again \in [raced -> Moves(idx)] :
          node_list' = [x \in Chunks |->
            CASE x \in raced -> again[x]
              [] x \in moved \ raced -> nextOf(x)
              [] OTHER -> node_list[x]]
    BY <1>1
  <2>2. PICK lost \in [IF parts THEN raced ELSE {} -> Vals \cup {NoVal}] :
          out' \in Copied([x \in Chunks |-> IF x \in DOMAIN lost THEN lost[x] ELSE copied[x]])
    BY <1>1
  <2>3. DOMAIN lost = {}
    BY <1>2
  <2> QED
    BY <2>1, <2>2, <2>3
<1>4. out'[c] = copied[c]
  <2>1. out' = [x \in Chunks |-> IF x \in DOMAIN lost THEN lost[x] ELSE copied[x]]
    BY <1>5, CopiedAsMeant
  <2> QED
    BY <1>5, <2>1
<1>6. out'[c] = IF c \in here THEN Saved(idx, node_list[c].node, 0)
                ELSE IF c \in due /\ c \notin moved THEN Saved(idx, nextOf(c).node, 0)
                ELSE out[c]
  BY <1>4 DEF copied
<1>7. node_list'[c] = IF c \in moved THEN nextOf(c) ELSE node_list[c]
  BY <1>2, <1>5
<1> QED
  BY <1>3, <1>6, <1>7

LEMMA WalkPrior ==
  ASSUME PowerOfTwo(NumChunks), ObjectTrue, DiffsTrue, ChainsTrue, DuplicatesKept, SourcesSaved,
         OmittedSame, WalkTrue, RestartPrior
  PROVE  WalkTrue'
<1>1. /\ pc = "load" /\ pc' = "load" /\ idx >= ref_id /\ idx' = idx - 1
      /\ ref_id' = Chkpt(idx).ref_id
      /\ UNCHANGED <<dedupVars, target, via>>
  BY DEF RestartPrior
<1>2. /\ Taken' = Taken /\ (Clear' => Clear) /\ UNCHANGED history
      /\ \A k : Chkpt(k)' = Chkpt(k)
      /\ \A c : Wanted(c)' = Wanted(c)
  BY <1>1, AsideKept
<1>3. /\ target \in Taken
      /\ Clear => /\ ref_id = Chkpt(target).ref_id /\ idx \in ref_id - 1 .. target - 1
                  /\ \A c \in Chunks : FoundTrue(c)
  BY <1>1 DEF WalkTrue, Restarting
<1> DEFINE r == Chkpt(target).ref_id
<1>4. ASSUME Clear
      PROVE  /\ target \in Nat /\ r \in 0 .. target /\ idx \in r .. target - 1
             /\ idx \in Taken \ spoiled /\ Chkpt(idx).ref_id = r /\ ~Returns(idx)
  <2>1. target \in Nat /\ r \in 0 .. target /\ target \notin spoiled
    BY <1>3, <1>4, TargetTrue
  <2>2. idx >= r /\ idx \in r - 1 .. target - 1
    BY <1>1, <1>3, <1>4
  <2> HIDE DEF r
  <2>3. idx \in r .. target - 1 /\ idx \in r .. target
    BY <2>1, <2>2
  <2>4. Chkpt(idx).ref_id = r /\ idx \notin spoiled
    BY <1>3, <2>1, <2>3 DEF ChainsTrue, r
  <2>5. ~Returns(idx)
    BY <1>4, <2>3 DEF Clear, r
  <2>6. idx \in Taken
    BY <1>3, <2>1, <2>3, TakenTrue
  <2> QED
    BY <2>1, <2>3, <2>4, <2>5, <2>6
<1>5. ASSUME Clear, NEW c \in Chunks PROVE FoundTrue(c)'
  <2> DEFINE id == node_list[c]
             next == Follow(idx, id)
             new == node_list'[c]
  <2>1. /\ out'[c] =
              IF id.tree = idx /\ id.node \in distinct_map(idx) THEN Saved(idx, id.node, 0)
              ELSE IF id.tree = idx /\ next.tree = idx THEN Saved(idx, next.node, 0)
              ELSE out[c]
        /\ new = IF id.tree = idx /\ id.node \notin distinct_map(idx) /\ next.tree # idx THEN next
                 ELSE id
    <3>1. r # target
      <4>1. r \in Int /\ target \in Int /\ idx \in r .. target - 1
        BY <1>4, <1>5
      <4> HIDE DEF r
      <4> QED
        BY <4>1
    <3>2. WideTeams => via = "files"
      BY <1>5, <3>1 DEF Clear, OneThread
    <3> QED
      BY <1>5, <3>2, PriorMoves
  <2>2. id.tree \in Int /\ (IF id.tree > idx THEN Restored(c) ELSE Sought(c))
    BY <1>1, <1>3, <1>5 DEF FoundTrue
  <2>3. Sought(c) => /\ id.node \in LeafNodes /\ id.tree \in r .. target
                     /\ history[id.tree + 1][id.node - (NumChunks - 1)] = Wanted(c)
    BY DEF Sought
  <2>4. /\ idx \in Int /\ idx' = idx - 1 /\ DiffTrue(idx)
    BY <1>1, <1>4, <1>5, TakenTrue DEF DiffsTrue
  <2>5. ASSUME out'[c] = Wanted(c), new.tree \in Int, new.tree > idx - 1 PROVE FoundTrue(c)'
    BY <1>1, <1>2, <2>4, <2>5 DEF FoundTrue, Restored
  <2>6. ASSUME new.node \in LeafNodes, new.tree \in r .. target, new.tree \in Int,
               ~(new.tree > idx - 1),
               history[new.tree + 1][new.node - (NumChunks - 1)] = Wanted(c)
        PROVE  FoundTrue(c)'
    <3>1. Sought(c)'
      BY <1>1, <1>2, <2>6 DEF Sought
    <3> QED
      BY <1>1, <2>4, <2>6, <3>1 DEF FoundTrue
  <2>7. CASE id.tree > idx
    <3>1. id.tree # idx /\ id.tree > idx - 1
      BY <2>2, <2>4, <2>7
    <3>2. new = id /\ out'[c] = out[c]
      BY <2>1, <3>1
    <3> QED
      BY <2>2, <2>5, <2>7, <3>1, <3>2 DEF Restored
  <2>8. CASE ~(id.tree > idx) /\ id.tree # idx
    <3>1. new = id
      BY <2>1, <2>8
    <3>2. ~(id.tree > idx - 1)
      BY <2>2, <2>4, <2>8
    <3> HIDE DEF id, new
    <3> QED
      BY <2>2, <2>3, <2>6, <2>8, <3>1, <3>2
  <2>9. CASE id.tree = idx
    <3>1. /\ id.node \in LeafNodes
          /\ history[idx + 1][id.node - (NumChunks - 1)] = Wanted(c)
      <4>1. ~(id.tree > idx)
        BY <2>4, <2>9
      <4> QED
        BY <2>2, <2>3, <2>9, <4>1
    <3>2. CASE id.node \in distinct_map(idx)
      <4>1. out'[c] = Saved(idx, id.node, 0) /\ new = id
        BY <2>1, <2>9, <3>2
      <4>2. out'[c] = Wanted(c)
        BY <2>4, <3>1, <3>2, <4>1, LeafSaved
      <4>3. new.tree \in Int /\ new.tree > idx - 1
        BY <2>4, <2>9, <4>1
      <4> QED
        BY <2>5, <4>2, <4>3
    <3>3. CASE id.node \notin distinct_map(idx)
      <4>1. \/ next.tree = idx /\ Saved(idx, next.node, 0) = Wanted(c)
            \/ /\ next.node \in LeafNodes /\ next.tree \in r .. idx - 1
               /\ history[next.tree + 1][next.node - (NumChunks - 1)] = Wanted(c)
        BY <1>4, <1>5, <3>1, <3>3, FollowTrue
      <4>2. CASE next.tree = idx
        <5>1. out'[c] = Saved(idx, next.node, 0) /\ new = id
          BY <2>1, <2>9, <3>3, <4>2
        <5>2. Saved(idx, next.node, 0) = Wanted(c)
          <6> DEFINE t == next.tree
          <6>1. t = idx
            BY <4>2
          <6>2. t \notin r .. idx - 1
            <7> HIDE DEF r, t
            <7> QED
              BY <1>4, <1>5, <6>1
          <6> QED
            BY <4>1, <6>2
        <5>3. new.tree \in Int /\ new.tree > idx - 1
          BY <2>4, <2>9, <5>1
        <5> QED
          BY <2>5, <5>1, <5>2, <5>3
      <4>3. CASE next.tree # idx
        <5>1. new = next
          BY <2>1, <2>9, <3>3, <4>3
        <5> DEFINE t == next.tree
        <5>2. /\ next.node \in LeafNodes /\ t \in r .. idx - 1
              /\ history[t + 1][next.node - (NumChunks - 1)] = Wanted(c)
          BY <4>1, <4>3
        <5>3. t \in r .. target /\ t \in Int /\ ~(t > idx - 1)
          <6> HIDE DEF r, t
          <6> QED
            BY <1>4, <1>5, <5>2
        <5> HIDE DEF next, new, r
        <5> QED
          BY <2>6, <5>1, <5>2, <5>3
      <4> QED
        BY <4>2, <4>3
    <3> QED
      BY <3>2, <3>3
  <2> QED
    BY <2>7, <2>8, <2>9
<1>6. Clear => /\ ref_id' = Chkpt(target)'.ref_id
               /\ idx' \in ref_id' - 1 .. target' - 1
  <2> SUFFICES ASSUME Clear PROVE ref_id' = Chkpt(target)'.ref_id
                                  /\ idx' \in ref_id' - 1 .. target' - 1
    OBVIOUS
  <2>1. ref_id' = r /\ target' = target /\ idx' = idx - 1 /\ Chkpt(target)'.ref_id = r
    BY <1>1, <1>2, <1>4
  <2> HIDE DEF r
  <2> QED
    BY <1>4, <2>1
<1>7. FcnOn(node_list', Chunks) /\ FcnOn(out', Chunks)
  <2>1. PICK view : FcnOn(view, Chunks) /\ out' \in Copied(view)
    BY DEF RestartPrior, FcnOn
  <2>2. FcnOn(node_list', Chunks)
    BY DEF RestartPrior, FcnOn
  <2> QED
    BY <2>1, <2>2, CopiedFcn
<1> QED
  BY <1>1, <1>2, <1>3, <1>5, <1>6, <1>7 DEF WalkTrue

LEMMA WalkStep ==
  ASSUME PowerOfTwo(NumChunks), ObjectTrue, DiffsTrue, ChainsTrue, DuplicatesKept, SourcesSaved,
         OmittedSame, WalkTrue, [Next]_vars
  PROVE  WalkTrue'
<1>1. ASSUME pc' \notin Restarting PROVE WalkTrue'
  BY <1>1 DEF WalkTrue
<1>2. ASSUME NEW d \in Data, NEW make_baseline \in BOOLEAN, Checkpoint(d, make_baseline)
      PROVE  pc' \notin Restarting
  BY <1>2 DEF Checkpoint, Restarting
<1>3. ASSUME NEW leaf \in todo, DedupLeaf(leaf) PROVE pc' \notin Restarting
  BY <1>3 DEF DedupLeaf, Restarting
<1>4. ASSUME \/ ChooseFirst \/ FirstForest \/ EndFirstForest \/ BuildForest \/ InsertEntries
             \/ EndBuildForest \/ FinishCheckpoint \/ FailToWrite \/ Release
      PROVE  pc' \notin Restarting
  BY <1>4 DEF ChooseFirst, FirstForest, EndFirstForest, BuildForest, InsertEntries,
              EndBuildForest, FinishCheckpoint, FailToWrite, Release, Restarting
<1>5. CASE UNCHANGED vars
  <2>1. UNCHANGED <<dedupVars, target, via>> /\ UNCHANGED <<pc, idx, ref_id, node_list, out>>
    BY <1>5 DEF vars, restartVars
  <2>2. /\ Taken' = Taken /\ (Clear' => Clear) /\ UNCHANGED history
        /\ \A k : Chkpt(k)' = Chkpt(k) /\ Roots(k)' = Roots(k)
        /\ \A c : Wanted(c)' = Wanted(c)
    BY <2>1, AsideKept
  <2>3. \A c : FoundTrue(c) => FoundTrue(c)'
    BY <2>1, <2>2 DEF FoundTrue, Restored, Sought
  <2> QED
    BY <2>1, <2>2, <2>3 DEF WalkTrue
<1> QED
  BY <1>1, <1>2, <1>3, <1>4, <1>5, WalkOpen, WalkRegions, WalkRepeats, WalkSame, WalkPrior,
     WalkFinish DEF Next, Progress, Call

-----------------------------------------------------------------------------
(* What a restart gives back *)

\* What a restart relies on holds in every state, where all leaves are on one
\* level and there is more than one: diffs leave out only what is unchanged, save
\* what their own duplicates point to, and keep to one chain from their baseline
\* on; and the node list leads every chunk to where it was saved.
THEOREM RestorableAlways ==
  ASSUME NEW CONSTANT f, DigestsClosed(f), PowerOfTwo(NumChunks), NumChunks > 1
  PROVE  Spec => []Restorable
<1> DEFINE I == Coherent /\ LevelTrue /\ Exact /\ TreeTrue
           D == EntriesTrue /\ DuplicatesKept
           R == Restorable
<1>1. Init => D /\ R
  <2>1. Init => D
    BY DEF Init, EntriesTrue, DuplicatesKept, Taken
  <2> QED
    BY <2>1, PushedInit, PastInit, ChainsInit, OmittedInit, SourcesSavedInit, WalkInit
    DEF Restorable
<1>2. I /\ I' /\ D /\ [Next]_vars => D'
  BY EntriesTrueStep, DuplicatesStep DEF Coherent
<1>3. I /\ D /\ R /\ [Next]_vars => R'
  <2> SUFFICES ASSUME I, D, R, [Next]_vars PROVE R'
    OBVIOUS
  <2>1. /\ ObjectTrue /\ LabelsTrue /\ DigestsKnown /\ DiffsTrue
        /\ PushedTrue /\ LeavesPast /\ ChainsTrue /\ OmittedSame /\ SourcesSaved /\ WalkTrue
    BY DEF Coherent, Restorable
  <2>2. PushedTrue' /\ ChainsTrue'
    BY <2>1, PushedStep, ChainsTrueStep
  <2>3. LeavesPast'
    BY <2>1, PastStep
  <2>4. OmittedSame' /\ SourcesSaved'
    BY <2>1, OmittedStep, SourcesSavedStep
  <2>5. WalkTrue'
    BY <2>1, WalkStep
  <2> QED
    BY <2>2, <2>3, <2>4, <2>5 DEF Restorable
<1>4. Spec => []I
  BY ExactAlways
<1> HIDE DEF I, D
<1>5. R => Restorable
  OBVIOUS
<1> HIDE DEF R
<1> QED
  BY <1>1, <1>2, <1>3, <1>4, <1>5, PTL DEF Spec

\* A chunk under no region of a diff is the same in the previous checkpoint of
\* the chain, unless the whole region returns to an earlier one: the subtrees that
\* the forest leaves out are those whose every chunk is unchanged.
THEOREM OmittedAlwaysUnchanged ==
  ASSUME NEW CONSTANT f, DigestsClosed(f), PowerOfTwo(NumChunks), NumChunks > 1
  PROVE  Spec => []OmittedUnchanged
<1>1. Restorable => OmittedUnchanged
  BY DEF Restorable, OmittedSame, OmittedUnchanged, Roots
<1>2. Spec => []Restorable
  BY RestorableAlways
<1> QED
  BY <1>1, <1>2, PTL

\* A restart that has returned and that is clear has the data restarted.
ClearTrue == pc = "restarted" /\ Clear => target \in Taken /\ out = history[target + 1]

LEMMA ClearAlways ==
  ASSUME NEW CONSTANT f, DigestsClosed(f), PowerOfTwo(NumChunks), NumChunks > 1
  PROVE  Spec => []ClearTrue
<1>1. Coherent /\ Restorable => ClearTrue
  <2> SUFFICES ASSUME Coherent, Restorable, pc = "restarted", Clear
               PROVE  target \in Taken /\ out = history[target + 1]
    BY DEF ClearTrue
  <2> DEFINE taken == history[target + 1]
  <2>1. /\ target \in Taken /\ FcnOn(out, Chunks) /\ \A c \in Chunks : FoundTrue(c)
    BY DEF Restorable, WalkTrue, Restarting
  <2>2. taken \in Data
    BY <2>1 DEF Coherent, DiffsTrue, DiffTrue
  <2>3. \A c \in Chunks : out[c] = taken[c]
    BY <2>1 DEF FoundTrue, Restored, Wanted
  <2> HIDE DEF taken
  <2>4. taken = [c \in Chunks |-> taken[c]] /\ out = [c \in Chunks |-> out[c]]
    BY <2>1, <2>2 DEF Data, FcnOn
  <2>5. out = taken
    BY <2>3, <2>4
  <2> QED
    BY <2>1, <2>5 DEF taken
<1>2. Spec => [](Coherent /\ LevelTrue /\ Exact /\ TreeTrue)
  BY ExactAlways
<1>3. Spec => []Restorable
  BY RestorableAlways
<1> QED
  BY <1>1, <1>2, <1>3, PTL

\* A restart of a checkpoint no part of whose chain returns to an earlier one
\* gives back the data the checkpoint was taken of, whatever the diffs that are
\* followed, where one thread moves each chunk: from Views for every such number of
\* chunks, from files for one whose offsets do not wrap.
THEOREM RestartAlwaysExact ==
  ASSUME NEW CONSTANT f, DigestsClosed(f), PowerOfTwo(NumChunks), NumChunks > 1
  PROVE  Spec => [](OneThread => RestartExactWithoutReturn)
<1>1. ClearTrue => (OneThread => RestartExactWithoutReturn)
  BY DEF ClearTrue, Clear, RestartExactWithoutReturn
<1>2. Spec => []ClearTrue
  BY ClearAlways
<1> QED
  BY <1>1, <1>2, PTL

\* A baseline no failed write has spoiled is restarted exactly, whether teams are
\* wide or not: from Views always, from files where offsets do not wrap.
THEOREM BaselinesAlwaysExact ==
  ASSUME NEW CONSTANT f, DigestsClosed(f), PowerOfTwo(NumChunks), NumChunks > 1
  PROVE  Spec => []BaselineExact
<1>1. TypeOK /\ ClearTrue => BaselineExact
  <2> SUFFICES ASSUME TypeOK, ClearTrue, pc = "restarted",
                      ~Wraps, target \notin spoiled, Chkpt(target).ref_id = target
               PROVE  Clear
    BY DEF BaselineExact, ClearTrue
  <2>1. \A k \in Chkpt(target).ref_id .. target : k = target
    BY DEF TypeOK
  <2>2. ~Returns(target)
    BY DEF TypeOK, Returns
  <2> QED
    BY <2>1, <2>2 DEF Clear, OneThread
<1>2. Spec => []ClearTrue
  BY ClearAlways
<1>3. Spec => []TypeOK
  BY TypeCorrect
<1> QED
  BY <1>1, <1>2, <1>3, PTL

-----------------------------------------------------------------------------
(* Refinement *)

\* What a step is to the callers: a new checkpoint, a restart that returns, the end
\* of its use, or nothing.
LEMMA SeenSteps ==
  ASSUME Coherent, [Next]_vars
  PROVE  \/ UNCHANGED <<history, spoiled, incr_chkpts, target, via, out, pc>>
         \/ /\ pc # "restarted" /\ pc' # "restarted"
            /\ history' = history \/ (data \in Data /\ history' = Append(history, data))
         \/ pc # "restarted" /\ pc' = "restarted" /\ history' = history
         \/ pc = "restarted" /\ pc' # "restarted" /\ history' = history
<1>1. CASE FinishCheckpoint
  <2>1. history' = Append(history, data) /\ pc = "collect" /\ pc' = "idle"
    BY <1>1 DEF FinishCheckpoint
  <2>2. data \in Data
    BY <2>1 DEF Coherent, ObjectTrue, Kernels
  <2> QED
    BY <2>1, <2>2
<1>2. CASE FinishRestart
  BY <1>2 DEF FinishRestart, dedupVars
<1>3. CASE Release
  BY <1>3 DEF Release, dedupVars
<1>4. ASSUME NEW d \in Data, NEW make_baseline \in BOOLEAN, Checkpoint(d, make_baseline)
      PROVE  pc # "restarted" /\ pc' # "restarted" /\ history' = history
  BY <1>4 DEF Checkpoint
<1>5. CASE FailToWrite \/ \E leaf \in todo : DedupLeaf(leaf)
  <2>1. UNCHANGED history /\ pc \in {"leaves", "collect"} /\ pc' \in {"leaves", "idle"}
    BY <1>5 DEF DedupLeaf, FailToWrite
  <2> QED
    BY <2>1
<1>6. CASE ChooseFirst \/ FirstForest \/ EndFirstForest
  <2>1. UNCHANGED history /\ pc \in {"leaves", "first"} /\ pc' \in {"first", "forest"}
    BY <1>6 DEF ChooseFirst, FirstForest, EndFirstForest, dedupVars
  <2> QED
    BY <2>1
<1>7. CASE BuildForest \/ InsertEntries \/ EndBuildForest
  <2>1. UNCHANGED history /\ pc \in Second /\ pc' \in Second
    BY <1>7 DEF BuildForest, InsertEntries, EndBuildForest, dedupVars, Second
  <2> QED
    BY <2>1 DEF Second
<1>8. CASE \E k \in 0 .. Len(incr_chkpts) - 1 : RestartFromViews(k) \/ RestartFromFiles(k)
  <2>1. UNCHANGED history /\ pc = "idle" /\ pc' = "regions"
    BY <1>8 DEF RestartFromViews, RestartFromFiles, OpenCheckpoint, dedupVars
  <2> QED
    BY <2>1
<1>9. CASE RestartRegions \/ RestartRepeats \/ FillSame
  <2>1. /\ UNCHANGED history
        /\ pc \in {"regions", "repeats", "same"} /\ pc' \in {"repeats", "same", "load"}
    <3>1. CASE RestartRegions
      BY <3>1 DEF RestartRegions, dedupVars
    <3>2. CASE RestartRepeats
      <4>1. /\ pc = "repeats" /\ pc' = "same"
            /\ UNCHANGED <<dedupVars, target, via, idx, ref_id, todo, level>>
        BY <3>2, ZenonT(30) DEF RestartRepeats
      <4> QED
        BY <4>1 DEF dedupVars
    <3>3. CASE FillSame
      BY <3>3 DEF FillSame, dedupVars
    <3> QED
      BY <1>9, <3>1, <3>2, <3>3
  <2> QED
    BY <2>1
<1>10. CASE RestartPrior
  <2>1. UNCHANGED history /\ pc = "load" /\ pc' = "load"
    BY <1>10 DEF RestartPrior, dedupVars
  <2> QED
    BY <2>1
<1>11. CASE UNCHANGED vars
  BY <1>11 DEF vars, dedupVars, restartVars
<1> QED
  BY <1>1, <1>2, <1>3, <1>4, <1>5, <1>6, <1>7, <1>8, <1>9, <1>10, <1>11 DEF Next, Progress, Call

\* A step of the deduplicator is a step of the store, or one its callers do not see.
LEMMA StoreStep ==
  ASSUME Coherent, ClearTrue, ClearTrue', TypeOK, TypeOK', [Next]_vars
  PROVE  [Store!Next]_(Store!vars)
<1> USE DEF Store!Next, Store!vars
<1>1. CASE /\ pc # "restarted" /\ pc' # "restarted"
           /\ history' = history \/ (data \in Data /\ history' = Append(history, data))
  BY <1>1 DEF Store!Checkpoint
<1>2. CASE pc # "restarted" /\ pc' = "restarted" /\ history' = history
  <2>1. CASE ~Clear'
    BY <1>2, <2>1
  <2>2. CASE Clear'
    <3>1. target' \in Taken' /\ out' = history[target' + 1]
      BY <1>2, <2>2 DEF ClearTrue
    <3>2. target' \in 0 .. Len(history) - 1
      BY <1>2, <3>1 DEF TypeOK, Taken
    <3>3. Store!Restart(target')
      BY <1>2, <2>2, <3>1 DEF Store!Restart
    <3> QED
      BY <3>2, <3>3
  <2> QED
    BY <2>1, <2>2
<1>3. CASE pc = "restarted" /\ pc' # "restarted" /\ history' = history
  <2>1. [id |-> target, data |-> out].id # [id |-> -1].id
    BY DEF TypeOK
  <2> QED
    BY <1>3, <2>1 DEF Store!Release
<1>4. CASE UNCHANGED <<history, spoiled, incr_chkpts, target, via, out, pc>>
  <2>1. Clear' <=> Clear
    BY <1>4 DEF Clear, OneThread, Wraps, Returns, Chkpt
  <2> QED
    BY <1>4, <2>1
<1> QED
  BY <1>1, <1>2, <1>3, <1>4, SeenSteps

\* The Tree deduplicator implements the checkpoint store, in the restarts that are
\* clear: by one thread for each chunk, of checkpoints no failed write has spoiled
\* and no part of whose chain returns to an earlier one, and from Views or where
\* offsets do not wrap.
THEOREM ImplementsStore ==
  ASSUME NEW CONSTANT f, DigestsClosed(f), PowerOfTwo(NumChunks), NumChunks > 1
  PROVE  Spec => StoreSpec
<1>1. Init => Store!Init
  BY DEF Init, Store!Init
<1>2. Coherent /\ ClearTrue /\ ClearTrue' /\ TypeOK /\ TypeOK' /\ [Next]_vars
        => [Store!Next]_(Store!vars)
  BY StoreStep
<1>3. Spec => [](Coherent /\ LevelTrue /\ Exact /\ TreeTrue)
  BY ExactAlways
<1>4. Spec => []ClearTrue
  BY ClearAlways
<1>5. Spec => []TypeOK
  BY TypeCorrect
<1> QED
  BY <1>1, <1>2, <1>3, <1>4, <1>5, PTL DEF Spec, StoreSpec, Store!Spec
=============================================================================
