------------------------ MODULE TreeReference_proofs ------------------------
(***************************************************************************)
(* Proof that the racing teams of the Tree deduplicator find the regions   *)
(* the serial reference finds, for regions of every number of chunks above *)
(* one, whatever the order of the teams.                                   *)
(*                                                                         *)
(* What the kernels end with is said of each node by its children and by   *)
(* the tree and the map the checkpoint began with (Comparable); and each   *)
(* loop of the reference comes, node by node, to the same.                 *)
(***************************************************************************)
EXTENDS TreeReference, TreeDedup_proofs

-----------------------------------------------------------------------------
(* The kernels: PriorTrue and LeafLabels *)

\* A step that leaves the map alone, and one that enters nodes of this checkpoint.
LEMMA PriorKept ==
  ASSUME PriorTrue, UNCHANGED <<prior, current_id>>,
         DOMAIN first_ocur \subseteq DOMAIN first_ocur',
         \A d \in DOMAIN first_ocur :
           first_ocur'[d] = first_ocur[d]
           \/ (first_ocur[d].tree = current_id /\ first_ocur'[d].tree = current_id),
         \A d \in DOMAIN first_ocur' \ DOMAIN first_ocur : first_ocur'[d].tree = current_id
  PROVE  PriorTrue'
<1>1. \A d \in DOMAIN first_ocur :
        d \in DOMAIN prior.map => first_ocur'[d] = first_ocur[d]
  BY DEF PriorTrue
<1> QED
  BY <1>1 DEF PriorTrue

\* The checkpoint begins with what it finds.
LEMMA CheckpointComparable ==
  ASSUME ObjectTrue, MapClosed, EntriesNew, NEW e \in Data, NEW make_baseline \in BOOLEAN,
         Checkpoint(e, make_baseline), ReferenceNext
  PROVE  Comparable'
<1> SUFFICES ASSUME Compared' PROVE (PriorTrue /\ LeafLabels /\ NodeLabels)'
  BY DEF Comparable
<1>1. /\ pc = "idle" /\ pc' = "leaves" /\ todo' = LeafNodes /\ current_id' = current_id
      /\ prior' = [tree |-> tree', map |-> first_ocur'] /\ baseline' = make_baseline
  BY DEF Checkpoint, LeafTeams, ReferenceNext
<1>2. /\ ~make_baseline /\ first_ocur' = first_ocur /\ tree' = tree /\ current_id \notin spoiled
      /\ current_id # 0
  BY <1>1 DEF Checkpoint, MapAtStart, Compared
<1>3. /\ \A d \in DOMAIN first_ocur : first_ocur[d].tree # current_id
      /\ FcnOn(first_ocur, DOMAIN first_ocur)
      /\ \A u \in LeafNodes : tree[u] \in DOMAIN first_ocur \cup {NoDigest}
  BY <1>1, <1>2 DEF EntriesNew, Kernels, MapClosed, ObjectTrue
<1>4. prior'.map = first_ocur /\ prior'.tree = tree
  BY <1>1, <1>2
<1>5. PriorTrue'
  BY <1>2, <1>1, <1>3, <1>4 DEF PriorTrue
<1>6. LeafLabels'
  BY <1>1, <1>2, <1>4 DEF LeafLabels, Forests
<1> QED
  BY <1>1, <1>5, <1>6 DEF NodeLabels, Second

\* What the team of a leaf does to its label and to the entry of its digest.
LEMMA LeafExact ==
  ASSUME ObjectTrue, NEW leaf \in todo, DedupLeaf(leaf)
  PROVE  LET digest == LeafDigest(leaf)
             seen == digest \in DOMAIN first_ocur
             seenNow == seen /\ first_ocur[digest].tree = current_id
         IN  /\ labels'[leaf] = IF digest = tree[leaf] THEN "FIXED_DUPL"
                                ELSE IF seen /\ ~seenNow THEN "SHIFT_DUPL" ELSE "FIRST_OCUR"
             /\ seenNow /\ digest # tree[leaf] =>
                  first_ocur'[digest] = NodeID(LowerOf(first_ocur[digest].node, leaf), current_id)
             /\ ~seen => first_ocur'[digest] = NodeID(leaf, current_id)
             /\ \A d \in DOMAIN first_ocur :
                  first_ocur'[d] # first_ocur[d] => d = digest /\ seenNow
             /\ \A d \in DOMAIN first_ocur' \ DOMAIN first_ocur : d = digest
             /\ DOMAIN first_ocur \subseteq DOMAIN first_ocur'
<1> DEFINE digest == LeafDigest(leaf)
           seen == digest \in DOMAIN first_ocur
           seenNow == seen /\ first_ocur[digest].tree = current_id
           Recorded(node) == first_ocur' = [d \in DOMAIN first_ocur \cup {digest} |->
             IF d = digest THEN NodeID(node, current_id) ELSE first_ocur[d]]
<1>1. /\ pc = "leaves"
      /\ IF seen
         THEN IF digest # tree[leaf] /\ seenNow
              THEN Recorded(LowerOf(first_ocur[digest].node, leaf))
              ELSE UNCHANGED first_ocur
         ELSE Recorded(leaf)
      /\ \/ digest = tree[leaf] /\ labels' = [labels EXCEPT ![leaf] = "FIXED_DUPL"]
         \/ /\ digest # tree[leaf] /\ (~seen \/ seenNow)
            /\ labels' = [labels EXCEPT ![leaf] = "FIRST_OCUR"]
         \/ /\ digest # tree[leaf] /\ seen /\ ~seenNow
            /\ labels' = [labels EXCEPT ![leaf] = "SHIFT_DUPL"]
  BY DEF DedupLeaf, LeafDigest
<1> HIDE DEF digest
<1>2. leaf \in Nodes /\ labels \in [Nodes -> Kinds]
  BY <1>1, TreeShape DEF ObjectTrue, Kernels
<1>3. labels'[leaf] = IF digest = tree[leaf] THEN "FIXED_DUPL"
                      ELSE IF seen /\ ~seenNow THEN "SHIFT_DUPL" ELSE "FIRST_OCUR"
  BY <1>1, <1>2
<1>4. ASSUME NEW node, Recorded(node)
      PROVE  /\ DOMAIN first_ocur' = DOMAIN first_ocur \cup {digest}
             /\ \A d \in DOMAIN first_ocur : d # digest => first_ocur'[d] = first_ocur[d]
             /\ first_ocur'[digest] = NodeID(node, current_id)
  BY <1>4
<1> HIDE DEF Recorded
<1>5. seenNow /\ digest # tree[leaf] =>
        first_ocur'[digest] = NodeID(LowerOf(first_ocur[digest].node, leaf), current_id)
  BY <1>1, <1>4
<1>6. ~seen => first_ocur'[digest] = NodeID(leaf, current_id)
  BY <1>1, <1>4
<1>7. /\ \A d \in DOMAIN first_ocur : first_ocur'[d] # first_ocur[d] => d = digest /\ seenNow
      /\ \A d \in DOMAIN first_ocur' \ DOMAIN first_ocur : d = digest
      /\ DOMAIN first_ocur \subseteq DOMAIN first_ocur'
  BY <1>1, <1>4
<1> QED
  BY <1>3, <1>5, <1>6, <1>7 DEF digest

LEMMA LeafComparable ==
  ASSUME ObjectTrue, DigestsKnown, LabelsTrue, MapClosed, EntriesNew, Comparable,
         NEW leaf \in todo, DedupLeaf(leaf), UNCHANGED prior
  PROVE  Comparable'
<1> SUFFICES ASSUME Compared' PROVE (PriorTrue /\ LeafLabels /\ NodeLabels)'
  BY DEF Comparable
<1> DEFINE digest == LeafDigest(leaf)
<1>1. /\ pc = "leaves" /\ pc' = pc /\ todo' = todo \ {leaf} /\ tree'[leaf] = digest
      /\ leaf \in LeafNodes /\ leaf \in Nodes
      /\ \A u \in Nodes \ {leaf} : tree'[u] = tree[u] /\ labels'[u] = labels[u]
      /\ UNCHANGED <<current_id, spoiled, baseline, data, prior>>
      /\ DOMAIN first_ocur' = DOMAIN first_ocur \cup {digest}
      /\ todo \subseteq LeafNodes
  BY LeafStep DEF DedupLeaf, ObjectTrue
<1>2. Compared /\ PriorTrue /\ LeafLabels
  BY <1>1 DEF Compared, Comparable
<1>3. /\ \A u \in LeafNodes : u \in Nodes
      /\ \A u \in Nodes : u \in Int
      /\ \A u : LeafDigest(u)' = LeafDigest(u) /\ LeafKind(u)' = LeafKind(u)
  BY <1>1, TreeShape DEF LeafDigest, LeafKind
<1>4. /\ labels'[leaf] =
             IF digest = tree[leaf] THEN "FIXED_DUPL"
             ELSE IF digest \in DOMAIN first_ocur /\ first_ocur[digest].tree # current_id
                  THEN "SHIFT_DUPL" ELSE "FIRST_OCUR"
      /\ digest \in DOMAIN first_ocur /\ first_ocur[digest].tree = current_id /\ digest # tree[leaf]
           => first_ocur'[digest] = NodeID(LowerOf(first_ocur[digest].node, leaf), current_id)
      /\ digest \notin DOMAIN first_ocur => first_ocur'[digest] = NodeID(leaf, current_id)
      /\ \A d \in DOMAIN first_ocur : first_ocur'[d] # first_ocur[d] =>
           d = digest /\ first_ocur[digest].tree = current_id
      /\ \A d \in DOMAIN first_ocur' \ DOMAIN first_ocur : d = digest
  BY LeafExact
<1>5. tree[leaf] = prior.tree[leaf]
  BY <1>1, <1>2 DEF LeafLabels
<1>6. digest \in Digests /\ digest # NoDigest
  <2>1. data \in Data /\ leaf - (NumChunks - 1) \in Chunks
    BY <1>1, TreeShape DEF ObjectTrue, Kernels, LeafNodes, Leaves, NumNodes, Chunks
  <2> QED
    BY <2>1, HashAssumption DEF LeafDigest, Data
<1>7. digest = tree[leaf] => digest \in DOMAIN first_ocur
  BY <1>1, <1>6 DEF MapClosed, Kernels
<1>8. /\ DOMAIN prior.map \subseteq DOMAIN first_ocur
      /\ \A d \in DOMAIN first_ocur : d \in DOMAIN prior.map <=> first_ocur[d].tree # current_id
  BY <1>2 DEF PriorTrue
<1>9. \A n, m : NodeID(n, m).node = n /\ NodeID(n, m).tree = m
  BY DEF NodeID
<1> HIDE DEF digest
<1>10. labels'[leaf] = LeafKind(leaf)
  <2>1. digest = tree[leaf] <=> digest = prior.tree[leaf]
    BY <1>5
  <2>2. digest \in DOMAIN first_ocur /\ first_ocur[digest].tree # current_id
        <=> digest \in DOMAIN prior.map
    BY <1>8
  <2> QED
    BY <1>4, <2>1, <2>2 DEF LeafKind, digest
<1>11. PriorTrue'
  <2>1. \A d \in DOMAIN first_ocur :
          first_ocur'[d] = first_ocur[d]
          \/ (first_ocur[d].tree = current_id /\ first_ocur'[d].tree = current_id)
    <3> SUFFICES ASSUME NEW d \in DOMAIN first_ocur, first_ocur'[d] # first_ocur[d]
                 PROVE  first_ocur[d].tree = current_id /\ first_ocur'[d].tree = current_id
      OBVIOUS
    <3>1. d = digest /\ first_ocur[digest].tree = current_id
      BY <1>4
    <3>2. CASE digest # tree[leaf]
      BY <1>4, <1>9, <3>1, <3>2
    <3>3. CASE digest = tree[leaf]
      <4>1. digest \in DOMAIN prior.map
        BY <1>2, <1>5, <1>6, <1>1, <3>3 DEF PriorTrue
      <4> QED
        BY <1>8, <3>1, <4>1
    <3> QED
      BY <3>2, <3>3
  <2>2. \A d \in DOMAIN first_ocur' \ DOMAIN first_ocur : first_ocur'[d].tree = current_id
    BY <1>4, <1>9
  <2> QED
    BY <1>1, <1>2, <2>1, <2>2, PriorKept
<1>12. ASSUME NEW u \in LeafNodes \ todo', LeafKind(u) = "FIRST_OCUR"
       PROVE  first_ocur'[LeafDigest(u)].node <= u
  <2> DEFINE d == LeafDigest(u)
  <2>1. d \notin DOMAIN prior.map
    BY <1>12 DEF LeafKind
  <2>2. CASE d \in DOMAIN first_ocur
    <3>1. first_ocur[d].tree = current_id /\ first_ocur[d].node \in Nodes
      BY <1>8, <2>1, <2>2 DEF ObjectTrue
    <3>2. first_ocur[d].node \in Int /\ leaf \in Int /\ u \in Int
      BY <1>1, <1>3, <3>1
    <3>3. CASE d # digest
      <4>1. u # leaf
        BY <3>3 DEF digest
      <4>2. first_ocur[d].node <= u
        BY <1>1, <1>2, <1>12, <4>1 DEF LeafLabels
      <4>3. first_ocur'[d] = first_ocur[d]
        BY <1>4, <2>2, <3>3
      <4> QED
        BY <4>2, <4>3
    <3>4. CASE d = digest
      <4>1. digest # tree[leaf]
        <5>1. digest = prior.tree[leaf] => digest \in DOMAIN prior.map
          BY <1>1, <1>2, <1>6 DEF PriorTrue
        <5> QED
          BY <1>5, <2>1, <3>4, <5>1
      <4>2. first_ocur'[d].node = LowerOf(first_ocur[d].node, leaf)
        BY <1>4, <1>9, <2>2, <3>1, <3>4, <4>1
      <4>3. CASE u = leaf
        BY <3>2, <4>2, <4>3 DEF LowerOf
      <4>4. CASE u # leaf
        <5>1. first_ocur[d].node <= u
          BY <1>1, <1>2, <1>12, <4>4 DEF LeafLabels
        <5> QED
          BY <3>2, <4>2, <5>1 DEF LowerOf
      <4> QED
        BY <4>3, <4>4
    <3> QED
      BY <3>3, <3>4
  <2>3. CASE d \notin DOMAIN first_ocur
    <3>1. u = leaf
      BY <1>1, <1>12, <2>3 DEF DigestsKnown, Kernels
    <3>2. first_ocur'[d] = NodeID(leaf, current_id)
      BY <1>4, <2>3, <3>1 DEF digest
    <3> QED
      BY <1>3, <1>9, <3>1, <3>2
  <2> QED
    BY <2>2, <2>3
<1>13. LeafLabels'
  <2>1. \A u \in todo' : tree'[u] = prior'.tree[u]
    BY <1>1, <1>2, <1>3 DEF LeafLabels
  <2>2. \A u \in LeafNodes \ todo' : labels'[u] = LeafKind(u)
    BY <1>1, <1>2, <1>3, <1>10 DEF LeafLabels
  <2> QED
    BY <1>1, <1>3, <1>12, <2>1, <2>2 DEF LeafLabels, Forests
<1> QED
  BY <1>1, <1>11, <1>13 DEF NodeLabels, Second

\* The entry of a new digest names the lowest of the leaves that have it.
LEMMA ChooseComparable ==
  ASSUME ObjectTrue, DigestsKnown, LabelsTrue, MapClosed, EntriesNew, Comparable, ChooseFirst,
         UNCHANGED prior
  PROVE  Comparable'
<1> SUFFICES ASSUME Compared' PROVE (PriorTrue /\ LeafLabels /\ NodeLabels)'
  BY DEF Comparable
<1>1. /\ pc = "leaves" /\ pc' = "first" /\ todo = {}
      /\ UNCHANGED <<tree, first_ocur, current_id, spoiled, baseline, data, prior>>
      /\ \A u \in LeafNodes : labels'[u] = IF NotTheLowest(u) THEN "SHIFT_DUPL" ELSE labels[u]
  BY TreeShape DEF ChooseFirst
<1>2. Compared /\ PriorTrue /\ LeafLabels
  BY <1>1 DEF Compared, Kernels, Comparable
<1>3. PriorTrue'
  BY <1>1, <1>2 DEF PriorTrue
<1>4. \A u : LeafDigest(u)' = LeafDigest(u) /\ LeafKind(u)' = LeafKind(u) /\ Lowest(u)' = Lowest(u)
  BY <1>1 DEF LeafDigest, LeafKind, Lowest
<1>5. ASSUME NEW u \in LeafNodes, LeafKind(u) = "FIRST_OCUR"
      PROVE  NotTheLowest(u) <=> ~Lowest(u)
  <2> DEFINE d == LeafDigest(u)
             n == first_ocur[d].node
  <2>1. labels[u] = "FIRST_OCUR" /\ tree[u] = d /\ d \in DOMAIN first_ocur
    BY <1>1, <1>2, <1>5 DEF LeafLabels, DigestsKnown, Kernels
  <2>2. first_ocur[d].tree = current_id
    BY <1>2, <1>5, <2>1 DEF LeafKind, PriorTrue
  <2>3. tree[n] = d /\ labels[n] = "FIRST_OCUR" /\ n \in Nodes
    BY <1>1, <1>2, <2>1, <2>2 DEF EntriesNew, Compared, Kernels, Second, ObjectTrue
  <2>4. n \in LeafNodes
    BY <1>1, <2>3, TreeShape DEF LabelsTrue
  <2>5. LeafDigest(n) = d
    BY <1>1, <2>3, <2>4 DEF DigestsKnown, Kernels
  <2>6. ASSUME NEW v \in LeafNodes, LeafDigest(v) = d PROVE n <= v
    <3>1. LeafKind(v) = "FIRST_OCUR"
      <4>1. d \notin DOMAIN prior.map /\ d # NoDigest
        BY <1>5, <2>1, HashAssumption DEF LeafKind, MapClosed
      <4> QED
        BY <1>2, <2>6, <4>1 DEF LeafKind, PriorTrue
    <3> QED
      BY <1>1, <1>2, <2>6, <3>1 DEF LeafLabels
  <2>7. \A v \in LeafNodes : v \in Int
    BY TreeShape
  <2>8. NotTheLowest(u) <=> n # u
    BY <2>1, <2>2 DEF NotTheLowest
  <2> HIDE DEF d, n
  <2>9. n = u => \A v \in LeafNodes : LeafDigest(v) = d => u <= v
    BY <2>6
  <2>10. n # u => ~(u <= n)
    BY <1>5, <2>4, <2>6, <2>7 DEF d
  <2> QED
    BY <2>4, <2>5, <2>8, <2>9, <2>10 DEF Lowest, d
<1>6. LeafLabels'
  <2>1. ASSUME NEW u \in LeafNodes
        PROVE  labels'[u] = IF LeafKind(u) = "FIRST_OCUR" /\ ~Lowest(u) THEN "SHIFT_DUPL"
                            ELSE LeafKind(u)
    <3>1. labels[u] = LeafKind(u)
      BY <1>1, <1>2 DEF LeafLabels
    <3>2. CASE LeafKind(u) = "FIRST_OCUR"
      BY <1>1, <1>5, <3>1, <3>2
    <3>3. CASE LeafKind(u) # "FIRST_OCUR"
      BY <1>1, <3>1, <3>3 DEF NotTheLowest
    <3> QED
      BY <3>2, <3>3
  <2> QED
    BY <1>1, <1>4, <2>1 DEF LeafLabels, Forests
<1> QED
  BY <1>1, <1>3, <1>6 DEF NodeLabels, Second

-----------------------------------------------------------------------------
(* The kernels: NodeLabels *)

LEMMA FirstComparable ==
  ASSUME ObjectTrue, LevelTrue, LabelsTrue, Comparable, FirstForest, UNCHANGED prior
  PROVE  Comparable'
<1> SUFFICES ASSUME Compared' PROVE (PriorTrue /\ LeafLabels /\ NodeLabels)'
  BY DEF Comparable
<1> DEFINE inner == InnerNodes(level, NumChunks)
           new == {u \in inner : Both(u, "FIRST_OCUR")}
<1>1. /\ pc = "first" /\ pc' = pc /\ inner \subseteq Inner
      /\ \A u \in Nodes \ new : labels'[u] = labels[u]
      /\ first_ocur' \in Inserted(first_ocur, tree', new)
      /\ UNCHANGED <<current_id, spoiled, baseline, data, prior>>
  BY FirstStep DEF FirstForest
<1>2. Compared /\ PriorTrue /\ LeafLabels
  BY <1>1 DEF Compared, Comparable
<1>3. \A u : LeafDigest(u)' = LeafDigest(u) /\ LeafKind(u)' = LeafKind(u) /\ Lowest(u)' = Lowest(u)
  BY <1>1 DEF LeafDigest, LeafKind, Lowest
<1>4. /\ DOMAIN first_ocur \subseteq DOMAIN first_ocur'
      /\ \A d \in DOMAIN first_ocur : first_ocur'[d] = first_ocur[d]
      /\ \A d \in DOMAIN first_ocur' \ DOMAIN first_ocur :
           \E u : first_ocur'[d] = NodeID(u, current_id)
  <2> HIDE DEF new
  <2> QED
    BY <1>1, InsertedTrue DEF ObjectTrue
<1>5. PriorTrue'
  <2>1. \A u : NodeID(u, current_id).tree = current_id
    BY DEF NodeID
  <2>2. \A d \in DOMAIN first_ocur' \ DOMAIN first_ocur : first_ocur'[d].tree = current_id
    BY <1>4, <2>1
  <2> QED
    BY <1>1, <1>2, <1>4, <2>2, PriorKept
<1>6. \A u \in LeafNodes : labels'[u] = labels[u]
  BY <1>1, TreeShape
<1>7. LeafLabels'
  BY <1>1, <1>2, <1>3, <1>6 DEF LeafLabels, Forests
<1> QED
  BY <1>1, <1>5, <1>7 DEF NodeLabels, Second

\* A step after the leaf kernel that leaves the map and the leaves' labels alone.
LEMMA LeavesKept ==
  ASSUME Comparable, Compared, pc \in Forests, pc' \in Forests,
         UNCHANGED <<current_id, data, prior, first_ocur>>,
         \A u \in LeafNodes : labels'[u] = labels[u]
  PROVE  PriorTrue' /\ LeafLabels'
<1>1. PriorTrue /\ LeafLabels
  BY DEF Comparable
<1>2. PriorTrue'
  BY <1>1 DEF PriorTrue
<1>3. \A u : LeafDigest(u)' = LeafDigest(u) /\ LeafKind(u)' = LeafKind(u) /\ Lowest(u)' = Lowest(u)
  BY DEF LeafDigest, LeafKind, Lowest
<1> QED
  BY <1>1, <1>2, <1>3 DEF LeafLabels, Forests

LEMMA EndComparable ==
  ASSUME LabelsTrue, RootsTrue, Comparable, EndFirstForest \/ EndBuildForest, UNCHANGED prior
  PROVE  Comparable'
<1> SUFFICES ASSUME Compared' PROVE (PriorTrue /\ LeafLabels /\ NodeLabels)'
  BY DEF Comparable
<1>1. /\ pc \in Forests /\ pc' \in Forests
      /\ UNCHANGED <<tree, labels, first_ocur, first_ocur_vec, shift_dupl_vec,
                     current_id, spoiled, baseline, data, prior>>
  BY DEF EndFirstForest, EndBuildForest, dedupVars, Forests
<1>2. Compared
  BY <1>1 DEF Compared, Kernels, Forests
<1>3. PriorTrue' /\ LeafLabels'
  BY <1>1, <1>2, LeavesKept
<1>4. CASE EndFirstForest
  <2>1. pc = "first" /\ pc' = "forest" /\ level' = BottomLevel(Size)
    BY <1>4 DEF EndFirstForest
  <2>2. Visited' = {}
    BY <2>1, LevelBottom
  <2>3. \A u \in Inner : labels'[u] # "SHIFT_DUPL"
    BY <1>1, <2>1 DEF LabelsTrue
  <2>4. first_ocur_vec' \subseteq {0} /\ shift_dupl_vec' = {}
    BY <1>1, <2>1 DEF RootsTrue
  <2> QED
    BY <1>3, <2>2, <2>3, <2>4 DEF NodeLabels
<1>5. CASE EndBuildForest
  <2>1. pc = "forest" /\ pc' = "collect" /\ level' = level
    BY <1>5 DEF EndBuildForest
  <2>2. Visited' = Visited
    BY <2>1 DEF Visited
  <2>3. NodeLabels
    BY <1>2 DEF Comparable
  <2>4. \A u, l : (Both(u, l)' <=> Both(u, l)) /\ HashOfChildren(tree, u)' = HashOfChildren(tree, u)
    BY <1>1 DEF Both, HashOfChildren
  <2> QED
    BY <1>1, <1>3, <2>1, <2>2, <2>3, <2>4 DEF NodeLabels, Second
<1> QED
  BY <1>4, <1>5

\* Where both children are shifted, or unchanged, the kernel of the second forest
\* labels by them and by the map.
LEMMA BuildExact ==
  ASSUME ObjectTrue, LevelTrue, BuildForest, ~baseline,
         NEW u \in InnerNodes(level, NumChunks)
  PROVE  /\ Both(u, "FIXED_DUPL") => labels'[u] = "FIXED_DUPL"
         /\ Both(u, "SHIFT_DUPL") =>
              (labels'[u] = "SHIFT_DUPL" <=> HashOfChildren(tree, u) \in DOMAIN first_ocur)
<1> DEFINE inner == InnerNodes(level, NumChunks)
           both(l) == {v \in inner : labels[Left(v)] = l /\ labels[Right(v)] = l}
           mixed == {v \in inner : labels[Left(v)] # labels[Right(v)]}
           newTree == TreeToLookUp(both("SHIFT_DUPL"))
           shifted == {v \in both("SHIFT_DUPL") : newTree[v] \in DOMAIN first_ocur}
           ended == mixed \cup (both("SHIFT_DUPL") \ shifted)
<1>1. /\ LevelInTree(level, Size)
      /\ labels' = [v \in Nodes |->
           CASE v \in ended -> "DONE"
             [] v \in shifted -> "SHIFT_DUPL"
             [] v \in both("FIXED_DUPL") -> "FIXED_DUPL"
             [] OTHER -> labels[v]]
      /\ pc = "forest"
  BY DEF BuildForest
<1>2. u \in Nodes
  BY <1>1, LevelNodes, TreeShape DEF LevelTrue
<1>3. CASE Both(u, "FIXED_DUPL")
  <2>1. u \in both("FIXED_DUPL") /\ u \notin both("SHIFT_DUPL") /\ u \notin mixed
    BY <1>3 DEF Both
  <2> HIDE DEF both, mixed, newTree
  <2> QED
    BY <1>1, <1>2, <1>3, <2>1 DEF Both
<1>4. CASE Both(u, "SHIFT_DUPL")
  <2>1. u \in both("SHIFT_DUPL") /\ u \notin both("FIXED_DUPL") /\ u \notin mixed
    BY <1>4 DEF Both
  <2>2. newTree[u] = HashOfChildren(tree, u)
    BY <1>2, <2>1 DEF TreeToLookUp
  <2> HIDE DEF both, mixed, newTree
  <2>3. u \in shifted <=> HashOfChildren(tree, u) \in DOMAIN first_ocur
    BY <2>1, <2>2
  <2>4. u \in ended <=> u \notin shifted
    BY <2>1
  <2> HIDE DEF shifted, ended
  <2>5. u \in shifted => labels'[u] = "SHIFT_DUPL"
    BY <1>1, <1>2, <2>1, <2>4
  <2>6. u \in ended => labels'[u] = "DONE"
    BY <1>1, <1>2, <2>1, <2>4
  <2>7. ~Both(u, "FIXED_DUPL")
    BY <1>4 DEF Both
  <2> QED
    BY <2>3, <2>4, <2>5, <2>6, <2>7
<1> QED
  BY <1>3, <1>4

LEMMA BuildComparable ==
  ASSUME ObjectTrue, LevelTrue, LabelsTrue, Comparable, BuildForest, UNCHANGED prior
  PROVE  Comparable'
<1> SUFFICES ASSUME Compared' PROVE (PriorTrue /\ LeafLabels /\ NodeLabels)'
  BY DEF Comparable
<1> DEFINE inner == InnerNodes(level, NumChunks)
<1>1. /\ pc = "forest" /\ pc' \in {"forest", "insert"}
      /\ UNCHANGED <<first_ocur, current_id, spoiled, baseline, data, prior>>
  BY BuildStep DEF BuildForest
<1>2. ~baseline /\ Compared
  BY <1>1 DEF Compared, Kernels
<1>3. /\ inner \subseteq Inner /\ inner \cap Visited = {} /\ Labelled = Visited
      /\ Visited' = Visited \cup inner
      /\ \A u \in Nodes : tree'[u] = tree[u] \/ u \in inner
      /\ \A u \in Nodes \ inner : labels'[u] = labels[u]
      /\ \A u \in inner : labels'[u] = "SHIFT_DUPL" => tree'[u] = HashOfChildren(tree, u)
      /\ \A w \in first_ocur_vec' \ first_ocur_vec :
           \E u \in inner : labels'[u] = "DONE" /\ w \in {Left(u), Right(u)}
      /\ \A w \in shift_dupl_vec' \ shift_dupl_vec :
           \E u \in inner : labels'[u] = "DONE" /\ w \in {Left(u), Right(u)}
  BY <1>2, BuildStep
<1>4. \A u \in inner :
        /\ Both(u, "FIXED_DUPL") => labels'[u] = "FIXED_DUPL"
        /\ Both(u, "SHIFT_DUPL") =>
             (labels'[u] = "SHIFT_DUPL" <=> HashOfChildren(tree, u) \in DOMAIN first_ocur)
  BY <1>2, BuildExact
<1>5. \A u \in Visited \cup inner : {Left(u), Right(u)} \subseteq LeafNodes \cup Visited
  BY LevelNodes DEF BuildForest, LevelTrue
<1>6. /\ \A u \in Inner \ Visited : labels[u] \in {"FIRST_OCUR", "DONE"}
      /\ \A u \in Inner : labels[u] = "SHIFT_DUPL" => Both(u, "SHIFT_DUPL")
  BY <1>1, <1>3 DEF LabelsTrue, Second
<1>7. NodeLabels
  BY <1>2 DEF Comparable
<1>8. Visited \subseteq Inner
  BY DEF Visited
<1> HIDE DEF inner
<1>9. PriorTrue' /\ LeafLabels'
  <2>1. \A u \in LeafNodes : labels'[u] = labels[u]
    BY <1>3, TreeShape
  <2> QED
    BY <1>1, <1>2, <2>1, LeavesKept DEF Forests
<1>10. ASSUME NEW u \in Visited \cup inner
       PROVE  /\ \A l : Both(u, l)' <=> Both(u, l)
              /\ HashOfChildren(tree, u)' = HashOfChildren(tree, u)
  <2>1. {Left(u), Right(u)} \subseteq Nodes \ inner
    BY <1>3, <1>5, <1>8, TreeShape
  <2>2. \A w \in {Left(u), Right(u)} : tree'[w] = tree[w] /\ labels'[w] = labels[w]
    BY <1>3, <2>1
  <2> QED
    BY <2>2 DEF Both, HashOfChildren
<1>11. ASSUME NEW u \in Visited
       PROVE  /\ Both(u, "FIXED_DUPL") => labels'[u] = "FIXED_DUPL"
              /\ Both(u, "SHIFT_DUPL") =>
                   (labels'[u] = "SHIFT_DUPL" <=> HashOfChildren(tree, u) \in DOMAIN first_ocur)
              /\ labels'[u] = labels[u] /\ tree'[u] = tree[u]
  <2>1. u \in Nodes \ inner
    BY <1>3, <1>8, TreeShape
  <2>2. labels'[u] = labels[u] /\ tree'[u] = tree[u]
    BY <1>3, <2>1
  <2> QED
    BY <1>1, <1>7, <2>2 DEF NodeLabels, Second
<1>12. ASSUME NEW u \in Inner, labels'[u] = "SHIFT_DUPL"
       PROVE  tree'[u] = HashOfChildren(tree, u) /\ u \in Visited \cup inner
  <2>1. CASE u \in inner
    BY <1>3, <1>12, <2>1
  <2>2. CASE u \notin inner
    <3>1. labels[u] = "SHIFT_DUPL"
      BY <1>3, <1>12, <2>2, TreeShape
    <3>2. u \in Visited
      BY <1>6, <3>1
    <3> QED
      BY <1>1, <1>7, <1>11, <3>1, <3>2 DEF NodeLabels, Second
  <2> QED
    BY <2>1, <2>2
<1>13. ASSUME NEW w \in (first_ocur_vec' \ {0}) \cup shift_dupl_vec'
       PROVE  \E u \in Visited' : labels'[u] = "DONE" /\ w \in {Left(u), Right(u)}
  <2>1. CASE w \in (first_ocur_vec \ {0}) \cup shift_dupl_vec
    <3>1. PICK u \in Visited : labels[u] = "DONE" /\ w \in {Left(u), Right(u)}
      BY <1>1, <1>7, <2>1 DEF NodeLabels, Second
    <3> QED
      BY <1>3, <1>11, <3>1
  <2>2. CASE w \notin (first_ocur_vec \ {0}) \cup shift_dupl_vec
    BY <1>3, <1>13, <2>2
  <2> QED
    BY <2>1, <2>2
<1>14. NodeLabels'
  <2>1. \A u \in Visited' : Both(u, "FIXED_DUPL")' => labels'[u] = "FIXED_DUPL"
    BY <1>3, <1>4, <1>10, <1>11
  <2>2. \A u \in Visited' : Both(u, "SHIFT_DUPL")' =>
          (labels'[u] = "SHIFT_DUPL" <=> HashOfChildren(tree, u)' \in DOMAIN first_ocur')
    BY <1>1, <1>3, <1>4, <1>10, <1>11
  <2>3. \A u \in Inner : labels'[u] = "SHIFT_DUPL" => tree'[u] = HashOfChildren(tree, u)'
    BY <1>10, <1>12
  <2> QED
    BY <1>13, <2>1, <2>2, <2>3 DEF NodeLabels
<1> QED
  BY <1>9, <1>14

LEMMA ComparableInit == ReferenceInit => Comparable
BY DEF ReferenceInit, Init, Comparable, Compared, Kernels

LEMMA ComparableStep ==
  ASSUME Coherent, LevelTrue, Exact, Comparable, [ReferenceNext]_referenceVars
  PROVE  Comparable'
<1>1. /\ ObjectTrue /\ LabelsTrue /\ DigestsKnown /\ RootsTrue
      /\ MapClosed /\ EntriesNew /\ BaselineTrue
  BY DEF Coherent, Exact
<1>2. [Next]_vars /\ (ReferenceNext \/ UNCHANGED <<vars, prior>>)
  BY DEF ReferenceNext, referenceVars
<1>3. ASSUME pc # "idle" \/ pc' # "leaves" PROVE UNCHANGED prior
  BY <1>2, <1>3 DEF ReferenceNext
<1>4. ASSUME NEW e \in Data, NEW make_baseline \in BOOLEAN, Checkpoint(e, make_baseline)
      PROVE  Comparable'
  <2>1. pc' # pc
    BY <1>4 DEF Checkpoint
  <2>2. ReferenceNext
    BY <1>2, <2>1 DEF vars
  <2> QED
    BY <1>1, <1>4, <2>2, CheckpointComparable
<1>5. ASSUME NEW leaf \in todo, DedupLeaf(leaf) PROVE Comparable'
  <2>1. UNCHANGED prior
    BY <1>3, <1>5 DEF DedupLeaf
  <2> QED
    BY <1>1, <1>5, <2>1, LeafComparable
<1>6. CASE ChooseFirst
  <2>1. UNCHANGED prior
    BY <1>3, <1>6 DEF ChooseFirst
  <2> QED
    BY <1>1, <1>6, <2>1, ChooseComparable
<1>7. CASE FirstForest
  <2>1. UNCHANGED prior
    BY <1>3, <1>7 DEF FirstForest
  <2> QED
    BY <1>1, <1>7, <2>1, FirstComparable
<1>8. CASE EndFirstForest \/ EndBuildForest
  <2>1. UNCHANGED prior
    BY <1>3, <1>8 DEF EndFirstForest, EndBuildForest
  <2> QED
    BY <1>1, <1>8, <2>1, EndComparable
<1>9. CASE BuildForest
  <2>1. UNCHANGED prior
    BY <1>3, <1>9 DEF BuildForest
  <2> QED
    BY <1>1, <1>9, <2>1, BuildComparable
<1>10. CASE InsertEntries
  <2>1. baseline'
    BY <1>1, <1>10 DEF InsertEntries, BaselineTrue
  <2> QED
    BY <2>1 DEF Comparable, Compared
<1>11. CASE FinishCheckpoint \/ FailToWrite
  <2>1. pc' = "idle"
    BY <1>11 DEF FinishCheckpoint, FailToWrite
  <2> QED
    BY <2>1 DEF Comparable, Compared, Kernels
<1>12. CASE Aside
  <2>1. CASE pc' \in Kernels
    <3>1. pc' = pc /\ UNCHANGED <<dedupVars, todo, level, prior>>
      BY <1>3, <1>12, <2>1 DEF Aside, Kernels
    <3> QED
      BY <3>1 DEF dedupVars, Comparable, Compared, PriorTrue, LeafLabels, LeafKind, Lowest,
         LeafDigest, NodeLabels, Visited, Both, HashOfChildren
  <2>2. CASE pc' \notin Kernels
    BY <2>2 DEF Comparable, Compared
  <2> QED
    BY <2>1, <2>2
<1> QED
  BY <1>2, <1>4, <1>5, <1>6, <1>7, <1>8, <1>9, <1>10, <1>11, <1>12, Steps

-----------------------------------------------------------------------------
(* What the kernels end with *)

\* Each node by its digest, its children and the map.
Found ==
  /\ labels \in [Nodes -> Kinds] /\ FcnOn(first_ocur, DOMAIN first_ocur)
  /\ \A u \in Nodes : labels[u] = "FIRST_OCUR" =>
       /\ tree[u] \in DOMAIN first_ocur
       /\ first_ocur[tree[u]] = NodeID(u, current_id)
  /\ \A d \in DOMAIN first_ocur \ DOMAIN prior.map :
       \E u \in Nodes : labels[u] = "FIRST_OCUR" /\ tree[u] = d
  /\ \A u \in LeafNodes :
       /\ tree[u] = LeafDigest(u) /\ tree[u] \in DOMAIN first_ocur /\ tree[u] # NoDigest
       /\ labels[u] = IF LeafKind(u) = "FIRST_OCUR" /\ ~Lowest(u) THEN "SHIFT_DUPL"
                      ELSE LeafKind(u)
  /\ \A u \in Inner :
       /\ labels[u] = "FIRST_OCUR" <=> Both(u, "FIRST_OCUR")
       /\ labels[u] = "FIXED_DUPL" <=> Both(u, "FIXED_DUPL")
       /\ labels[u] = "SHIFT_DUPL" <=>
            Both(u, "SHIFT_DUPL") /\ HashOfChildren(tree, u) \in DOMAIN first_ocur
       /\ labels[u] \in {"FIRST_OCUR", "SHIFT_DUPL"} => tree[u] = HashOfChildren(tree, u)

\* The roots of regions: children of nodes where regions end.
Ends(w) == \E u \in Inner : labels[u] = "DONE" /\ w \in {Left(u), Right(u)}

PushedExact ==
  /\ \A w : w \in first_ocur_vec <=>
       w \in Nodes /\ labels[w] = "FIRST_OCUR" /\ (w = 0 \/ Ends(w))
  /\ \A w : w \in shift_dupl_vec <=> w \in Nodes /\ labels[w] = "SHIFT_DUPL" /\ Ends(w)

LEMMA FoundOf ==
  ASSUME Coherent, LevelTrue, Exact, PushedTrue, Comparable, Compared, pc = "collect"
  PROVE  PriorTrue /\ Found /\ PushedExact
<1>1. /\ ObjectTrue /\ LabelsTrue /\ DigestsKnown /\ RootsTrue /\ MapClosed /\ EntriesNew
      /\ PriorTrue /\ LeafLabels /\ NodeLabels
      /\ pc \in Kernels /\ pc \in Forests /\ pc \in Second /\ todo = {} /\ ~baseline
      /\ current_id \notin spoiled
  BY DEF Coherent, Exact, Comparable, Compared, Kernels, Forests, Second, ObjectTrue
<1>2. Visited = Inner /\ Labelled = Inner
  BY DEF LevelTrue, Visited, Labelled
<1>3. /\ labels \in [Nodes -> Kinds] /\ FcnOn(first_ocur, DOMAIN first_ocur)
  BY <1>1 DEF ObjectTrue
<1>4. ASSUME NEW u \in Nodes, labels[u] = "FIRST_OCUR"
      PROVE  /\ tree[u] \in DOMAIN first_ocur
             /\ first_ocur[tree[u]] = NodeID(u, current_id)
  <2>1. CASE u \in LeafNodes
    BY <1>1, <1>4, <2>1 DEF DigestsKnown
  <2>2. CASE u \in Inner
    BY <1>1, <1>4, <2>2 DEF DigestsKnown, EntriesNew, FirstOcur
  <2> QED
    BY <2>1, <2>2, TreeShape
<1>5. ASSUME NEW d \in DOMAIN first_ocur \ DOMAIN prior.map
      PROVE  \E u \in Nodes : labels[u] = "FIRST_OCUR" /\ tree[u] = d
  <2>1. first_ocur[d].tree = current_id /\ first_ocur[d].node \in Nodes
    BY <1>1 DEF PriorTrue, ObjectTrue
  <2> QED
    BY <1>1, <2>1 DEF EntriesNew
<1>6. ASSUME NEW u \in LeafNodes
      PROVE  /\ tree[u] = LeafDigest(u) /\ tree[u] \in DOMAIN first_ocur /\ tree[u] # NoDigest
             /\ labels[u] = IF LeafKind(u) = "FIRST_OCUR" /\ ~Lowest(u) THEN "SHIFT_DUPL"
                            ELSE LeafKind(u)
  <2>1. tree[u] = LeafDigest(u) /\ tree[u] \in DOMAIN first_ocur
    BY <1>1 DEF DigestsKnown
  <2>2. tree[u] # NoDigest
    BY <1>1, <2>1, HashAssumption DEF MapClosed
  <2> QED
    BY <1>1, <2>1, <2>2 DEF LeafLabels
<1>7. ASSUME NEW u \in Inner
      PROVE  /\ labels[u] = "FIRST_OCUR" <=> Both(u, "FIRST_OCUR")
             /\ labels[u] = "FIXED_DUPL" <=> Both(u, "FIXED_DUPL")
             /\ labels[u] = "SHIFT_DUPL" <=>
                  Both(u, "SHIFT_DUPL") /\ HashOfChildren(tree, u) \in DOMAIN first_ocur
             /\ labels[u] \in {"FIRST_OCUR", "SHIFT_DUPL"} => tree[u] = HashOfChildren(tree, u)
  <2>1. /\ Both(u, "FIRST_OCUR") => labels[u] = "FIRST_OCUR"
        /\ labels[u] # "DONE" => Both(u, labels[u])
    BY <1>1 DEF LabelsTrue
  <2>2. /\ Both(u, "FIXED_DUPL") => labels[u] = "FIXED_DUPL"
        /\ Both(u, "SHIFT_DUPL") =>
             (labels[u] = "SHIFT_DUPL" <=> HashOfChildren(tree, u) \in DOMAIN first_ocur)
        /\ labels[u] = "SHIFT_DUPL" => tree[u] = HashOfChildren(tree, u)
    BY <1>1, <1>2 DEF NodeLabels
  <2>3. labels[u] = "FIRST_OCUR" => tree[u] = HashOfChildren(tree, u)
    BY <1>1 DEF DigestsKnown
  <2> QED
    BY <2>1, <2>2, <2>3
<1>8. Found
  BY <1>3, <1>4, <1>5, <1>6, <1>7 DEF Found
<1>9. ASSUME NEW w, Ends(w)
      PROVE  /\ w \in Nodes /\ (labels[w] = "FIRST_OCUR" => w \in first_ocur_vec)
             /\ (labels[w] = "SHIFT_DUPL" => w \in shift_dupl_vec)
  <2>1. PICK u \in Inner : labels[u] = "DONE" /\ w \in {Left(u), Right(u)}
    BY <1>9 DEF Ends
  <2> QED
    BY <1>1, <1>2, <2>1, TreeShape DEF PushedTrue
<1>10. labels[0] = "FIRST_OCUR" => 0 \in first_ocur_vec
  BY <1>1 DEF PushedTrue
<1>11. ASSUME NEW w \in first_ocur_vec
       PROVE  w \in Nodes /\ labels[w] = "FIRST_OCUR" /\ (w = 0 \/ Ends(w))
  <2>1. w \in Nodes /\ labels[w] = "FIRST_OCUR"
    BY <1>1 DEF RootsTrue
  <2>2. w # 0 => Ends(w)
    BY <1>1, <1>2 DEF NodeLabels, Ends
  <2> QED
    BY <2>1, <2>2
<1>12. ASSUME NEW w \in shift_dupl_vec
       PROVE  w \in Nodes /\ labels[w] = "SHIFT_DUPL" /\ Ends(w)
  <2>1. w \in Nodes /\ labels[w] = "SHIFT_DUPL"
    BY <1>1 DEF RootsTrue
  <2>2. Ends(w)
    BY <1>1, <1>2 DEF NodeLabels, Ends
  <2> QED
    BY <2>1, <2>2
<1>13. PushedExact
  BY <1>9, <1>10, <1>11, <1>12 DEF PushedExact
<1> QED
  BY <1>1, <1>8, <1>13

-----------------------------------------------------------------------------
(* Loops *)

LEMMA Upwards ==
  ASSUME NEW a \in Nat, NEW b \in Nat, NEW S, a \in S,
         \A n \in a .. b : n \in S /\ n < b => n + 1 \in S
  PROVE  \A n \in a .. b : n \in S
<1> SUFFICES ASSUME NEW k \in a .. b, k \notin S PROVE FALSE
  OBVIOUS
<1> DEFINE Bad == {n \in a .. b : n \notin S}
<1>1. Bad \in SUBSET Nat /\ Bad # {}
  OBVIOUS
<1>2. PICK m \in Bad : \A n \in Bad : m <= n
  BY <1>1, LeastElement
<1>3. m \in a .. b /\ m # a
  BY <1>2
<1>4. m - 1 \in a .. b /\ m - 1 < b /\ m - 1 \notin Bad
  BY <1>2, <1>3
<1>5. (m - 1) + 1 \in S
  BY <1>4
<1>6. (m - 1) + 1 = m
  BY <1>3
<1> QED
  BY <1>2, <1>5, <1>6

LEMMA Downwards ==
  ASSUME NEW b \in Nat, NEW S, b \in S, \A n \in 0 .. b : n \in S /\ n > 0 => n - 1 \in S
  PROVE  \A n \in 0 .. b : n \in S
<1> DEFINE T == {k \in 0 .. b : b - k \in S}
<1>1. 0 \in T
  OBVIOUS
<1>2. ASSUME NEW k \in 0 .. b, k \in T, k < b PROVE k + 1 \in T
  <2>1. b - k \in 0 .. b /\ b - k > 0 /\ b - (k + 1) = (b - k) - 1 /\ k + 1 \in 0 .. b
    BY <1>2
  <2> QED
    BY <1>2, <2>1
<1>3. \A k \in 0 .. b : k \in T
  <2> HIDE DEF T
  <2> QED
    BY <1>1, <1>2, Upwards
<1>4. ASSUME NEW n \in 0 .. b PROVE n \in S
  <2>1. b - n \in 0 .. b /\ b - (b - n) = n
    OBVIOUS
  <2>2. b - n \in T
    BY <1>3, <2>1
  <2>3. b - (b - n) \in S
    BY <2>2
  <2> QED
    BY <2>1, <2>3
<1> QED
  BY <1>4

\* The loop over the leaves goes from leaf to leaf.
LEMMA LeavesLoop ==
  /\ LeavesBefore[NumChunks - 1] = ReferenceStart
  /\ \A n \in LeafNodes : LeavesBefore[n + 1] = ReferenceLeaf(LeavesBefore[n], n)
<1> DEFINE a == NumChunks - 1
           Upto(g, b) == g = [n \in a .. b |-> IF n = a THEN ReferenceStart
                                              ELSE ReferenceLeaf(g[n - 1], n - 1)]
           S == {b \in a .. Size : \E g : Upto(g, b)}
<1>1. a \in Nat /\ Size \in Nat /\ a <= Size /\ LeafNodes = a .. Size - 1
  BY TreeShape DEF LeafNodes, Leaves, Size
<1>2. a \in S
  <2>1. Upto([n \in a .. a |-> ReferenceStart], a)
    BY <1>1
  <2>2. a \in a .. Size
    BY <1>1
  <2>3. \E g : Upto(g, a)
    <3> HIDE DEF Upto
    <3> QED
      BY <2>1
  <2> QED
    BY <2>2, <2>3
<1>3. ASSUME NEW b \in a .. Size, b \in S, b < Size PROVE b + 1 \in S
  <2>1. PICK g : Upto(g, b)
    BY <1>3
  <2> DEFINE h == [n \in a .. b + 1 |-> IF n = b + 1 THEN ReferenceLeaf(g[b], b) ELSE g[n]]
  <2>2. \A n \in a .. b : h[n] = g[n]
    BY <1>1
  <2>3. \A n \in a .. b : g[n] = IF n = a THEN ReferenceStart ELSE ReferenceLeaf(g[n - 1], n - 1)
    BY <2>1
  <2>4. \A n \in a .. b + 1 : h[n] = IF n = a THEN ReferenceStart
                                    ELSE ReferenceLeaf(h[n - 1], n - 1)
    <3> SUFFICES ASSUME NEW n \in a .. b + 1
                 PROVE  h[n] = IF n = a THEN ReferenceStart ELSE ReferenceLeaf(h[n - 1], n - 1)
      OBVIOUS
    <3>1. CASE n = b + 1
      <4>1. h[n] = ReferenceLeaf(g[b], b) /\ n # a /\ n - 1 = b
        BY <1>1, <3>1
      <4>2. h[b] = g[b]
        BY <1>1, <2>2
      <4> QED
        BY <4>1, <4>2
    <3>2. CASE n # b + 1 /\ n # a
      <4>1. n \in a .. b /\ n - 1 \in a .. b
        BY <1>1, <3>2
      <4>2. h[n] = g[n] /\ h[n - 1] = g[n - 1]
        BY <2>2, <4>1
      <4> QED
        BY <2>3, <3>2, <4>1, <4>2
    <3>3. CASE n # b + 1 /\ n = a
      BY <1>1, <2>2, <2>3, <3>3
    <3> QED
      BY <3>1, <3>2, <3>3
  <2>5. Upto(h, b + 1)
    <3>1. h = [n \in a .. b + 1 |-> h[n]]
      OBVIOUS
    <3> HIDE DEF h
    <3> QED
      BY <2>4, <3>1
  <2>6. b + 1 \in a .. Size
    BY <1>1, <1>3
  <2> QED
    BY <2>5, <2>6
<1>4. Size \in S
  <2>1. Size \in a .. Size
    BY <1>1
  <2>2. \A b \in a .. Size : b \in S
    <3> HIDE DEF S, a
    <3> QED
      BY <1>1, <1>2, <1>3, Upwards
  <2> QED
    BY <2>1, <2>2
<1>5. Upto(LeavesBefore, Size)
  <2>1. PICK g : Upto(g, Size)
    BY <1>4
  <2> QED
    BY <2>1 DEF LeavesBefore
<1>6. ASSUME NEW n \in LeafNodes PROVE LeavesBefore[n + 1] = ReferenceLeaf(LeavesBefore[n], n)
  <2>1. n + 1 \in a .. Size /\ n + 1 # a /\ (n + 1) - 1 = n
    BY <1>1
  <2> QED
    BY <1>5, <2>1
<1> QED
  BY <1>1, <1>5, <1>6

\* The first loop over the inner nodes goes from node to node, downwards.
LEMMA FirstsLoop ==
  /\ FirstsFrom[NumChunks - 1] = LeavesBefore[Size]
  /\ \A n \in Inner : FirstsFrom[n] = ReferenceFirst(FirstsFrom[n + 1], n)
<1> DEFINE a == NumChunks - 1
           Downto(g, b) == g = [n \in b .. a |-> IF n = a THEN LeavesBefore[Size]
                                                ELSE ReferenceFirst(g[n + 1], n)]
           S == {b \in 0 .. a : \E g : Downto(g, b)}
<1>1. a \in Nat /\ Inner = 0 .. a - 1
  BY TreeShape DEF Inner
<1>2. a \in S
  <2>1. Downto([n \in a .. a |-> LeavesBefore[Size]], a)
    BY <1>1
  <2>2. a \in 0 .. a
    BY <1>1
  <2>3. \E g : Downto(g, a)
    <3> HIDE DEF Downto
    <3> QED
      BY <2>1
  <2> QED
    BY <2>2, <2>3
<1>3. ASSUME NEW b \in 0 .. a, b \in S, b > 0 PROVE b - 1 \in S
  <2>1. PICK g : Downto(g, b)
    BY <1>3
  <2> DEFINE h == [n \in b - 1 .. a |-> IF n = b - 1 THEN ReferenceFirst(g[b], b - 1) ELSE g[n]]
  <2>2. \A n \in b .. a : h[n] = g[n]
    BY <1>1
  <2>3. \A n \in b .. a : g[n] = IF n = a THEN LeavesBefore[Size] ELSE ReferenceFirst(g[n + 1], n)
    BY <2>1
  <2>4. \A n \in b - 1 .. a :
          h[n] = IF n = a THEN LeavesBefore[Size] ELSE ReferenceFirst(h[n + 1], n)
    <3> SUFFICES ASSUME NEW n \in b - 1 .. a
                 PROVE  h[n] = IF n = a THEN LeavesBefore[Size] ELSE ReferenceFirst(h[n + 1], n)
      OBVIOUS
    <3>1. CASE n = b - 1
      <4>1. h[n] = ReferenceFirst(g[b], b - 1) /\ n # a /\ n + 1 = b
        BY <1>1, <3>1
      <4>2. h[b] = g[b]
        BY <1>1, <2>2
      <4> QED
        BY <3>1, <4>1, <4>2
    <3>2. CASE n # b - 1 /\ n # a
      <4>1. n \in b .. a /\ n + 1 \in b .. a
        BY <1>1, <3>2
      <4>2. h[n] = g[n] /\ h[n + 1] = g[n + 1]
        BY <2>2, <4>1
      <4> QED
        BY <2>3, <3>2, <4>1, <4>2
    <3>3. CASE n # b - 1 /\ n = a
      BY <1>1, <2>2, <2>3, <3>3
    <3> QED
      BY <3>1, <3>2, <3>3
  <2>5. Downto(h, b - 1)
    <3>1. h = [n \in b - 1 .. a |-> h[n]]
      OBVIOUS
    <3> HIDE DEF h
    <3> QED
      BY <2>4, <3>1
  <2>6. b - 1 \in 0 .. a
    BY <1>1, <1>3
  <2> QED
    BY <2>5, <2>6
<1>4. 0 \in S
  <2>1. 0 \in 0 .. a
    BY <1>1
  <2>2. \A b \in 0 .. a : b \in S
    <3> HIDE DEF S, a
    <3> QED
      BY <1>1, <1>2, <1>3, Downwards
  <2> QED
    BY <2>1, <2>2
<1>5. Downto(FirstsFrom, 0)
  <2>1. PICK g : Downto(g, 0)
    BY <1>4
  <2> QED
    BY <2>1 DEF FirstsFrom
<1>6. ASSUME NEW n \in Inner PROVE FirstsFrom[n] = ReferenceFirst(FirstsFrom[n + 1], n)
  <2>1. n \in 0 .. a /\ n # a
    BY <1>1
  <2> QED
    BY <1>5, <2>1
<1> QED
  BY <1>1, <1>5, <1>6

\* The second loop over the inner nodes goes from node to node, downwards.
LEMMA ForestLoop ==
  /\ ForestFrom[NumChunks - 1] = FirstsFrom[0]
  /\ \A n \in Inner : ForestFrom[n] = ReferenceForest(ForestFrom[n + 1], n)
<1> DEFINE a == NumChunks - 1
           Downto(g, b) == g = [n \in b .. a |-> IF n = a THEN FirstsFrom[0]
                                                ELSE ReferenceForest(g[n + 1], n)]
           S == {b \in 0 .. a : \E g : Downto(g, b)}
<1>1. a \in Nat /\ Inner = 0 .. a - 1
  BY TreeShape DEF Inner
<1>2. a \in S
  <2>1. Downto([n \in a .. a |-> FirstsFrom[0]], a)
    BY <1>1
  <2>2. a \in 0 .. a
    BY <1>1
  <2>3. \E g : Downto(g, a)
    <3> HIDE DEF Downto
    <3> QED
      BY <2>1
  <2> QED
    BY <2>2, <2>3
<1>3. ASSUME NEW b \in 0 .. a, b \in S, b > 0 PROVE b - 1 \in S
  <2>1. PICK g : Downto(g, b)
    BY <1>3
  <2> DEFINE h == [n \in b - 1 .. a |-> IF n = b - 1 THEN ReferenceForest(g[b], b - 1) ELSE g[n]]
  <2>2. \A n \in b .. a : h[n] = g[n]
    BY <1>1
  <2>3. \A n \in b .. a : g[n] = IF n = a THEN FirstsFrom[0] ELSE ReferenceForest(g[n + 1], n)
    BY <2>1
  <2>4. \A n \in b - 1 .. a : h[n] = IF n = a THEN FirstsFrom[0] ELSE ReferenceForest(h[n + 1], n)
    <3> SUFFICES ASSUME NEW n \in b - 1 .. a
                 PROVE  h[n] = IF n = a THEN FirstsFrom[0] ELSE ReferenceForest(h[n + 1], n)
      OBVIOUS
    <3>1. CASE n = b - 1
      <4>1. h[n] = ReferenceForest(g[b], b - 1) /\ n # a /\ n + 1 = b
        BY <1>1, <3>1
      <4>2. h[b] = g[b]
        BY <1>1, <2>2
      <4> QED
        BY <3>1, <4>1, <4>2
    <3>2. CASE n # b - 1 /\ n # a
      <4>1. n \in b .. a /\ n + 1 \in b .. a
        BY <1>1, <3>2
      <4>2. h[n] = g[n] /\ h[n + 1] = g[n + 1]
        BY <2>2, <4>1
      <4> QED
        BY <2>3, <3>2, <4>1, <4>2
    <3>3. CASE n # b - 1 /\ n = a
      BY <1>1, <2>2, <2>3, <3>3
    <3> QED
      BY <3>1, <3>2, <3>3
  <2>5. Downto(h, b - 1)
    <3>1. h = [n \in b - 1 .. a |-> h[n]]
      OBVIOUS
    <3> HIDE DEF h
    <3> QED
      BY <2>4, <3>1
  <2>6. b - 1 \in 0 .. a
    BY <1>1, <1>3
  <2> QED
    BY <2>5, <2>6
<1>4. 0 \in S
  <2>1. 0 \in 0 .. a
    BY <1>1
  <2>2. \A b \in 0 .. a : b \in S
    <3> HIDE DEF S, a
    <3> QED
      BY <1>1, <1>2, <1>3, Downwards
  <2> QED
    BY <2>1, <2>2
<1>5. Downto(ForestFrom, 0)
  <2>1. PICK g : Downto(g, 0)
    BY <1>4
  <2> QED
    BY <2>1 DEF ForestFrom
<1>6. ASSUME NEW n \in Inner PROVE ForestFrom[n] = ReferenceForest(ForestFrom[n + 1], n)
  <2>1. n \in 0 .. a /\ n # a
    BY <1>1
  <2> QED
    BY <1>5, <2>1
<1> QED
  BY <1>1, <1>5, <1>6
-----------------------------------------------------------------------------
(* The loop over the leaves *)

Shaped(s) ==
  /\ s = [tree |-> s.tree, map |-> s.map, labels |-> s.labels, roots |-> s.roots]
  /\ FcnOn(s.tree, Nodes) /\ FcnOn(s.labels, Nodes) /\ FcnOn(s.map, DOMAIN s.map)

LEMMA LeafOfReference ==
  ASSUME NEW s, Shaped(s), NEW leaf \in LeafNodes,
         NEW map, map = Entered(s.map, LeafDigest(leaf), leaf),
         ~(map[LeafDigest(leaf)].tree = current_id /\ map[LeafDigest(leaf)].node > leaf)
  PROVE  /\ Shaped(ReferenceLeaf(s, leaf))
         /\ ReferenceLeaf(s, leaf).map = map /\ ReferenceLeaf(s, leaf).roots = s.roots
         /\ ReferenceLeaf(s, leaf).tree[leaf] = LeafDigest(leaf)
         /\ ReferenceLeaf(s, leaf).labels[leaf] =
              IF LeafDigest(leaf) = prior.tree[leaf] THEN "FIXED_DUPL"
              ELSE IF LeafDigest(leaf) \in DOMAIN s.map THEN "SHIFT_DUPL" ELSE "FIRST_OCUR"
         /\ \A u \in Nodes \ {leaf} : /\ ReferenceLeaf(s, leaf).tree[u] = s.tree[u]
                                      /\ ReferenceLeaf(s, leaf).labels[u] = s.labels[u]
<1> DEFINE digest == LeafDigest(leaf)
           fixed == digest = prior.tree[leaf]
           ls == [u \in Nodes |->
                    CASE u = leaf /\ fixed -> "FIXED_DUPL"
                      [] u = leaf /\ ~fixed /\ digest \notin DOMAIN s.map -> "FIRST_OCUR"
                      [] u = leaf /\ ~fixed /\ digest \in DOMAIN s.map -> "SHIFT_DUPL"
                      [] OTHER -> s.labels[u]]
           lower == map[digest].tree = current_id /\ map[digest].node > leaf
           lr == [u \in Nodes |->
                    CASE u = leaf /\ fixed -> "FIXED_DUPL"
                      [] u = leaf /\ ~fixed /\ (digest \notin DOMAIN s.map \/ lower) -> "FIRST_OCUR"
                      [] u = leaf /\ ~fixed /\ digest \in DOMAIN s.map /\ ~lower -> "SHIFT_DUPL"
                      [] u # leaf /\ ~fixed /\ lower /\ u = map[digest].node -> "SHIFT_DUPL"
                      [] OTHER -> s.labels[u]]
<1>1. ReferenceLeaf(s, leaf) =
        [s EXCEPT !.tree[leaf] = digest,
                  !.map = IF ~fixed /\ lower THEN [map EXCEPT ![digest].node = leaf] ELSE map,
                  !.labels = lr]
  BY DEF ReferenceLeaf, LeafDigest
<1>2. ~lower
  OBVIOUS
<1> HIDE DEF lower
<1>3. \A u \in Nodes : lr[u] = IF u # leaf THEN s.labels[u] ELSE
           IF fixed THEN "FIXED_DUPL"
              ELSE IF digest \in DOMAIN s.map THEN "SHIFT_DUPL" ELSE "FIRST_OCUR"
  BY <1>2
<1>4. FcnOn(lr, Nodes)
  BY DEF FcnOn
<1> HIDE DEF lr
<1>5. ReferenceLeaf(s, leaf) = [s EXCEPT !.tree[leaf] = digest, !.map = map, !.labels = lr]
  BY <1>1, <1>2
<1>6. ReferenceLeaf(s, leaf) =
        [tree |-> [s.tree EXCEPT ![leaf] = digest], map |-> map, labels |-> lr, roots |-> s.roots]
  BY <1>5 DEF Shaped
<1>7. FcnOn(map, DOMAIN map)
  BY DEF Entered, FcnOn
<1>8. FcnOn([s.tree EXCEPT ![leaf] = digest], Nodes)
  BY DEF Shaped, FcnOn
<1>9. Shaped(ReferenceLeaf(s, leaf))
  BY <1>4, <1>6, <1>7, <1>8 DEF Shaped
<1>10. leaf \in Nodes
  BY TreeShape
<1> QED
  BY <1>3, <1>6, <1>9, <1>10 DEF Shaped, FcnOn

\* Of the leaves with one digest there is a lowest.
LEMMA LowestLeaf ==
  ASSUME NEW u \in LeafNodes
  PROVE  \E m \in LeafNodes : LeafDigest(m) = LeafDigest(u) /\ Lowest(m) /\ m <= u
<1> DEFINE Same == {v \in LeafNodes : LeafDigest(v) = LeafDigest(u)}
<1>1. Same \in SUBSET Nat /\ Same # {}
  BY TreeShape
<1>2. PICK m \in Same : \A v \in Same : m <= v
  BY <1>1, LeastElement
<1>3. Lowest(m)
  BY <1>2 DEF Lowest
<1> QED
  BY <1>2, <1>3

\* Where the map has a digest that was not there, it has the lowest leaf with it.
LEMMA LowestEntered ==
  ASSUME PriorTrue, Found, NEW u \in LeafNodes, LeafDigest(u) \notin DOMAIN prior.map
  PROVE  /\ LeafKind(u) = "FIRST_OCUR"
         /\ first_ocur[LeafDigest(u)].node <= u
         /\ Lowest(u) => first_ocur[LeafDigest(u)] = NodeID(u, current_id)
<1>1. ASSUME NEW v \in LeafNodes, LeafDigest(v) = LeafDigest(u) PROVE LeafKind(v) = "FIRST_OCUR"
  <2>1. LeafDigest(v) # NoDigest /\ LeafDigest(v) \notin DOMAIN prior.map
    BY <1>1 DEF Found
  <2>2. LeafDigest(v) # prior.tree[v]
    BY <2>1 DEF PriorTrue
  <2> QED
    BY <2>1, <2>2 DEF LeafKind
<1>2. ASSUME NEW v \in LeafNodes, LeafDigest(v) = LeafDigest(u), Lowest(v)
      PROVE  first_ocur[LeafDigest(u)] = NodeID(v, current_id)
  <2>1. labels[v] = "FIRST_OCUR" /\ tree[v] = LeafDigest(u)
    BY <1>1, <1>2 DEF Found
  <2>2. v \in Nodes
    BY TreeShape
  <2> QED
    BY <2>1, <2>2 DEF Found
<1>3. PICK m \in LeafNodes : LeafDigest(m) = LeafDigest(u) /\ Lowest(m) /\ m <= u
  BY LowestLeaf
<1>4. first_ocur[LeafDigest(u)] = NodeID(m, current_id)
  BY <1>2, <1>3
<1>5. first_ocur[LeafDigest(u)].node = m
  BY <1>4 DEF NodeID
<1> QED
  BY <1>1, <1>2, <1>3, <1>5

LeavesHold(s, n) ==
  /\ Shaped(s) /\ s.roots = {}
  /\ \A u \in LeafNodes : u < n => s.tree[u] = LeafDigest(u)
  /\ \A u \in Nodes : s.labels[u] = IF u \in LeafNodes /\ u < n THEN labels[u] ELSE "DONE"
  /\ \A d : d \in DOMAIN s.map <=>
       d \in DOMAIN prior.map \/ \E u \in LeafNodes : u < n /\ LeafDigest(u) = d
  /\ \A d \in DOMAIN s.map : s.map[d] = first_ocur[d]

\* One leaf later.
LEMMA LeavesHoldNext ==
  ASSUME PriorTrue, Found, NEW s, NEW n \in LeafNodes, LeavesHold(s, n)
  PROVE  LeavesHold(ReferenceLeaf(s, n), n + 1)
<1> DEFINE digest == LeafDigest(n)
           map == Entered(s.map, digest, n)
           t == ReferenceLeaf(s, n)
<1>1. /\ Shaped(s) /\ s.roots = {} /\ n \in Nat
      /\ \A u \in LeafNodes : u < n + 1 <=> u < n \/ u = n
  BY TreeShape DEF LeavesHold
<1>2. DOMAIN map = DOMAIN s.map \cup {digest}
  BY DEF Entered
<1>3. \A d \in DOMAIN s.map : map[d] = first_ocur[d]
  BY DEF Entered, LeavesHold
<1>4. ASSUME digest \notin DOMAIN prior.map, digest \in DOMAIN s.map
      PROVE  /\ map[digest] = first_ocur[digest] /\ ~(map[digest].node > n)
             /\ digest # prior.tree[n] /\ labels[n] = "SHIFT_DUPL"
  <2>1. PICK u \in LeafNodes : u < n /\ LeafDigest(u) = digest
    BY <1>4 DEF LeavesHold
  <2>2. LeafKind(n) = "FIRST_OCUR" /\ digest # prior.tree[n]
    BY <1>4, LowestEntered DEF LeafKind
  <2>3. ~Lowest(n)
    <3>1. ~(n <= u)
      BY <1>1, <2>1, TreeShape
    <3> QED
      BY <2>1, <3>1 DEF Lowest
  <2>4. labels[n] = "SHIFT_DUPL"
    BY <2>2, <2>3 DEF Found
  <2>5. PICK m \in LeafNodes : LeafDigest(m) = LeafDigest(u) /\ Lowest(m) /\ m <= u
    BY LowestLeaf
  <2>6. first_ocur[digest] = NodeID(m, current_id)
    BY <1>4, <2>1, <2>5, LowestEntered
  <2>7. m < n /\ ~(m > n)
    BY <1>1, <2>1, <2>5, TreeShape
  <2>8. first_ocur[digest].node = m
    BY <2>6 DEF NodeID
  <2> QED
    BY <1>3, <1>4, <2>2, <2>4, <2>7, <2>8
<1>5. ASSUME digest \notin DOMAIN prior.map, digest \notin DOMAIN s.map
      PROVE  /\ map[digest] = first_ocur[digest] /\ ~(map[digest].node > n)
             /\ digest # prior.tree[n] /\ labels[n] = "FIRST_OCUR"
  <2>1. \A u \in LeafNodes : LeafDigest(u) = digest => ~(u < n)
    BY <1>5 DEF LeavesHold
  <2>2. Lowest(n)
    BY <1>1, <2>1, TreeShape DEF Lowest
  <2>3. /\ LeafKind(n) = "FIRST_OCUR" /\ digest # prior.tree[n]
        /\ first_ocur[digest] = NodeID(n, current_id)
    BY <1>5, <2>2, LowestEntered DEF LeafKind
  <2>4. labels[n] = "FIRST_OCUR"
    BY <2>2, <2>3 DEF Found
  <2>5. map[digest] = NodeID(n, current_id)
    BY <1>5 DEF Entered
  <2>6. NodeID(n, current_id).node = n
    BY DEF NodeID
  <2> QED
    BY <1>1, <2>3, <2>4, <2>5, <2>6
<1>6. /\ ~(map[digest].tree = current_id /\ map[digest].node > n)
      /\ map[digest] = first_ocur[digest]
      /\ labels[n] = IF digest = prior.tree[n] THEN "FIXED_DUPL"
                     ELSE IF digest \in DOMAIN s.map THEN "SHIFT_DUPL" ELSE "FIRST_OCUR"
  <2>1. CASE digest \in DOMAIN prior.map
    <3>1. digest \in DOMAIN s.map /\ map[digest] = first_ocur[digest]
      BY <1>3, <2>1 DEF LeavesHold
    <3>2. map[digest].tree # current_id
      BY <2>1, <3>1 DEF PriorTrue
    <3>3. labels[n] = IF digest = prior.tree[n] THEN "FIXED_DUPL" ELSE "SHIFT_DUPL"
      BY <2>1 DEF Found, LeafKind
    <3> QED
      BY <3>1, <3>2, <3>3
  <2> QED
    BY <1>4, <1>5, <2>1
<1> HIDE DEF map
<1>7. map = Entered(s.map, LeafDigest(n), n)
  BY DEF map
<1>8. /\ Shaped(t) /\ t.map = map /\ t.roots = {}
      /\ t.tree[n] = digest /\ t.labels[n] = labels[n]
      /\ \A u \in Nodes \ {n} : t.tree[u] = s.tree[u] /\ t.labels[u] = s.labels[u]
  BY <1>1, <1>6, <1>7, LeafOfReference
<1> HIDE DEF t
<1>9. \A u \in LeafNodes : u < n + 1 => t.tree[u] = LeafDigest(u)
  BY <1>1, <1>8, TreeShape DEF LeavesHold
<1>10. \A u \in Nodes : t.labels[u] = IF u \in LeafNodes /\ u < n + 1 THEN labels[u] ELSE "DONE"
  BY <1>1, <1>8 DEF LeavesHold
<1>11. \A d : d \in DOMAIN t.map <=>
         d \in DOMAIN prior.map \/ \E u \in LeafNodes : u < n + 1 /\ LeafDigest(u) = d
  BY <1>1, <1>2, <1>8 DEF LeavesHold
<1>12. \A d \in DOMAIN t.map : t.map[d] = first_ocur[d]
  BY <1>2, <1>3, <1>6, <1>8
<1> QED
  BY <1>8, <1>9, <1>10, <1>11, <1>12 DEF LeavesHold, t

LEMMA LeavesEnd ==
  ASSUME PriorTrue, Found
  PROVE  LeavesHold(LeavesBefore[Size], Size)
<1> DEFINE a == NumChunks - 1
           S == {n \in a .. Size : LeavesHold(LeavesBefore[n], n)}
<1>1. a \in Nat /\ Size \in Nat /\ a <= Size /\ LeafNodes = a .. Size - 1 /\ Nodes = 0 .. Size - 1
  BY TreeShape DEF LeafNodes, Leaves, Size, Nodes
<1>2. LeavesHold(ReferenceStart, a)
  <2>1. Shaped(ReferenceStart) /\ ReferenceStart.roots = {} /\ ReferenceStart.map = prior.map
        /\ \A u \in Nodes : ReferenceStart.labels[u] = "DONE"
    BY DEF Shaped, ReferenceStart, FcnOn, PriorTrue
  <2>2. \A u \in LeafNodes : ~(u < a)
    BY <1>1
  <2>3. \A d \in DOMAIN prior.map : prior.map[d] = first_ocur[d]
    BY DEF PriorTrue
  <2> QED
    BY <2>1, <2>2, <2>3 DEF LeavesHold
<1>3. a \in S
  BY <1>1, <1>2, LeavesLoop
<1>4. ASSUME NEW n \in a .. Size, n \in S, n < Size PROVE n + 1 \in S
  <2>1. n \in LeafNodes /\ n + 1 \in a .. Size
    BY <1>1, <1>4
  <2>2. LeavesHold(ReferenceLeaf(LeavesBefore[n], n), n + 1)
    BY <1>4, <2>1, LeavesHoldNext
  <2> QED
    BY <2>1, <2>2, LeavesLoop
<1>5. \A n \in a .. Size : n \in S
  <2> HIDE DEF S, a
  <2> QED
    BY <1>1, <1>3, <1>4, Upwards
<1>6. Size \in a .. Size
  BY <1>1
<1> QED
  BY <1>5, <1>6
-----------------------------------------------------------------------------
(* The two loops over the inner nodes *)

\* What the first one has labelled when it has come down to node n.
Settled(u, n) == u \in LeafNodes \/ (u >= n /\ labels[u] = "FIRST_OCUR")

FirstsHold(s, n) ==
  /\ Shaped(s) /\ s.roots = {}
  /\ \A u \in Nodes : Settled(u, n) => s.tree[u] = tree[u]
  /\ \A u \in Nodes : s.labels[u] = IF Settled(u, n) THEN labels[u] ELSE "DONE"
  /\ \A d : d \in DOMAIN s.map <=>
       d \in DOMAIN prior.map \/ \E u \in Nodes : Settled(u, n) /\ tree[u] = d
  /\ \A d \in DOMAIN s.map : s.map[d] = first_ocur[d]

\* One node further.
LEMMA FirstsHoldNext ==
  ASSUME Found, NEW s, NEW n \in Inner, FirstsHold(s, n + 1)
  PROVE  FirstsHold(ReferenceFirst(s, n), n)
<1>1. /\ Left(n) \in Nodes /\ Right(n) \in Nodes /\ n \in Nodes \ LeafNodes
      /\ Left(n) >= n + 1 /\ Right(n) >= n + 1
  BY TreeShape
<1>2. \A u \in Nodes : Settled(u, n) <=> Settled(u, n + 1) \/ (u = n /\ labels[n] = "FIRST_OCUR")
  BY <1>1, TreeShape DEF Settled
<1>3. ~Settled(n, n + 1)
  BY <1>1, TreeShape DEF Settled
<1>4. \A w \in {Left(n), Right(n)} :
        /\ s.labels[w] = "FIRST_OCUR" <=> labels[w] = "FIRST_OCUR"
        /\ labels[w] = "FIRST_OCUR" => s.tree[w] = tree[w]
  BY <1>1 DEF FirstsHold, Settled
<1>5. labels[n] = "FIRST_OCUR" <=> Both(n, "FIRST_OCUR")
  BY DEF Found
<1>6. CASE labels[n] # "FIRST_OCUR"
  <2>1. ReferenceFirst(s, n) = s
    BY <1>4, <1>5, <1>6 DEF ReferenceFirst, Both
  <2>2. \A u \in Nodes : Settled(u, n) <=> Settled(u, n + 1)
    BY <1>2, <1>6
  <2> QED
    BY <2>1, <2>2 DEF FirstsHold
<1>7. CASE labels[n] = "FIRST_OCUR"
  <2> DEFINE digest == HashOfChildren(s.tree, n)
             map == Entered(s.map, digest, n)
  <2>1. Both(n, "FIRST_OCUR") /\ tree[n] = HashOfChildren(tree, n)
    BY <1>5, <1>7 DEF Found
  <2>2. digest = tree[n]
    BY <1>4, <2>1 DEF HashOfChildren, Both
  <2>3. first_ocur[digest] = NodeID(n, current_id)
    BY <1>1, <1>7, <2>2 DEF Found
  <2>4. DOMAIN map = DOMAIN s.map \cup {tree[n]} /\ FcnOn(map, DOMAIN map)
    BY <2>2 DEF Entered, FcnOn
  <2>5. \A d \in DOMAIN map : map[d] = first_ocur[d]
    BY <2>3 DEF Entered, FirstsHold
  <2>6. ReferenceFirst(s, n) = [s EXCEPT !.labels[n] = "FIRST_OCUR", !.tree[n] = digest,
                                         !.map = map]
    BY <1>4, <2>1 DEF ReferenceFirst, Both
  <2> HIDE DEF digest, map
  <2>7. ReferenceFirst(s, n) = [tree |-> [s.tree EXCEPT ![n] = digest], map |-> map,
                                labels |-> [s.labels EXCEPT ![n] = "FIRST_OCUR"], roots |-> {}]
    BY <2>6 DEF FirstsHold, Shaped
  <2> DEFINE t == ReferenceFirst(s, n)
  <2>8. /\ t.tree = [s.tree EXCEPT ![n] = digest] /\ t.map = map /\ t.roots = {}
        /\ t.labels = [s.labels EXCEPT ![n] = "FIRST_OCUR"]
        /\ t = [tree |-> t.tree, map |-> t.map, labels |-> t.labels, roots |-> t.roots]
    BY <2>7
  <2> HIDE DEF t
  <2>9. FcnOn(s.tree, Nodes) /\ FcnOn(s.labels, Nodes)
    BY DEF FirstsHold, Shaped
  <2>10. FcnOn(t.tree, Nodes) /\ FcnOn(t.labels, Nodes)
    BY <2>8, <2>9 DEF FcnOn
  <2>11. Shaped(t)
    BY <2>4, <2>8, <2>10 DEF Shaped
  <2>12. /\ t.tree[n] = digest /\ t.labels[n] = "FIRST_OCUR"
         /\ \A u \in Nodes \ {n} : t.tree[u] = s.tree[u] /\ t.labels[u] = s.labels[u]
    BY <1>1, <2>8, <2>9 DEF FcnOn
  <2>13. \A u \in Nodes : Settled(u, n) => t.tree[u] = tree[u]
    BY <1>2, <2>2, <2>12 DEF FirstsHold
  <2>14. \A u \in Nodes : t.labels[u] = IF Settled(u, n) THEN labels[u] ELSE "DONE"
    BY <1>2, <1>7, <2>12 DEF FirstsHold
  <2>15. \A d : d \in DOMAIN t.map <=>
           d \in DOMAIN prior.map \/ \E u \in Nodes : Settled(u, n) /\ tree[u] = d
    BY <1>1, <1>2, <1>7, <2>4, <2>8 DEF FirstsHold
  <2>16. \A d \in DOMAIN t.map : t.map[d] = first_ocur[d]
    BY <2>5, <2>8
  <2> QED
    BY <2>8, <2>11, <2>13, <2>14, <2>15, <2>16 DEF FirstsHold, t
<1> QED
  BY <1>6, <1>7

LEMMA FirstsEnd ==
  ASSUME PriorTrue, Found
  PROVE  FirstsHold(FirstsFrom[0], 0)
<1> DEFINE a == NumChunks - 1
           S == {n \in 0 .. a : FirstsHold(FirstsFrom[n], n)}
<1>1. /\ a \in Nat /\ Inner = 0 .. a - 1 /\ Nodes = Inner \cup LeafNodes
      /\ \A u \in LeafNodes : u < Size
      /\ \A u \in Nodes : Settled(u, a) <=> u \in LeafNodes
  BY TreeShape DEF Inner, LeafNodes, Leaves, Size, Settled
<1>2. FirstsHold(LeavesBefore[Size], a)
  <2> DEFINE s == LeavesBefore[Size]
  <2>1. LeavesHold(s, Size)
    BY LeavesEnd
  <2> HIDE DEF s
  <2>2. \A u \in LeafNodes : s.tree[u] = LeafDigest(u) /\ tree[u] = LeafDigest(u)
    BY <1>1, <2>1 DEF LeavesHold, Found
  <2>3. \A u \in Nodes : s.labels[u] = IF Settled(u, a) THEN labels[u] ELSE "DONE"
    BY <1>1, <2>1 DEF LeavesHold
  <2>4. \A u \in Nodes : Settled(u, a) => s.tree[u] = tree[u]
    BY <1>1, <2>2
  <2>5. \A d : d \in DOMAIN s.map <=>
          d \in DOMAIN prior.map \/ \E u \in Nodes : Settled(u, a) /\ tree[u] = d
    <3>1. \A d : (\E u \in LeafNodes : u < Size /\ LeafDigest(u) = d)
                 <=> \E u \in Nodes : Settled(u, a) /\ tree[u] = d
      <4> HIDE DEF a
      <4> QED
        BY <1>1, <2>2
    <3>2. \A d : d \in DOMAIN s.map <=>
            d \in DOMAIN prior.map \/ \E u \in LeafNodes : u < Size /\ LeafDigest(u) = d
      BY <2>1 DEF LeavesHold
    <3> QED
      BY <3>1, <3>2
  <2>6. FirstsHold(s, a)
    BY <2>1, <2>3, <2>4, <2>5 DEF LeavesHold, FirstsHold
  <2> QED
    BY <2>6 DEF s
<1>3. a \in S
  BY <1>1, <1>2, FirstsLoop
<1>4. ASSUME NEW n \in 0 .. a, n \in S, n > 0 PROVE n - 1 \in S
  <2>1. n - 1 \in Inner /\ n - 1 \in 0 .. a /\ (n - 1) + 1 = n
    BY <1>1, <1>4
  <2>2. FirstsHold(ReferenceFirst(FirstsFrom[n], n - 1), n - 1)
    BY <1>4, <2>1, FirstsHoldNext
  <2>3. FirstsFrom[n - 1] = ReferenceFirst(FirstsFrom[n], n - 1)
    BY <2>1, FirstsLoop
  <2> QED
    BY <2>1, <2>2, <2>3
<1>5. \A n \in 0 .. a : n \in S
  <2> HIDE DEF S, a
  <2> QED
    BY <1>1, <1>3, <1>4, Downwards
<1>6. 0 \in 0 .. a
  BY <1>1
<1> QED
  BY <1>5, <1>6

\* What the second one has labelled when it has come down to node n, and of which
\* nodes the digests are there.
Final(u, n) == u \in LeafNodes \/ u >= n \/ labels[u] = "FIRST_OCUR"

Hashed(u, n) == u \in LeafNodes \/ labels[u] = "FIRST_OCUR" \/ (u >= n /\ labels[u] = "SHIFT_DUPL")

\* A root of a region below one of the nodes from n on.
EndsFrom(w, n) ==
  \E u \in Inner : /\ u >= n /\ labels[u] = "DONE" /\ w \in {Left(u), Right(u)}
                   /\ labels[w] \notin {"FIXED_DUPL", "DONE"}

ForestHold(s, n) ==
  /\ Shaped(s)
  /\ \A u \in Nodes : Hashed(u, n) => s.tree[u] = tree[u]
  /\ \A u \in Nodes : s.labels[u] = IF Final(u, n) THEN labels[u] ELSE "DONE"
  /\ \A d : d \in DOMAIN s.map <=> d \in DOMAIN first_ocur
  /\ \A d \in DOMAIN s.map : s.map[d] = first_ocur[d]
  /\ \A w : w \in s.roots <=> EndsFrom(w, n)

LEMMA TwoKinds ==
  ASSUME NEW k, NEW l
  PROVE  Cardinality({k, l}) = 2 <=> k # l
<1>1. IsFiniteSet({k}) /\ Cardinality({k}) = 1
  BY FS_Singleton
<1>2. CASE k = l
  <2>1. {k, l} = {k}
    BY <1>2
  <2> QED
    BY <1>1, <1>2, <2>1
<1>3. CASE k # l
  <2>1. l \notin {k} /\ {k} \cup {l} = {k, l}
    BY <1>3
  <2>2. Cardinality({k} \cup {l}) = Cardinality({k}) + 1
    BY <1>1, <2>1, FS_AddElement
  <2> QED
    BY <1>1, <1>3, <2>1, <2>2
<1> QED
  BY <1>2, <1>3

\* The new roots where the regions below node n end.
RootsBelow(s, n) ==
  {u \in {Left(n), Right(n)} : s.labels[u] \notin {"FIXED_DUPL", "DONE"}}

\* What the second loop makes of a node: its label, digest and the roots below it.
LEMMA ForestOfReference ==
  ASSUME NEW s, Shaped(s), NEW n \in Inner
  PROVE  /\ s.labels[Left(n)] # s.labels[Right(n)] => ReferenceForest(s, n) =
              [tree |-> s.tree, map |-> s.map, labels |-> [s.labels EXCEPT ![n] = "DONE"],
               roots |-> s.roots \cup RootsBelow(s, n)]
         /\ s.labels[Left(n)] = "FIXED_DUPL" /\ s.labels[Right(n)] = "FIXED_DUPL" =>
              ReferenceForest(s, n) =
                [tree |-> s.tree, map |-> s.map, labels |-> [s.labels EXCEPT ![n] = "FIXED_DUPL"],
                 roots |-> s.roots]
         /\ s.labels[Left(n)] = "SHIFT_DUPL" /\ s.labels[Right(n)] = "SHIFT_DUPL" =>
              ReferenceForest(s, n) =
                IF HashOfChildren(s.tree, n) \in DOMAIN s.map
                THEN [tree |-> [s.tree EXCEPT ![n] = HashOfChildren(s.tree, n)], map |-> s.map,
                      labels |-> [s.labels EXCEPT ![n] = "SHIFT_DUPL"], roots |-> s.roots]
                ELSE [tree |-> [s.tree EXCEPT ![n] = HashOfChildren(s.tree, n)], map |-> s.map,
                      labels |-> [s.labels EXCEPT ![n] = "DONE"],
                      roots |-> s.roots \cup {Left(n), Right(n)}]
         /\ /\ s.labels[Left(n)] = s.labels[Right(n)]
            /\ s.labels[Left(n)] \notin {"FIXED_DUPL", "SHIFT_DUPL"}
            => ReferenceForest(s, n) = s
<1> DEFINE kl == s.labels[Left(n)]
           kr == s.labels[Right(n)]
           digest == HashOfChildren(s.tree, n)
           new == RootsBelow(s, n)
           children == {Left(n), Right(n)}
           kinds == {s.labels[u] : u \in children}
           end == [s EXCEPT !.labels[n] = "DONE", !.roots = s.roots \cup new]
           fixed == [s EXCEPT !.labels[n] = "FIXED_DUPL"]
           shift == [s EXCEPT !.labels[n] = "SHIFT_DUPL", !.tree[n] = digest]
           apart == [s EXCEPT !.labels[n] = "DONE", !.tree[n] = digest,
                              !.roots = s.roots \cup children]
<1>1. ReferenceForest(s, n) =
        CASE Cardinality(kinds) = 2 -> end
          [] kinds = {"FIXED_DUPL"} -> fixed
          [] kinds = {"SHIFT_DUPL"} /\ digest \in DOMAIN s.map -> shift
          [] kinds = {"SHIFT_DUPL"} /\ digest \notin DOMAIN s.map -> apart
          [] OTHER -> s
  <2>1. new = {u \in children : s.labels[u] \notin {"FIXED_DUPL", "DONE"}}
    BY DEF RootsBelow
  <2> QED
    BY <2>1 DEF ReferenceForest
<1>2. kinds = {kl, kr}
  OBVIOUS
<1> HIDE DEF kinds, end, fixed, shift, apart, kl, kr, digest, new
<1>3. Cardinality(kinds) = 2 <=> kl # kr
  BY <1>2, TwoKinds
<1>4. \A l : kinds = {l} <=> kl = l /\ kr = l
  BY <1>2
<1>5. /\ kl # kr => ReferenceForest(s, n) = end
      /\ kl = "FIXED_DUPL" /\ kr = kl => ReferenceForest(s, n) = fixed
      /\ kl = "SHIFT_DUPL" /\ kr = kl /\ digest \in DOMAIN s.map => ReferenceForest(s, n) = shift
      /\ kl = "SHIFT_DUPL" /\ kr = kl /\ digest \notin DOMAIN s.map => ReferenceForest(s, n) = apart
      /\ kl \notin {"FIXED_DUPL", "SHIFT_DUPL"} /\ kr = kl => ReferenceForest(s, n) = s
  BY <1>1, <1>3, <1>4
<1>6. s = [tree |-> s.tree, map |-> s.map, labels |-> s.labels, roots |-> s.roots]
  BY DEF Shaped
<1>7. /\ end = [tree |-> s.tree, map |-> s.map, labels |-> [s.labels EXCEPT ![n] = "DONE"],
                roots |-> s.roots \cup new]
      /\ fixed = [tree |-> s.tree, map |-> s.map, labels |-> [s.labels EXCEPT ![n] = "FIXED_DUPL"],
                  roots |-> s.roots]
  <2>1. /\ end = [s EXCEPT !.labels[n] = "DONE", !.roots = s.roots \cup new]
        /\ fixed = [s EXCEPT !.labels[n] = "FIXED_DUPL"]
    BY DEF end, fixed
  <2> QED
    BY <1>6, <2>1
<1>8. shift = [tree |-> [s.tree EXCEPT ![n] = digest], map |-> s.map,
               labels |-> [s.labels EXCEPT ![n] = "SHIFT_DUPL"], roots |-> s.roots]
  <2>1. shift = [s EXCEPT !.labels[n] = "SHIFT_DUPL", !.tree[n] = digest]
    BY DEF shift
  <2> QED
    BY <1>6, <2>1
<1>9. apart = [tree |-> [s.tree EXCEPT ![n] = digest], map |-> s.map,
               labels |-> [s.labels EXCEPT ![n] = "DONE"],
               roots |-> s.roots \cup {Left(n), Right(n)}]
  <2>1. apart = [s EXCEPT !.labels[n] = "DONE", !.tree[n] = digest,
                          !.roots = s.roots \cup {Left(n), Right(n)}]
    BY DEF apart
  <2> QED
    BY <1>6, <2>1
<1> QED
  BY <1>5, <1>7, <1>8, <1>9 DEF kl, kr, digest, new
\* What a node that is labelled adds: its label, its digest and the roots below it.
LEMMA ForestKept ==
  ASSUME Found, NEW s, NEW n \in Inner, ForestHold(s, n + 1),
         NEW t, Shaped(t), t.map = s.map, t.labels[n] = labels[n],
         \A u \in Nodes \ {n} : t.labels[u] = s.labels[u] /\ t.tree[u] = s.tree[u],
         labels[n] \in {"FIRST_OCUR", "SHIFT_DUPL"} => t.tree[n] = tree[n],
         \A w : w \in t.roots <=>
           w \in s.roots \/ (/\ labels[n] = "DONE" /\ w \in {Left(n), Right(n)}
                             /\ labels[w] \notin {"FIXED_DUPL", "DONE"})
  PROVE  ForestHold(t, n)
<1>1. n \in Nodes \ LeafNodes /\ n \in Nat
  BY TreeShape
<1>2. \A u \in Nodes : /\ Final(u, n) <=> Final(u, n + 1) \/ u = n
                       /\ u # n => (Hashed(u, n) <=> Hashed(u, n + 1))
  BY <1>1, TreeShape DEF Final, Hashed
<1>3. Hashed(n, n) => labels[n] \in {"FIRST_OCUR", "SHIFT_DUPL"}
  BY <1>1 DEF Hashed
<1>4. \A u \in Nodes : Hashed(u, n) => t.tree[u] = tree[u]
  BY <1>2, <1>3 DEF ForestHold
<1>5. \A u \in Nodes : t.labels[u] = IF Final(u, n) THEN labels[u] ELSE "DONE"
  BY <1>2 DEF ForestHold
<1>6. \A u \in Inner : u >= n <=> u >= n + 1 \/ u = n
  BY <1>1, TreeShape
<1>7. \A w : EndsFrom(w, n) <=>
        EndsFrom(w, n + 1) \/ (/\ labels[n] = "DONE" /\ w \in {Left(n), Right(n)}
                               /\ labels[w] \notin {"FIXED_DUPL", "DONE"})
  BY <1>6 DEF EndsFrom
<1>8. \A w : w \in t.roots <=> EndsFrom(w, n)
  BY <1>7 DEF ForestHold
<1> QED
  BY <1>4, <1>5, <1>8 DEF ForestHold

LEMMA ForestHoldNext ==
  ASSUME Found, NEW s, NEW n \in Inner, ForestHold(s, n + 1)
  PROVE  ForestHold(ReferenceForest(s, n), n)
<1> DEFINE t == ReferenceForest(s, n)
           kl == s.labels[Left(n)]
           kr == s.labels[Right(n)]
           digest == HashOfChildren(s.tree, n)
<1>1. /\ Left(n) \in Nodes /\ Right(n) \in Nodes /\ n \in Nodes \ LeafNodes
      /\ Left(n) >= n + 1 /\ Right(n) >= n + 1
  BY TreeShape
<1>2. /\ Shaped(s) /\ FcnOn(s.tree, Nodes) /\ FcnOn(s.labels, Nodes)
      /\ s = [tree |-> s.tree, map |-> s.map, labels |-> s.labels, roots |-> s.roots]
  BY DEF ForestHold, Shaped
<1>3. kl = labels[Left(n)] /\ kr = labels[Right(n)]
  BY <1>1 DEF ForestHold, Final
<1>4. labels[n] \in Kinds
  BY <1>1 DEF Found
<1>5. /\ labels[n] = "FIRST_OCUR" <=> kl = "FIRST_OCUR" /\ kr = "FIRST_OCUR"
      /\ labels[n] = "FIXED_DUPL" <=> kl = "FIXED_DUPL" /\ kr = "FIXED_DUPL"
      /\ labels[n] = "SHIFT_DUPL" <=>
           kl = "SHIFT_DUPL" /\ kr = "SHIFT_DUPL" /\ HashOfChildren(tree, n) \in DOMAIN first_ocur
      /\ labels[n] \in {"FIRST_OCUR", "SHIFT_DUPL"} => tree[n] = HashOfChildren(tree, n)
  BY <1>3 DEF Found, Both
<1>6. kl = "SHIFT_DUPL" /\ kr = "SHIFT_DUPL" =>
        /\ digest = HashOfChildren(tree, n)
        /\ digest \in DOMAIN s.map <=> HashOfChildren(tree, n) \in DOMAIN first_ocur
  <2> SUFFICES ASSUME kl = "SHIFT_DUPL", kr = "SHIFT_DUPL"
               PROVE  digest = HashOfChildren(tree, n)
    BY DEF ForestHold
  <2>1. Hashed(Left(n), n + 1) /\ Hashed(Right(n), n + 1)
    BY <1>1, <1>3 DEF Hashed
  <2> QED
    BY <1>1, <2>1 DEF ForestHold, HashOfChildren
<1>7. labels[n] # "FIRST_OCUR" => s.labels[n] = "DONE"
  BY <1>1, TreeShape DEF ForestHold, Final
<1>8. labels[n] = "FIRST_OCUR" => s.labels[n] = labels[n] /\ s.tree[n] = tree[n]
  BY <1>1 DEF ForestHold, Final, Hashed
<1> DEFINE new == RootsBelow(s, n)
<1>9. /\ kl # kr => t =
           [tree |-> s.tree, map |-> s.map, labels |-> [s.labels EXCEPT ![n] = "DONE"],
            roots |-> s.roots \cup new]
      /\ kl = "FIXED_DUPL" /\ kr = kl => t =
           [tree |-> s.tree, map |-> s.map, labels |-> [s.labels EXCEPT ![n] = "FIXED_DUPL"],
            roots |-> s.roots]
      /\ kl = "SHIFT_DUPL" /\ kr = kl /\ digest \in DOMAIN s.map => t =
           [tree |-> [s.tree EXCEPT ![n] = digest], map |-> s.map,
            labels |-> [s.labels EXCEPT ![n] = "SHIFT_DUPL"], roots |-> s.roots]
      /\ kl = "SHIFT_DUPL" /\ kr = kl /\ digest \notin DOMAIN s.map => t =
           [tree |-> [s.tree EXCEPT ![n] = digest], map |-> s.map,
            labels |-> [s.labels EXCEPT ![n] = "DONE"],
            roots |-> s.roots \cup {Left(n), Right(n)}]
      /\ kl \notin {"FIXED_DUPL", "SHIFT_DUPL"} /\ kr = kl => t = s
  BY <1>2, ForestOfReference
<1> HIDE DEF kl, kr, digest, new, t
<1>10. CASE kl # kr
  <2>2. labels[n] = "DONE"
    BY <1>4, <1>5, <1>10 DEF Kinds
  <2>3. \A w : w \in new <=>
          w \in {Left(n), Right(n)} /\ labels[w] \notin {"FIXED_DUPL", "DONE"}
    BY <1>3 DEF new, kl, kr, RootsBelow
  <2>5. t = [tree |-> s.tree, map |-> s.map, labels |-> [s.labels EXCEPT ![n] = "DONE"],
             roots |-> s.roots \cup new]
    BY <1>10, <1>9
  <2>6. FcnOn([s.labels EXCEPT ![n] = "DONE"], Nodes)
    BY <1>2 DEF FcnOn
  <2>7. Shaped(t) /\ t.map = s.map /\ t.roots = s.roots \cup new /\ t.tree = s.tree
    BY <1>2, <2>5, <2>6 DEF Shaped
  <2>8. t.labels[n] = labels[n] /\ \A u \in Nodes \ {n} : t.labels[u] = s.labels[u]
    BY <1>1, <1>2, <2>2, <2>5 DEF FcnOn
  <2>9. ForestHold(t, n)
    BY <2>2, <2>3, <2>7, <2>8, ForestKept
  <2> QED
    BY <2>9 DEF t
<1>11. CASE kl = "FIXED_DUPL" /\ kr = kl
  <2>2. labels[n] = "FIXED_DUPL"
    BY <1>5, <1>11
  <2>3. t = [tree |-> s.tree, map |-> s.map, labels |-> [s.labels EXCEPT ![n] = "FIXED_DUPL"],
             roots |-> s.roots]
    BY <1>11, <1>9
  <2>4. FcnOn([s.labels EXCEPT ![n] = "FIXED_DUPL"], Nodes)
    BY <1>2 DEF FcnOn
  <2>5. Shaped(t) /\ t.map = s.map /\ t.roots = s.roots /\ t.tree = s.tree
    BY <1>2, <2>3, <2>4 DEF Shaped
  <2>6. t.labels[n] = labels[n] /\ \A u \in Nodes \ {n} : t.labels[u] = s.labels[u]
    BY <1>1, <1>2, <2>2, <2>3 DEF FcnOn
  <2>7. ForestHold(t, n)
    BY <2>2, <2>5, <2>6, ForestKept
  <2> QED
    BY <2>7 DEF t
<1>12. CASE kl = "SHIFT_DUPL" /\ kr = kl /\ digest \in DOMAIN s.map
  <2>2. labels[n] = "SHIFT_DUPL" /\ digest = tree[n]
    BY <1>5, <1>6, <1>12
  <2>3. t = [tree |-> [s.tree EXCEPT ![n] = digest], map |-> s.map,
             labels |-> [s.labels EXCEPT ![n] = "SHIFT_DUPL"], roots |-> s.roots]
    BY <1>12, <1>9
  <2>4. /\ FcnOn([s.labels EXCEPT ![n] = "SHIFT_DUPL"], Nodes)
        /\ FcnOn([s.tree EXCEPT ![n] = digest], Nodes)
    BY <1>2 DEF FcnOn
  <2>5. Shaped(t) /\ t.map = s.map /\ t.roots = s.roots
    BY <1>2, <2>3, <2>4 DEF Shaped
  <2>6. /\ t.labels[n] = labels[n] /\ t.tree[n] = tree[n]
        /\ \A u \in Nodes \ {n} : t.labels[u] = s.labels[u] /\ t.tree[u] = s.tree[u]
    BY <1>1, <1>2, <2>2, <2>3 DEF FcnOn
  <2>7. ForestHold(t, n)
    BY <2>2, <2>5, <2>6, ForestKept
  <2> QED
    BY <2>7 DEF t
<1>13. CASE kl = "SHIFT_DUPL" /\ kr = kl /\ digest \notin DOMAIN s.map
  <2>2. labels[n] = "DONE"
    BY <1>4, <1>5, <1>6, <1>13 DEF Kinds
  <2>3. t = [tree |-> [s.tree EXCEPT ![n] = digest], map |-> s.map,
             labels |-> [s.labels EXCEPT ![n] = "DONE"],
             roots |-> s.roots \cup {Left(n), Right(n)}]
    BY <1>13, <1>9
  <2>4. /\ FcnOn([s.labels EXCEPT ![n] = "DONE"], Nodes)
        /\ FcnOn([s.tree EXCEPT ![n] = digest], Nodes)
    BY <1>2 DEF FcnOn
  <2>5. Shaped(t) /\ t.map = s.map /\ t.roots = s.roots \cup {Left(n), Right(n)}
    BY <1>2, <2>3, <2>4 DEF Shaped
  <2>6. /\ t.labels[n] = labels[n]
        /\ \A u \in Nodes \ {n} : t.labels[u] = s.labels[u] /\ t.tree[u] = s.tree[u]
    BY <1>1, <1>2, <2>2, <2>3 DEF FcnOn
  <2>7. \A w \in {Left(n), Right(n)} : labels[w] = "SHIFT_DUPL"
    BY <1>3, <1>13 DEF kl, kr
  <2>8. ForestHold(t, n)
    BY <2>2, <2>5, <2>6, <2>7, ForestKept
  <2> QED
    BY <2>8 DEF t
<1>14. CASE kl \notin {"FIXED_DUPL", "SHIFT_DUPL"} /\ kr = kl
  <2>1. t = s
    BY <1>14, <1>9
  <2>2. labels[n] \in {"FIRST_OCUR", "DONE"}
    BY <1>4, <1>5, <1>14 DEF Kinds
  <2>3. s.labels[n] = labels[n] /\ (labels[n] = "FIRST_OCUR" => s.tree[n] = tree[n])
    BY <1>7, <1>8, <2>2
  <2>4. labels[Left(n)] \in Kinds /\ labels[Right(n)] \in Kinds
    BY <1>1 DEF Found
  <2>5. labels[n] = "DONE" => \A w \in {Left(n), Right(n)} : labels[w] = "DONE"
    BY <1>3, <1>5, <1>14, <2>4 DEF Kinds
  <2>6. ForestHold(s, n)
    BY <1>2, <2>2, <2>3, <2>5, ForestKept
  <2> QED
    BY <2>1, <2>6 DEF t
<1> QED
  BY <1>10, <1>11, <1>12, <1>13, <1>14 DEF t

LEMMA ForestEnd ==
  ASSUME PriorTrue, Found
  PROVE  ForestHold(ForestFrom[0], 0)
<1> DEFINE a == NumChunks - 1
           S == {n \in 0 .. a : ForestHold(ForestFrom[n], n)}
<1>1. /\ a \in Nat /\ Inner = 0 .. a - 1 /\ Nodes = Inner \cup LeafNodes /\ Nodes \subseteq Nat
      /\ \A u \in Inner : ~(u >= a)
  BY TreeShape DEF Inner
<1>2. ForestHold(FirstsFrom[0], a)
  <2> DEFINE s == FirstsFrom[0]
  <2>1. FirstsHold(s, 0)
    BY FirstsEnd
  <2> HIDE DEF s
  <2>2. \A u \in Nodes : Hashed(u, a) => s.tree[u] = tree[u]
    <3>1. \A u \in Nodes : Hashed(u, a) => Settled(u, 0)
      BY <1>1 DEF Settled, Hashed
    <3> QED
      BY <2>1, <3>1 DEF FirstsHold
  <2>3. \A u \in Nodes : s.labels[u] = IF Final(u, a) THEN labels[u] ELSE "DONE"
    <3>1. \A u \in Nodes : Final(u, a) <=> Settled(u, 0)
      BY <1>1 DEF Settled, Final
    <3> QED
      BY <2>1, <3>1 DEF FirstsHold
  <2>4. \A d : d \in DOMAIN s.map <=> d \in DOMAIN first_ocur
    <3>1. \A d : d \in DOMAIN s.map <=>
            d \in DOMAIN prior.map \/ \E u \in Nodes : Settled(u, 0) /\ tree[u] = d
      BY <2>1 DEF FirstsHold
    <3>2. \A u \in Nodes : Settled(u, 0) => tree[u] \in DOMAIN first_ocur
      BY DEF Settled, Found
    <3>3. \A d \in DOMAIN first_ocur \ DOMAIN prior.map :
            \E u \in Nodes : Settled(u, 0) /\ tree[u] = d
      <4>1. \A u \in Nodes : labels[u] = "FIRST_OCUR" => Settled(u, 0)
        BY <1>1 DEF Settled
      <4> QED
        BY <4>1 DEF Found
    <3> QED
      BY <3>1, <3>2, <3>3 DEF PriorTrue
  <2>5. \A w : ~EndsFrom(w, a)
    BY <1>1 DEF EndsFrom
  <2>6. ForestHold(s, a)
    <3> HIDE DEF a
    <3> QED
      BY <2>1, <2>2, <2>3, <2>4, <2>5 DEF FirstsHold, ForestHold
  <2> QED
    BY <2>6 DEF s
<1>3. a \in S
  BY <1>1, <1>2, ForestLoop
<1>4. ASSUME NEW n \in 0 .. a, n \in S, n > 0 PROVE n - 1 \in S
  <2>1. n - 1 \in Inner /\ n - 1 \in 0 .. a /\ (n - 1) + 1 = n
    BY <1>1, <1>4
  <2>2. ForestHold(ReferenceForest(ForestFrom[n], n - 1), n - 1)
    BY <1>4, <2>1, ForestHoldNext
  <2>3. ForestFrom[n - 1] = ReferenceForest(ForestFrom[n], n - 1)
    BY <2>1, ForestLoop
  <2> QED
    BY <2>1, <2>2, <2>3
<1>5. \A n \in 0 .. a : n \in S
  <2> HIDE DEF S, a
  <2> QED
    BY <1>1, <1>3, <1>4, Downwards
<1>6. 0 \in 0 .. a
  BY <1>1
<1> QED
  BY <1>5, <1>6

-----------------------------------------------------------------------------
(* The kernels and the reference end with the same *)

\* A set of regions by their roots, where their sources are the same.
LEMMA SameRegions ==
  ASSUME NEW s, NEW V, \A w \in V : s.map[s.tree[w]] = first_ocur[tree[w]]
  PROVE  {[node |-> u, prev |-> s.map[s.tree[u]]] : u \in V}
           = {[node |-> u, prev |-> FirstOcur(u)] : u \in V}
<1>1. ASSUME NEW x
      PROVE  x \in {[node |-> u, prev |-> s.map[s.tree[u]]] : u \in V}
             <=> x \in {[node |-> u, prev |-> FirstOcur(u)] : u \in V}
  <2>1. \A u \in V : [node |-> u, prev |-> s.map[s.tree[u]]] = [node |-> u, prev |-> FirstOcur(u)]
    BY DEF FirstOcur
  <2> QED
    BY <2>1
<1> QED
  BY <1>1

LEMMA ReferenceFinds ==
  ASSUME PriorTrue, Found, PushedExact
  PROVE  /\ {[node |-> u, prev |-> FirstOcur(u)] : u \in first_ocur_vec} = Reference.first_ocur
         /\ ShiftedRegions = Reference.shift_dupl
<1> DEFINE s == ForestFrom[0]
           roots == s.roots \cup (IF s.labels[0] = "FIRST_OCUR" THEN {0} ELSE {})
           of(l) == {[node |-> u, prev |-> s.map[s.tree[u]]] :
                       u \in {v \in roots : s.labels[v] = l}}
<1>1. Reference.first_ocur = of("FIRST_OCUR") /\ Reference.shift_dupl = of("SHIFT_DUPL")
  BY DEF Reference
<1>2. ForestHold(s, 0)
  BY ForestEnd
<1> HIDE DEF s
<1>3. \A u \in Nodes : s.labels[u] = labels[u]
  <2>1. \A u \in Nodes : Final(u, 0)
    BY TreeShape DEF Final
  <2> QED
    BY <1>2, <2>1 DEF ForestHold
<1>4. \A u \in Nodes : labels[u] \in {"FIRST_OCUR", "SHIFT_DUPL"} =>
        s.tree[u] = tree[u] /\ tree[u] \in DOMAIN first_ocur
  <2>1. \A u \in Nodes : labels[u] \in {"FIRST_OCUR", "SHIFT_DUPL"} => Hashed(u, 0)
    BY TreeShape DEF Hashed
  <2>2. \A u \in LeafNodes : tree[u] \in DOMAIN first_ocur
    BY DEF Found
  <2>3. \A u \in Inner : labels[u] = "SHIFT_DUPL" => tree[u] \in DOMAIN first_ocur
    BY DEF Found
  <2>4. \A u \in Nodes : labels[u] = "FIRST_OCUR" => tree[u] \in DOMAIN first_ocur
    BY DEF Found
  <2> QED
    BY <1>2, <2>1, <2>2, <2>3, <2>4, TreeShape DEF ForestHold
<1>5. \A u \in Nodes : labels[u] \in {"FIRST_OCUR", "SHIFT_DUPL"} =>
        s.map[s.tree[u]] = first_ocur[tree[u]]
  BY <1>2, <1>4 DEF ForestHold
<1>6. \A w : w \in s.roots <=> Ends(w) /\ labels[w] \notin {"FIXED_DUPL", "DONE"}
  <2>1. \A u \in Inner : u >= 0
    BY TreeShape
  <2> QED
    BY <1>2, <2>1 DEF ForestHold, EndsFrom, Ends
<1>7. \A w : Ends(w) => w \in Nodes
  BY TreeShape DEF Ends
<1>8. 0 \in Nodes /\ ~Ends(0)
  <2>1. 0 \in Nodes /\ \A u \in Inner : Left(u) # 0 /\ Right(u) # 0
    BY TreeShape
  <2> QED
    BY <2>1 DEF Ends
<1>9. \A w : w \in first_ocur_vec <=> w \in roots /\ s.labels[w] = "FIRST_OCUR"
  BY <1>3, <1>6, <1>7, <1>8 DEF PushedExact
<1>10. \A w : w \in shift_dupl_vec <=> w \in roots /\ s.labels[w] = "SHIFT_DUPL"
  BY <1>3, <1>6, <1>7, <1>8 DEF PushedExact
<1>11. first_ocur_vec \subseteq Nodes /\ \A w \in first_ocur_vec : labels[w] = "FIRST_OCUR"
  BY DEF PushedExact
<1>12. shift_dupl_vec \subseteq Nodes /\ \A w \in shift_dupl_vec : labels[w] = "SHIFT_DUPL"
  BY DEF PushedExact
<1> HIDE DEF roots
<1>13. of("FIRST_OCUR") = {[node |-> u, prev |-> FirstOcur(u)] : u \in first_ocur_vec}
  <2>1. {v \in roots : s.labels[v] = "FIRST_OCUR"} = first_ocur_vec
    BY <1>9
  <2>2. of("FIRST_OCUR") = {[node |-> u, prev |-> s.map[s.tree[u]]] : u \in first_ocur_vec}
    BY <2>1, Zenon
  <2>3. \A w \in first_ocur_vec : s.map[s.tree[w]] = first_ocur[tree[w]]
    BY <1>5, <1>11
  <2> QED
    BY <2>2, <2>3, SameRegions
<1>14. of("SHIFT_DUPL") = {[node |-> u, prev |-> FirstOcur(u)] : u \in shift_dupl_vec}
  <2>1. {v \in roots : s.labels[v] = "SHIFT_DUPL"} = shift_dupl_vec
    BY <1>10
  <2>2. of("SHIFT_DUPL") = {[node |-> u, prev |-> s.map[s.tree[u]]] : u \in shift_dupl_vec}
    BY <2>1, Zenon
  <2>3. \A w \in shift_dupl_vec : s.map[s.tree[w]] = first_ocur[tree[w]]
    BY <1>5, <1>12
  <2> QED
    BY <2>2, <2>3, SameRegions
<1> QED
  BY <1>1, <1>13, <1>14 DEF ShiftedRegions

LEMMA ReferenceRefines == ReferenceSpec => Spec
<1>1. ReferenceInit => Init
  BY DEF ReferenceInit
<1>2. [ReferenceNext]_referenceVars => [Next]_vars
  BY DEF ReferenceNext, referenceVars
<1> QED
  BY <1>1, <1>2, PTL DEF ReferenceSpec, Spec
-----------------------------------------------------------------------------
(* AgreesWithReference *)

\* In whatever order the teams ran, a checkpoint that is no baseline, of a chain no
\* failed write has spoiled, has exactly the regions, with the sources, that the
\* serial reference finds, where there is more than one leaf.
THEOREM AlwaysAgreesWithReference ==
  ASSUME NEW CONSTANT f, DigestsClosed(f), NumChunks > 1
  PROVE  ReferenceSpec => []AgreesWithReference
<1> DEFINE I == Coherent /\ LevelTrue /\ Exact /\ TreeTrue
           P == PushedTrue /\ Comparable
<1>1. ReferenceSpec => Spec
  BY ReferenceRefines
<1>2. Spec => []I
  BY ExactAlways
<1>3. ReferenceInit => P
  BY PushedInit, ComparableInit DEF ReferenceInit
<1>4. I /\ I' /\ P /\ [ReferenceNext]_referenceVars => P'
  <2> SUFFICES ASSUME I, I', P, [ReferenceNext]_referenceVars PROVE P'
    OBVIOUS
  <2>1. [Next]_vars
    BY DEF ReferenceNext, referenceVars
  <2>2. ObjectTrue /\ LevelTrue /\ LabelsTrue /\ PushedTrue
    BY DEF Coherent
  <2>3. PushedTrue'
    BY <2>1, <2>2, PushedStep
  <2>4. Comparable'
    BY ComparableStep
  <2> QED
    BY <2>3, <2>4
<1>5. I /\ P => AgreesWithReference
  <2> SUFFICES ASSUME I, P, pc = "collect", ~baseline, current_id \notin spoiled
               PROVE  /\ {[node |-> u, prev |-> FirstOcur(u)] : u \in first_ocur_vec}
                           = Reference.first_ocur
                      /\ ShiftedRegions = Reference.shift_dupl
    BY DEF AgreesWithReference
  <2>1. Compared
    BY DEF Compared, Kernels
  <2>2. PriorTrue /\ Found /\ PushedExact
    BY <2>1, FoundOf
  <2> QED
    BY <2>2, ReferenceFinds
<1> HIDE DEF I, P
<1> QED
  BY <1>1, <1>2, <1>3, <1>4, <1>5, PTL DEF ReferenceSpec
=============================================================================
