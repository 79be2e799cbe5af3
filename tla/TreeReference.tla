---------------------------- MODULE TreeReference ----------------------------
(***************************************************************************)
(* The serial reference of the Tree deduplicator (dedup_low_offset_ref in  *)
(* reference_impl.hpp): leaves and nodes are taken one after the other, on *)
(* the host.  It says which regions a checkpoint is to have, and so what   *)
(* the racing teams of TreeDedup must end with in every order.             *)
(***************************************************************************)
EXTENDS TreeInvariants

VARIABLE prior  \* the tree and the map when the checkpoint under way began

referenceVars == <<vars, prior>>

ReferenceInit == Init /\ prior = [tree |-> tree, map |-> first_ocur]

\* What the reference is handed is what dedup_data() finds.
ReferenceNext ==
  /\ Next
  /\ prior' = IF pc = "idle" /\ pc' = "leaves"
              THEN [tree |-> tree', map |-> first_ocur'] ELSE prior

ReferenceSpec == ReferenceInit /\ [][ReferenceNext]_referenceVars

-----------------------------------------------------------------------------
\* The host map's insert(): an entry there is stays.
Entered(map, digest, node) ==
  [d \in DOMAIN map \cup {digest} |->
     IF d \in DOMAIN map THEN map[d] ELSE NodeID(node, current_id)]

\* "Process leaves first", one leaf.
ReferenceLeaf(s, leaf) ==
  LET digest == Hash(data[leaf - (NumChunks - 1)])
      map == Entered(s.map, digest, leaf)
      fixed == digest = prior.tree[leaf]
      \* It is there already, entered by this checkpoint at a higher leaf.
      lower == map[digest].tree = current_id /\ map[digest].node > leaf
  IN  [s EXCEPT
         !.tree[leaf] = digest,
         !.map = IF ~fixed /\ lower THEN [map EXCEPT ![digest].node = leaf] ELSE map,
         !.labels = [u \in Nodes |->
           CASE u = leaf /\ fixed -> "FIXED_DUPL"
             [] u = leaf /\ ~fixed /\ (digest \notin DOMAIN s.map \/ lower) -> "FIRST_OCUR"
             [] u = leaf /\ ~fixed /\ digest \in DOMAIN s.map /\ ~lower -> "SHIFT_DUPL"
             [] u # leaf /\ ~fixed /\ lower /\ u = map[digest].node -> "SHIFT_DUPL"
             [] OTHER -> s.labels[u]]]

\* The first loop over the inner nodes: those with two new children are new.
ReferenceFirst(s, node) ==
  LET digest == HashOfChildren(s.tree, node)
  IN  IF s.labels[Left(node)] = "FIRST_OCUR" /\ s.labels[Right(node)] = "FIRST_OCUR"
      THEN [s EXCEPT !.labels[node] = "FIRST_OCUR", !.tree[node] = digest,
                     !.map = Entered(s.map, digest, node)]
      ELSE s

\* The second one: label by the children, and collect the roots of regions.
ReferenceForest(s, node) ==
  LET children == {Left(node), Right(node)}
      kinds == {s.labels[u] : u \in children}
      digest == HashOfChildren(s.tree, node)
  IN  CASE Cardinality(kinds) = 2 ->
             [s EXCEPT !.labels[node] = "DONE",
               !.roots = s.roots \cup {u \in children : s.labels[u] \notin {"FIXED_DUPL", "DONE"}}]
        [] kinds = {"FIXED_DUPL"} -> [s EXCEPT !.labels[node] = "FIXED_DUPL"]
        [] kinds = {"SHIFT_DUPL"} /\ digest \in DOMAIN s.map ->
             [s EXCEPT !.labels[node] = "SHIFT_DUPL", !.tree[node] = digest]
        [] kinds = {"SHIFT_DUPL"} /\ digest \notin DOMAIN s.map ->
             [s EXCEPT !.labels[node] = "DONE", !.tree[node] = digest,
                       !.roots = s.roots \cup children]
        [] OTHER -> s

\* The three loops, by the node that is next: no node has been looked at; leaves
\* from the first one up; and inner nodes, twice, from the last one down.
ReferenceStart ==
  [tree |-> [u \in Nodes |-> NoDigest], map |-> prior.map,
   labels |-> [u \in Nodes |-> "DONE"], roots |-> {}]

LeavesBefore[n \in NumChunks - 1 .. Size] ==
  IF n = NumChunks - 1 THEN ReferenceStart ELSE ReferenceLeaf(LeavesBefore[n - 1], n - 1)

FirstsFrom[n \in 0 .. NumChunks - 1] ==
  IF n = NumChunks - 1 THEN LeavesBefore[Size] ELSE ReferenceFirst(FirstsFrom[n + 1], n)

ForestFrom[n \in 0 .. NumChunks - 1] ==
  IF n = NumChunks - 1 THEN FirstsFrom[0] ELSE ReferenceForest(ForestFrom[n + 1], n)

\* dedup_low_offset_ref(): the regions of either kind, each with its source.
Reference ==
  LET s == ForestFrom[0]
      roots == s.roots \cup (IF s.labels[0] = "FIRST_OCUR" THEN {0} ELSE {})
      of(l) == {[node |-> u, prev |-> s.map[s.tree[u]]] : u \in {v \in roots : s.labels[v] = l}}
  IN  [first_ocur |-> of("FIRST_OCUR"), shift_dupl |-> of("SHIFT_DUPL")]

\* In whatever order the teams ran, a checkpoint that is no baseline has exactly
\* the regions, with the sources, that the serial reference finds.  (Where a failed
\* write has left entries of the checkpoint under way in the map they may differ:
\* a leaf with such a digest is new to its team, but to the reference only if it
\* is lower than the node entered.)
AgreesWithReference ==
  pc = "collect" /\ ~baseline /\ current_id \notin spoiled =>
    /\ {[node |-> u, prev |-> FirstOcur(u)] : u \in first_ocur_vec} = Reference.first_ocur
    /\ ShiftedRegions = Reference.shift_dupl

-----------------------------------------------------------------------------
(* The inductive invariant behind it *)

\* The checkpoints whose regions are compared.
Compared == pc \in Kernels /\ ~baseline /\ current_id \notin spoiled

\* The entries of the map are those it began with, and those of this checkpoint.
PriorTrue ==
  /\ FcnOn(prior.map, DOMAIN prior.map) /\ DOMAIN prior.map \subseteq DOMAIN first_ocur
  /\ \A d \in DOMAIN first_ocur :
       IF d \in DOMAIN prior.map
       THEN first_ocur[d] = prior.map[d] /\ prior.map[d].tree # current_id
       ELSE first_ocur[d].tree = current_id
  /\ \A u \in LeafNodes : prior.tree[u] \in DOMAIN prior.map \cup {NoDigest}

\* What a leaf is that no leaf of this checkpoint is compared with.
LeafKind(u) ==
  IF LeafDigest(u) = prior.tree[u] THEN "FIXED_DUPL"
  ELSE IF LeafDigest(u) \in DOMAIN prior.map THEN "SHIFT_DUPL" ELSE "FIRST_OCUR"

Lowest(u) == \A v \in LeafNodes : LeafDigest(v) = LeafDigest(u) => u <= v

\* The label of a leaf is of its digest alone, and then the lowest leaf with a new
\* digest is its first occurrence.
LeafLabels ==
  /\ pc = "leaves" =>
       /\ \A u \in todo : tree[u] = prior.tree[u]
       /\ \A u \in LeafNodes \ todo :
            /\ labels[u] = LeafKind(u)
            /\ LeafKind(u) = "FIRST_OCUR" => first_ocur[LeafDigest(u)].node <= u
  /\ pc \in Forests => \A u \in LeafNodes :
       labels[u] = IF LeafKind(u) = "FIRST_OCUR" /\ ~Lowest(u) THEN "SHIFT_DUPL" ELSE LeafKind(u)

\* The label of an inner node is of its children's and of the map; and what has
\* been pushed is the root, or the child of a node where regions end.
NodeLabels ==
  pc \in Second =>
    /\ \A u \in Visited : Both(u, "FIXED_DUPL") => labels[u] = "FIXED_DUPL"
    /\ \A u \in Visited : Both(u, "SHIFT_DUPL") =>
         (labels[u] = "SHIFT_DUPL" <=> HashOfChildren(tree, u) \in DOMAIN first_ocur)
    /\ \A u \in Inner : labels[u] = "SHIFT_DUPL" => tree[u] = HashOfChildren(tree, u)
    /\ \A w \in (first_ocur_vec \ {0}) \cup shift_dupl_vec :
         \E u \in Visited : labels[u] = "DONE" /\ w \in {Left(u), Right(u)}

Comparable == Compared => PriorTrue /\ LeafLabels /\ NodeLabels
=============================================================================
