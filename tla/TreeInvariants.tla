--------------------------- MODULE TreeInvariants ---------------------------
(***************************************************************************)
(* The inductive invariants behind the safety properties of TreeDedup:     *)
(* Coherent says what every checkpoint keeps to, Exact what those that no  *)
(* failed write has spoiled do besides, Restorable what a restart relies   *)
(* on.  With it the deduplicator implements the checkpoint store.          *)
(***************************************************************************)
EXTENDS TreeDedup

\* The kernels of a checkpoint: all, those after the leaf kernel, and those
\* after the forest of first occurrences.
Kernels == {"leaves", "first", "forest", "insert", "collect"}
Forests == {"first", "forest", "insert", "collect"}
Second == {"forest", "insert", "collect"}

Kinds == {"FIRST_OCUR", "FIXED_DUPL", "SHIFT_DUPL", "DONE"}

FcnOn(f, S) == f = [x \in S |-> f[x]]

Inner == 0 .. NumChunks - 2

\* The inner nodes of the levels the pass under way has left behind, and those
\* it has labelled.
Visited == {u \in Inner : LevelInTree(level, Size) => u > level.end}
Labelled ==
  IF pc = "insert" THEN Visited \cup InnerNodes(level, NumChunks) ELSE Visited

Both(u, l) == labels[Left(u)] = l /\ labels[Right(u)] = l

LeafDigest(u) == Hash(data[u - (NumChunks - 1)])

-----------------------------------------------------------------------------
(* The parts of Coherent *)

\* Checkpoints are numbered as they are kept; entries of the map are of the chain.
ObjectTrue ==
  /\ current_id \in Nat /\ baseline_id \in 0 .. current_id /\ baseline \in BOOLEAN
  /\ pc \in Kernels \cup {"idle", "regions", "repeats", "same", "load", "restarted"}
  /\ FcnOn(first_ocur, DOMAIN first_ocur)
  /\ \A d \in DOMAIN first_ocur :
       /\ FcnOn(first_ocur[d], {"node", "tree"})
       /\ first_ocur[d].node \in Nodes
       /\ first_ocur[d].tree \in baseline_id .. current_id
  /\ pc \in Kernels \/ current_id > 0 => FcnOn(tree, Nodes)
  /\ pc \in Kernels => data \in Data /\ labels \in [Nodes -> Kinds]
  /\ todo \subseteq LeafNodes /\ (pc # "leaves" => todo = {})
  /\ FcnOn(incr_chkpts, 1 .. current_id) /\ FcnOn(history, 1 .. current_id)

\* Labels are those of a kernel that has visited some levels: what a node is
\* labelled, both its children are.
LabelsTrue ==
  /\ pc = "leaves" => \A u \in Inner \cup todo : labels[u] = "DONE"
  /\ pc = "first" => \A u \in Inner :
       labels[u] = IF u \in Visited /\ Both(u, "FIRST_OCUR") THEN "FIRST_OCUR" ELSE "DONE"
  /\ pc \in Second => \A u \in Inner :
       /\ Both(u, "FIRST_OCUR") => labels[u] = "FIRST_OCUR"
       /\ labels[u] # "DONE" => Both(u, labels[u])
       /\ u \in Labelled \/ labels[u] \in {"FIRST_OCUR", "DONE"}

\* The tree holds the digests of the leaves that are done and of new nodes, and
\* the map has them; it has those of shifted nodes.  Of the leaves with a digest
\* this checkpoint was first to enter, the map names the one still called new.
DigestsKnown ==
  /\ pc \in Kernels => \A u \in LeafNodes \ todo :
       tree[u] = LeafDigest(u) /\ tree[u] \in DOMAIN first_ocur
  /\ pc = "leaves" => \A u \in LeafNodes \ todo :
       /\ labels[u] = "FIRST_OCUR" => first_ocur[tree[u]].tree = current_id
       /\ labels[u] = "SHIFT_DUPL" => first_ocur[tree[u]].tree # current_id
  /\ pc \in Forests => \A u \in LeafNodes :
       /\ labels[u] = "FIRST_OCUR" => first_ocur[tree[u]] = NodeID(u, current_id)
       /\ labels[u] = "SHIFT_DUPL" => first_ocur[tree[u]] # NodeID(u, current_id)
  /\ pc \in Forests => \A u \in Inner :
       /\ labels[u] = "FIRST_OCUR" =>
            tree[u] = HashOfChildren(tree, u) /\ tree[u] \in DOMAIN first_ocur
       /\ labels[u] = "SHIFT_DUPL" => tree[u] \in DOMAIN first_ocur

\* The nodes whose digests the kernels may still enter.
Pending ==
  CASE pc = "leaves" -> todo \cup Inner
    [] pc = "first" -> {u \in Inner : labels[u] # "FIRST_OCUR"}
    [] pc \in {"forest", "insert"} -> {u \in Inner \ Visited : labels[u] # "FIRST_OCUR"}
    [] OTHER -> {}

\* The map has room for them.
RoomLeft ==
  /\ capacity \in Nat
  /\ IsFiniteSet(DOMAIN first_ocur)
  /\ Cardinality(DOMAIN first_ocur) + Cardinality(Pending) <= capacity

\* What has been pushed is labelled so, and is under no node labelled so: it is
\* the root of its region.
RootsTrue ==
  /\ first_ocur_vec \subseteq Nodes /\ shift_dupl_vec \subseteq Nodes
  /\ pc = "leaves" => first_ocur_vec = {}
  /\ pc = "first" => first_ocur_vec \subseteq {0}
  /\ pc \in {"leaves", "first"} => shift_dupl_vec = {}
  /\ pc \in Kernels =>
       /\ \A u \in first_ocur_vec : labels[u] = "FIRST_OCUR"
       /\ \A u \in shift_dupl_vec : labels[u] = "SHIFT_DUPL"
       /\ \A u \in Inner :
            /\ labels[u] = "FIRST_OCUR" => {Left(u), Right(u)} \cap first_ocur_vec = {}
            /\ labels[u] = "SHIFT_DUPL" \/ u \notin Labelled =>
                 {Left(u), Right(u)} \cap shift_dupl_vec = {}

\* The vectors hold no more nodes than they have room for.
VectorsFit ==
  Cardinality(first_ocur_vec) <= NumChunks /\ Cardinality(shift_dupl_vec) <= NumChunks

\* Diffs hold the chunks of disjoint regions, and point into their chain.
DiffTrue(k) ==
  LET diff == Chkpt(k)
      roots == DOMAIN diff.first_ocur \cup {e.node : e \in diff.shift_dupl}
  IN  /\ diff.ref_id \in 0 .. k
      /\ history[k + 1] \in Data
      /\ roots \subseteq Nodes
      /\ \A u \in DOMAIN diff.first_ocur :
           diff.first_ocur[u] =
             [i \in 0 .. NumLeaves[u] - 1 |-> history[k + 1][RegionChunk(u, i)]]
      /\ \A e \in diff.shift_dupl :
           e.prev.node \in Nodes /\ e.prev.tree \in diff.ref_id .. k
      /\ \A u, v \in roots : u # v => ChunksOf(u) \cap ChunksOf(v) = {}
      /\ DOMAIN diff.first_ocur \cap {e.node : e \in diff.shift_dupl} = {}

DiffsTrue == \A k \in Taken : DiffTrue(k)

\* The map names every chunk the chain has saved as the first of its content.
SavedKnown ==
  \A k \in Taken : Chkpt(k).ref_id = baseline_id =>
    \A u \in DOMAIN Chkpt(k).first_ocur : \A i \in 0 .. NumLeaves[u] - 1 :
      LET digest == Hash(history[k + 1][RegionChunk(u, i)])
      IN  /\ digest \in DOMAIN first_ocur
          /\ first_ocur[digest] = NodeID(Leftmost[u] + i, k)

\* No two checkpoints of a chain, and no two regions of one, saved one content.
SavedApart ==
  \A j, k \in Taken : Chkpt(j).ref_id = Chkpt(k).ref_id =>
    \A p \in SavedChunks(j), q \in SavedChunks(k) :
      Chkpt(j).first_ocur[p[1]][p[2]] = Chkpt(k).first_ocur[q[1]][q[2]] => j = k /\ p = q

Coherent ==
  /\ ObjectTrue /\ LabelsTrue /\ DigestsKnown /\ RoomLeft
  /\ RootsTrue /\ VectorsFit /\ DiffsTrue /\ SavedKnown /\ SavedApart

-----------------------------------------------------------------------------
(* The parts of Exact *)

\* A leaf of the tree has no digest or one the map has, and where the map has the
\* digest of a node it has those of its children, which were entered no later.
MapClosed ==
  /\ DOMAIN first_ocur \subseteq Digests
  /\ pc \in Kernels \/ current_id > 0 => \A u \in LeafNodes :
       tree[u] \in DOMAIN first_ocur \cup {NoDigest}
  /\ \A l, r \in Digests : HashPair(l, r) \in DOMAIN first_ocur =>
       \A d \in {l, r} :
         /\ d \in DOMAIN first_ocur
         /\ first_ocur[d].tree <= first_ocur[HashPair(l, r)].tree

\* While no checkpoint of the chain is lost, the map's entries of the checkpoint
\* under way are of new nodes, or of nodes a baseline has entered.
EntriesNew ==
  current_id \notin spoiled =>
    /\ pc \in Kernels => \A d \in DOMAIN first_ocur : first_ocur[d].tree = current_id =>
         LET u == first_ocur[d].node
         IN  /\ tree[u] = d
             /\ \/ labels[u] = "FIRST_OCUR"
                \/ baseline /\ pc \in Second /\ u \in Visited
    /\ pc \notin Kernels => \A d \in DOMAIN first_ocur : first_ocur[d].tree # current_id
    /\ pc \in Forests => \A u \in Inner :
         labels[u] = "FIRST_OCUR" => FirstOcur(u) = NodeID(u, current_id)

\* A baseline starts with no digests, and enters those of all nodes it visits.
BaselineTrue ==
  /\ pc = "insert" => baseline
  /\ pc \in Kernels /\ baseline => \A u \in Inner :
       /\ labels[u] # "SHIFT_DUPL"
       /\ IF pc \in Second /\ u \in Visited THEN tree[u] \in DOMAIN first_ocur
          ELSE labels[u] # "FIRST_OCUR" => tree[u] = NoDigest

\* Digests has the digests of all data of that shape: f of those of each node.
DigestsClosed(f) ==
  /\ f \in [Nodes -> SUBSET Digests]
  /\ \A u \in LeafNodes, v \in Vals : Hash(v) \in f[u]
  /\ \A u \in Inner : \A l \in f[Left(u)], r \in f[Right(u)] : HashPair(l, r) \in f[u]

Exact == MapClosed /\ EntriesNew /\ BaselineTrue

-----------------------------------------------------------------------------
(* The parts of Restorable, for trees whose leaves are all on one level *)

\* Halving leads from n to 1.
PowerOfTwo(n) ==
  \E S \in SUBSET (1 .. n) : n \in S /\ \A x \in S : x = 1 \/ (x % 2 = 0 /\ x \div 2 \in S)

\* Every leaf gets a label; where a region ends, the children that are new or
\* shifted have been pushed, and so has a root that is new.
PushedTrue ==
  /\ pc \in Kernels => \A u \in LeafNodes \ todo : labels[u] # "DONE"
  /\ pc \in Forests => (labels[0] = "FIRST_OCUR" => 0 \in first_ocur_vec)
  /\ pc \in Second => \A u \in Labelled : labels[u] = "DONE" =>
       \A w \in {Left(u), Right(u)} :
         /\ labels[w] = "FIRST_OCUR" => w \in first_ocur_vec
         /\ labels[w] = "SHIFT_DUPL" => w \in shift_dupl_vec

\* The digest of leaf u in the checkpoint before the one under way.
PastDigest(u) == Hash(history[current_id][u - (NumChunks - 1)])

\* Leaves not yet compared have the digests of that checkpoint, or of none in a
\* baseline; a leaf is unchanged when it has that digest.
LeavesPast ==
  /\ pc \in Kernels /\ baseline =>
       /\ baseline_id = current_id
       /\ \A u \in LeafNodes :
            IF u \in todo THEN tree[u] = NoDigest ELSE labels[u] # "FIXED_DUPL"
  /\ current_id \notin spoiled =>
       /\ pc \notin Kernels /\ current_id > 0 =>
            baseline_id < current_id /\ \A u \in LeafNodes : tree[u] = PastDigest(u)
       /\ pc \in Kernels /\ ~baseline =>
            /\ baseline_id < current_id
            /\ \A u \in LeafNodes :
                 IF u \in todo THEN tree[u] = PastDigest(u)
                 ELSE labels[u] = "FIXED_DUPL" <=> LeafDigest(u) = PastDigest(u)

\* The checkpoints from a baseline on are of its chain, and once spoiled a chain
\* stays so.
ChainsTrue ==
  /\ \A k \in Taken : \A j \in Chkpt(k).ref_id .. k :
       Chkpt(j).ref_id = Chkpt(k).ref_id /\ (j \in spoiled => k \in spoiled)
  /\ \A j \in baseline_id .. current_id - 1 :
       Chkpt(j).ref_id = baseline_id /\ (j \in spoiled => current_id \in spoiled)

Roots(k) == DOMAIN Chkpt(k).first_ocur \cup {e.node : e \in Chkpt(k).shift_dupl}

\* OmittedUnchanged, of the diffs kept in any state.
OmittedSame ==
  \A k \in Taken \ spoiled : ~Returns(k) =>
    \A c \in Chunks \ UNION {ChunksOf(u) : u \in Roots(k)} :
      k > Chkpt(k).ref_id /\ history[k][c] = history[k + 1][c]

\* A diff saves the regions its own duplicates point to.
SourcesSaved ==
  \A k \in Taken \ spoiled : \A e \in Chkpt(k).shift_dupl :
    e.prev.tree = k => e.prev.node \in distinct_map(k)

Restarting == {"regions", "repeats", "same", "load", "restarted"}

\* What a restart is to make of chunk c, and that it has, or that the entry of the
\* node list names a leaf that held it.
Wanted(c) == history[target + 1][c]
Restored(c) == out[c] = Wanted(c)
Sought(c) ==
  LET id == node_list[c]
  IN  /\ id.node \in LeafNodes /\ id.tree \in Chkpt(target).ref_id .. target
      /\ history[id.tree + 1][id.node - (NumChunks - 1)] = Wanted(c)

\* One thread moves each chunk: teams have one, or the restart reads files; or it is
\* of a baseline, and no chunk moves.
OneThread == WideTeams => via = "files" \/ Chkpt(target).ref_id = target

\* What RestartExactWithoutReturn supposes of the restart under way.
Clear ==
  /\ OneThread /\ ~Wraps /\ target \notin spoiled
  /\ \A k \in Chkpt(target).ref_id .. target : ~Returns(k)

\* What is known of chunk c before each kernel of a restart, and between the
\* checkpoints its loop loads.
FoundTrue(c) ==
  /\ pc = "regions" => node_list[c] = Untouched
  /\ pc = "repeats" =>
       \/ node_list[c] = NodeID(c, target) /\ Restored(c)
       \/ /\ node_list[c] = Untouched
          /\ \A u \in DOMAIN Chkpt(target).first_ocur : c \notin ChunksOf(u)
  /\ pc = "same" =>
       \/ node_list[c].tree = target /\ Restored(c)
       \/ node_list[c].tree < target /\ Sought(c)
       \/ node_list[c] = Untouched /\ \A u \in Roots(target) : c \notin ChunksOf(u)
  /\ pc = "load" =>
       /\ node_list[c].tree \in Int
       /\ IF node_list[c].tree > idx THEN Restored(c) ELSE Sought(c)
  /\ pc = "restarted" => Restored(c)

WalkTrue ==
  pc \in Restarting =>
    /\ target \in Taken /\ FcnOn(node_list, Chunks) /\ FcnOn(out, Chunks)
    /\ Clear =>
         /\ pc # "restarted" => ref_id = Chkpt(target).ref_id
         /\ pc = "load" => idx \in ref_id - 1 .. target - 1
         /\ \A c \in Chunks : FoundTrue(c)

Restorable ==
  PushedTrue /\ LeavesPast /\ ChainsTrue /\ OmittedSame /\ SourcesSaved /\ WalkTrue

\* A baseline no failed write has spoiled is restarted exactly, where offsets do not
\* wrap.
BaselineExact ==
  pc = "restarted" /\ ~Wraps /\ target \notin spoiled /\ Chkpt(target).ref_id = target =>
    target \in Taken /\ out = history[target + 1]

-----------------------------------------------------------------------------
\* The deduplicator is a checkpoint store, in the restarts that are clear.
Store == INSTANCE CheckpointStore WITH
  NotRestarted <- [id |-> -1],
  history <- history,
  restarted <- IF pc = "restarted" /\ Clear
               THEN [id |-> target, data |-> out] ELSE [id |-> -1]

StoreSpec == Store!Spec
=============================================================================
