----------------------------- MODULE TreeDedup -----------------------------
(***************************************************************************)
(* The Tree deduplicator (tree_approach.cpp): chunks and whole subtrees    *)
(* that are new are saved once, those seen before are saved as a pointer   *)
(* to their first occurrence, and unchanged ones are left out.             *)
(*                                                                         *)
(* The teams of the leaf kernel race for the map of first occurrences: one *)
(* step is one team.  Teams of every other kernel write only the labels,   *)
(* digests or chunks of their own node, so one step is the whole kernel;   *)
(* where two of them insert the same digest, either may win.               *)
(***************************************************************************)
EXTENDS MerkleTree, Sequences, FiniteSets

CONSTANTS
  NumChunks,    \* chunks of the memory region, which keeps its size
  Vals,         \* contents of a chunk
  NoVal,        \* content of the restart View no kernel has written
  Digests,      \* all digests
  NoDigest,     \* the zeroed HashDigest of a new MerkleTree
  Hash(_),      \* hash() of a chunk
  HashPair(_, _),  \* hash() of two adjacent digests
  OffsetSpan,   \* chunks a 32-bit byte offset tells apart: 2^32 / chunk_size
  WideTeams,    \* do teams of Kokkos::AUTO threads have more than one thread?
  FailingWrites, \* ids of the checkpoints whose file may fail to be written
  MaxChkpts     \* bound on the number of checkpoints taken

Size == NumNodes(NumChunks)
Nodes == 0 .. Size - 1
LeafNodes == Leaves(NumChunks)
Chunks == 0 .. NumChunks - 1
Data == [Chunks -> Vals]

\* With 2^30 chunks the index a loop over the levels wraps to is a node.
ASSUME SizeAssumption ==
  /\ NumChunks \in Nat \ {0} /\ Size < HalfOfWrapped
  /\ OffsetSpan \in Nat \ {0, 1}
  /\ MaxChkpts \in Nat
  /\ WideTeams \in BOOLEAN
  /\ FailingWrites \subseteq Nat

\* No collision, and nothing hashes to zeroes.
ASSUME HashAssumption ==
  /\ \A v \in Vals : Hash(v) \in Digests
  /\ \A l, r \in Digests : HashPair(l, r) # NoDigest
  /\ \A u, v \in Vals : Hash(u) = Hash(v) => u = v
  /\ \A v \in Vals, l, r \in Digests : HashPair(l, r) # Hash(v)
  /\ \A l, r, m, s \in Digests : HashPair(l, r) = HashPair(m, s) => l = m /\ r = s
  /\ NoDigest \notin Digests
  /\ NoVal \notin Vals

VARIABLES
  \* The deduplicator object.
  current_id, baseline_id, tree,
  first_ocur,   \* first_ocur_d: from digests to the NodeID of a first occurrence
  capacity,     \* entries first_ocur_d has room for, at least
  \* The checkpoint being taken; the two vectors hold no node twice.
  data, baseline, labels, first_ocur_vec, shift_dupl_vec,
  \* The vector of diffs, and the data each of them was taken from.
  incr_chkpts, history,
  \* (ghost) The ids a failed write has spoiled: of the checkpoint it lost, which
  \* is taken again, and of those that follow it in its chain.
  spoiled,
  \* The restart: checkpoint asked for, overload, loop index, ref_id, the list
  \* of the NodeID each chunk is to be copied from, and the View.
  target, via, idx, ref_id, node_list, out,
  \* Control: the kernel, the leaves whose teams have not run, the level.
  pc, todo, level

dedupVars == <<current_id, baseline_id, tree, first_ocur, capacity, data, baseline,
               labels, first_ocur_vec, shift_dupl_vec, incr_chkpts, history, spoiled>>
restartVars == <<target, via, idx, ref_id, node_list, out>>
vars == <<dedupVars, restartVars, pc, todo, level>>

-----------------------------------------------------------------------------
NodeID(node, chkpt) == [node |-> node, tree |-> chkpt]

Untouched == NodeID(-1, -1)  \* NodeID()

\* incr_chkpts[k] of the code.
Chkpt(k) == incr_chkpts[k + 1]

\* The leaves and the nodes of the region of each node.
Leftmost == [u \in Nodes |-> leftmost_leaf(u, Size)]
NumLeaves == [u \in Nodes |-> num_leaf_descendents(u, Size)]
Region == [u \in Nodes |-> RegionNodes(u, Size)]

\* The i-th chunk of the region of node u.
RegionChunk(u, i) == Leftmost[u] - (NumChunks - 1) + i

\* What hash() of its two children is for node u of tree t.
HashOfChildren(t, u) == HashPair(t[Left(u)], t[Right(u)])

\* The maps that result when teams insert the digests of nodes S of tree t:
\* the first insertion of a digest wins.
Inserted(map, t, S) ==
  LET new == {t[u] : u \in S} \ DOMAIN map
      winners == {w \in [new -> S] : \A d \in new : t[w[d]] = d}
  IN  {[d \in DOMAIN map \cup new |->
          IF d \in new THEN NodeID(w[d], current_id) ELSE map[d]] : w \in winners}

Init ==
  /\ current_id = 0
  /\ baseline_id = 0
  /\ tree = [u \in {} |-> NoDigest]
  /\ first_ocur = [d \in {} |-> Untouched]
  /\ capacity = 0
  /\ data = [c \in {} |-> NoVal]
  /\ baseline = FALSE
  /\ labels = [u \in {} |-> "DONE"]
  /\ first_ocur_vec = {}
  /\ shift_dupl_vec = {}
  /\ incr_chkpts = <<>>
  /\ history = <<>>
  /\ spoiled = {}
  /\ target = 0
  /\ via = "memory"
  /\ idx = 0
  /\ ref_id = 0
  /\ node_list = [c \in {} |-> Untouched]
  /\ out = [c \in {} |-> NoVal]
  /\ pc = "idle"
  /\ todo = {}
  /\ level = BottomLevel(Size)

-----------------------------------------------------------------------------
(* Taking a checkpoint *)

\* Mutant: whole blocks of teams run, one past the last leaf.
LeafTeamsRoundedUp == NumChunks - 1 .. Size

\* The leaves the leaf kernel's teams work on: `leaf < num_nodes`.
LeafTeams == LeafNodes

\* Mutant: every checkpoint reallocates the map.
MapAtStartEmpty(make_baseline) == [d \in {} |-> Untouched]

\* first_ocur_d when deduplication starts; a resize keeps the entries.
MapAtStart(make_baseline) ==
  IF make_baseline THEN [d \in {} |-> Untouched] ELSE first_ocur

\* Mutant: the entries that are there already are not counted.
RehashedForNodes(room, size) == IF room < Size THEN Size ELSE room

\* rehash(), where the entries there and one for each node may not fit.
Rehashed(room, size) == IF room < size + Size THEN size + Size ELSE room

\* checkpoint() up to the leaf kernel: every caller makes the first checkpoint
\* a baseline, which reallocates the tree and the map.
Checkpoint(d, make_baseline) ==
  /\ pc = "idle"
  /\ current_id < MaxChkpts
  /\ current_id = 0 => make_baseline
  /\ data' = d
  /\ spoiled' = IF make_baseline THEN spoiled \ {current_id} ELSE spoiled
  /\ baseline' = make_baseline
  /\ tree' = IF make_baseline THEN [u \in Nodes |-> NoDigest] ELSE tree
  /\ first_ocur' = MapAtStart(make_baseline)
  /\ capacity' = Rehashed(IF make_baseline THEN Size ELSE capacity,
                          Cardinality(DOMAIN first_ocur'))
  /\ baseline_id' = IF make_baseline THEN current_id ELSE baseline_id
  /\ labels' = [u \in Nodes |-> "DONE"]
  /\ first_ocur_vec' = {}
  /\ shift_dupl_vec' = {}
  /\ pc' = "leaves"
  /\ todo' = LeafTeams
  /\ UNCHANGED <<current_id, incr_chkpts, history, restartVars, level>>

\* Mutant: the entry goes to the team that comes last.
LaterOf(i, j) == j

\* Of two leaves of this checkpoint with one digest the lower one is entered.
LowerOf(i, j) == IF i < j THEN i ELSE j

\* The team of a leaf: insert its digest, label it, update the tree.
DedupLeaf(leaf) ==
  LET digest == Hash(data[leaf - (NumChunks - 1)])
      Label(l) == labels' = [labels EXCEPT ![leaf] = l]
      Record(node) == first_ocur' = [d \in DOMAIN first_ocur \cup {digest} |->
        IF d = digest THEN NodeID(node, current_id) ELSE first_ocur[d]]
      seen == digest \in DOMAIN first_ocur
      seenNow == seen /\ first_ocur[digest].tree = current_id
  IN  /\ pc = "leaves"
      /\ leaf \in todo
      /\ todo' = todo \ {leaf}
      /\ tree' = [tree EXCEPT ![leaf] = digest]
      /\ IF seen
         THEN IF digest # tree[leaf] /\ seenNow
              THEN Record(LowerOf(first_ocur[digest].node, leaf))
              ELSE UNCHANGED first_ocur
         ELSE Record(leaf)
      /\ \/ digest = tree[leaf] /\ Label("FIXED_DUPL")
         \/ digest # tree[leaf] /\ (~seen \/ seenNow) /\ Label("FIRST_OCUR")
         \/ digest # tree[leaf] /\ seen /\ ~seenNow /\ Label("SHIFT_DUPL")
      /\ UNCHANGED <<current_id, baseline_id, capacity, data, baseline, first_ocur_vec,
                     shift_dupl_vec, incr_chkpts, history, spoiled, restartVars, pc, level>>

\* Mutant: the kernel that "may not be necessary" is left out.
AllFirst(leaf) == FALSE

\* Of this checkpoint's new leaves with one digest, only the lowest keeps its
\* label.
NotTheLowest(leaf) ==
  /\ labels[leaf] = "FIRST_OCUR"
  /\ first_ocur[tree[leaf]].tree = current_id
  /\ first_ocur[tree[leaf]].node # leaf

\* "Choose first occurrences", the kernel after the leaf kernel.
ChooseFirst ==
  /\ pc = "leaves"
  /\ todo = {}
  /\ labels' = [u \in Nodes |->
                  IF u \in LeafNodes /\ NotTheLowest(u) THEN "SHIFT_DUPL" ELSE labels[u]]
  /\ level' = BottomLevel(Size)
  /\ pc' = "first"
  /\ UNCHANGED <<current_id, baseline_id, tree, first_ocur, capacity, data, baseline,
                 first_ocur_vec, shift_dupl_vec, incr_chkpts, history, spoiled, restartVars, todo>>

\* Mutant: the root is not saved.
PushNoRoot(new) == {}

\* The new nodes the first forest saves: the root, which no parent will.
PushRoot(new) == new \cap {0}

\* "Build First Occurrence Forest", one level: a node with two new children is
\* new.
FirstForest ==
  LET new == {u \in InnerNodes(level, NumChunks) :
                labels[Left(u)] = "FIRST_OCUR" /\ labels[Right(u)] = "FIRST_OCUR"}
  IN  /\ pc = "first"
      /\ LevelInTree(level, Size)
      /\ labels' = [u \in Nodes |-> IF u \in new THEN "FIRST_OCUR" ELSE labels[u]]
      /\ tree' = [u \in Nodes |-> IF u \in new THEN HashOfChildren(tree, u) ELSE tree[u]]
      /\ first_ocur' \in Inserted(first_ocur, tree', new)
      /\ first_ocur_vec' = first_ocur_vec \cup PushRoot(new)
      /\ level' = LevelAbove(level)
      /\ UNCHANGED <<current_id, baseline_id, capacity, data, baseline, shift_dupl_vec,
                     incr_chkpts, history, spoiled, restartVars, pc, todo>>

EndFirstForest ==
  /\ pc = "first"
  /\ ~LevelInTree(level, Size)
  /\ level' = BottomLevel(Size)
  /\ pc' = "forest"
  /\ UNCHANGED <<dedupVars, restartVars, todo>>

\* Mutant: the digests are those of an earlier checkpoint.
TreeStale(shift) == tree

\* Before it looks up the digest of a node with two shifted children,
\* dedup_data() hashes it; dedup_data_baseline() takes what the node holds.
TreeToLookUp(shift) ==
  [u \in Nodes |-> IF ~baseline /\ u \in shift THEN HashOfChildren(tree, u) ELSE tree[u]]

\* "Build Forest", one level: label each node by its children and save the
\* children of those that end here.
BuildForest ==
  LET inner == InnerNodes(level, NumChunks)
      both(l) == {u \in inner : labels[Left(u)] = l /\ labels[Right(u)] = l}
      mixed == {u \in inner : labels[Left(u)] # labels[Right(u)]}
      newTree == TreeToLookUp(both("SHIFT_DUPL"))
      shifted == {u \in both("SHIFT_DUPL") : newTree[u] \in DOMAIN first_ocur}
      ended == mixed \cup (both("SHIFT_DUPL") \ shifted)
      roots == {Left(u) : u \in ended} \cup {Right(u) : u \in ended}
  IN  /\ pc = "forest"
      /\ LevelInTree(level, Size)
      /\ tree' = newTree
      /\ labels' = [u \in Nodes |->
           CASE u \in ended -> "DONE"
             [] u \in shifted -> "SHIFT_DUPL"
             [] u \in both("FIXED_DUPL") -> "FIXED_DUPL"
             [] OTHER -> labels[u]]
      /\ first_ocur_vec' = first_ocur_vec \cup {u \in roots : labels[u] = "FIRST_OCUR"}
      /\ shift_dupl_vec' = shift_dupl_vec \cup {u \in roots : labels[u] = "SHIFT_DUPL"}
      /\ IF baseline THEN pc' = "insert" /\ UNCHANGED level
         ELSE level' = LevelAbove(level) /\ UNCHANGED pc
      /\ UNCHANGED <<current_id, baseline_id, first_ocur, capacity, data, baseline,
                     incr_chkpts, history, spoiled, restartVars, todo>>

\* "Build Forest: Insert entries": a baseline enters every node into the map.
InsertEntries ==
  LET inner == InnerNodes(level, NumChunks)
  IN  /\ pc = "insert"
      /\ tree' = [u \in Nodes |-> IF u \in inner THEN HashOfChildren(tree, u) ELSE tree[u]]
      /\ first_ocur' \in Inserted(first_ocur, tree', inner)
      /\ level' = LevelAbove(level)
      /\ pc' = "forest"
      /\ UNCHANGED <<current_id, baseline_id, capacity, data, baseline, labels,
                     first_ocur_vec, shift_dupl_vec, incr_chkpts, history, spoiled, restartVars,
                     todo>>

EndBuildForest ==
  /\ pc = "forest"
  /\ ~LevelInTree(level, Size)
  /\ pc' = "collect"
  /\ UNCHANGED <<dedupVars, restartVars, todo, level>>

\* first_ocur_d.value_at(first_ocur_d.find(tree(u)))
FirstOcur(u) == first_ocur[tree[u]]

\* The new regions of a diff and their chunks.
NewRegions ==
  [u \in {v \in first_ocur_vec : FirstOcur(v) = NodeID(v, current_id)} |->
     [i \in 0 .. NumLeaves[u] - 1 |-> data[RegionChunk(u, i)]]]

\* Mutants: duplicates of earlier checkpoints are left out; every node labelled
\* SHIFT_DUPL is saved.
ShiftedOfThisCheckpoint ==
  {[node |-> u, prev |-> FirstOcur(u)] :
     u \in {v \in shift_dupl_vec : FirstOcur(v).tree = current_id}}
ShiftedOfAllLabels ==
  {[node |-> u, prev |-> FirstOcur(u)] : u \in {v \in Nodes : labels[v] = "SHIFT_DUPL"}}

\* The shifted regions of a diff and the source of each.
ShiftedRegions == {[node |-> u, prev |-> FirstOcur(u)] : u \in shift_dupl_vec}

\* collect_diff(): regions of both kinds arrive in some order; a restart reads
\* them by node.  That it finds the checkpoint of a source by position, as in
\* ListDiff, is left out: the sort has a bin for every checkpoint here, so it
\* always finds it.  The chkpt_id of a diff is its position among the checkpoints.
Diff ==
  [ref_id |-> baseline_id, first_ocur |-> NewRegions, shift_dupl |-> ShiftedRegions]

\* The rest of checkpoint() and of its public overloads.
FinishCheckpoint ==
  /\ pc = "collect"
  /\ incr_chkpts' = Append(incr_chkpts, Diff)
  /\ history' = Append(history, data)
  /\ current_id' = current_id + 1
  /\ spoiled' = IF current_id \in spoiled THEN spoiled \cup {current_id + 1} ELSE spoiled
  /\ pc' = "idle"
  /\ UNCHANGED <<baseline_id, tree, first_ocur, capacity, data, baseline, labels,
                 first_ocur_vec, shift_dupl_vec, restartVars, todo, level>>

\* The overload that writes a file: the stream throws before current_id += 1.
FailToWrite ==
  /\ current_id \in FailingWrites
  /\ pc = "collect"
  /\ spoiled' = spoiled \cup {current_id}
  /\ pc' = "idle"
  /\ UNCHANGED <<current_id, baseline_id, tree, first_ocur, capacity, data, baseline, labels,
                 first_ocur_vec, shift_dupl_vec, incr_chkpts, history, restartVars, todo, level>>

-----------------------------------------------------------------------------
(* Restarting a checkpoint *)

\* Both restart_chkpt() overloads up to their first kernel.
OpenCheckpoint(k) ==
  /\ pc = "idle"
  /\ target' = k
  /\ idx' = k
  /\ ref_id' = Chkpt(k).ref_id
  /\ node_list' = [c \in Chunks |-> Untouched]
  /\ out' = [c \in Chunks |-> NoVal]
  /\ pc' = "regions"
  /\ UNCHANGED <<dedupVars, todo, level>>

RestartFromViews(k) == via' = "memory" /\ OpenCheckpoint(k)

RestartFromFiles(k) == via' = "files" /\ OpenCheckpoint(k)

\* distinct_map of checkpoint k: the nodes with a position in its data.
distinct_map(k) == UNION {Region[u] : u \in DOMAIN Chkpt(k).first_ocur}

\* The i-th chunk at the position checkpoint k has for node u.
Saved(k, u, i) ==
  LET root == CHOOSE v \in DOMAIN Chkpt(k).first_ocur : u \in Region[v]
      chunks == Chkpt(k).first_ocur[root]
      pos == Leftmost[u] - Leftmost[root] + i
  IN  IF u \in distinct_map(k) /\ pos \in DOMAIN chunks THEN chunks[pos] ELSE NoVal

\* repeat_map of checkpoint k: the NodeIDs entered for a leaf.
repeat_map(k, leaf) ==
  {NodeID(Leftmost[e.prev.node] + leaf - Leftmost[e.node], e.prev.tree) :
     e \in {e \in Chkpt(k).shift_dupl :
             leaf - Leftmost[e.node] \in 0 .. NumLeaves[e.node] - 1}}

\* The overload that reads files multiplies by chunk_size in 32 bits: numbers and
\* lengths of chunks, and the number of chunks it compares with the region's length.
Wraps == via = "files" /\ NumChunks >= OffsetSpan

\* The View after a kernel that copies: as intended; but where products wrap any chunks
\* may hold something else, for which NoVal stands.  (What such a restart makes of
\* node_list is not followed.)
Copied(view) ==
  IF Wraps
  THEN {[c \in Chunks |-> IF c \in wrong THEN NoVal ELSE view[c]] : wrong \in SUBSET Chunks}
  ELSE {view}

\* The first kernel of the checkpoint restarted: copy its new regions.
RestartRegions ==
  LET regions == DOMAIN Chkpt(target).first_ocur
      At(c) == {p \in regions \X Chunks :
                  p[2] < NumLeaves[p[1]] /\ RegionChunk(p[1], p[2]) = c}
  IN  /\ pc = "regions"
      /\ node_list' = [c \in Chunks |-> IF At(c) # {} THEN NodeID(c, target) ELSE node_list[c]]
      /\ out' \in Copied([c \in Chunks |->
           IF At(c) # {} THEN LET p == CHOOSE p \in At(c) : TRUE IN Saved(target, p[1], p[2])
           ELSE out[c]])
      /\ pc' = "repeats"
      /\ UNCHANGED <<dedupVars, target, via, idx, ref_id, todo, level>>

\* The second one: point the chunks of its shifted regions to their sources,
\* copying those whose source is in this checkpoint.  (The overload that reads files
\* looks up the position of every source, and uses it for those only.)
RestartRepeats ==
  LET At(c) == {p \in Chkpt(target).shift_dupl \X Chunks :
                  p[2] < NumLeaves[p[1].prev.node] /\ RegionChunk(p[1].node, p[2]) = c}
      Entry(c) == CHOOSE p \in At(c) : TRUE
      prev(c) == Entry(c)[1].prev
  IN  /\ pc = "repeats"
      /\ node_list' = [c \in Chunks |->
           IF At(c) # {} THEN NodeID(Leftmost[prev(c).node] + Entry(c)[2], prev(c).tree)
           ELSE node_list[c]]
      /\ out' \in Copied([c \in Chunks |->
           IF At(c) # {} /\ prev(c).tree = target THEN Saved(target, prev(c).node, Entry(c)[2])
           ELSE out[c]])
      /\ pc' = "same"
      /\ UNCHANGED <<dedupVars, target, via, idx, ref_id, todo, level>>

\* "Fill same entries": the others are as in the checkpoint before.
FillSame ==
  /\ pc = "same"
  /\ node_list' = [c \in Chunks |->
       IF node_list[c] = Untouched THEN NodeID(c + NumChunks - 1, target - 1)
       ELSE node_list[c]]
  /\ idx' = target - 1
  /\ pc' = "load"
  /\ UNCHANGED <<dedupVars, target, via, ref_id, out, todo, level>>

\* Mutant: duplicates are not looked for.
FollowUnchanged(k, id) == NodeID(id.node, k - 1)

\* Where a chunk that checkpoint k did not save is to be found.
Follow(k, id) ==
  IF repeat_map(k, id.node) # {} THEN CHOOSE p \in repeat_map(k, id.node) : TRUE
  ELSE NodeID(id.node, k - 1)

\* Where the threads of a team that read node_list(i) again may move a chunk to.
Moves(k) ==
  {p \in {Follow(k, NodeID(d, k)) : d \in LeafNodes} \cup {NodeID(d, k - 1) : d \in LeafNodes} :
     p.tree # k}

\* One round of the loop: checkpoint idx and its ref_id are loaded while
\* idx >= ref_id; each chunk due in it is copied, or moved on to where it is to
\* be found.  In a team of several threads one may test node_list(i).tree before,
\* and read node_list(i) after, another has moved it: it moves the chunk again, and
\* so may the next.  Where one finds it in checkpoint idx then, it copies its share of
\* the chunk, and the chunk is anything.  A NodeID is eight bytes, written and read as
\* one.  (The overload that reads files has one thread per chunk.)
RestartPrior ==
  LET due == {c \in Chunks : node_list[c].tree = idx}
      here == {c \in due : node_list[c].node \in distinct_map(idx)}
      next(c) == Follow(idx, node_list[c])
      moved == {c \in due \ here : next(c).tree # idx}
      parts == \E d \in LeafNodes : Follow(idx, NodeID(d, idx)).tree = idx
      copied == [c \in Chunks |->
        CASE c \in here -> Saved(idx, node_list[c].node, 0)
          [] c \in due \ (here \cup moved) -> Saved(idx, next(c).node, 0)
          [] OTHER -> out[c]]
  IN  /\ pc = "load"
      /\ idx >= ref_id
      /\ ref_id' = Chkpt(idx).ref_id
      /\ \E raced \in IF WideTeams /\ via = "memory" THEN SUBSET moved ELSE {{}} :
           /\ \E again \in [raced -> Moves(idx)] :
                node_list' = [c \in Chunks |->
                  CASE c \in raced -> again[c]
                    [] c \in moved \ raced -> next(c)
                    [] OTHER -> node_list[c]]
           /\ \E lost \in [IF parts THEN raced ELSE {} -> Vals \cup {NoVal}] :
                out' \in Copied([c \in Chunks |->
                  IF c \in DOMAIN lost THEN lost[c] ELSE copied[c]])
      /\ idx' = idx - 1
      /\ UNCHANGED <<dedupVars, target, via, pc, todo, level>>

FinishRestart ==
  /\ pc = "load"
  /\ idx < ref_id
  /\ pc' = "restarted"
  /\ UNCHANGED <<dedupVars, restartVars, todo, level>>

\* The caller has used the restarted data.
Release ==
  /\ pc = "restarted"
  /\ target' = 0
  /\ via' = "memory"
  /\ idx' = 0
  /\ ref_id' = 0
  /\ node_list' = [c \in {} |-> Untouched]
  /\ out' = [c \in {} |-> NoVal]
  /\ pc' = "idle"
  /\ UNCHANGED <<dedupVars, todo, level>>

-----------------------------------------------------------------------------
\* The steps of a call under way: fences wait for all teams, streams answer.
Progress ==
  \/ \E leaf \in todo : DedupLeaf(leaf)
  \/ ChooseFirst
  \/ FirstForest
  \/ EndFirstForest
  \/ BuildForest
  \/ InsertEntries
  \/ EndBuildForest
  \/ FinishCheckpoint
  \/ FailToWrite
  \/ RestartRegions
  \/ RestartRepeats
  \/ FillSame
  \/ RestartPrior
  \/ FinishRestart

\* The application's calls.
Call ==
  \/ \E d \in Data, make_baseline \in BOOLEAN : Checkpoint(d, make_baseline)
  \/ \E k \in 0 .. Len(incr_chkpts) - 1 : RestartFromViews(k) \/ RestartFromFiles(k)
  \/ Release

Next == Progress \/ Call

Spec == Init /\ [][Next]_vars

FairSpec == Spec /\ WF_vars(Progress)

-----------------------------------------------------------------------------
(* Properties *)

Taken == 0 .. Len(incr_chkpts) - 1

\* NodeIDs; node_list holds chunk numbers and chkpt_id - 1 as well.
NodeIDs == [node : Int, tree : Int]

\* Every variable holds values of its kind.
TypeOK ==
  /\ current_id \in Nat /\ baseline_id \in Nat /\ baseline \in BOOLEAN
  /\ DOMAIN tree \in {{}, Nodes} /\ \A u \in DOMAIN tree : tree[u] \in Digests \cup {NoDigest}
  /\ \A d \in DOMAIN first_ocur : d \in Digests /\ first_ocur[d] \in NodeIDs
  /\ capacity \in Nat
  /\ data \in Data \cup {[c \in {} |-> NoVal]}
  /\ labels \in [DOMAIN tree -> {"FIRST_OCUR", "FIXED_DUPL", "SHIFT_DUPL", "DONE"}]
  /\ first_ocur_vec \subseteq Nodes /\ shift_dupl_vec \subseteq Nodes
  /\ Len(incr_chkpts) = Len(history)
  /\ spoiled \subseteq 0 .. current_id
  /\ \A k \in Taken : Chkpt(k).ref_id \in 0 .. k /\ history[k + 1] \in Data
  /\ target \in Nat /\ via \in {"memory", "files"} /\ idx \in Int /\ ref_id \in Nat
  /\ DOMAIN node_list \in {{}, Chunks} /\ \A c \in DOMAIN node_list : node_list[c] \in NodeIDs
  /\ out \in [DOMAIN node_list -> Vals \cup {NoVal}]
  /\ pc \in {"idle", "leaves", "first", "forest", "insert", "collect", "regions",
             "repeats", "same", "load", "restarted"}
  /\ todo \subseteq LeafNodes

\* The chunks under node u.
ChunksOf(u) == {RegionChunk(u, i) : i \in 0 .. NumLeaves[u] - 1}

\* "Distinct node with different node/tree. Shouldn't happen.": when a diff is
\* gathered, the map has the digest of every region pushed, under a checkpoint of
\* the chain; and unless a failed write has spoiled the chain, each region to be
\* saved is the first occurrence itself, and no shifted one is.
SourcesKnown ==
  pc = "collect" =>
    /\ \A u \in first_ocur_vec \cup shift_dupl_vec :
         /\ tree[u] \in DOMAIN first_ocur
         /\ FirstOcur(u).tree \in baseline_id .. current_id
    /\ current_id \notin spoiled =>
         /\ \A u \in first_ocur_vec : FirstOcur(u) = NodeID(u, current_id)
         /\ \A u \in shift_dupl_vec : FirstOcur(u) # NodeID(u, current_id)

\* Nothing is pushed or inserted past what was allocated: push() looks at no
\* capacity, and what insert() answers when the map is full is not looked at.
RoomEnough ==
  /\ Cardinality(DOMAIN first_ocur) <= capacity
  /\ Cardinality(first_ocur_vec) <= NumChunks
  /\ Cardinality(shift_dupl_vec) <= NumChunks

\* The regions of a diff share no chunk: no team of a restart writes what
\* another writes.
RegionsDisjoint ==
  pc = "idle" => \A k \in Taken :
    LET roots == DOMAIN Chkpt(k).first_ocur \cup {e.node : e \in Chkpt(k).shift_dupl}
    IN  /\ \A u, v \in roots : u # v => ChunksOf(u) \cap ChunksOf(v) = {}
        /\ DOMAIN Chkpt(k).first_ocur \cap {e.node : e \in Chkpt(k).shift_dupl} = {}

\* A shifted region points to a subtree of the same shape that held the same
\* chunks when the checkpoint it names was taken.
DuplicatesTrue ==
  pc = "idle" => \A k \in Taken \ spoiled : \A e \in Chkpt(k).shift_dupl :
    /\ e.prev.tree \in Chkpt(k).ref_id .. k
    /\ NumLeaves[e.node] = NumLeaves[e.prev.node]
    /\ \A i \in 0 .. NumLeaves[e.node] - 1 :
         history[k + 1][RegionChunk(e.node, i)] =
           history[e.prev.tree + 1][RegionChunk(e.prev.node, i)]

\* The chunks saved by checkpoint k, by position in the region.
SavedChunks(k) ==
  UNION {{<<u, i>> : i \in DOMAIN Chkpt(k).first_ocur[u]} : u \in DOMAIN Chkpt(k).first_ocur}

\* "Save minimal set of chunks": no content is saved twice in a chain, neither
\* by one checkpoint nor by two, whatever order the leaf teams ran in.
SavedOnce ==
  pc = "idle" => \A j, k \in Taken : Chkpt(j).ref_id = Chkpt(k).ref_id =>
    \A p \in SavedChunks(j), q \in SavedChunks(k) :
      Chkpt(j).first_ocur[p[1]][p[2]] = Chkpt(k).first_ocur[q[1]][q[2]] => j = k /\ p = q

\* The whole region returns to an earlier checkpoint of its chain.
Returns(k) == \E j \in Chkpt(k).ref_id .. k - 2 : history[j + 1] = history[k + 1]

\* A chunk under no region of a diff is the same in the previous checkpoint of
\* the chain, unless the whole region returns to an earlier one.
OmittedUnchanged ==
  pc = "idle" => \A k \in Taken \ spoiled :
    LET roots == DOMAIN Chkpt(k).first_ocur \cup {e.node : e \in Chkpt(k).shift_dupl}
    IN  ~Returns(k) => \A c \in Chunks \ UNION {ChunksOf(u) : u \in roots} :
          k > Chkpt(k).ref_id /\ history[k][c] = history[k + 1][c]

\* A restart of a checkpoint no part of whose chain returns to an earlier one
\* gives back the data the checkpoint was taken of, where offsets do not wrap.
RestartExactWithoutReturn ==
  /\ pc = "restarted" /\ ~Wraps /\ target \notin spoiled
  /\ \A k \in Chkpt(target).ref_id .. target : ~Returns(k)
  => out = history[target + 1]

\* Every restart gives back the data the checkpoint was taken of, where offsets do not
\* wrap.
RestartExact == pc = "restarted" /\ ~Wraps /\ target \notin spoiled => out = history[target + 1]

\* Every checkpoint() and restart() call returns, the loops that count levels
\* down past zero included.
CallsReturn == pc \notin {"idle", "restarted"} ~> pc \in {"idle", "restarted"}
=============================================================================
