----------------------------- MODULE ListDedup -----------------------------
(***************************************************************************)
(* The List deduplicator (list_approach.cpp): a changed chunk whose digest *)
(* is new is saved, one whose digest is in the map of first occurrences is *)
(* saved as a pointer to that occurrence, and unchanged ones are left out. *)
(*                                                                         *)
(* The threads of the deduplication kernel race for the map: one step is   *)
(* the thread of one chunk.  Threads of every other kernel write only what *)
(* is their own chunk's, so one step is the whole kernel.                  *)
(***************************************************************************)
EXTENDS ListDiff

CONSTANTS
  NumChunks,    \* chunks of the memory region, which keeps its size
  Vals,         \* contents of a chunk, which is one word
  NoVal,        \* content of the restart View no kernel has written
  NoDigest,     \* the zeroed HashDigest of a new HashList
  Hash(_),      \* hash() of a chunk
  OffsetSpan,   \* chunks a 32-bit byte offset tells apart: 2^32 / chunk_size
  WholeChunks,  \* is the region a whole number of chunks, none a short last one?
  WideTeams,    \* do teams of Kokkos::AUTO threads have more than one thread?
  Overloads,    \* the restart() overloads the application calls
  FailingWrites, \* ids of the checkpoints whose file may fail to be written
  MaxChkpts     \* bound on the number of checkpoints taken

Chunks == 0 .. NumChunks - 1
Data == [Chunks -> Vals]

ASSUME SizeAssumption ==
  /\ NumChunks \in Nat \ {0}
  /\ OffsetSpan \in Nat \ {0, 1}
  /\ WholeChunks \in BOOLEAN
  /\ MaxChkpts \in Nat
  /\ WideTeams \in BOOLEAN
  /\ FailingWrites \subseteq Nat
  /\ Overloads \subseteq {"memory", "files"}
  /\ Vals \subseteq Nat /\ NoVal \notin Vals /\ NoWord \in Nat

\* No collision, and nothing hashes to zeroes.
ASSUME HashAssumption ==
  /\ \A u, v \in Vals : Hash(u) = Hash(v) => u = v
  /\ \A v \in Vals : Hash(v) # NoDigest

VARIABLES
  \* The deduplicator object.
  current_id, baseline_id, list,
  first_ocur,   \* first_ocur_d: from digests to the NodeID of a first occurrence
  capacity,     \* entries first_ocur_d has room for, at least
  \* The checkpoint being taken; the vectors' order is that of the pushes.
  data, first_ocur_vec, shift_dupl_vec,
  \* The vector of diffs, each with its header and its words, and the data each
  \* of them was taken from.
  incr_chkpts, history,
  \* (ghost) The ids a failed write has spoiled: of the checkpoint it lost, which
  \* is taken again, and of those that follow it in its chain.
  spoiled,
  \* The restart: checkpoint asked for, overload, loop index, ref_id, the list
  \* of the NodeID each chunk is to be copied from, and the View.
  target, via, idx, ref_id, node_list, out,
  \* Control: the kernel, and the chunks whose threads have not run.
  pc, todo

dedupVars == <<current_id, baseline_id, list, first_ocur, capacity, data,
               first_ocur_vec, shift_dupl_vec, incr_chkpts, history, spoiled>>
restartVars == <<target, via, idx, ref_id, node_list, out>>
vars == <<dedupVars, restartVars, pc, todo>>

-----------------------------------------------------------------------------
Untouched == NodeID(-1, -1)  \* NodeID()

\* incr_chkpts[k] of the code.
Chkpt(k) == incr_chkpts[k + 1]

Init ==
  /\ current_id = 0
  /\ baseline_id = 0
  /\ list = [c \in {} |-> NoDigest]
  /\ first_ocur = [d \in {} |-> Untouched]
  /\ capacity = 0
  /\ data = [c \in {} |-> NoVal]
  /\ first_ocur_vec = {}
  /\ shift_dupl_vec = {}
  /\ incr_chkpts = <<>>
  /\ history = <<>>
  /\ spoiled = {}
  /\ target = 0
  /\ via = "memory"
  /\ idx = 0
  /\ ref_id = 0
  /\ node_list = [c \in {} |-> Untouched]
  /\ out = [c \in {} |-> NoVal]
  /\ pc = "idle"
  /\ todo = {}

-----------------------------------------------------------------------------
(* Taking a checkpoint *)

\* Mutant: a baseline keeps the map, and points to checkpoints before it.
MapAtStartKept(make_baseline) == first_ocur

\* first_ocur_d when deduplication starts; a rehash keeps the entries.
MapAtStart(make_baseline) ==
  IF make_baseline THEN [d \in {} |-> Untouched] ELSE first_ocur

\* Mutant: a map with room for one entry per chunk is not rehashed.
RehashedOnce(room, size) == IF room < NumChunks THEN size + NumChunks ELSE room

\* rehash(), where the entries there and one for each chunk may not fit.
Rehashed(room, size) == IF room < size + NumChunks THEN size + NumChunks ELSE room

\* The chunks the kernel's threads work on.  num_chunks * chunk_size is compared
\* with the length in 32 bits: of whole chunks of 4 GiB or more, one too many.
Threads == IF WholeChunks /\ NumChunks >= OffsetSpan THEN 0 .. NumChunks ELSE Chunks

\* checkpoint() up to the kernel: every caller makes the first checkpoint a
\* baseline, which reallocates the digests and the map.
Checkpoint(d, make_baseline) ==
  /\ pc = "idle"
  /\ current_id < MaxChkpts
  /\ current_id = 0 => make_baseline
  /\ data' = d
  /\ spoiled' = IF make_baseline THEN spoiled \ {current_id} ELSE spoiled
  /\ list' = IF make_baseline THEN [c \in Threads |-> NoDigest] ELSE list
  /\ first_ocur' = MapAtStart(make_baseline)
  /\ capacity' = Rehashed(IF make_baseline THEN NumChunks ELSE capacity,
                          Cardinality(DOMAIN first_ocur'))
  /\ baseline_id' = IF make_baseline THEN current_id ELSE baseline_id
  /\ first_ocur_vec' = {}
  /\ shift_dupl_vec' = {}
  /\ pc' = "dedup"
  /\ todo' = Threads
  /\ UNCHANGED <<current_id, incr_chkpts, history, restartVars>>

\* The digest of chunk c; the one of no bytes, past the region, stands as NoDigest.
Digest(c) == IF c \in Chunks THEN Hash(data[c]) ELSE NoDigest

\* Mutant: a chunk is unchanged when its content has been seen anywhere.
ChangedUnlessKnown(c) == Digest(c) \notin DOMAIN first_ocur

Changed(c) == list[c] # Digest(c)

\* Mutant: the map is searched as it was when the kernel started.
IsNewAtStart(digest) ==
  digest \in DOMAIN first_ocur => first_ocur[digest].tree = current_id

\* first_ocur_d.insert() succeeds: no thread has inserted the digest.
IsNew(digest) == digest \notin DOMAIN first_ocur

\* dedup_data(), the thread of chunk c.  The insertion and the comparison are
\* one step: no other thread reads list(c).  (Past the region the comparison is
\* with what is behind the list.)
DedupChunk(c) ==
  /\ pc = "dedup"
  /\ c \in todo
  /\ todo' = todo \ {c}
  /\ list' = [list EXCEPT ![c] = Digest(c)]
  /\ \/ /\ Changed(c) \/ c \notin Chunks
        /\ IsNew(Digest(c))
        /\ first_ocur' = [d \in DOMAIN first_ocur \cup {Digest(c)} |->
             IF d = Digest(c) THEN NodeID(c, current_id) ELSE first_ocur[d]]
        /\ first_ocur_vec' = first_ocur_vec \cup {c}
        /\ UNCHANGED shift_dupl_vec
     \/ /\ Changed(c) \/ c \notin Chunks
        /\ ~IsNew(Digest(c))
        /\ shift_dupl_vec' = shift_dupl_vec \cup {c}
        /\ UNCHANGED <<first_ocur, first_ocur_vec>>
     \/ /\ ~Changed(c) \/ c \notin Chunks
        /\ UNCHANGED <<first_ocur, first_ocur_vec, shift_dupl_vec>>
  /\ UNCHANGED <<current_id, baseline_id, capacity, data, incr_chkpts, history, spoiled,
                 restartVars, pc>>

\* The NodeID a duplicate of this checkpoint copies.
Source == [c \in shift_dupl_vec |-> first_ocur[list[c]]]

\* What is copied of a chunk; past the region there is nothing to copy.
Saved == [c \in Threads |-> IF c \in Chunks THEN data[c] ELSE NoWord]

\* The diffs collect_diff() may leave: the vectors in any order, the duplicates
\* then sorted.
Diffs ==
  LET needed == Needed(shift_dupl_vec, Source)
  IN  {[ref_id |-> baseline_id, chkpt_id |-> current_id,
        num_first_ocur |-> Cardinality(first_ocur_vec),
        num_prior_chkpts |-> Cardinality(needed),
        num_shift_dupl |-> Cardinality(shift_dupl_vec),
        words |-> DiffWords(first, counted, shift, Source, Saved)] :
         first \in SetToSeqs(first_ocur_vec), counted \in SetToSeqs(needed),
         shift \in BinSorted(shift_dupl_vec, Source)}

\* collect_diff(), after the fence of the kernel, and the rest of checkpoint()
\* and of its public overloads.
FinishCheckpoint ==
  /\ pc = "dedup"
  /\ todo = {}
  /\ \E diff \in Diffs : incr_chkpts' = Append(incr_chkpts, diff)
  /\ history' = Append(history, data)
  /\ current_id' = current_id + 1
  /\ spoiled' = IF current_id \in spoiled THEN spoiled \cup {current_id + 1} ELSE spoiled
  /\ pc' = "idle"
  /\ UNCHANGED <<baseline_id, list, first_ocur, capacity, data, first_ocur_vec,
                 shift_dupl_vec, restartVars, todo>>

\* Mutant: current_id is incremented although the write failed.
FailToWriteCounted ==
  /\ current_id \in FailingWrites
  /\ pc = "dedup"
  /\ todo = {}
  /\ current_id' = current_id + 1
  /\ spoiled' = spoiled \cup {current_id}
  /\ pc' = "idle"
  /\ UNCHANGED <<baseline_id, list, first_ocur, capacity, data, first_ocur_vec,
                 shift_dupl_vec, incr_chkpts, history, restartVars, todo>>

\* The overload that writes a file: the stream throws before current_id += 1.
FailToWrite ==
  /\ current_id \in FailingWrites
  /\ pc = "dedup"
  /\ todo = {}
  /\ spoiled' = spoiled \cup {current_id}
  /\ pc' = "idle"
  /\ UNCHANGED <<current_id, baseline_id, list, first_ocur, capacity, data, first_ocur_vec,
                 shift_dupl_vec, incr_chkpts, history, restartVars, todo>>

-----------------------------------------------------------------------------
(* Restarting a checkpoint *)

\* Both restart_chkpt() overloads up to their first kernel.
OpenCheckpoint(k) ==
  /\ pc = "idle"
  /\ target' = k
  /\ idx' = k
  /\ ref_id' = Chkpt(k).ref_id
  /\ node_list' = [c \in Chunks |-> Untouched]
  /\ out' = [c \in Chunks |-> NoVal]
  /\ pc' = "first"
  /\ UNCHANGED <<dedupVars, todo>>

RestartFromViews(k) == "memory" \in Overloads /\ via' = "memory" /\ OpenCheckpoint(k)

RestartFromFiles(k) == "files" \in Overloads /\ via' = "files" /\ OpenCheckpoint(k)

\* The sections of checkpoint k.  The overload that reads files takes those of a
\* prior checkpoint, at the offsets its header gives, from the buffer of the
\* checkpoint restarted.
SectionsOf(k) ==
  Sections(IF via = "files" THEN Chkpt(target).words ELSE Chkpt(k).words, Chkpt(k))

\* first_occur_map: the positions of the data of a NodeID in checkpoint k.
Positions(s, k, id) == {i \in DOMAIN s.first : NodeID(s.first[i], k) = id}

\* repeat_map: the NodeIDs a chunk copies.
Repeats(s, node) == {s.shift[i].prev : i \in {j \in DOMAIN s.shift : s.shift[j].node = node}}

\* The data at one of the positions; the map has at most one value for a key.
\* (Of a key that is not there the overload that reads files reads a value too,
\* which it does not use unless the key is of this checkpoint.)
DataAt(s, positions) == IF positions = {} THEN NoWord ELSE s.data[CHOOSE i \in positions : TRUE]

\* The overload that reads files multiplies chunk numbers by chunk_size in 32 bits.
Wraps == via = "files" /\ NumChunks >= OffsetSpan

\* The View after a kernel that copies: as intended; but where offsets wrap any chunks
\* may hold something else, for which NoWord stands.
Copied(view) ==
  IF Wraps
  THEN {[c \in Chunks |-> IF c \in wrong THEN NoWord ELSE view[c]] : wrong \in SUBSET Chunks}
  ELSE {view}

\* The first kernel of the checkpoint restarted: copy its first occurrences.
RestartFirst ==
  LET s == SectionsOf(target)
      At(c) == Positions(s, target, NodeID(c, target))
  IN  /\ pc = "first"
      /\ node_list' = [c \in Chunks |-> IF At(c) # {} THEN NodeID(c, target) ELSE node_list[c]]
      /\ out' \in Copied([c \in Chunks |-> IF At(c) # {} THEN DataAt(s, At(c)) ELSE out[c]])
      /\ pc' = "repeats"
      /\ UNCHANGED <<dedupVars, target, via, idx, ref_id, todo>>

\* The second one: point its duplicates to their sources, copying those whose
\* source is in this checkpoint.
RestartRepeats ==
  LET s == SectionsOf(target)
      prev(c) == CHOOSE p \in Repeats(s, c) : TRUE
  IN  /\ pc = "repeats"
      /\ node_list' = [c \in Chunks |-> IF Repeats(s, c) # {} THEN prev(c) ELSE node_list[c]]
      /\ out' \in Copied([c \in Chunks |->
           IF Repeats(s, c) # {} /\ prev(c).tree = target
           THEN DataAt(s, Positions(s, target, prev(c))) ELSE out[c]])
      /\ pc' = "same"
      /\ UNCHANGED <<dedupVars, target, via, idx, ref_id, todo>>

\* "Fill same entries": the others are as in the checkpoint before.
FillSame ==
  /\ pc = "same"
  /\ node_list' = [c \in Chunks |->
       IF node_list[c] = Untouched THEN NodeID(c, target - 1) ELSE node_list[c]]
  /\ idx' = target - 1
  /\ pc' = "load"
  /\ UNCHANGED <<dedupVars, target, via, ref_id, out, todo>>

\* Mutant: a chunk that is not in checkpoint k is looked for no further.
FollowStops(s, k, id) ==
  IF Repeats(s, id.node) # {} THEN CHOOSE p \in Repeats(s, id.node) : TRUE ELSE id

\* Where a chunk that checkpoint k did not save is to be found.
Follow(s, k, id) ==
  IF Repeats(s, id.node) # {} THEN CHOOSE p \in Repeats(s, id.node) : TRUE
  ELSE NodeID(id.node, k - 1)

\* Mutant: the loop index is not decremented.
NextIdxStuck(i) == i

NextIdx(i) == i - 1

\* Where the threads of a team that read node_list(i) again may move a chunk to.
Moves(s, k) ==
  {p \in {Follow(s, k, NodeID(d, k)) : d \in Chunks} \cup {NodeID(d, k - 1) : d \in Chunks} :
     p.tree # k}

\* One round of the loop: checkpoint idx and its ref_id are loaded while
\* idx >= ref_id; each chunk due in it is copied, or moved on to where it is to
\* be found.  In a team of several threads one may test node_list(i).tree before,
\* and read node_list(i) after, another has moved it: it moves the chunk again, and
\* so may the next.  Where one finds it in checkpoint idx then, the threads part at
\* a team_broadcast, and what they copy is anything.  (The overload that reads files
\* has one thread per chunk.)
RestartPrior ==
  LET s == SectionsOf(idx)
      due == {c \in Chunks : node_list[c].tree = idx}
      here == {c \in due : Positions(s, idx, node_list[c]) # {}}
      next(c) == Follow(s, idx, node_list[c])
      moved == {c \in due \ here : next(c).tree # idx}
      parts == \E d \in Chunks : Follow(s, idx, NodeID(d, idx)).tree = idx
      copied == [c \in Chunks |->
        CASE c \in here -> DataAt(s, Positions(s, idx, node_list[c]))
          [] c \in due \ (here \cup moved) -> DataAt(s, Positions(s, idx, next(c)))
          [] OTHER -> out[c]]
  IN  /\ pc = "load"
      /\ idx >= ref_id
      /\ ref_id' = Chkpt(idx).ref_id
      /\ \E raced \in IF WideTeams /\ via = "memory" THEN SUBSET moved ELSE {{}} :
           /\ \E again \in [raced -> Moves(s, idx)] :
                node_list' = [c \in Chunks |->
                  CASE c \in raced -> again[c]
                    [] c \in moved \ raced -> next(c)
                    [] OTHER -> node_list[c]]
           /\ \E lost \in [IF parts THEN raced ELSE {} -> Vals \cup {NoVal, NoWord}] :
                out' \in Copied([c \in Chunks |->
                  IF c \in DOMAIN lost THEN lost[c] ELSE copied[c]])
      /\ idx' = NextIdx(idx)
      /\ UNCHANGED <<dedupVars, target, via, pc, todo>>

FinishRestart ==
  /\ pc = "load"
  /\ idx < ref_id
  /\ pc' = "restarted"
  /\ UNCHANGED <<dedupVars, restartVars, todo>>

\* The caller has used the restarted data.
Release ==
  /\ pc = "restarted"
  /\ target' = 0
  /\ via' = "memory"
  /\ idx' = 0
  /\ ref_id' = 0
  /\ node_list' = [c \in {} |-> Untouched]
  /\ out' = [c \in {} |-> NoVal]
  /\ pc' = "idle"
  /\ UNCHANGED <<dedupVars, todo>>

-----------------------------------------------------------------------------
\* The steps of a call under way: fences wait for all threads, streams answer.
Progress ==
  \/ \E c \in todo : DedupChunk(c)
  \/ FinishCheckpoint
  \/ FailToWrite
  \/ RestartFirst
  \/ RestartRepeats
  \/ FillSame
  \/ RestartPrior
  \/ FinishRestart

\* The application's calls.
Call ==
  \/ \E d \in Data, make_baseline \in BOOLEAN : Checkpoint(d, make_baseline)
  \/ \E k \in 0 .. Len(incr_chkpts) - 1 : RestartFromViews(k) \/ RestartFromFiles(k)
  \/ Release

Next == Progress \/ Call

Spec == Init /\ [][Next]_vars

FairSpec == Spec /\ WF_vars(Progress)

-----------------------------------------------------------------------------
(* Properties *)

Taken == 0 .. Len(incr_chkpts) - 1

\* NodeIDs; node_list holds chkpt_id - 1 and what a file held as well.
NodeIDs == [node : Int, tree : Int]

\* Every variable holds values of its kind.
TypeOK ==
  /\ current_id \in Nat /\ baseline_id \in Nat
  /\ DOMAIN list \in {{}, Threads}
  /\ \A d \in DOMAIN first_ocur : first_ocur[d] \in NodeIDs
  /\ capacity \in Nat
  /\ data \in Data \cup {[c \in {} |-> NoVal]}
  /\ first_ocur_vec \subseteq Chunks /\ shift_dupl_vec \subseteq Chunks
  /\ Len(incr_chkpts) = Len(history)
  /\ spoiled \subseteq 0 .. current_id
  /\ \A k \in Taken : /\ Chkpt(k).ref_id \in 0 .. k
                      /\ Chkpt(k).words \in Seq(Nat)
                      /\ history[k + 1] \in Data
  /\ target \in Nat /\ via \in {"memory", "files"} /\ idx \in Int /\ ref_id \in Nat
  /\ DOMAIN node_list \in {{}, Chunks} /\ \A c \in DOMAIN node_list : node_list[c] \in NodeIDs
  /\ out \in [DOMAIN node_list -> Nat \cup {NoVal}]
  /\ pc \in {"idle", "dedup", "first", "repeats", "same", "load", "restarted"}
  /\ todo \subseteq Chunks

\* Nothing is pushed or inserted past what was allocated: push() looks at no
\* capacity, and what insert() answers when the map is full is not looked at.
RoomEnough ==
  /\ Cardinality(DOMAIN first_ocur) <= capacity
  /\ Cardinality(first_ocur_vec) <= NumChunks
  /\ Cardinality(shift_dupl_vec) <= NumChunks

\* The diff of checkpoint k, read back.
Diff(k) == Sections(Chkpt(k).words, Chkpt(k))

SavedIn(k) == Range(Diff(k).first)
PointedIn(k) == {entry.node : entry \in Range(Diff(k).shift)}

\* Read back from its bytes, whatever order the kernels left them in, every
\* duplicate points to a chunk that a checkpoint of the same chain saved, and
\* that held the duplicate's content then, unless a checkpoint of the chain was
\* lost, to which it may point.
DuplicatesTrue ==
  pc = "idle" => \A k \in Taken \ spoiled : LET diff == Diff(k) IN
    \A i \in DOMAIN diff.shift :
      LET prev == diff.shift[i].prev
      IN  /\ prev.tree \in Chkpt(k).ref_id .. k
          /\ prev.node \in SavedIn(prev.tree)
          /\ history[prev.tree + 1][prev.node] = history[k + 1][diff.shift[i].node]

\* "Save a single copy of each unique chunk": no content is saved twice in a
\* chain, neither by one checkpoint nor by two, whatever order the threads ran in
\* and whatever writes failed.
SavedOnce ==
  pc = "idle" => \A j, k \in Taken : Chkpt(j).ref_id = Chkpt(k).ref_id =>
    \A c \in SavedIn(j), d \in SavedIn(k) :
      history[j + 1][c] = history[k + 1][d] => j = k /\ c = d

\* A chunk a diff does not name is the same in the previous checkpoint, which
\* belongs to the same chain, unless a checkpoint of the chain was lost.
OmittedUnchanged ==
  pc = "idle" => \A k \in Taken \ spoiled : \A c \in Chunks \ (SavedIn(k) \cup PointedIn(k)) :
    k > Chkpt(k).ref_id /\ history[k][c] = history[k + 1][c]

\* A restart of a checkpoint gives back the data the checkpoint was taken of.
RestartExact == pc = "restarted" /\ target \notin spoiled => out = history[target + 1]

\* Every checkpoint() and restart() call returns.
CallsReturn == pc \notin {"idle", "restarted"} ~> pc \in {"idle", "restarted"}

\* Restarts from Views, and from the file of a baseline, which has no other
\* checkpoint's sections to read, of a region whose offsets do not wrap; of
\* checkpoints no failed write has spoiled.
Honoured ==
  /\ via = "memory" \/ (Chkpt(target).ref_id = target /\ ~Wraps)
  /\ target \notin spoiled

\* The deduplicator is a checkpoint store, in the restarts that are honoured.
Store == INSTANCE CheckpointStore WITH
  NotRestarted <- [id |-> -1],
  history <- history,
  restarted <- IF pc = "restarted" /\ Honoured
               THEN [id |-> target, data |-> out] ELSE [id |-> -1]

StoreSpec == Store!Spec
=============================================================================
