--------------------------- MODULE ListInvariants ---------------------------
(***************************************************************************)
(* The inductive invariants behind the safety properties of ListDedup:     *)
(* Coherent says what every checkpoint keeps to, Exact what those that no  *)
(* failed write has spoiled owe to the ones before them.                   *)
(***************************************************************************)
EXTENDS ListDedup

Entries == [node : Nat, tree : Nat]

Headers == [ref_id : Nat, chkpt_id : Nat, num_first_ocur : Nat, num_prior_chkpts : Nat,
            num_shift_dupl : Nat, words : Seq(Nat)]

\* The checkpoints taken since the newest baseline.
Chain == {k \in Taken : Chkpt(k).ref_id = baseline_id}

\* The region is not one for which there is a thread too many.
ThreadsExact == Threads = Chunks

-----------------------------------------------------------------------------
(* The parts of Coherent *)

\* Checkpoints are numbered as they are kept, and refer to one not after them.
HeadersTrue ==
  /\ current_id \in Nat /\ baseline_id \in 0 .. current_id
  /\ incr_chkpts \in Seq(Headers) /\ Len(incr_chkpts) = current_id
  /\ history \in Seq(Data) /\ Len(history) = current_id
  /\ \A k \in Taken : Chkpt(k).ref_id \in 0 .. k

\* The map has room for the threads that have not run.
RoomLeft ==
  /\ capacity \in Nat
  /\ IsFiniteSet(DOMAIN first_ocur)
  /\ \A d \in DOMAIN first_ocur : first_ocur[d] \in Entries
  /\ Cardinality(DOMAIN first_ocur) + Cardinality(todo) <= capacity

\* The threads that have run have left the digests of the region in the list,
\* and what they pushed is in the map.
KernelTrue ==
  /\ todo \subseteq Chunks /\ first_ocur_vec \subseteq Chunks /\ shift_dupl_vec \subseteq Chunks
  /\ current_id > 0 \/ pc = "dedup" => DOMAIN list = Chunks
  /\ pc = "dedup" =>
       /\ data \in Data
       /\ \A c \in Chunks \ todo : list[c] = Hash(data[c])
       /\ (first_ocur_vec \cup shift_dupl_vec) \cap todo = {}
       /\ \A c \in first_ocur_vec \cup shift_dupl_vec : Hash(data[c]) \in DOMAIN first_ocur

\* What the chain has saved is in the map, and was saved once.
SavedKnown ==
  /\ \A k \in Taken : SavedIn(k) \subseteq Chunks
  /\ \A k \in Chain : \A c \in SavedIn(k) : Hash(history[k + 1][c]) \in DOMAIN first_ocur
  /\ \A j, k \in Taken : Chkpt(j).ref_id = Chkpt(k).ref_id =>
       \A c \in SavedIn(j), d \in SavedIn(k) :
         history[j + 1][c] = history[k + 1][d] => j = k /\ c = d

\* What is about to be saved is neither saved already nor twice among it.
SavingNew ==
  pc = "dedup" => \A c \in first_ocur_vec :
    /\ \A d \in first_ocur_vec : data[c] = data[d] => c = d
    /\ \A k \in Chain : \A d \in SavedIn(k) : data[c] # history[k + 1][d]

Coherent == HeadersTrue /\ RoomLeft /\ KernelTrue /\ SavedKnown /\ SavingNew

-----------------------------------------------------------------------------
(* The parts of Exact *)

\* Between checkpoints the list holds the digests of the newest one, unless a
\* later one was lost.
ListIsNewest ==
  pc # "dedup" /\ current_id > 0 /\ current_id \notin spoiled =>
    /\ baseline_id < current_id
    /\ \A c \in Chunks : list[c] = Hash(history[current_id][c])

\* A thread that has not run will compare with the checkpoint before, or finds
\* no digest; what has been left out by one that has run is as it was.
ListAhead ==
  pc = "dedup" /\ current_id \notin spoiled =>
    /\ \A c \in todo : IF baseline_id = current_id THEN list[c] = NoDigest
                       ELSE list[c] = Hash(history[current_id][c])
    /\ \A c \in Chunks \ (todo \cup first_ocur_vec \cup shift_dupl_vec) :
         baseline_id < current_id /\ history[current_id][c] = data[c]

\* What no diff names is as it was in the checkpoint before.
OmittedSame ==
  \A k \in Taken \ spoiled : \A c \in Chunks \ (SavedIn(k) \cup PointedIn(k)) :
    k > Chkpt(k).ref_id /\ history[k][c] = history[k + 1][c]

\* Unless a later checkpoint was lost, every digest in the map is that of a chunk
\* the chain has saved, or is about to, in the checkpoint and at the place the map
\* says.
MapTrue ==
  current_id \notin spoiled => \A digest \in DOMAIN first_ocur :
    LET id == first_ocur[digest]
    IN  \/ /\ id.tree \in Chain
           /\ id.node \in SavedIn(id.tree)
           /\ Hash(history[id.tree + 1][id.node]) = digest
        \/ /\ pc = "dedup" /\ id.tree = current_id
           /\ id.node \in first_ocur_vec
           /\ Hash(data[id.node]) = digest

\* The deduplicator's list, map and vectors are those of its checkpoints while
\* none of the chain is lost: no diff has left out what changed, and no duplicate
\* will point to what was not saved.
Exact == Coherent /\ ListIsNewest /\ ListAhead /\ OmittedSame /\ MapTrue

\* A duplicate of the checkpoint under way points to a chunk of its content that
\* the chain has saved, or that is saved with it, unless one of the chain is lost.
SourcesTrue ==
  pc = "dedup" /\ current_id \notin spoiled => \A c \in shift_dupl_vec :
    LET id == Source[c]
    IN  \/ /\ id.tree \in Chain
           /\ id.node \in SavedIn(id.tree)
           /\ history[id.tree + 1][id.node] = data[c]
        \/ /\ id.tree = current_id
           /\ id.node \in first_ocur_vec
           /\ data[id.node] = data[c]

-----------------------------------------------------------------------------
(* The parts of Readable: the diffs read back from their words *)

\* The sort of checkpoint k's duplicates has a bin for each checkpoint their
\* sources may be in, or needs none, as in a baseline, whose sources are its own.
BinsSuffice(k) ==
  \/ k <= Chkpt(k).num_shift_dupl \/ Chkpt(k).num_shift_dupl <= 2
  \/ Chkpt(k).ref_id = k

\* Each first occurrence is read with the data it had.
DataKept ==
  \A k \in Taken : LET diff == Diff(k) IN
    \A i \in DOMAIN diff.first : diff.data[i] = history[k + 1][diff.first[i]]

\* Each duplicate is read with a source that the chain saved and that held its
\* content, where the order they are written in says which checkpoint it is in.
DuplicatesKept ==
  \A k \in Taken \ spoiled : BinsSuffice(k) => LET diff == Diff(k) IN
    \A i \in DOMAIN diff.shift :
      LET prev == diff.shift[i].prev
      IN  /\ prev.tree \in Chkpt(k).ref_id .. k
          /\ prev.node \in SavedIn(prev.tree)
          /\ history[prev.tree + 1][prev.node] = history[k + 1][diff.shift[i].node]

\* No more checkpoints than may be taken, and no more duplicates than chunks.
CountsBounded ==
  /\ current_id <= MaxChkpts
  /\ pc = "dedup" => current_id < MaxChkpts
  /\ \A k \in Taken : Chkpt(k).num_shift_dupl <= NumChunks

Readable == DataKept /\ DuplicatesKept /\ CountsBounded

-----------------------------------------------------------------------------
(* Restarts *)

\* The checkpoints from a baseline on have its number in their headers, and none of
\* them is spoiled where a later one is not.
ChainTrue ==
  /\ \A k \in Taken : \A j \in Chkpt(k).ref_id .. k :
       Chkpt(j).ref_id = Chkpt(k).ref_id /\ (k \notin spoiled => j \notin spoiled)
  /\ \A k \in Taken : k >= baseline_id =>
       Chkpt(k).ref_id = baseline_id /\ (current_id \notin spoiled => k \notin spoiled)

\* The restarts whose steps are as intended: the honoured ones, by threads that do
\* not race, or of a baseline, whose chunks they do not move, from diffs whose sort
\* had bins enough.
RestartPromised ==
  /\ Honoured
  /\ WideTeams => Chkpt(target).ref_id = target
  /\ target \in Taken /\ \A k \in Chkpt(target).ref_id .. target : BinsSuffice(k)

\* What the restart is to hand out for chunk c.
Wanted(c) == history[target + 1][c]

\* Chunk c is found in a checkpoint of the chain not after checkpoint k.
FoundBy(c, k) ==
  /\ node_list[c].node \in Chunks /\ node_list[c].tree \in Chkpt(target).ref_id .. k
  /\ history[node_list[c].tree + 1][node_list[c].node] = Wanted(c)

\* Chunk c was copied from a checkpoint after k.
CopiedAfter(c, k) == node_list[c].tree > k /\ out[c] = Wanted(c)

\* How far each kernel of a restart has come.
RestartTrue ==
  RestartPromised =>
    /\ pc = "first" => \A c \in Chunks : node_list[c] = Untouched
    /\ pc = "repeats" => \A c \in Chunks :
         IF c \in SavedIn(target) THEN CopiedAfter(c, target - 1) ELSE node_list[c] = Untouched
    /\ pc = "same" => \A c \in Chunks :
         \/ CopiedAfter(c, target - 1)
         \/ FoundBy(c, target - 1)
         \/ node_list[c] = Untouched /\ c \notin SavedIn(target) \cup PointedIn(target)
    /\ pc \in {"first", "repeats", "same", "load"} => ref_id = Chkpt(target).ref_id
    /\ pc = "load" =>
         /\ idx \in ref_id - 1 .. target - 1
         /\ \A c \in Chunks : CopiedAfter(c, idx) \/ FoundBy(c, idx)
    /\ pc = "restarted" => \A c \in Chunks : out[c] = Wanted(c)

\* A baseline no failed write has spoiled is restarted exactly, where offsets do not
\* wrap.
BaselineExact ==
  pc = "restarted" /\ ~Wraps /\ target \notin spoiled /\ Chkpt(target).ref_id = target =>
    target \in Taken /\ out = history[target + 1]
=============================================================================
