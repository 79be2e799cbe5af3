----------------------------- MODULE BasicDedup -----------------------------
(***************************************************************************)
(* The Basic deduplicator (basic_approach.cpp): a checkpoint holds the     *)
(* chunks whose digest differs from the digest the previous checkpoint     *)
(* recorded at the same index, and a restart walks the chain of            *)
(* checkpoints backwards until every chunk has been found.                 *)
(*                                                                         *)
(* A Kokkos kernel is a set `todo` of teams; one step is one team, in any  *)
(* order.  A kernel ends when `todo` is empty.                             *)
(***************************************************************************)
EXTENDS Integers, Sequences, FiniteSets

CONSTANTS
  Vals,         \* contents of a chunk (the length of a short last chunk included)
  NoVal,        \* content of a chunk of the restart View nothing has written
  Digests,      \* results of hash()
  NoDigest,     \* the zeroed HashDigest of a new HashList
  Hash,         \* hash(), a function from contents to digests
  Lengths,      \* numbers of chunks the application's memory region may have
  OffsetSpan,   \* chunks a 32-bit byte offset tells apart: 2^32 / chunk_size
  WholeChunks,  \* are regions whole numbers of chunks, none with a short last one?
  FailingWrites, \* ids of the checkpoints whose file may fail to be written
  MaxChkpts     \* bound on the number of checkpoints taken

Data == UNION {[len : {n}, chunk : [0 .. n - 1 -> Vals]] : n \in Lengths}

\* Distinct contents have distinct digests, none of them all zeroes.
ASSUME HashAssumption ==
  /\ Hash \in [Vals -> Digests]
  /\ \A u, v \in Vals : Hash[u] = Hash[v] => u = v
  /\ NoDigest \notin Digests
  /\ NoVal \notin Vals

ASSUME SizeAssumption ==
  /\ Lengths \subseteq Nat \ {0}
  /\ OffsetSpan \in Nat \ {0, 1}
  /\ WholeChunks \in BOOLEAN
  /\ MaxChkpts \in Nat
  /\ FailingWrites \subseteq Nat

VARIABLES
  \* The deduplicator object.
  current_id, baseline_id, list,
  bits,         \* the indices changes_bitset has room for
  changes,      \* the bits that are set
  \* The checkpoint being taken: its data, and the entries gathered so far.
  data, buffer,
  \* The vector of diffs, and the data each of them was taken from.
  incr_chkpts, history,
  \* (ghost) The ids a failed write has spoiled: of the checkpoint it lost, which
  \* is taken again, and of those that follow it in its chain.
  spoiled,
  \* The restart: the checkpoint asked for, the overload used, the loop
  \* index, the ref_id and the node list, and the View restarted into.
  target, via, idx, ref_id, node_list, out,
  \* Control: the running kernel and its teams that have not run.
  pc, todo

dedupVars == <<current_id, baseline_id, list, bits, changes, data, buffer,
               incr_chkpts, history, spoiled>>
restartVars == <<target, via, idx, ref_id, node_list, out>>
vars == <<dedupVars, restartVars, pc, todo>>

-----------------------------------------------------------------------------
Chunks(n) == 0 .. n - 1

\* The chunks of a region of n where num_chunks * chunk_size is compared with its
\* length in 32 bits: of whole chunks of 4 GiB or more, one too many.
Teams(n) == IF WholeChunks /\ n >= OffsetSpan THEN 0 .. n ELSE Chunks(n)

Entry == [node : Nat, data : Vals]

Diff == [ref_id : Nat, chkpt_id : Nat, len : Lengths, num_first_ocur : Nat,
         first_ocur : Seq(Entry)]

\* incr_chkpts[k] of the code.
Chkpt(k) == incr_chkpts[k + 1]

Init ==
  /\ current_id = 0
  /\ baseline_id = 0
  /\ list = [c \in {} |-> NoDigest]
  /\ bits = {}
  /\ changes = {}
  /\ data = [len |-> 0, chunk |-> [c \in {} |-> NoVal]]
  /\ buffer = <<>>
  /\ incr_chkpts = <<>>
  /\ history = <<>>
  /\ spoiled = {}
  /\ target = 0
  /\ via = "memory"
  /\ idx = 0
  /\ ref_id = 0
  /\ node_list = [c \in {} |-> 0]
  /\ out = [len |-> 0, chunk |-> [c \in {} |-> NoVal]]
  /\ pc = "idle"
  /\ todo = {}

-----------------------------------------------------------------------------
(* Taking a checkpoint *)

\* checkpoint(): every caller makes the first checkpoint a baseline.  A
\* baseline reallocates the digests and the bitset; otherwise the digests grow
\* when the data has grown, and the bitset keeps its size.
Checkpoint(d, make_baseline) ==
  /\ pc = "idle"
  /\ current_id < MaxChkpts
  /\ current_id = 0 => make_baseline
  /\ data' = d
  /\ spoiled' = IF make_baseline THEN spoiled \ {current_id} ELSE spoiled
  /\ list' = [c \in Chunks(d.len) \cup (IF make_baseline THEN {} ELSE DOMAIN list) |->
                IF ~make_baseline /\ c \in DOMAIN list THEN list[c] ELSE NoDigest]
  /\ bits' = IF make_baseline THEN Chunks(d.len) ELSE bits
  /\ baseline_id' = IF make_baseline THEN current_id ELSE baseline_id
  /\ changes' = {}
  /\ buffer' = <<>>
  /\ pc' = "dedup"
  /\ todo' = Teams(d.len)
  /\ UNCHANGED <<current_id, incr_chkpts, history, restartVars>>

\* Mutant: the bit of the next chunk is set, without the bounds check.
BitsetSetNext(c) == changes \cup {c + 1}

\* Bitset::set does nothing at an index the bitset has no room for.
BitsetSet(c) == (changes \cup {c}) \cap bits

\* The digest of chunk c; the one of no bytes, past the region, stands as NoDigest.
Digest(c) == IF c < data.len THEN Hash[data.chunk[c]] ELSE NoDigest

\* Mutants: chunks are never compared; the first checkpoint is not special.
ChangedAlways(c) == c \in DOMAIN list
ChangedFromPrior(c) == current_id > 0 /\ list[c] # Digest(c)

\* (What is read past the list does not matter: the bitset ends before.)
Changed(c) == current_id > 0 /\ c \in DOMAIN list => list[c] # Digest(c)

\* dedup_data(), the team of chunk c.
DedupChunk(c) ==
  /\ pc = "dedup"
  /\ c \in todo
  /\ todo' = todo \ {c}
  /\ \/ /\ Changed(c)
        /\ list' = [list EXCEPT ![c] = Digest(c)]
        /\ changes' = BitsetSet(c)
     \/ /\ ~Changed(c)
        /\ UNCHANGED <<list, changes>>
  /\ UNCHANGED <<current_id, baseline_id, bits, data, buffer, incr_chkpts,
                 history, spoiled, restartVars, pc>>

\* Mutant: collect_diff() starts without the fence.
StartCollectEarly ==
  /\ pc = "dedup"
  /\ pc' = "collect"
  /\ todo' = changes
  /\ UNCHANGED <<dedupVars, restartVars>>

\* The fence of dedup_data(); collect_diff() launches a team per bit.
StartCollect ==
  /\ pc = "dedup"
  /\ todo = {}
  /\ pc' = "collect"
  /\ todo' = changes
  /\ UNCHANGED <<dedupVars, restartVars>>

\* The entry of chunk c; past the region there are no bytes to copy.
EntryOf(c) == [node |-> c, data |-> IF c < data.len THEN data.chunk[c] ELSE NoVal]

\* Mutant: the position is read, then advanced: two teams get the same one.
GatherChunkNotAtomic(c) ==
  /\ pc = "collect"
  /\ c \in todo
  /\ todo' = todo \ {c}
  /\ \E pos \in {Len(buffer), Len(buffer) + 1} \ {0} :
       buffer' = Append(SubSeq(buffer, 1, pos - 1), EntryOf(c))
  /\ UNCHANGED <<current_id, baseline_id, list, bits, changes, data,
                 incr_chkpts, history, spoiled, restartVars, pc>>

\* collect_diff(), the team of a set bit: the next position of the diff is
\* taken with an atomic add, so entries come in the order the teams run.
GatherChunk(c) ==
  /\ pc = "collect"
  /\ c \in todo
  /\ todo' = todo \ {c}
  /\ buffer' = Append(buffer, EntryOf(c))
  /\ UNCHANGED <<current_id, baseline_id, list, bits, changes, data,
                 incr_chkpts, history, spoiled, restartVars, pc>>

\* collect_diff()'s header, the copy to the host and, in the public overloads,
\* the checkpoint stored by the caller or in its file and current_id += 1.
FinishCheckpoint ==
  /\ pc = "collect"
  /\ todo = {}
  /\ incr_chkpts' = Append(incr_chkpts,
       [ref_id |-> baseline_id, chkpt_id |-> current_id, len |-> data.len,
        num_first_ocur |-> Cardinality(changes), first_ocur |-> buffer])
  /\ history' = Append(history, data)
  /\ current_id' = current_id + 1
  /\ spoiled' = IF current_id \in spoiled THEN spoiled \cup {current_id + 1} ELSE spoiled
  /\ buffer' = <<>>
  /\ pc' = "idle"
  /\ UNCHANGED <<baseline_id, list, bits, changes, data, restartVars, todo>>

\* Mutant: current_id is incremented although the write failed.
FailToWriteCounted ==
  /\ current_id \in FailingWrites
  /\ pc = "collect"
  /\ todo = {}
  /\ buffer' = <<>>
  /\ current_id' = current_id + 1
  /\ spoiled' = spoiled \cup {current_id}
  /\ pc' = "idle"
  /\ UNCHANGED <<baseline_id, list, bits, changes, data, incr_chkpts, history,
                 restartVars, todo>>

\* The file overload: the stream throws before current_id += 1, and the caller
\* has no checkpoint.
FailToWrite ==
  /\ current_id \in FailingWrites
  /\ pc = "collect"
  /\ todo = {}
  /\ buffer' = <<>>
  /\ spoiled' = spoiled \cup {current_id}
  /\ pc' = "idle"
  /\ UNCHANGED <<current_id, baseline_id, list, bits, changes, data,
                 incr_chkpts, history, restartVars, todo>>

-----------------------------------------------------------------------------
(* Restarting a checkpoint *)

Untouched == -1  \* NodeID()

\* Both restart_chkpt() overloads up to their first kernel: read the header,
\* resize the View, clear the node list.  A node list entry always names its
\* own chunk, so only the checkpoint it names is kept.
OpenCheckpoint(k) ==
  /\ pc = "idle"
  /\ target' = k
  /\ idx' = k
  /\ ref_id' = Chkpt(k).ref_id
  /\ node_list' = [c \in Teams(Chkpt(k).len) |-> Untouched]
  /\ out' = [len |-> Chkpt(k).len,
             chunk |-> [c \in Chunks(Chkpt(k).len) |-> NoVal]]
  /\ pc' = "first"
  /\ todo' = 1 .. Chkpt(k).num_first_ocur
  /\ UNCHANGED dedupVars

RestartFromViews(k) == via' = "memory" /\ OpenCheckpoint(k)

RestartFromFiles(k) == via' = "files" /\ OpenCheckpoint(k)

\* The overload that reads files multiplies chunk numbers by chunk_size in 32
\* bits, the other one in 64.
Slot(c) == IF via = "files" THEN c % OffsetSpan ELSE c

\* The chunks copied for chunk c from checkpoint k: one, but for the last chunk of
\* the View all that is left of checkpoint k's region, in 32 bits.
CopySize(k, c) ==
  LET short == IF WholeChunks THEN 0 ELSE 1
  IN  IF c + 1 \in DOMAIN node_list THEN 1
      ELSE ((Chkpt(k).len - c - short) % OffsetSpan) + short

\* What checkpoint k has at position p of its data; past its end, anything.
DataAt(k, p) ==
  IF p \in DOMAIN Chkpt(k).first_ocur THEN Chkpt(k).first_ocur[p].data ELSE NoVal

\* The i-th entry of checkpoint k is copied to chunk c, and those after it as far
\* as the size goes: out.chunk grows where the copy ends past the View.
CopyEntry(k, i, c) ==
  LET copied == Slot(c) .. Slot(c) + CopySize(k, c) - 1
  IN  out' = [out EXCEPT !.chunk = [s \in DOMAIN out.chunk \cup copied |->
                IF s \in copied THEN DataAt(k, Slot(i - 1) + 1 + s - Slot(c))
                ELSE out.chunk[s]]]

\* The team of the i-th first occurrence of the checkpoint restarted.
RestartFirst(i) ==
  /\ pc = "first"
  /\ i \in todo
  /\ todo' = todo \ {i}
  /\ LET node == Chkpt(target).first_ocur[i].node
     IN  /\ node_list' = [node_list EXCEPT ![node] = Chkpt(target).chkpt_id]
         /\ CopyEntry(target, i, node)
  /\ UNCHANGED <<dedupVars, target, via, idx, ref_id, pc>>

\* "Fill same entries": what the checkpoint does not hold is as in the one
\* before.
FillSame ==
  /\ pc = "first"
  /\ todo = {}
  /\ node_list' = [c \in DOMAIN node_list |->
                     IF node_list[c] = Untouched THEN Chkpt(target).chkpt_id - 1
                     ELSE node_list[c]]
  /\ idx' = target - 1
  /\ pc' = "load"
  /\ UNCHANGED <<dedupVars, target, via, ref_id, out, todo>>

\* The loop head: load checkpoint idx and its ref_id while idx >= ref_id.
LoadPrior ==
  /\ pc = "load"
  /\ idx >= ref_id
  /\ ref_id' = Chkpt(idx).ref_id
  /\ pc' = "middle"
  /\ todo' = DOMAIN node_list
  /\ UNCHANGED <<dedupVars, target, via, idx, node_list, out>>

\* Mutant: the kernel that fills the map stops one entry short.
DistinctMapShort(k, c) ==
  {i \in 1 .. Chkpt(k).num_first_ocur - 1 : Chkpt(k).first_ocur[i].node = c}

\* distinct_map of checkpoint k: the entries for chunk c.
DistinctMap(k, c) ==
  {i \in 1 .. Chkpt(k).num_first_ocur : Chkpt(k).first_ocur[i].node = c}

\* The team of chunk c: copy it from checkpoint idx if its entry is there, and
\* defer it to the one before if not.
RestartMiddle(c) ==
  /\ pc = "middle"
  /\ c \in todo
  /\ todo' = todo \ {c}
  /\ \/ /\ node_list[c] # Chkpt(idx).chkpt_id
        /\ UNCHANGED <<node_list, out>>
     \/ /\ node_list[c] = Chkpt(idx).chkpt_id
        /\ \E i \in DistinctMap(idx, c) : CopyEntry(idx, i, c)
        /\ UNCHANGED node_list
     \/ /\ node_list[c] = Chkpt(idx).chkpt_id
        /\ DistinctMap(idx, c) = {}
        /\ node_list' = [node_list EXCEPT ![c] = Chkpt(idx).chkpt_id - 1]
        /\ UNCHANGED out
  /\ UNCHANGED <<dedupVars, target, via, idx, ref_id, pc>>

\* Mutant: the loop index is not decremented.
NextPriorStuck ==
  /\ pc = "middle"
  /\ todo = {}
  /\ pc' = "load"
  /\ UNCHANGED <<dedupVars, restartVars, todo>>

NextPrior ==
  /\ pc = "middle"
  /\ todo = {}
  /\ idx' = idx - 1
  /\ pc' = "load"
  /\ UNCHANGED <<dedupVars, target, via, ref_id, node_list, out, todo>>

\* restart() takes the View by value: when restart_chkpt() resizes it to another
\* size, the caller's own, of n chunks, is left as it was.
CallersView(n) ==
  IF n = out.len THEN out ELSE [len |-> n, chunk |-> [c \in Chunks(n) |-> NoVal]]

\* Mutant: the loop ends before the baseline.
FinishRestartEarly(n) ==
  /\ pc = "load"
  /\ idx <= ref_id
  /\ out' = CallersView(n)
  /\ pc' = "restarted"
  /\ UNCHANGED <<dedupVars, target, via, idx, ref_id, node_list, todo>>

\* The restart returns to a caller whose View has n chunks.
FinishRestart(n) ==
  /\ pc = "load"
  /\ idx < ref_id
  /\ out' = CallersView(n)
  /\ pc' = "restarted"
  /\ UNCHANGED <<dedupVars, target, via, idx, ref_id, node_list, todo>>

\* The caller has used the restarted data.
Release ==
  /\ pc = "restarted"
  /\ target' = 0
  /\ via' = "memory"
  /\ idx' = 0
  /\ ref_id' = 0
  /\ node_list' = [c \in {} |-> 0]
  /\ out' = [len |-> 0, chunk |-> [c \in {} |-> NoVal]]
  /\ pc' = "idle"
  /\ UNCHANGED <<dedupVars, todo>>

-----------------------------------------------------------------------------
\* The kernels' steps: a fence waits for all of them.
Progress ==
  \/ \E c \in todo : DedupChunk(c)
  \/ StartCollect
  \/ \E c \in todo : GatherChunk(c)
  \/ FinishCheckpoint
  \/ FailToWrite
  \/ \E i \in todo : RestartFirst(i)
  \/ FillSame
  \/ LoadPrior
  \/ \E c \in todo : RestartMiddle(c)
  \/ NextPrior
  \/ \E n \in Lengths : FinishRestart(n)

\* The application's calls.
Call ==
  \/ \E d \in Data, make_baseline \in BOOLEAN : Checkpoint(d, make_baseline)
  \/ \E k \in 0 .. Len(incr_chkpts) - 1 : RestartFromViews(k) \/ RestartFromFiles(k)
  \/ Release

Next == Progress \/ Call

Spec == Init /\ [][Next]_vars

FairSpec == Spec /\ WF_vars(Progress)

-----------------------------------------------------------------------------
(* Properties *)

\* Sizes of the structures: nothing allocated yet, or a region's.
Sizes == Lengths \cup {0}

Region(lens, vals) ==
  UNION {[len : {n}, chunk : [Chunks(n) -> vals]] : n \in lens}

\* A View, with what was written past its end.
ViewOK(view) ==
  /\ view = [len |-> view.len, chunk |-> [c \in DOMAIN view.chunk |-> view.chunk[c]]]
  /\ view.len \in Sizes
  /\ Chunks(view.len) \subseteq DOMAIN view.chunk
  /\ DOMAIN view.chunk \subseteq Nat
  /\ \A c \in DOMAIN view.chunk : view.chunk[c] \in Vals \cup {NoVal}

\* Every variable holds values of its kind.
TypeOK ==
  /\ current_id \in Nat
  /\ baseline_id \in Nat
  /\ \E n \in Sizes : list \in [Chunks(n) -> Digests \cup {NoDigest}]
  /\ \E n \in Sizes : bits = Chunks(n)
  /\ changes \subseteq bits
  /\ data \in Region(Sizes, Vals)
  /\ buffer \in Seq(Entry)
  /\ incr_chkpts \in Seq(Diff)
  /\ history \in Seq(Data)
  /\ Len(history) = Len(incr_chkpts)
  /\ spoiled \subseteq 0 .. current_id
  /\ target \in Nat
  /\ via \in {"memory", "files"}
  /\ idx \in Int
  /\ ref_id \in Nat
  /\ \E n \in Sizes : node_list \in [Chunks(n) -> Int]
  /\ ViewOK(out)
  /\ pc \in {"idle", "dedup", "collect", "first", "load", "middle", "restarted"}
  /\ todo \subseteq Nat

Taken == 0 .. Len(incr_chkpts) - 1

Saved(k) == {Chkpt(k).first_ocur[i].node : i \in DOMAIN Chkpt(k).first_ocur}

\* A checkpoint file is well formed whatever order collect_diff()'s teams ran
\* in: the header counts its entries, no chunk has two of them, and each holds
\* the chunk's data as it was given to that checkpoint.
EntriesTrue ==
  \A k \in Taken :
    LET entries == Chkpt(k).first_ocur
    IN  /\ Chkpt(k).num_first_ocur = Len(entries)
        /\ \A i, j \in DOMAIN entries : entries[i].node = entries[j].node => i = j
        /\ \A i \in DOMAIN entries :
             /\ entries[i].node \in Chunks(history[k + 1].len)
             /\ entries[i].data = history[k + 1].chunk[entries[i].node]

\* "Basic: Remove chunks that have not changed since the previous checkpoint":
\* a chunk left out of a checkpoint is the same in the previous one, which
\* belongs to the same chain.  Of what follows a failed write nothing is said
\* until the next baseline.
OmittedUnchanged ==
  \A k \in Taken \ spoiled : \A c \in Chunks(history[k + 1].len) \ Saved(k) :
    /\ k > Chkpt(k).ref_id
    /\ Chkpt(k - 1).ref_id = Chkpt(k).ref_id
    /\ c \in Chunks(history[k].len)
    /\ history[k].chunk[c] = history[k + 1].chunk[c]

\* ... and only those are kept: but for baselines, no checkpoint holds a chunk
\* that was the same in the previous one.
UnchangedOmitted ==
  \A k \in Taken \ spoiled : \A c \in Saved(k) :
    k > Chkpt(k).ref_id /\ c \in Chunks(history[k].len)
      => history[k].chunk[c] # history[k + 1].chunk[c]

\* Between two calls the digests kept for the next comparison are those of the
\* newest checkpoint, at every index it has, unless a later one was lost.
ListIsNewest ==
  pc \notin {"dedup", "collect"} /\ current_id > 0 /\ current_id \notin spoiled
    => \A c \in Chunks(history[current_id].len) :
         list[c] = Hash[history[current_id].chunk[c]]

\* The caller's View has the size of the region to be restarted, as in every caller.
Fits == out.len = history[target + 1].len

\* A restart of checkpoint k into a View of its size ends with exactly the data
\* checkpoint k was given, through either overload, whatever writes failed in other
\* chains.
RestartExact ==
  pc = "restarted" /\ target \notin spoiled /\ Fits => out = history[target + 1]

\* Every checkpoint() and restart() call returns.
CallsReturn == pc \notin {"idle", "restarted"} ~> pc \in {"idle", "restarted"}

\* The deduplicator is a checkpoint store, for what no failed write has spoiled, in
\* the restarts into a View that fits.
Store == INSTANCE CheckpointStore WITH
  NotRestarted <- [id |-> -1],
  history <- history,
  restarted <- IF pc = "restarted" /\ target \notin spoiled /\ Fits
               THEN [id |-> target, data |-> out] ELSE [id |-> -1]

StoreSpec == Store!Spec
=============================================================================
