----------------------------- MODULE FullDedup -----------------------------
(***************************************************************************)
(* The Full deduplicator (full_approach.cpp): a checkpoint is a copy of    *)
(* the region.  Nothing runs concurrently.  What can go wrong is at the    *)
(* callers' Views, which are handles: checkpoint() resizes the diff_h it   *)
(* is given, and a resize to the size it has keeps the allocation;         *)
(* restart() takes the caller's View by value and resizes its copy.        *)
(***************************************************************************)
EXTENDS Integers, Sequences

CONSTANTS
  Vals,         \* contents of a chunk
  NoVal,        \* content of a View of the caller's nothing has written
  Lengths,      \* numbers of chunks of regions, and of Views restarted into
  ReusesView,   \* may a caller hand in a diff_h that a checkpoint is kept in?
  FailingWrites, \* ids of the checkpoints whose file may fail to be written
  MaxChkpts     \* bound on the number of checkpoints taken

Regions == UNION {[0 .. n - 1 -> Vals] : n \in Lengths}

VARIABLES
  current_id,   \* of the deduplicator object
  data,         \* the region being checkpointed
  diff_h,       \* the checkpoints kept in the allocation of the caller's diff_h
  incr_chkpts,  \* the caller's vector of checkpoints, or the files
  history,      \* the regions they were taken from
  target, via, out,  \* the restart: checkpoint, overload and caller's View
  pc

checkpointVars == <<current_id, data, diff_h, incr_chkpts, history>>
restartVars == <<target, via, out>>
vars == <<checkpointVars, restartVars, pc>>

-----------------------------------------------------------------------------
NoRegion == [c \in {} |-> NoVal]

Init ==
  /\ current_id = 0
  /\ data = NoRegion
  /\ diff_h = {}
  /\ incr_chkpts = <<>>
  /\ history = <<>>
  /\ target = 0
  /\ via = "memory"
  /\ out = NoRegion
  /\ pc = "idle"

\* Mutant: every checkpoint is copied to one buffer, of the deduplicator's own.
KeptAlways(d, reuse) == {k \in diff_h : DOMAIN incr_chkpts[k] = DOMAIN d}

\* The checkpoints kept in the allocation of diff_h after Kokkos::resize(diff_h,
\* data_len), which allocates unless the size is the same.
KeptAtResize(d, reuse) ==
  IF reuse THEN {k \in diff_h : DOMAIN incr_chkpts[k] = DOMAIN d} ELSE {}

\* checkpoint() with a diff_h of the caller's, new or used before, or with the
\* one of the overload that writes a file: up to the copy to the host, which
\* writes the allocation of every checkpoint kept in it.
Checkpoint(d, reuse) ==
  /\ pc = "idle"
  /\ current_id < MaxChkpts
  /\ reuse => ReusesView
  /\ data' = d
  /\ diff_h' = KeptAtResize(d, reuse)
  /\ incr_chkpts' = [k \in DOMAIN incr_chkpts |-> IF k \in diff_h' THEN d ELSE incr_chkpts[k]]
  /\ pc' = "copied"
  /\ UNCHANGED <<current_id, history, restartVars>>

\* current_id += 1, and the caller's push_back() or the file on disk.
FinishCheckpoint ==
  /\ pc = "copied"
  /\ incr_chkpts' = Append(incr_chkpts, data)
  /\ diff_h' = diff_h \cup {Len(incr_chkpts')}
  /\ history' = Append(history, data)
  /\ current_id' = current_id + 1
  /\ pc' = "idle"
  /\ UNCHANGED <<data, restartVars>>

\* The overload that writes a file: the stream throws before current_id += 1.
FailToWrite ==
  /\ current_id \in FailingWrites
  /\ pc = "copied"
  /\ pc' = "idle"
  /\ UNCHANGED <<checkpointVars, restartVars>>

\* resize() of a View taken by value, and deep_copy(): the caller's is written
\* when the resize has nothing to do, and left alone otherwise.
Written(view, chkpt) == IF DOMAIN view = DOMAIN chkpt THEN chkpt ELSE view

\* restart() of checkpoint k into a View of n chunks.
Restart(k, n) ==
  /\ pc = "idle"
  /\ target' = k
  /\ out' = Written([c \in 0 .. n - 1 |-> NoVal], incr_chkpts[k + 1])
  /\ pc' = "restarted"
  /\ UNCHANGED checkpointVars

RestartFromViews(k, n) == via' = "memory" /\ Restart(k, n)

RestartFromFiles(k, n) == via' = "files" /\ Restart(k, n)

\* The caller has used the restarted data.
Release ==
  /\ pc = "restarted"
  /\ target' = 0
  /\ via' = "memory"
  /\ out' = NoRegion
  /\ pc' = "idle"
  /\ UNCHANGED checkpointVars

-----------------------------------------------------------------------------
\* The steps of a call under way.
Progress == FinishCheckpoint \/ FailToWrite

\* The application's calls.
Call ==
  \/ \E d \in Regions, reuse \in BOOLEAN : Checkpoint(d, reuse)
  \/ \E k \in 0 .. Len(incr_chkpts) - 1, n \in Lengths :
       RestartFromViews(k, n) \/ RestartFromFiles(k, n)
  \/ Release

Next == Progress \/ Call

Spec == Init /\ [][Next]_vars

-----------------------------------------------------------------------------
(* Properties *)

\* A View has the size of the region to be restarted, as in every caller.
Fits == DOMAIN out = DOMAIN history[target + 1]

\* The deduplicator is a checkpoint store, in the restarts into a View that fits.
Store == INSTANCE CheckpointStore WITH
  Data <- Regions,
  NotRestarted <- [id |-> -1],
  history <- history,
  restarted <- IF pc = "restarted" /\ Fits
               THEN [id |-> target, data |-> out] ELSE [id |-> -1]

StoreSpec == Store!Spec
=============================================================================
