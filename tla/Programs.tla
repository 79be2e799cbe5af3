------------------------------ MODULE Programs ------------------------------
(***************************************************************************)
(* The programs around the deduplicators and the files between them.       *)
(* dedup_files deduplicates its input files one after the other and writes *)
(* a diff for each; restart_chkpt_files reads the diffs and restarts one   *)
(* of them.  A program may die at any moment and be run again: it starts   *)
(* with a new deduplicator and overwrites the diffs of the run before, so  *)
(* a restart may find diffs of several runs side by side.                  *)
(***************************************************************************)
EXTENDS Deduplicators

CONSTANTS
  NumFiles,     \* num_chkpts
  MaxKills      \* bound on the times dedup_files dies

VARIABLES
  files,        \* the input files, which do not change
  disk,         \* the diff file of each input file
  process,      \* the program that is running
  kills

programVars == <<files, disk, process, kills>>
allVars == <<vars, programVars>>

Absent == [file |-> "absent"]
Torn == [file |-> "torn"]  \* opened for writing, and not written to its end
Complete(diff) == [file |-> "complete", diff |-> diff]

Files == 0 .. NumFiles - 1

-----------------------------------------------------------------------------
NoRegion == IF mode = "Basic" THEN [len |-> 0, chunk |-> <<>>] ELSE <<>>

\* The object and the restarted region go with the program; the next one has a
\* new object, as NewObject says.
Discard ==
  /\ current_id' = 0 /\ incr_chkpts' = <<>> /\ history' = <<>> /\ pc' = "idle"
  /\ data' = NoRegion /\ out' = NoRegion /\ target' = 0 /\ via' = "memory"
  /\ baseline_id' = 0 /\ spoiled' = {} /\ idx' = 0 /\ ref_id' = 0 /\ node_list' = <<>> /\ todo' = {}
  /\ diff_h' = {} /\ list' = <<>>
  /\ bits' = {} /\ changes' = {} /\ buffer' = <<>>
  /\ first_ocur' = <<>> /\ capacity' = 0 /\ first_ocur_vec' = {} /\ shift_dupl_vec' = {}
  /\ tree' = <<>> /\ baseline' = FALSE /\ labels' = <<>>
  /\ level' = IF mode = "Tree" THEN Tree!BottomLevel(Tree!Size) ELSE <<>>
  /\ UNCHANGED mode

ProgramsInit ==
  /\ Init
  /\ files \in [Files -> [0 .. NumChunks - 1 -> Vals]]
  /\ disk = [k \in Files |-> Absent]
  /\ process = "none"
  /\ kills = 0

\* dedup_files is started, for the first time or again.
StartDedup ==
  /\ process = "none"
  /\ process' = "dedup"
  /\ UNCHANGED <<vars, files, disk, kills>>

\* The call for file k, which is the id of the checkpoint; "idx==0" makes
\* the first one a baseline.
DedupFile(k) ==
  /\ process = "dedup"
  /\ k = current_id
  /\ \/ mode = "Full" /\ Full!Checkpoint(files[k], FALSE) /\ NotOfFull
     \/ /\ mode = "Basic"
        /\ Basic!Checkpoint([len |-> NumChunks, chunk |-> files[k]], k = 0)
        /\ NotOfBasic
     \/ mode = "List" /\ List!Checkpoint(files[k], k = 0) /\ NotOfList
     \/ mode = "Tree" /\ Tree!Checkpoint(files[k], k = 0) /\ NotOfTree
  /\ UNCHANGED programVars

\* A step of checkpoint(); the last one writes the diff over what is there.
DedupStep ==
  /\ process = "dedup"
  /\ Progress
  /\ disk' = IF current_id' > current_id
             THEN [disk EXCEPT ![current_id] = Complete(incr_chkpts'[current_id + 1])]
             ELSE disk
  /\ UNCHANGED <<files, process, kills>>

\* All files are done; the object goes with the program.
EndDedup ==
  /\ process = "dedup"
  /\ pc = "idle"
  /\ current_id = NumFiles
  /\ process' = "none"
  /\ Discard
  /\ UNCHANGED <<files, disk, kills>>

\* The machine dies, or the stream throws, which nothing catches: the file being
\* written may have been opened, and is empty or written in part.
KillDedup ==
  /\ process = "dedup"
  /\ kills < MaxKills
  /\ kills' = kills + 1
  /\ process' = "none"
  /\ \/ UNCHANGED disk
     \/ pc # "idle" /\ disk' = [disk EXCEPT ![current_id] = Torn]
  /\ Discard
  /\ UNCHANGED files

\* restart_chkpt_files reads all diffs into Views.  It does not notice a torn
\* one; a restart from such Views is not modelled.
StartRestart ==
  /\ process = "none"
  /\ \A k \in Files : disk[k].file = "complete"
  /\ process' = "restart"
  /\ incr_chkpts' = [k \in 1 .. NumFiles |-> disk[k - 1].diff]
  /\ UNCHANGED <<mode, current_id, data, history, target, via, out, pc, walkVars, diff_h,
                 list, bitVars, mapVars, treeVars, files, disk, kills>>

\* restart() of the checkpoint the program was asked for.
RestartFile(k) ==
  /\ process = "restart"
  /\ \/ mode = "Full" /\ Full!RestartFromViews(k, NumChunks) /\ NotOfFull
     \/ mode = "Basic" /\ Basic!RestartFromViews(k) /\ NotOfBasic
     \/ mode = "List" /\ List!RestartFromViews(k) /\ NotOfList
     \/ mode = "Tree" /\ Tree!RestartFromViews(k) /\ NotOfTree
  /\ UNCHANGED programVars

RestartStep ==
  /\ process = "restart"
  /\ Progress
  /\ UNCHANGED programVars

\* The restarted region is compared by its digest, and the program ends.
EndRestart ==
  /\ process = "restart"
  /\ pc = "restarted"
  /\ process' = "none"
  /\ Discard
  /\ UNCHANGED <<files, disk, kills>>

-----------------------------------------------------------------------------
\* What a program that runs does.
ProgramStep ==
  \/ \E k \in Files : DedupFile(k) \/ RestartFile(k)
  \/ DedupStep
  \/ EndDedup
  \/ RestartStep
  \/ EndRestart

ProgramsNext == StartDedup \/ StartRestart \/ KillDedup \/ ProgramStep

ProgramsSpec == ProgramsInit /\ [][ProgramsNext]_allVars /\ WF_allVars(ProgramStep)

-----------------------------------------------------------------------------
(* Properties *)

\* The whole region returns to an earlier file than the one before, up to file k.
Returns(k) == \E i, j \in 0 .. k : i + 1 < j /\ files[i] = files[j]

\* A restart gives back the input file it was asked for, although the diffs may
\* be of different runs, which chose different first occurrences of what they
\* saved (for Tree, but for a region that returns as a whole).
FileRestarted ==
  process = "restart" /\ pc = "restarted" /\ (mode = "Tree" => ~Returns(target))
    => ChunksOf(out) = files[target]

\* A program that is started ends, by itself or because it dies.
ProgramsEnd == process # "none" ~> process = "none"
=============================================================================
