-------------------------- MODULE CheckpointStore --------------------------
(***************************************************************************)
(* What every deduplicator of the repository promises, whatever its        *)
(* encoding: checkpoints are taken one after the other, and a restart of   *)
(* checkpoint k hands back exactly the data that checkpoint k was given    *)
(* (the contract of BaseDeduplicator).                                     *)
(***************************************************************************)
EXTENDS Naturals, Sequences

CONSTANTS
  Data,          \* the memory regions an application may checkpoint
  NotRestarted   \* no restart has returned

VARIABLES
  history,       \* history[k + 1] is the data given to checkpoint k
  restarted      \* what the last restart returned, while its caller holds it

vars == <<history, restarted>>

Init ==
  /\ history = <<>>
  /\ restarted = NotRestarted

\* BaseDeduplicator::checkpoint: the data becomes the next checkpoint.
Checkpoint(d) ==
  /\ history' = Append(history, d)
  /\ UNCHANGED restarted

\* BaseDeduplicator::restart: the caller receives the data of checkpoint k.
Restart(k) ==
  /\ restarted' = [id |-> k, data |-> history[k + 1]]
  /\ UNCHANGED history

\* The caller is done with the restarted data.
Release ==
  /\ restarted # NotRestarted
  /\ restarted' = NotRestarted
  /\ UNCHANGED history

Next ==
  \/ \E d \in Data : Checkpoint(d)
  \/ \E k \in 0 .. Len(history) - 1 : Restart(k)
  \/ Release

Spec == Init /\ [][Next]_vars
=============================================================================
