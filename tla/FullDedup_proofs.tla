-------------------------- MODULE FullDedup_proofs --------------------------
(***************************************************************************)
(* Proof that the Full deduplicator implements the checkpoint store, for   *)
(* regions of every size and contents and any number of checkpoints, with  *)
(* writes that fail, when no caller hands in a diff_h used before.         *)
(***************************************************************************)
EXTENDS FullDedup, TLAPS

\* The checkpoints kept are the regions they were taken from.
Kept ==
  /\ history \in Seq(Regions)
  /\ incr_chkpts = history

\* Between its steps a checkpoint has its region, and a restart that fits what
\* it was asked for.
Honest ==
  /\ Kept
  /\ pc = "copied" => data \in Regions
  /\ pc = "restarted" => /\ target \in 0 .. Len(history) - 1
                         /\ Fits => out = history[target + 1]

\* A new diff_h shares its allocation with no checkpoint: the ones kept stay.
LEMMA CheckpointKeeps ==
  ASSUME ~ReusesView, Honest, NEW d \in Regions, NEW reuse \in BOOLEAN, Checkpoint(d, reuse)
  PROVE  Honest' /\ pc' = "copied" /\ UNCHANGED history
<1>1. /\ reuse = FALSE /\ data' = d /\ pc' = "copied" /\ history' = history
      /\ diff_h' = KeptAtResize(d, reuse)
      /\ incr_chkpts' = [k \in DOMAIN incr_chkpts |-> IF k \in diff_h' THEN d ELSE incr_chkpts[k]]
  BY DEF Checkpoint
<1>2. diff_h' = {}
  BY <1>1 DEF KeptAtResize
<1>3. incr_chkpts' = [k \in DOMAIN incr_chkpts |-> incr_chkpts[k]]
  BY <1>1, <1>2
<1>4. incr_chkpts' = history
  BY <1>3 DEF Honest, Kept
<1> QED
  BY <1>1, <1>4 DEF Honest, Kept

\* What a restart into a View that fits returns, and what it leaves alone.
LEMMA RestartReturns ==
  ASSUME Honest, NEW k \in 0 .. Len(incr_chkpts) - 1, NEW n \in Lengths, Restart(k, n)
  PROVE  /\ Honest'
         /\ pc # "restarted" /\ pc' = "restarted"
         /\ target' = k /\ k \in 0 .. Len(history) - 1
         /\ UNCHANGED history
         /\ Fits' => out' = history[k + 1]
<1>1. /\ pc = "idle" /\ pc' = "restarted" /\ target' = k
      /\ out' = Written([c \in 0 .. n - 1 |-> NoVal], incr_chkpts[k + 1])
      /\ history' = history /\ incr_chkpts' = incr_chkpts
  BY DEF Restart, checkpointVars
<1>2. Fits' => DOMAIN out' = DOMAIN history[k + 1]
  BY <1>1 DEF Fits
<1>3. Fits' => out' = history[k + 1]
  BY <1>1, <1>2 DEF Written, Honest, Kept
<1>4. k \in 0 .. Len(history) - 1
  BY DEF Honest, Kept
<1> QED
  BY <1>1, <1>3, <1>4 DEF Honest, Kept

LEMMA HonestStep ==
  ASSUME ~ReusesView, Honest, [Next]_vars
  PROVE  Honest'
<1>1. CASE FinishCheckpoint
  BY <1>1 DEF FinishCheckpoint, Honest, Kept
<1>2. CASE FailToWrite
  BY <1>2 DEF FailToWrite, checkpointVars, Honest, Kept
<1>3. ASSUME NEW d \in Regions, NEW reuse \in BOOLEAN, Checkpoint(d, reuse)
      PROVE  Honest'
  BY <1>3, CheckpointKeeps
<1>4. ASSUME NEW k \in 0 .. Len(incr_chkpts) - 1, NEW n \in Lengths,
             RestartFromViews(k, n) \/ RestartFromFiles(k, n)
      PROVE  Honest'
  <2>1. Restart(k, n)
    BY <1>4 DEF RestartFromViews, RestartFromFiles
  <2> QED
    BY <2>1, RestartReturns
<1>5. CASE Release
  BY <1>5 DEF Release, checkpointVars, Honest, Kept
<1>6. CASE UNCHANGED vars
  BY <1>6 DEF vars, checkpointVars, restartVars, Honest, Kept, Fits
<1> QED
  BY <1>1, <1>2, <1>3, <1>4, <1>5, <1>6 DEF Next, Progress, Call

\* While no caller hands in a diff_h used before, the checkpoints kept are the
\* regions they were taken from, and a restart that fits returned one of them.
THEOREM HonestAlways == ~ReusesView => (Spec => []Honest)
<1> SUFFICES ASSUME ~ReusesView PROVE Spec => []Honest
  OBVIOUS
<1>1. Init => Honest
  BY DEF Init, Honest, Kept
<1>2. Honest /\ [Next]_vars => Honest'
  BY HonestStep
<1> QED
  BY <1>1, <1>2, PTL DEF Spec

\* What a step is to the callers: a new checkpoint, a restart that returns, the end
\* of its use, or nothing.
LEMMA SeenSteps ==
  ASSUME ~ReusesView, Honest, [Next]_vars
  PROVE  \/ UNCHANGED <<history, target, out, pc>>
         \/ /\ pc # "restarted" /\ pc' # "restarted"
            /\ history' = history \/ (data \in Regions /\ history' = Append(history, data))
         \/ pc # "restarted" /\ pc' = "restarted" /\ history' = history
         \/ pc = "restarted" /\ pc' # "restarted" /\ history' = history
<1>1. CASE FinishCheckpoint
  BY <1>1 DEF FinishCheckpoint, Honest
<1>2. CASE FailToWrite
  BY <1>2 DEF FailToWrite, checkpointVars
<1>3. CASE \E d \in Regions, reuse \in BOOLEAN : Checkpoint(d, reuse)
  BY <1>3 DEF Checkpoint
<1>4. ASSUME NEW k \in 0 .. Len(incr_chkpts) - 1, NEW n \in Lengths,
             RestartFromViews(k, n) \/ RestartFromFiles(k, n)
      PROVE  pc # "restarted" /\ pc' = "restarted" /\ history' = history
  BY <1>4 DEF RestartFromViews, RestartFromFiles, Restart, checkpointVars
<1>5. CASE Release
  BY <1>5 DEF Release, checkpointVars
<1>6. CASE UNCHANGED vars
  BY <1>6 DEF vars, checkpointVars, restartVars
<1> QED
  BY <1>1, <1>2, <1>3, <1>4, <1>5, <1>6 DEF Next, Progress, Call

\* A step of the deduplicator is a step of the store, or one its callers do not
\* see.
LEMMA StoreStep ==
  ASSUME ~ReusesView, Honest, Honest', [Next]_vars
  PROVE  [Store!Next]_(Store!vars)
<1> USE DEF Store!Next, Store!vars
<1>1. CASE /\ pc # "restarted" /\ pc' # "restarted"
           /\ history' = history \/ (data \in Regions /\ history' = Append(history, data))
  BY <1>1 DEF Store!Checkpoint
<1>2. CASE pc # "restarted" /\ pc' = "restarted" /\ history' = history
  <2>1. CASE ~Fits'
    BY <1>2, <2>1
  <2>2. CASE Fits'
    <3>1. out' = history[target' + 1] /\ target' \in 0 .. Len(history) - 1
      BY <1>2, <2>2 DEF Honest
    <3>2. Store!Restart(target')
      BY <1>2, <2>2, <3>1 DEF Store!Restart
    <3> QED
      BY <3>1, <3>2
  <2> QED
    BY <2>1, <2>2
<1>3. CASE pc = "restarted" /\ pc' # "restarted" /\ history' = history
  <2>1. [id |-> target, data |-> out].id # [id |-> -1].id
    BY <1>3 DEF Honest, Kept
  <2> QED
    BY <1>3, <2>1 DEF Store!Release
<1>4. CASE UNCHANGED <<history, target, out, pc>>
  BY <1>4 DEF Fits
<1> QED
  BY <1>1, <1>2, <1>3, <1>4, SeenSteps

\* Every restart into a View that fits gives back the region its checkpoint was
\* taken of, whatever was written in between: the checkpoint store of the other
\* deduplicators, without their conditions.
THEOREM ImplementsStore == ~ReusesView => (Spec => StoreSpec)
<1> SUFFICES ASSUME ~ReusesView PROVE Spec => StoreSpec
  OBVIOUS
<1>1. Init => Store!Init
  BY DEF Init, Store!Init
<1>2. Honest /\ Honest' /\ [Next]_vars => [Store!Next]_(Store!vars)
  BY StoreStep
<1> QED
  BY <1>1, <1>2, HonestAlways, PTL DEF Spec, StoreSpec, Store!Spec
=============================================================================
