------------------------ MODULE Deduplicators_proofs ------------------------
(***************************************************************************)
(* Proofs about the deduplicators behind their interface, from what is     *)
(* proved of each class.                                                   *)
(***************************************************************************)
EXTENDS Deduplicators, TLAPS

-----------------------------------------------------------------------------
(* An object is of its class *)

\* An object keeps its class, and every step of it is one of the class's.
LEMMA StepsOfClass ==
  ASSUME [Next]_vars
  PROVE  /\ UNCHANGED mode
         /\ mode = "Full" => [Full!Next]_(Full!vars)
         /\ mode = "Basic" => [Basic!Next]_(Basic!vars)
         /\ mode = "List" => [List!Next]_(List!vars)
         /\ mode = "Tree" => [Tree!Next]_(Tree!vars)
<1>1. CASE UNCHANGED vars
  <2>1. UNCHANGED <<mode, objectVars, walkVars, diff_h, list, bitVars, mapVars, treeVars>>
    BY <1>1 DEF vars, deduplicatorVars
  <2>2. UNCHANGED Full!vars
    BY <2>1 DEF objectVars, Full!vars, Full!checkpointVars, Full!restartVars
  <2>3. UNCHANGED Basic!vars
    BY <2>1 DEF objectVars, walkVars, bitVars, Basic!vars, Basic!dedupVars, Basic!restartVars
  <2>4. UNCHANGED List!vars
    BY <2>1 DEF objectVars, walkVars, mapVars, List!vars, List!dedupVars, List!restartVars
  <2>5. UNCHANGED Tree!vars
    BY <2>1 DEF objectVars, walkVars, mapVars, treeVars, Tree!vars, Tree!dedupVars,
                Tree!restartVars
  <2> QED
    BY <2>1, <2>2, <2>3, <2>4, <2>5
<1>2. CASE Next
  <2>1. CASE mode = "Full" /\ (Full!Progress \/ Full!Call) /\ NotOfFull
    BY <2>1 DEF Full!Next, NotOfFull
  <2>2. CASE mode = "Basic" /\ (Basic!Progress \/ Basic!Call) /\ NotOfBasic
    BY <2>2 DEF Basic!Next, NotOfBasic
  <2>3. CASE mode = "List" /\ (List!Progress \/ List!Call) /\ NotOfList
    BY <2>3 DEF List!Next, NotOfList
  <2>4. CASE mode = "Tree" /\ (Tree!Progress \/ Tree!Call) /\ NotOfTree
    BY <2>4 DEF Tree!Next, NotOfTree
  <2> QED
    BY <1>2, <2>1, <2>2, <2>3, <2>4 DEF Next, Progress, Call
<1> QED
  BY <1>1, <1>2

\* Whatever mode names, the object behaves as the specification of its class says,
\* so that what is proved of each class holds of every object.
THEOREM OfItsClass ==
  Spec => /\ mode = "Full" => Full!Spec
          /\ mode = "Basic" => Basic!Spec
          /\ mode = "List" => List!Spec
          /\ mode = "Tree" => Tree!Spec
<1>1. Init => /\ mode = "Full" => Full!Init
              /\ mode = "Basic" => Basic!Init
              /\ mode = "List" => List!Init
              /\ mode = "Tree" => Tree!Init
  BY DEF Init, NewObject
<1>2. mode = "Full" /\ [Next]_vars => (mode = "Full")' /\ [Full!Next]_(Full!vars)
  BY StepsOfClass
<1>3. mode = "Basic" /\ [Next]_vars => (mode = "Basic")' /\ [Basic!Next]_(Basic!vars)
  BY StepsOfClass
<1>4. mode = "List" /\ [Next]_vars => (mode = "List")' /\ [List!Next]_(List!vars)
  BY StepsOfClass
<1>5. mode = "Tree" /\ [Next]_vars => (mode = "Tree")' /\ [Tree!Next]_(Tree!vars)
  BY StepsOfClass
<1>6. Spec /\ mode = "Full" => Full!Spec
  BY <1>1, <1>2, PTL DEF Spec, Full!Spec
<1>7. Spec /\ mode = "Basic" => Basic!Spec
  BY <1>1, <1>3, PTL DEF Spec, Basic!Spec
<1>8. Spec /\ mode = "List" => List!Spec
  BY <1>1, <1>4, PTL DEF Spec, List!Spec
<1>9. Spec /\ mode = "Tree" => Tree!Spec
  BY <1>1, <1>5, PTL DEF Spec, Tree!Spec
<1> QED
  BY <1>6, <1>7, <1>8, <1>9, PTL

-----------------------------------------------------------------------------
(* What is proved of the classes *)

LEMMA BasicAssumes == Basic!HashAssumption /\ Basic!SizeAssumption
BY HashAssumption, SizeAssumption
   DEF Basic!HashAssumption, Basic!SizeAssumption, ChunkDigests, DigestOf

LEMMA ListAssumes == List!HashAssumption /\ List!SizeAssumption
BY HashAssumption, SizeAssumption DEF List!HashAssumption, List!SizeAssumption, ChunkDigests

LEMMA TreeAssumes == Tree!HashAssumption /\ Tree!SizeAssumption
BY HashAssumption, SizeAssumption DEF Tree!HashAssumption, Tree!SizeAssumption, ChunkDigests

\* Whatever mode names, writes fail and threads race, an object keeps the inductive
\* invariant of its class, where no region is one for which a kernel of Basic or List
\* has a team or a thread too many.
THEOREM ObjectsAlwaysCoherent ==
  ASSUME Basic!TeamsExact, List!ThreadsExact, NEW CONSTANT f, Tree!DigestsClosed(f)
  PROVE  Spec => []ObjectsCoherent
<1>1. Basic!Spec => []Basic!Coherent
  BY Basic!CoherentAlways, BasicAssumes
<1>2. List!Spec => []List!Coherent
  BY List!CoherentAlways, ListAssumes
<1>3. List!Spec => []List!Exact
  BY List!ExactAlways, ListAssumes
<1>4. Tree!Spec => [](Tree!Coherent /\ Tree!LevelTrue /\ Tree!Exact /\ Tree!TreeTrue)
  BY Tree!ExactAlways, TreeAssumes
<1>5. Spec /\ ~(mode = "Basic") => []~(mode = "Basic")
  <2>1. ~(mode = "Basic") /\ [Next]_vars => ~(mode = "Basic")'
    BY StepsOfClass
  <2> QED
    BY <2>1, PTL DEF Spec
<1>6. Spec /\ ~(mode = "List") => [](~(mode = "List"))
  <2>1. ~(mode = "List") /\ [Next]_vars => (~(mode = "List"))'
    BY StepsOfClass
  <2> QED
    BY <2>1, PTL DEF Spec
<1>7. Spec /\ ~(mode = "Tree") => [](~(mode = "Tree"))
  <2>1. ~(mode = "Tree") /\ [Next]_vars => (~(mode = "Tree"))'
    BY StepsOfClass
  <2> QED
    BY <2>1, PTL DEF Spec
<1>8. /\ ~(mode = "Basic") \/ Basic!Coherent
      /\ ~(mode = "List") \/ (List!Coherent /\ List!Exact)
      /\ ~(mode = "Tree") \/ (Tree!Coherent /\ Tree!Exact)
      => ObjectsCoherent
  BY DEF ObjectsCoherent
<1> QED
  BY <1>1, <1>2, <1>3, <1>4, <1>5, <1>6, <1>7, <1>8, OfItsClass, PTL
-----------------------------------------------------------------------------
(* What callers see *)

\* The regions of checkpoints.
RegionsKept == IF mode = "Basic" THEN Basic!Data ELSE Full!Regions

\* What an object owes its callers: the regions it was given, and of a restart that
\* has returned, as far as promised, the chunks of the one it was asked for.
KeepsPromise ==
  /\ history \in Seq(RegionsKept)
  /\ pc = "restarted" /\ Promised =>
       /\ target \in 0 .. Len(history) - 1
       /\ ChunksOf(out) = ChunksOf(history[target + 1])

\* What is proved of the class of an object.
ClassTrue ==
  /\ mode \in {"Full", "Basic", "List", "Tree"}
  /\ mode = "Full" => Full!Honest
  /\ mode = "Basic" => Basic!Coherent /\ Basic!BaselineExact
  /\ mode = "List" => List!Coherent /\ List!BaselineExact
  /\ mode = "Tree" => Tree!Coherent /\ Tree!TypeOK /\ Tree!BaselineExact

\* The regions of each class are those of the store.
LEMMA RegionsOfClasses ==
  /\ List!Data \subseteq Full!Regions /\ Tree!Data \subseteq Full!Regions
  /\ \A d \in Basic!Data : d.chunk \in Full!Regions
<1>1. List!Data = [0 .. NumChunks - 1 -> Vals] /\ Tree!Data = [0 .. NumChunks - 1 -> Vals]
  BY DEF List!Data, List!Chunks, Tree!Data, Tree!Chunks
<1>2. [0 .. NumChunks - 1 -> Vals] \subseteq Full!Regions
  BY SizeAssumption DEF Full!Regions
<1>3. \A d \in Basic!Data : d.chunk \in Full!Regions
  BY DEF Basic!Data, Full!Regions
<1> QED
  BY <1>1, <1>2, <1>3

\* A sequence of members of a set is one of members of a larger set.
LEMMA LargerSeq ==
  ASSUME NEW S, NEW T, S \subseteq T, NEW s \in Seq(S)
  PROVE  s \in Seq(T)
OBVIOUS

LEMMA PromiseKept ==
  ASSUME ClassTrue
  PROVE  KeepsPromise
<1>1. CASE mode = "Full"
  <2>1. Full!Honest
    BY <1>1 DEF ClassTrue
  <2>2. history \in Seq(RegionsKept)
    BY <1>1, <2>1 DEF Full!Honest, Full!Kept, RegionsKept
  <2> QED
    BY <1>1, <2>1, <2>2 DEF Full!Honest, KeepsPromise, Promised, ChunksOf
<1>2. CASE mode = "Basic"
  <2>1. Basic!Coherent /\ Basic!BaselineExact
    BY <1>2 DEF ClassTrue
  <2>2. history \in Seq(RegionsKept) /\ Len(history) = Len(incr_chkpts)
    BY <1>2, <2>1 DEF Basic!Coherent, Basic!TypeOK, RegionsKept
  <2>3. pc = "restarted" /\ Promised => /\ target \in 0 .. Len(history) - 1
                                        /\ out = history[target + 1]
    BY <1>2, <2>1, <2>2 DEF Promised, Basic!BaselineExact, Basic!RestartsBaseline, Basic!Chkpt,
                            Basic!Taken, Basic!Fits
  <2> QED
    BY <2>2, <2>3 DEF KeepsPromise
<1>3. CASE mode = "List"
  <2>1. List!Coherent /\ List!BaselineExact
    BY <1>3 DEF ClassTrue
  <2>2. history \in Seq(List!Data) /\ List!Taken = 0 .. Len(history) - 1
    BY <2>1 DEF List!Coherent, List!HeadersTrue, List!Taken
  <2>3. history \in Seq(RegionsKept)
    BY <1>3, <2>2, RegionsOfClasses, LargerSeq DEF RegionsKept
  <2>4. pc = "restarted" /\ Promised => /\ target \in 0 .. Len(history) - 1
                                        /\ out = history[target + 1]
    BY <1>3, <2>1, <2>2 DEF Promised, List!BaselineExact, List!Chkpt, List!Wraps
  <2> QED
    BY <2>3, <2>4 DEF KeepsPromise
<1>4. CASE mode = "Tree"
  <2>1. Tree!Coherent /\ Tree!TypeOK /\ Tree!BaselineExact
    BY <1>4 DEF ClassTrue
  <2>2. /\ current_id \in Nat /\ Tree!Taken = 0 .. current_id - 1
        /\ history = [k \in 1 .. current_id |-> history[k]]
    BY <2>1 DEF Tree!Coherent, Tree!ObjectTrue, Tree!FcnOn, Tree!Taken
  <2>3. \A k \in 1 .. current_id : history[k] \in Tree!Data
    <3> SUFFICES ASSUME NEW k \in 1 .. current_id PROVE history[k] \in Tree!Data
      OBVIOUS
    <3>1. k - 1 \in Tree!Taken /\ k - 1 + 1 = k
      BY <2>2
    <3> QED
      BY <2>1, <3>1 DEF Tree!TypeOK
  <2>4. history \in Seq(Tree!Data) /\ Len(history) = current_id
    BY <2>2, <2>3
  <2>5. history \in Seq(RegionsKept)
    BY <1>4, <2>4, RegionsOfClasses, LargerSeq DEF RegionsKept
  <2>6. pc = "restarted" /\ Promised => /\ target \in 0 .. Len(history) - 1
                                        /\ out = history[target + 1]
    BY <1>4, <2>1, <2>2, <2>4 DEF Promised, Tree!BaselineExact, Tree!Chkpt, Tree!Wraps
  <2> QED
    BY <2>5, <2>6 DEF KeepsPromise
<1> QED
  BY <1>1, <1>2, <1>3, <1>4 DEF ClassTrue

\* What a step is to the callers: a new checkpoint, a restart that returns, the end
\* of its use, or nothing.
LEMMA SeenSteps ==
  ASSUME ~ReusesView, ClassTrue, [Next]_vars
  PROVE  \/ UNCHANGED <<history, target, out, pc>> /\ (Promised' <=> Promised)
         \/ /\ pc # "restarted" /\ pc' # "restarted"
            /\ \/ history' = history
               \/ /\ data \in RegionsKept /\ ChunksOf(data) \in Full!Regions
                  /\ history' = Append(history, data)
         \/ pc # "restarted" /\ pc' = "restarted" /\ history' = history
         \/ pc = "restarted" /\ pc' # "restarted" /\ history' = history
<1>0. UNCHANGED mode
  BY StepsOfClass
<1>1. CASE mode = "Full"
  <2>1. Full!Honest /\ [Full!Next]_(Full!vars)
    BY <1>1, StepsOfClass DEF ClassTrue
  <2>2. \/ UNCHANGED <<history, target, out, pc>>
        \/ /\ pc # "restarted" /\ pc' # "restarted"
           /\ \/ history' = history
              \/ data \in Full!Regions /\ history' = Append(history, data)
        \/ pc # "restarted" /\ pc' = "restarted" /\ history' = history
        \/ pc = "restarted" /\ pc' # "restarted" /\ history' = history
    BY <2>1, Full!SeenSteps
  <2> QED
    BY <1>0, <1>1, <2>2 DEF Promised, Full!Fits, RegionsKept, ChunksOf
<1>2. CASE mode = "Basic"
  <2>1. Basic!Coherent /\ [Basic!Next]_(Basic!vars)
    BY <1>2, StepsOfClass DEF ClassTrue
  <2>2. \/ UNCHANGED <<history, spoiled, incr_chkpts, target, via, out, pc>>
        \/ /\ pc # "restarted" /\ pc' # "restarted"
           /\ \/ history' = history
              \/ data \in Basic!Data /\ history' = Append(history, data)
        \/ pc # "restarted" /\ pc' = "restarted" /\ history' = history
        \/ pc = "restarted" /\ pc' # "restarted" /\ history' = history
    BY <2>1, BasicAssumes, Basic!SeenSteps
  <2> QED
    BY <1>0, <1>2, <2>2, RegionsOfClasses DEF Promised, Basic!Fits, RegionsKept, ChunksOf
<1>3. CASE mode = "List"
  <2>1. List!Coherent /\ [List!Next]_(List!vars)
    BY <1>3, StepsOfClass DEF ClassTrue
  <2>2. \/ UNCHANGED <<history, spoiled, incr_chkpts, target, via, out, pc>>
        \/ /\ pc # "restarted" /\ pc' # "restarted"
           /\ \/ history' = history
              \/ data \in List!Data /\ history' = Append(history, data)
        \/ pc # "restarted" /\ pc' = "restarted" /\ history' = history
        \/ pc = "restarted" /\ pc' # "restarted" /\ history' = history
    BY <2>1, ListAssumes, List!SeenSteps
  <2> QED
    BY <1>0, <1>3, <2>2, RegionsOfClasses DEF Promised, List!Wraps, RegionsKept, ChunksOf
<1>4. CASE mode = "Tree"
  <2>1. Tree!Coherent /\ [Tree!Next]_(Tree!vars)
    BY <1>4, StepsOfClass DEF ClassTrue
  <2>2. \/ UNCHANGED <<history, spoiled, incr_chkpts, target, via, out, pc>>
        \/ /\ pc # "restarted" /\ pc' # "restarted"
           /\ \/ history' = history
              \/ data \in Tree!Data /\ history' = Append(history, data)
        \/ pc # "restarted" /\ pc' = "restarted" /\ history' = history
        \/ pc = "restarted" /\ pc' # "restarted" /\ history' = history
    BY <2>1, TreeAssumes, Tree!SeenSteps
  <2> QED
    BY <1>0, <1>4, <2>2, RegionsOfClasses DEF Promised, Tree!Wraps, RegionsKept, ChunksOf
<1> QED
  BY <1>1, <1>2, <1>3, <1>4 DEF ClassTrue

\* A step of an object is a step of the store, or one its callers do not see.
LEMMA StoreStep ==
  ASSUME ~ReusesView, ClassTrue, KeepsPromise, KeepsPromise', [Next]_vars
  PROVE  [Store!Next]_(Store!vars)
<1> USE DEF Store!Next, Store!vars, ChunksOf
<1> DEFINE Kept == [k \in DOMAIN history |-> ChunksOf(history[k])]
<1>1. /\ history \in Seq(RegionsKept) /\ Len(history) \in Nat
      /\ DOMAIN history = 1 .. Len(history)
      /\ mode' = mode
  BY StepsOfClass DEF KeepsPromise
<1>2. CASE pc # "restarted" /\ pc' # "restarted" /\ history' = history
  BY <1>1, <1>2
<1>3. CASE /\ pc # "restarted" /\ pc' # "restarted"
           /\ data \in RegionsKept /\ ChunksOf(data) \in Full!Regions
           /\ history' = Append(history, data)
  <2>1. Kept' = Append(Kept, ChunksOf(data))
    BY <1>1, <1>3
  <2>2. PICK d \in Full!Regions : d = ChunksOf(data)
    BY <1>3
  <2>3. Store!Checkpoint(d)
    BY <1>3, <2>1, <2>2 DEF Store!Checkpoint
  <2> QED
    BY <2>2, <2>3
<1>4. CASE pc # "restarted" /\ pc' = "restarted" /\ history' = history
  <2>1. CASE ~Promised'
    BY <1>1, <1>4, <2>1
  <2>2. CASE Promised'
    <3>1. target' \in 0 .. Len(history) - 1 /\ ChunksOf(out)' = ChunksOf(history[target' + 1])
      BY <1>1, <1>4, <2>2 DEF KeepsPromise
    <3>2. Kept[target' + 1] = ChunksOf(history[target' + 1]) /\ Len(Kept) = Len(history)
      BY <1>1, <3>1
    <3>3. Store!Restart(target')
      BY <1>1, <1>4, <2>2, <3>1, <3>2 DEF Store!Restart
    <3> QED
      BY <3>1, <3>2, <3>3
  <2> QED
    BY <2>1, <2>2
<1>5. CASE pc = "restarted" /\ pc' # "restarted" /\ history' = history
  <2>1. CASE ~Promised
    BY <1>1, <1>5, <2>1
  <2>2. CASE Promised
    <3>1. [id |-> target, data |-> ChunksOf(out)].id # [id |-> -1].id
      BY <1>5, <2>2 DEF KeepsPromise
    <3> QED
      BY <1>1, <1>5, <2>2, <3>1 DEF Store!Release
  <2> QED
    BY <2>1, <2>2
<1>6. CASE UNCHANGED <<history, target, out, pc>> /\ (Promised' <=> Promised)
  BY <1>1, <1>6
<1> QED
  BY <1>2, <1>3, <1>4, <1>5, <1>6, SeenSteps

\* Every object, of any class, is a checkpoint store as far as its class promises,
\* whatever writes fail, offsets of files wrap and teams race: the regions it was given
\* are only added to, and those restarts give back the ones they ask for.  No region is
\* one for which a kernel of Basic or List has a team or a thread too many.
THEOREM ImplementsStore ==
  ASSUME ~ReusesView, Basic!TeamsExact, List!ThreadsExact,
         NEW CONSTANT f, Tree!DigestsClosed(f), Tree!PowerOfTwo(NumChunks), NumChunks > 1
  PROVE  Spec => StoreSpec
<1>1. Full!Spec => []Full!Honest
  BY Full!HonestAlways
<1>2. Basic!Spec => []Basic!Coherent
  BY Basic!CoherentAlways, BasicAssumes
<1>3. Basic!Spec => []Basic!BaselineExact
  BY Basic!BaselinesAlwaysExact, BasicAssumes
<1>4. List!Spec => []List!Coherent
  BY List!CoherentAlways, ListAssumes
<1>5. List!Spec => []List!BaselineExact
  BY List!BaselinesAlwaysExact, ListAssumes
<1>6. Tree!Spec => [](Tree!Coherent /\ Tree!LevelTrue /\ Tree!Exact /\ Tree!TreeTrue)
  BY Tree!ExactAlways, TreeAssumes
<1>7. Tree!Spec => []Tree!TypeOK
  BY Tree!TypeCorrect, TreeAssumes
<1>8. Tree!Spec => []Tree!BaselineExact
  BY Tree!BaselinesAlwaysExact, TreeAssumes
<1>9. Init => mode = "Full" \/ mode = "Basic" \/ mode = "List" \/ mode = "Tree"
  BY DEF Init, NewObject
<1>10. mode = "Full" /\ [Next]_vars => (mode = "Full")'
  BY StepsOfClass
<1>11. mode = "Basic" /\ [Next]_vars => (mode = "Basic")'
  BY StepsOfClass
<1>12. mode = "List" /\ [Next]_vars => (mode = "List")'
  BY StepsOfClass
<1>13. mode = "Tree" /\ [Next]_vars => (mode = "Tree")'
  BY StepsOfClass
<1>14. mode = "Full" /\ Full!Honest => ClassTrue
  BY DEF ClassTrue
<1>15. mode = "Basic" /\ Basic!Coherent /\ Basic!BaselineExact => ClassTrue
  BY DEF ClassTrue
<1>16. mode = "List" /\ List!Coherent /\ List!BaselineExact => ClassTrue
  BY DEF ClassTrue
<1>17. mode = "Tree" /\ Tree!Coherent /\ Tree!TypeOK /\ Tree!BaselineExact => ClassTrue
  BY DEF ClassTrue
<1>18. Spec => []ClassTrue
  BY <1>1, <1>2, <1>3, <1>4, <1>5, <1>6, <1>7, <1>8, <1>9, <1>10, <1>11, <1>12, <1>13,
     <1>14, <1>15, <1>16, <1>17, OfItsClass, PTL DEF Spec
<1>19. Init => Store!Init
  <2> SUFFICES ASSUME Init PROVE Store!Init
    OBVIOUS
  <2>0. Full!Init \/ Basic!Init \/ List!Init \/ Tree!Init
    BY DEF Init, NewObject
  <2>1. history = <<>> /\ pc = "idle"
    BY <2>0 DEF Full!Init, Basic!Init, List!Init, Tree!Init
  <2> QED
    BY <2>1 DEF Store!Init
<1>20. ClassTrue => KeepsPromise
  BY PromiseKept
<1>21. ClassTrue /\ KeepsPromise /\ KeepsPromise' /\ [Next]_vars => [Store!Next]_(Store!vars)
  BY StoreStep
<1> QED
  BY <1>18, <1>19, <1>20, <1>21, PTL DEF Spec, StoreSpec, Store!Spec
=============================================================================
