--------------------------- MODULE Deduplicators ---------------------------
(***************************************************************************)
(* The deduplicator a program works with: an object of one of the classes  *)
(* behind BaseDeduplicator, chosen once by the mode the program is given.  *)
(* Each class is its own module; here they are put behind one interface,   *)
(* with the variables they share under one name, so that what holds of     *)
(* every mode is stated once.  Instances are of the modules with the       *)
(* proofs, so that what is proved of a class can be cited of its objects.  *)
(***************************************************************************)
EXTENDS Integers, Sequences, FiniteSets

CONSTANTS
  Modes,        \* the modes programs are started with
  NumChunks,    \* chunks of a region of List and Tree
  Lengths,      \* numbers of chunks of the regions of Full and Basic
  Vals, NoVal, NoWord,
  Digests,      \* of List and Tree; NoDigest is the zeroed one
  NoDigest, HashChunk(_), HashPair(_, _),
  OffsetSpan, WholeChunks, WideTeams, Overloads, ReusesView, FailingWrites, MaxChkpts

VARIABLES
  mode,
  \* Of every deduplicator.
  current_id, data, incr_chkpts, history, target, via, out, pc,
  \* Of those with memory of the checkpoint before, and a walk over checkpoints.
  baseline_id, spoiled, idx, ref_id, node_list, todo,
  \* Of Full; of Basic and List; of Basic; of List and Tree; of Tree.
  diff_h,
  list,
  bits, changes, buffer,
  first_ocur, capacity, first_ocur_vec, shift_dupl_vec,
  tree, baseline, labels, level

objectVars == <<current_id, data, incr_chkpts, history, target, via, out, pc>>
walkVars == <<baseline_id, spoiled, idx, ref_id, node_list, todo>>
bitVars == <<bits, changes, buffer>>
mapVars == <<first_ocur, capacity, first_ocur_vec, shift_dupl_vec>>
treeVars == <<tree, baseline, labels, level>>
deduplicatorVars == <<objectVars, walkVars, diff_h, list, bitVars, mapVars, treeVars>>
vars == <<mode, deduplicatorVars>>

-----------------------------------------------------------------------------
ChunkDigests == {HashChunk(v) : v \in Vals}
DigestOf == [v \in Vals |-> HashChunk(v)]

Full == INSTANCE FullDedup_proofs
Basic == INSTANCE BasicDedup_proofs WITH Digests <- ChunkDigests, Hash <- DigestOf
List == INSTANCE ListDedup_proofs WITH Hash <- HashChunk
Tree == INSTANCE TreeDedup_proofs WITH Hash <- HashChunk

\* What the classes ask of the constants: types, at least one chunk, for Tree fewer
\* than 2^30; and that regions of List and Tree are among those of Full and Basic.
ASSUME SizeAssumption ==
  /\ NumChunks \in Lengths /\ Lengths \subseteq Nat \ {0}
  /\ Tree!Size < Tree!HalfOfWrapped
  /\ OffsetSpan \in Nat \ {0, 1} /\ WholeChunks \in BOOLEAN
  /\ MaxChkpts \in Nat /\ FailingWrites \subseteq Nat
  /\ WideTeams \in BOOLEAN /\ Overloads \subseteq {"memory", "files"}
  /\ Vals \subseteq Nat /\ NoVal \notin Vals /\ NoWord \in Nat

\* No collision, and nothing hashes to zeroes.
ASSUME HashAssumption ==
  /\ ChunkDigests \subseteq Digests /\ NoDigest \notin Digests
  /\ \A u, v \in Vals : HashChunk(u) = HashChunk(v) => u = v
  /\ \A l, r \in Digests : HashPair(l, r) # NoDigest
  /\ \A v \in Vals, l, r \in Digests : HashPair(l, r) # HashChunk(v)
  /\ \A l, r, m, s \in Digests : HashPair(l, r) = HashPair(m, s) => l = m /\ r = s

\* The variables of the other classes, where an object has none.
NoWalk ==
  /\ baseline_id = 0 /\ spoiled = {} /\ idx = 0 /\ ref_id = 0
  /\ node_list = <<>> /\ todo = {}
NoBits == bits = {} /\ changes = {} /\ buffer = <<>>
NoMap == first_ocur = <<>> /\ capacity = 0 /\ first_ocur_vec = {} /\ shift_dupl_vec = {}
NoTree == tree = <<>> /\ baseline = FALSE /\ labels = <<>> /\ level = <<>>

\* A new object of the class the mode names.
NewObject ==
  \/ mode = "Full" /\ Full!Init /\ NoWalk /\ list = <<>> /\ NoBits /\ NoMap /\ NoTree
  \/ mode = "Basic" /\ Basic!Init /\ diff_h = {} /\ NoMap /\ NoTree
  \/ mode = "List" /\ List!Init /\ diff_h = {} /\ NoBits /\ NoTree
  \/ mode = "Tree" /\ Tree!Init /\ diff_h = {} /\ list = <<>> /\ NoBits

\* What an object of a class leaves alone.
NotOfFull == UNCHANGED <<mode, walkVars, list, bitVars, mapVars, treeVars>>
NotOfBasic == UNCHANGED <<mode, diff_h, mapVars, treeVars>>
NotOfList == UNCHANGED <<mode, diff_h, bitVars, treeVars>>
NotOfTree == UNCHANGED <<mode, diff_h, list, bitVars>>

-----------------------------------------------------------------------------
Init == mode \in Modes /\ NewObject

\* The steps of a call under way.
Progress ==
  \/ mode = "Full" /\ Full!Progress /\ NotOfFull
  \/ mode = "Basic" /\ Basic!Progress /\ NotOfBasic
  \/ mode = "List" /\ List!Progress /\ NotOfList
  \/ mode = "Tree" /\ Tree!Progress /\ NotOfTree

\* The application's calls, through the interface all classes have.
Call ==
  \/ mode = "Full" /\ Full!Call /\ NotOfFull
  \/ mode = "Basic" /\ Basic!Call /\ NotOfBasic
  \/ mode = "List" /\ List!Call /\ NotOfList
  \/ mode = "Tree" /\ Tree!Call /\ NotOfTree

Next == Progress \/ Call

Spec == Init /\ [][Next]_vars

FairSpec == Spec /\ WF_vars(Progress)

-----------------------------------------------------------------------------
(* Properties *)

\* What is promised although writes fail, offsets wrap and teams race: of Full,
\* every restart into a View that fits; of the others, that of every baseline
\* taken since the write of its id last failed: of Basic from Views, into one that
\* fits; of List and Tree from Views, or from its file where offsets do not wrap.
Promised ==
  IF mode = "Full" THEN Full!Fits
  ELSE /\ target \notin spoiled
       /\ incr_chkpts[target + 1].ref_id = target
       /\ mode = "Basic" => via = "memory" /\ Basic!Fits
       /\ mode = "List" => ~List!Wraps
       /\ mode = "Tree" => ~Tree!Wraps

\* The contents of a region, which Basic keeps next to its length.
ChunksOf(region) == IF mode = "Basic" THEN region.chunk ELSE region

\* Seen through the interface, every class is a checkpoint store as far as
\* promised: checkpoints are only ever added, and restarted exactly.
Store == INSTANCE CheckpointStore WITH
  Data <- Full!Regions,
  NotRestarted <- [id |-> -1],
  history <- [k \in DOMAIN history |-> ChunksOf(history[k])],
  restarted <- IF pc = "restarted" /\ Promised
               THEN [id |-> target, data |-> ChunksOf(out)] ELSE [id |-> -1]

StoreSpec == Store!Spec

\* Whatever fails, overflows or races: diffs of Basic stay well formed although
\* regions grow and shrink, and a restart writes past its View only where a checkpoint
\* before the one restarted is of a longer region; the maps of List and Tree
\* objects have room, their diffs hold no content twice, Tree's disjoint regions;
\* and while no write of the chain has failed, the map names what the chain has
\* saved, or is about to, by the digests it holds.
ObjectsCoherent ==
  /\ mode = "Basic" => Basic!Coherent
  /\ mode = "List" => List!Coherent /\ List!Exact
  /\ mode = "Tree" => Tree!Coherent /\ Tree!Exact

\* Every checkpoint() and restart() call of every class returns, whatever
\* fails, overflows or races within it.
CallsReturn == pc \notin {"idle", "restarted"} ~> pc \in {"idle", "restarted"}
=============================================================================
