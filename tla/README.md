# Verification of the GPU deduplicators

This directory holds TLA+ specifications of the incremental checkpointing
library of this repository, the TLC models that check them on small instances,
and proofs, checked by TLAPS, for instances of every size.

An application hands a memory region to a deduplicator, which cuts it into
chunks and produces a checkpoint: a diff that holds the chunks that are new and
says where the others are to be found. A restart puts a region together again
from a vector of diffs or from the files they were written to. Whatever the
encoding, one promise matters: *the restart of checkpoint k is the region that
was given to checkpoint k*.

## 1. Inventory

| Part | State it keeps | Operations | Modelled by |
|---|---|---|---|
| `BaseDeduplicator` (`deduplicator_interface.hpp`) | `current_id`, `baseline_id` | `checkpoint` (4 overloads), `restart` (3 overloads) | `CheckpointStore`; all classes behind it, `Deduplicators`, `Deduplicators_proofs` |
| Full (`full_approach.cpp`) | none but `current_id` | copies the region | `FullDedup`, `FullDedup_proofs` |
| Basic (`basic_approach.cpp`) | the digests `list`, the bitset of changed chunks | dedup and collect kernels, restart from Views and from files | `BasicDedup`, `BasicInvariants`, `BasicDedup_proofs` |
| List (`list_approach.cpp`) | `list`, the map `first_ocur_d`, vectors of first occurrences and of shifted duplicates | the same, and the sort of the duplicates | `ListDiff`, `ListDiffOrders`, `ListDedup`, `ListInvariants`, `ListDedup_proofs` |
| Tree (`tree_approach.cpp`) | the Merkle tree, `first_ocur_d`, the labels, two vectors | leaf kernel, forest kernels level by level (two variants: baseline, later), collect, restart | `TreeDedup`, `TreeInvariants`, `TreeDedup_proofs` |
| Serial reference (`reference_impl.hpp`) | host tree and map | `dedup_low_offset_ref` | `TreeReference`, `TreeReference_proofs` |
| Merkle tree (`kokkos_merkle_tree.hpp`) | none | children, leftmost and rightmost leaf, number of leaves; the loops over the levels | `MerkleTree`, `MerkleTree_proofs`, `MerkleLevels`, `MerkleLevels_proofs` |
| NodeID, digests, header (`map_helpers.hpp`, `utils.hpp`) | none | comparison | values in every module |
| Device vector (`kokkos_vector.hpp`) | length and items | `push`, `clear` | insertion into a set, with its capacity (`RoomEnough`) |
| Programs (`dedup_files*.cpp`, `restart_chkpt_files.cpp`) | the input files, the diffs on disk | one checkpoint per file; a restart of one; killed and run again | `Programs` |
| Tests (`src/test`) | two regions each | checkpoint, compare, restart | `TreeTests`: test cases 01 to 10 |
| Tree by lowest root (`tree_low_root_approach.cpp`) | as Tree | as Tree | not modelled (section 5) |
| Hashes, generators, loggers, mode parsing | none | | not modelled: arithmetic on bytes, random data, output |

How they interact. The host code of one deduplicator is sequential, and an
object is used by one host thread: a call returns before the next one. The
concurrency is inside the calls, between the teams and threads of a Kokkos
kernel, and shared between them are the maps, the vectors' counters and the node
list of a restart. A kernel is ordered before the next one by a fence or by the
stream. Calls interact through what an object keeps from one call to the next,
and through the diffs, the only thing a restart sees. Programs interact
through the diffs on disk: a run that died leaves some of its own, and the next
one overwrites them one by one. Ranks of the MPI program share nothing.

What is hard here:

* **Order of threads.** Chunks of the same content race to be the first
  occurrence; positions in a diff are drawn from counters; duplicates are sorted
  with an order within a bin nobody fixes; threads of a team test and overwrite
  one entry of the node list.
* **Long sequences of calls.** A diff refers to earlier ones, across baselines;
  a region may return to an earlier state; a stale digest of an inner node may be
  looked up.
* **Failure in the middle of a call.** Writing a file may throw after the state
  kept for the next comparison has been replaced.
* **Crashes.** A program that dies and is run again leaves diffs of two runs side
  by side, whose threads chose different first occurrences.
* **Shared allocations.** A View is a handle: what the caller keeps of one
  checkpoint may be what the next one writes to.
* **Boundaries.** One chunk; a number of chunks that is no power of two;
  loops that end because an unsigned integer wraps; offsets of 32 bits; a region
  that grows; fewer duplicates than checkpoints in a sort; maps and vectors that
  are written to without a look at their capacity.

Every place where one of these bites is listed in `PROJECT.json` under
`hazards`, with the properties that watch it.

What makes each part correct:

* *every deduplicator*: a restart is exact; what a diff leaves out has not
  changed; calls return;
* *Basic*: each entry of a diff is true, no chunk twice; only changed chunks
  are saved;
* *List and Tree*: a duplicate points to a chunk (a subtree) a checkpoint of the
  same chain saved, with the same content; no content is saved twice in a chain;
  no map or vector outgrows its allocation;
* *Tree*: regions of a diff are disjoint, and those the serial reference finds,
  in whatever order teams run;
* *Merkle tree*: kernels find their children already labelled, and leave out no
  inner node; a region's leaves are exactly the leaves under its root; the loops
  over levels end;
* *programs*: the file restarted is the input file, whatever died before; a
  program ends.

## 2. The modules

```
CheckpointStore  <-refines-  FullDedup   <-  FullDedup_proofs
                 <-refines-  BasicDedup  <-  BasicInvariants  <-  BasicDedup_proofs
                                                              <-  MCBasicDedup
                 <-refines-  ListDedup   <-  ListInvariants   <-  ListDedup_proofs
                                 |                            <-  MCListDedup
                             ListDiff    <-  ListDiffOrders
                 <-refines-  TreeInvariants
                 <-refines-  Deduplicators
MerkleTree  <-  MerkleTree_proofs
            <-  MerkleLevels
            <-  TreeDedup  <-  TreeInvariants
                           <-  TreeReference   <-  MCTreeDedup  <-  TreeTests
MerkleLevels, MerkleTree_proofs    <-  MerkleLevels_proofs
TreeInvariants, MerkleTree_proofs  <-  TreeDedup_proofs
TreeReference, TreeDedup_proofs    <-  TreeReference_proofs
FullDedup_proofs, BasicDedup_proofs, ListDedup_proofs, TreeDedup_proofs
            <-  Deduplicators  <-  Deduplicators_proofs
                               <-  MCDeduplicators
                               <-  Programs  <-  MCPrograms
```

`CheckpointStore` is the abstract specification: a history of regions, and a restart
that returns one of them. `StoreSpec` in `FullDedup`, `BasicDedup`, `ListDedup`,
`TreeInvariants` and `Deduplicators` is its instance under a refinement mapping: the
history is the regions given to `checkpoint`, and a restart has returned when `pc =
"restarted"`, with the View `out`. Which restarts count is part of the mapping: in
`FullDedup` and `BasicDedup` those into a View that `Fits`; in `ListDedup` the
`Honoured` ones, from Views, and of baselines from files whose offsets do not wrap;
in `TreeInvariants` the `Clear` ones, where offsets do not wrap, from files, by teams
of one thread or of a baseline, when no part of the chain returns; in
`Deduplicators`, where writes fail and teams are wide, those `Promised` nevertheless:
of Full all that fit, of the others those of baselines, for Basic from Views into one
that fits, for List and Tree from files only where offsets do not wrap.
`history` is a ghost variable, and so is `spoiled`; no guard and no variable of the
code's depends on them.

**Common conventions.** `pc` is the kernel or host section that is running, and
`todo` the teams of it that have still to run; a kernel is over when `todo` is
empty. A chunk's content is one value of `Vals`. `Hash` is injective: no
collision is modelled, as the library assumes. `incr_chkpts` is the
vector of diffs, or the files; `Chkpt(k)` is `incr_chkpts[k]` of the code.
A checkpoint call is started with any region (`\E d \in Data`), as a baseline
or not; the first is a baseline, as in every caller. A restart is of any checkpoint
taken. `FailingWrites` are the ids of the checkpoints whose file may fail to be
written, any number of times each; a failed write replaces what the object
compares with, and loses it. `spoiled` are the ids this leaves without a promise:
of the checkpoint that failed, which is taken again, and of those that follow it
in its chain. A baseline is never among them, unless its own write failed before a
call that makes none. The View restarted into starts with `NoVal` in every chunk, so whatever no
kernel writes shows. `Release` is the caller done with the restarted region.

**FullDedup.** Nothing runs concurrently, and a checkpoint is a copy: what is
modelled is whose memory it is in. `diff_h` is the set of checkpoints kept in the
allocation of the caller's View: `checkpoint()` resizes it (`KeptAtResize`), and a
resize to the size it has allocates nothing, so that the copy to the host writes
every checkpoint kept there. `ReusesView` says whether callers hand in a View
again; the programs do not, and some tests do. `Written` is the
`resize` inside `restart()` of a View passed by value.

**Offsets.** A restart from files computes chunk numbers times `chunk_size` in 32
bits in all three classes, and so does one comparison of lengths in Basic and in
List. `OffsetSpan` is the number of chunks a 32-bit offset tells apart. Basic's
copies go where the offset falls (`Slot`); in List and Tree, where an offset may also
go back to another entry of the diff, what a copy leaves in a region as long as that
(`Wraps`) is anything (`Copied`, which puts `NoWord` or `NoVal` in any set of chunks).
`WholeChunks` says whether the last chunk of a region is a whole one: of
such a region, at `OffsetSpan` chunks or more, Basic and List start a team or a thread
too many (`Teams`, `Threads`), which digests no bytes, and what it pushes is a chunk
past the region. `TeamsExact` and `ThreadsExact` say that there is none.

**BasicDedup.** `Checkpoint` is the host part before the first kernel (it
reallocates or resizes `list` and the bitset), `DedupChunk` a team of
`dedup_data`, `StartCollect` the fence, `GatherChunk` a team of `collect_diff`
(entry and counter), `FinishCheckpoint` the header and the increment of
`current_id`; `FailToWrite` is the exception of the stream instead of it, after
all the rest. `OpenCheckpoint` is the header read by a restart, `RestartFirst` a
team that copies an entry of the checkpoint asked for, `FillSame`, `LoadPrior`
and `RestartMiddle` the walk to older checkpoints, `NextPrior` its `idx--`.
`Lengths` are the sizes a region may have: with more than one it grows and
shrinks between calls. The size of the last chunk's copy is taken of the length of
the checkpoint it is copied from (`CopySize`): after a region has shrunk that is more
than a chunk, and `CopyEntry` copies the entries behind (`DataAt`) past the end of
the View, by which `out.chunk` outgrows `out.len`. `FinishRestart(n)` returns to a
caller whose View has `n` chunks: `restart()` takes it by value, so that the `resize`
inside does not reach one of another size (`CallersView`; `Fits` says it has the
size).

**ListDiff** writes and reads the words of a diff of the List deduplicator. What is
written is counts by source checkpoint, then pairs of chunk numbers, so
the source checkpoint of a pair is known only by its position: the order
`BinSort` leaves matters, and is modelled with Kokkos' bins (`Bin`). The module is
checked by itself in `ListDiffOrders`, on every assignment of sources to
duplicates and in every order the sort may leave.

**ListDedup** is the List deduplicator on top of it: `DedupChunk` compares, inserts into
`first_ocur_d` and pushes; `FinishCheckpoint` builds a diff in any of the orders its
kernels may leave; a restart parses it. `WideTeams` says whether a team has more than
one thread: then threads test a node list entry at different times, as the code lets
them, and may move a chunk again after another has (`Moves`), or part at a
`team_broadcast`, after which the chunk copied is anything. `Overloads` selects the
restarts that are called: from Views (`"memory"`) or files (`"files"`), whose sections
of prior checkpoints are those the code takes (`SectionsOf`). A baseline gets new
digests and a new `first_ocur_d`; `capacity` is what `rehash` asks for (`Rehashed`).
**ListInvariants** has the inductive invariants `Coherent`, `Exact`, `Readable`,
`ChainTrue` and `RestartTrue`; `SavedIn(k)` and `PointedIn(k)` are the chunks diff `k`
saves and points elsewhere for, read back from its words.

**MerkleTree** has the index functions of `kokkos_merkle_tree.hpp`, and the
32-bit arithmetic by which the loops over the levels go up (`Parent`,
`HalfOfWrapped`); **MerkleLevels** runs the two loops of a forest, down to the
deepest level (`Descend`) and up again with a kernel for each (`VisitLevel`), for a
tree of any size up to `MaxChunks`.

**TreeDedup.** `DedupLeaf` is a team of the leaf kernel, the one with a race;
`ChooseFirst` the kernel that leaves one first occurrence per digest; `FirstForest` one
level of the forest of first occurrences; `BuildForest` one level of the forest of the
others, and `InsertEntries` the insertion of its entries, any of the equal ones winning;
`FinishCheckpoint` collects the diff. The other kernels' teams write only their own
node's label, digest or chunks, so that the whole kernel is one step. A restart enters
the nodes of a region as `RegionNodes` computes them, which is where a tree with leaves
on two levels is restarted wrongly; wide teams and offsets that wrap are as in List. A
digest is the tuple of what was hashed. **TreeInvariants** has its inductive invariants,
each on top of the one before: `Coherent`, `Exact` and `Restorable`.

**TreeReference** is `dedup_low_offset_ref` of `reference_impl.hpp`, which takes
leaves and nodes one after the other: `ReferenceLeaf`, `ReferenceFirst` and
`ReferenceForest` are the bodies of its three loops, `LeavesBefore`, `FirstsFrom`
and `ForestFrom` the loops, as recursive functions of the node that is next, and
`Reference` is the regions it finds with the tree and the map the checkpoint
under way began with (`prior`). `Comparable` is the inductive invariant behind
the comparison. **TreeTests** restricts the calls to those of
`test_case_01.cpp` to `10.cpp` and has the numbers of regions they
expect: a test sees one order of teams, the model all of them.

**Deduplicators** puts the four classes behind one interface, as the programs use
them: `mode` chooses the class when the object is made, variables the classes
share have one name, and what an object does not have it leaves empty. Each class is
an instance of its module of proofs, so that its theorems can be cited of the objects;
`SizeAssumption` and `HashAssumption` imply what each class assumes of its constants.

**Programs** is the processes and files around that: `StartDedup`, `DedupFile` and
`DedupStep` are `dedup_files`, which checkpoints one input file after the other
and leaves a diff on `disk` for each; `KillDedup` is its death at any moment,
with the diff it was writing `Torn` or untouched; it may be started again, with a
new object, and `StartRestart`, `RestartFile` and `RestartStep` are
`restart_chkpt_files`, when all diffs are complete. `Discard` is the end of a
program, with which its object goes.

The definitions whose comment says "Mutant" are plausible mistakes in the
definition that follows them. No specification uses one; each shows that a
property notices that mistake.

## 3. The runs

All of TLC's runs, with bounds. "Checkpoints" is `MaxChkpts`, a guard of
`Checkpoint`; restarts are not bounded. Runs that end in a violation are
findings (section 6).

| Run | Instance | What it shows |
|---|---|---|
| `basic` | 2 chunks, 2 contents, 3 checkpoints, the writes of the first two of which may fail | but for what is spoiled: diffs hold what changed and only that; restarts into Views that fit are exact; the inductive invariants `Coherent` and `Exact`; `StoreSpec` |
| `list_orders` | all diffs with up to 4 duplicates of up to 4 checkpoints | what is written is read back, if the sort has enough bins |
| `list` | 2 chunks, 3 contents, the third of them new in the second checkpoint, or 2 and 3 checkpoints, the write of the second of which may fail; both restarts, teams of one thread, offsets within their span | but for what is spoiled: duplicates point to saved chunks of their content; nothing is saved twice; nothing outgrows its allocation; omitted chunks are unchanged; the inductive invariant `Exact`; `StoreSpec`, for restarts from Views, and of baselines from files |
| `merkle_levels` | 1 to 40 chunks | children first; no inner node left out; regions exact where a tree is full below its root; the loops down and up end |
| `tree` | 4 chunks, 2 contents, 3 checkpoints, teams of one thread, offsets within their span | sources known; regions disjoint and true; nothing saved twice; the regions and sources of the serial reference; omitted chunks unchanged and restarts exact when no region returns as a whole; the inductive invariants `Coherent` and `Restorable` |
| `tree_tests` | the 10 test cases: 8 chunks, up to 10 contents a test, 2 checkpoints | the numbers of regions expected, the regions of the serial reference, room in map and vectors, exact restarts, in every order of the leaf teams |
| `calls` | all four classes: 2 chunks (1 or 2 for Full and Basic), 2 contents, 2 checkpoints, failing writes, wide teams, `OffsetSpan` 2: file offsets of List and Tree wrap | calls return; what is `Promised` nevertheless, above all every baseline that was written, is restarted exactly; Basic's diffs stay well formed as regions grow and shrink, and its restarts write past a View only after a shrink; List and Tree keep to `Coherent` and `Exact` (`ObjectsCoherent`) |
| `programs` | all four classes: 3 files of 2 chunks, 2 contents, `dedup_files` dies up to 2 times | the file restarted is the input file, from diffs of up to three runs; programs end |
| `basic_growth` | 1 or 2 chunks, 2 checkpoints | violation: a chunk new to the region is left out |
| `list_files` | 2 chunks, 3 contents, 2 checkpoints | violation: restart from files of a checkpoint that is no baseline |
| `tree_return` | 2 chunks, 2 contents, 3 checkpoints | violation: a region that returns |
| `tree_three_chunks` | 3 chunks, 1 checkpoint | violation: leaves on two levels |

Why the bounds are enough for what is asked:

* two chunks are needed for a race, for a duplicate of another chunk, and for a
  change beside no change; four leaves make two levels of inner nodes, so that a
  subtree is moved whole, and two contents then suffice for shifted, repeated and
  unchanged subtrees; a root that is new as a whole needs as many contents as
  chunks, which `tree_tests` has, with trees of three levels of inner nodes;
* three checkpoints are a baseline, a change, and a change that refers to either
  of them, or a second baseline with checkpoints of an older chain before it, so a
  restart walks over a checkpoint that holds nothing of a chunk;
* a write that fails is followed by every sequence of calls the number of
  checkpoints leaves room for: the same checkpoint again, one after it in its chain,
  a baseline;
* three contents, in `list_files` and the test cases, let a chunk take a value,
  leave it, and come back to it while another holds a third;
* in `list`, the map of a baseline of two contents is full when a third content
  comes, so the rehash of a later checkpoint is what makes room for it
  (`Rehashed`, and its mutant `RehashedOnce`). That third content is new in the second
  checkpoint, and only where there is none is a third checkpoint taken
  (`TwoButInSecond`); contents that are no number of a chunk come in the order of
  their first use (`InOrder`), which as a symmetry is sound: the code only compares
  them;
* in `calls` a region of Basic may shrink from two chunks to one within a chain; with
  one or two chunks, `OffsetSpan = 2` and a short last chunk every offset of Basic is
  within its span and each has its own team, and for List and Tree, of two chunks,
  `Wraps` is true of every restart from files;
* `list_orders` takes the diff by itself, because four
  duplicates of five checkpoints would be out of reach of the whole system;
* in `calls` and `programs` every class runs on its smallest interesting
  instance, since what they ask is of the calls and the files, and their data is
  the business of the other runs;
* three files and two deaths leave diffs of three runs side by side, one of them
  between two others, and a restart that follows a duplicate from one to another;
* in `tree` contents are exchanged for one another (`SYMMETRY`): the code only
  compares them, and every property is about all of them;
* `merkle_levels` goes past 32 chunks, so that trees of six levels, full or not,
  are among them.

`CHECK_DEADLOCK FALSE` is said only of runs that stop as they should: the loop
of `MerkleLevels`, and a diff written and read in `ListDiffOrders`.

**Fairness.** `FairSpec` of `Deduplicators` is weak fairness of `Progress`, the steps of
a call in progress: the kernels run and the host waits for them, as Kokkos and the CUDA
runtime see to. Nothing is assumed of the caller: no call is ever forced. `CallsReturn`
is then that each call comes to its end; the loops that could fail to are those counting
levels or checkpoints downwards in unsigned arithmetic. `ProgramsSpec` is weak fairness
of `ProgramStep`: a program that runs goes on running. None is assumed of who starts and
kills programs. `FairSpec` of `MerkleLevels` is weak fairness of its loops.

## 4. What is proved

Everything here holds for every number of chunks, every set of contents and any number
of checkpoints and restarts (for the loops over levels: every tree they are meant for),
with failing writes, and for every order of teams and threads; the conditions are those
given. `Steady` implies `TeamsExact`.

| Module | Theorem | States |
|---|---|---|
| `FullDedup_proofs` | `HonestAlways` | `~ReusesView`: what is kept is what was given, and a restart that fits gave one of it back |
| | `ImplementsStore` | `~ReusesView => (Spec => StoreSpec)`: with regions and Views of any sizes |
| `BasicDedup_proofs` | `CoherentAlways` | `TeamsExact => (Spec => []Coherent)`: regions may grow and shrink, offsets of restarts wrap |
| | `TypeCorrect`, `EntriesAlwaysTrue` | `TeamsExact`: type correctness; entries of diffs are true; both follow from it |
| | `ExactAlways` | `Steady => (Spec => []Exact)` |
| | `RestartAlwaysExact`, `OmittedAlwaysUnchanged`, `UnchangedAlwaysOmitted` | `Steady`: restarts into a View that fits are exact; what a diff leaves out has not changed, and what it holds has |
| | `BaselinesAlwaysExact` | `TeamsExact`: a baseline that was written is restarted exactly from Views, into one that fits, of regions that may grow and shrink |
| | `ImplementsStore` | `Steady => (Spec => StoreSpec)` |
| `ListDedup_proofs` | `CoherentAlways`, `ExactAlways` | `ThreadsExact`, here and in all that follow but `DiffReadBack`: `Spec => []Coherent`, `Spec => []Exact` |
| | `TypeCorrect` | type correctness, whatever buffer a restart reads and wherever its offsets wrap |
| | `RoomAlwaysEnough`, `SavedOnceAlways` | nothing outgrows its allocation; nothing is saved twice in a chain |
| | `OmittedAlwaysUnchanged`, `SourcesAlwaysTrue` | what a diff leaves out has not changed; a duplicate is about to be saved as a pointer to a chunk of its content |
| | `ReadableAlways` | a diff is read back from its words as it was meant, its sources if the sort had bins enough |
| | `DiffReadBack` | a restart reads what any diff's words were made of, in whatever order its kernels left them |
| | `DuplicatesAlwaysTrue` | `NumChunks <= 2 \/ MaxChkpts <= 4`: every source read back is true |
| | `RestartAlwaysExact` | the restarts that are `RestartPromised` are exact: from Views by teams of one thread, of diffs whose sort had bins enough, and of baselines, from files where offsets do not wrap |
| | `BaselinesAlwaysExact` | so are those of every baseline that was written, by wide teams too, from files where offsets do not wrap |
| | `ImplementsStore` | `~WideTeams`, `NumChunks <= 2 \/ MaxChkpts <= 4`: `Spec => StoreSpec` |
| `TreeDedup_proofs` | `CoherentAlways` | `Spec => []Coherent` |
| | `RoomAlwaysEnough`, `RegionsAlwaysDisjoint`, `SavedOnceAlways` | nothing outgrows its allocation; regions share no chunk; nothing is saved twice in a chain |
| | `ExactAlways`, `TypeCorrect` | `Spec => []Exact`; type correctness |
| | `SourcesAlwaysKnown`, `DuplicatesAlwaysTrue` | the map names every region; a shifted region points to a subtree that held its content |
| | `RestorableAlways` | a power of two of chunks above one: `Spec => []Restorable` |
| | `OmittedAlwaysUnchanged`, `RestartAlwaysExact` | the same: what no region holds has not changed; `OneThread => RestartExactWithoutReturn`, which leaves out restarts whose offsets wrap |
| | `BaselinesAlwaysExact` | the same: every baseline that was written is restarted exactly, by wide teams too, from files where offsets do not wrap |
| | `ImplementsStore` | the same: `Spec => StoreSpec` |
| `TreeReference_proofs` | `AlwaysAgreesWithReference` | more than one chunk: in whatever order the teams ran, the regions and sources of a checkpoint are those of the serial reference |
| `MerkleLevels_proofs` | `ChildrenAlwaysFirst`, `AllAlwaysVisited` | kernels find their children labelled, work on no node twice and leave out no inner node |
| | `RegionsAlwaysExact` | a region holds only leaves under its node, all of them if they are equally deep; a restart then enters the nodes under it |
| `Deduplicators_proofs` | `OfItsClass` | every object behaves as the specification of the class its mode names |
| | `ObjectsAlwaysCoherent` | `TeamsExact` of Basic, `ThreadsExact` of List: `Spec => []ObjectsCoherent`, whatever fails, wraps in a restart, or races |
| | `ImplementsStore` | `~ReusesView`, the same, for List and Tree a power of two of chunks above one: `Spec => StoreSpec`, which is of what is `Promised`, whatever fails or races |

`MerkleTree_proofs` has the lemmas about the index functions on which the modules
of Tree and of the levels rest.

Assumed of the constants are, for Basic and List, `HashAssumption` (no collision, and no
content hashes to zeroes) and `SizeAssumption` (types; at least one chunk); for the
loops and Tree fewer than 2^30 chunks. In Tree's modules a digest is the tuple of what
was hashed, and TLC needs a finite set `Digests` of them; `DigestsClosed(f)` says of
that set what `MCTreeDedup` makes true of its own: the digests of each subtree's data
are in it. `Deduplicators` assumes of its constants what its classes do, and of its
`Digests` the same, which `MCDeduplicators` makes true with `DigestsOf`. What else is
asked is needed, and a run or an instance of section 6 shows each part dropped and a
property violated: `Steady`, that the region keeps its size and 32-bit offsets reach all
of it (`basic_growth`, and the first instance); `TeamsExact`, `ThreadsExact` and
`~Wraps` (the instances with `WholeChunks` and with `OffsetSpan`); Views that fit;
`~ReusesView`; the power of two (`tree_three_chunks`); more than one chunk
(`tree_return` with one); no region that returns (`tree_return`); one thread to a team
(`WideTeams`), in the restarts from Views that are of no baseline; enough bins
(`SourcesReadAlways`), which is what at most two chunks or at most four checkpoints come
to (`BinsAlwaysSuffice`); and `Honoured` (`list_files`). Writes may fail in all of them;
what most theorems then say, they say of the checkpoints that are not `spoiled`.

**Full.** The invariant says that what is kept is what was given, and that no
checkpoint is kept in an allocation that a later call writes: with a new View for
each, `KeptAtResize` is empty.

**Basic.** `RestartExact` is not inductive, and neither is `OmittedUnchanged`: that a
chunk left out is unchanged depends on the digests kept from the call before being those
of the newest checkpoint (`ListIsNewest`), on the fence (all teams have compared,
`ListAhead`) and on nothing being lost between bitset and buffer (`GatheredAll`). That a
restart is exact depends on the walk: at every point of it, each chunk is either
restored or looked for in a checkpoint where it has the value wanted (`WalkTrue`:
`Restored` or `Deferred`), and the chain has no gap until its baseline, which holds
every chunk, and once spoiled stays so (`ChainsUnbroken`). `Coherent` is the part of
this that needs `TeamsExact` only: headers count, entries are true, indices are in
range, and the View is written past its end only where a checkpoint walked over is of a
longer region than the one restarted: `NoneLonger` says that none before it is, and a
copy then ends where the View does (`CopySize` is 1 at most). Of baselines more holds
without `Steady`, and `Whole`, which TLC checked with growing regions before it was
proved, is why: a baseline has a new list, in which no digest is found, and a bitset of
its own size, so every bit is set (`BaselineAhead`) and every chunk saved
(`BaselinesFull`); the first kernel of its restart from Views, whose offsets are not of
32 bits, then copies all of them, and the loop loads nothing (`BaselineRestored`).

**List.** What a diff saves and points to is read back from its words
(`Sections` of `DiffWords`), so the proof starts with what writing and reading
come to. `DiffWordsRead` says that each section of the words is read where it was
written, whatever order the entries are in. A duplicate's source checkpoint is
not in its entry but in the entry's place: `BinsOrder` says the sort leaves the
entries in ascending order of their source if it has bins enough, `EndsRead` that
the counts a restart adds up end where that order's runs end, and `SourceRead` that
the two together give each entry its source. `Coherent` then says, for every
interleaving of the threads, that the map has room for the threads that have not
run (`RoomLeft`, an argument about cardinalities: each thread enters at most one
digest, and `rehash` asked for one per chunk), that it knows what the chain has
saved (`SavedKnown`), and that what is about to be saved is new to it
(`SavingNew`). A failed write leaves digests in the map that no diff holds; that
does not hurt these. `Exact` adds, for checkpoints that are not spoiled, that
digests are those of the newest checkpoint (`ListIsNewest`, `ListAhead`), that what
no diff names is as it was (`OmittedSame`), and that the map names only what the
chain has saved or is about to (`MapTrue`). A duplicate's source is therefore true
when the diff is written, and `Readable` carries it to every later state, where it
is read. A restart needs `ChainTrue` (from a checkpoint back to its baseline all
refer to that baseline) and `RestartTrue`: at each kernel, every chunk
is copied, or its node list entry names a chunk, in a checkpoint not yet
walked over, that has the content wanted. One step of the walk keeps this because
a chunk found there is saved, is a duplicate of an earlier checkpoint or of the
same one, or is as it was in the checkpoint before. Type correctness is a proof by
itself: restarts from files take sections of the wrong buffer, and what they then
find is in range only because every section, taken of whichever diff, is.

**Tree.** `Coherent` holds of trees of any shape, whatever fails: labels follow
from those of the children (`LabelsTrue`), regions are pushed only where the
region above goes no further, so that those of a diff are apart, and the map has
room because one checkpoint enters at most a digest per node. `Exact` and
`TreeTrue` add what the digests are: a labelled node has the digest of its chunks,
where the map has a node's digest it has those of its children, entered no
later, and its entries of the checkpoint under way are the new nodes. What a
digest says of the chunks is `Hashes`, the least relation closed under what the
kernels hash; nodes that hash to one digest have regions of one shape and content
(`HashesSame`), on which rests that an entry is true when it is collected
(`EntriesTrue`) and, as no diff ever changes, when it is read (`DuplicatesKept`).
`Restorable` is what a restart relies
on: every node whose children part has pushed both, so that with leaves on
one level each changed chunk is under a region (`RegionWhole`); the tree's leaves are
the digests of the newest checkpoint; chains have no gap; and at each kernel each
chunk is restored or sought where it was held.

**Reference.** The kernels and the serial reference take the nodes in different
orders, insert into the map at different times and label a leaf anew in different
places, so the proof does not go along with the reference's loops. `Comparable`
says of the kernels what no order of teams can change: a leaf's label is
that of its digest in the tree and map the checkpoint began with (`LeafKind`), and
when all have run the first occurrence of a new digest is its lowest leaf
(`LeafLabels`); an inner node's label follows from its children's and the
map, and a region was pushed only beside a node where regions end
(`NodeLabels`). `FoundOf` draws from it, when regions are collected, the labels and
the regions as functions of the data, the tree and the map. The reference is then shown
to compute these by following each of its loops: `LeavesHold`, `FirstsHold` and
`ForestHold` say what its state is when a given node is next, a lemma shows that one
pass keeps them (`LeavesHoldNext`, `FirstsHoldNext`, `ForestHoldNext`), and
`Upwards` and `Downwards`, from the least element of a set of naturals, take them
from one end of the loop to the other. `current_id \notin spoiled` is needed:
a failed write leaves entries of the checkpoint under way in the map, and a leaf with
such a digest is new to its team, but to the reference only if it is lower than the
node entered. So is more than one chunk: the single leaf is the root,
which the reference collects as a region when it is new and the kernels do not.

**Levels.** That level `k` starts at `2^k - 1` is an induction over data, which
the prover does not do; `LevelStarts` says the same as the set of numbers from
which halving, as the loop does it, leads to 0 by odd numbers: the union of all
sets closed under that halving. The start of the level above is then in it by
definition, and that of the level below because adding it to such a set leaves the
set closed. Likewise `Below(u)` is the intersection of the sets that hold `u` and,
with a node, its children. The
invariant `IInv` then says of a level in the tree only that it is one
(`level.end = 2 * level.beg`), and of what has been visited that it is the inner
nodes past its end. `BoundAssumption` is what makes the wrapped index 0x7FFFFFFF
end the loop: with 2^30 chunks it is a node. The index functions are tail
recursive: `TailRecursion` gives such a function from its argument's variant, and
`TailResult` what an invariant of its arguments says of its value; both follow
from the least element of a set of naturals. That `Ancestors` and `Depth` of
`RegionsExact` say the same as `Below` and `LevelStarts` is proved by exhibiting
the function (`AncestorsBelow`, `DepthAbove`), and then a least counterexample.

**Behind the interface.** A step of an object is a step of its class, and leaves its
mode alone (`StepsOfClass`), so every theorem about a class holds of its objects, under
the assumptions of that class, which follow from those of `Deduplicators`.
`ObjectsAlwaysCoherent` is then a matter of citing. Full's restarts are those of
`HonestAlways`. Of the others those `Promised` are of baselines, and each class has a
theorem about them (`BaselinesAlwaysExact`) that asks neither for narrow teams nor for
regions that keep their size: Basic's from `Whole`, List's and Tree's from the
invariants of their restarts, since in a baseline no chunk moves to another checkpoint,
so that wide teams have nothing to race for. `SeenSteps` says what of a step the callers
see, the four classes alike: a checkpoint more, a restart that returns, the end of its
use, or nothing.

The invariants are conjunctions of named parts in `BasicInvariants`,
`ListInvariants`, `TreeInvariants` and `MerkleLevels_proofs`. TLC checks those of
Basic, List and Tree (`Exact`, `Coherent`, `Restorable` in the runs of these; their
other parts, `Comparable` of `TreeReference`, and the `StoreSpec` of
`TreeInvariants`, were checked on the same instances before they were proved). The proofs
have a lemma per action or per part of the invariant, and in it a step per part or
action that matters; lemmas at their heads say what is stored, and what the types
of data and regions give.

**Only model-checked**:

* liveness (`CallsReturn`, `ProgramsEnd`, `EndsAboveRoot`), since the prover deals
  with neither ENABLED nor fairness;
* `RegionsAsExpected`, numbers for ten given pairs of regions;
* `FirstsRead` and `SourcesReadWhenBinsSuffice`, as invariants of `ListDiffOrders`;
  `DiffReadBack` says the same of the operators that write and read a diff, for every
  size;
* `RestartExact` of `tree_tests`: that no part of the ten tests' chains returns, which
  is what the theorem asks, is a matter of their values;
* `FileRestarted` of `Programs`: the diffs of several runs side by side on disk are those
  of no one object, so that what is proved of a class's behaviours does not apply.

## 5. What is not modelled

* Bytes within a chunk, and a last chunk that is short but for `WholeChunks`: a
  content is one value, and its length is part of it.
* What memory holds past its end. A read past the words of a diff, a list or a map
  without the key gives anything, or what is harmless; a write past a View is
  modelled of Basic's restart only (`out.chunk`). Where offsets of List and
  Tree wrap in a restart, copies may also end past the View, which is not followed.
  `Wraps` is on the safe side: it begins at `OffsetSpan` chunks, where the offset of
  each chunk still fits and only the length of the region does not.
* Offsets of Basic's restarts from files that wrap, in a run that passes: what they
  violate is in section 6, and what they do not is proved (`CoherentAlways`).
* Views of List and Tree of another size than the region. `restart()` takes them by
  value as in Basic; regions of these classes keep their size.
* The node list of a Tree restart from files with a node too many
  (`tree_approach.cpp:1172`): such a restart `Wraps`, and nothing is promised of it.
* Collisions of the hash functions.
* Regions of List and Tree that change size. The code then resizes list, tree and
  map but not the vectors, whose capacity is the baseline's
  (`tree_approach.cpp:1613`): a hazard without a property. No test does it.
* The order of a Tree diff's entries in its words. That of a List diff is modelled.
* A restart from a diff that was not written to its end: `Programs` restarts from
  complete ones. No length or checksum would tell the program.
* How `dedup_files_mpi` picks a rank's files by a substring of their names
  (`dedup_files_mpi.cpp:83`); a rank is modelled as a `dedup_files` with files of
  its own.
* Trees of 2^30 chunks and more: the wrapped index is then a node, and the loop
  over levels does not end (section 4).
* Loggers, timers and profiling regions; statistics under `STATS`.
* Tree by lowest root: `tree_low_root_approach.cpp` is built into the library, but
  its `checkpoint()` is `TreeDeduplicator`'s line for line, what is its own,
  `dedup_data_low_root()`, is called by nothing, and no program or test uses the
  class; the same goes for `dedup_low_root_ref` of the serial reference.
* Hash functions, data generators, the update pattern analysis, argument parsing.

## 6. Findings

Four runs end in a violation; each is an entry of `findings` in `PROJECT.json`
with the line and what it disagrees with.

| Run | What the code does |
|---|---|
| `basic_growth` | A region grows after a baseline: the bitset keeps its size, and a new chunk is left out. |
| `list_files` | A restart from files reads the sections of prior checkpoints in the buffer of the one restarted. |
| `tree_return` | A region that returns as a whole to an earlier state is a shifted duplicate up to the root, and the root is saved nowhere. |
| `tree_three_chunks` | A region whose leaves are on two levels is restarted in part. |

Other conditions under which the promise is not kept are excluded from the runs
that pass by a value of a constant; the value that shows each is:

| Instance | Violates | What the code does |
|---|---|---|
| `basic` with `OffsetSpan = 1` | `RestartExact` | `basic_approach.cpp:393`: 32-bit offsets in the restart from files; wrong chunks above 4 GiB |
| `basic` or `list` without `\ spoiled` in the property | `OmittedUnchanged` | `basic_approach.cpp:565`, `list_approach.cpp:947`: a failed write leaves the digests of the lost checkpoint behind, and the diffs after it leave its changes out, until the next baseline |
| `list` or `tree` with `WideTeams = TRUE` | `StoreSpec`, `RestartExactWithoutReturn` | `list_approach.cpp:522`, `tree_approach.cpp:1085`: threads of a team test and overwrite a node list entry one after the other, and part at a `team_broadcast` |
| `list` from files only with `OffsetSpan = 2` | `RestartExact`, already of a baseline | `list_approach.cpp:706`, and `tree_approach.cpp:1287` likewise: offsets of 32 bits in the restart from files, of regions of 4 GiB and more |
| `list` with `WholeChunks = TRUE`, `OffsetSpan = 2` | `RoomEnough`, `TypeOK` | `list_approach.cpp:28`: a thread too many for a region of 4 GiB or more in whole chunks; it reads past the region and the list, and pushes past a vector |
| `basic` with `WholeChunks = TRUE`, `OffsetSpan = 2` | `Coherent` | `basic_approach.cpp:18`: a team too many likewise; the bitset ends before the chunk it finds changed, so diffs are as they should be |
| `basic` with `Lengths <- OneOrTwoChunks` | `Exact`; `DOMAIN out.chunk = Chunks(out.len)`, were it stated of every restart | `basic_approach.cpp:301`, `450`: the last chunk's copy takes its size from an older, longer checkpoint, reads past the entry and writes past the View |
| `calls` with `ReusesView = TRUE` | `StoreSpec` | `full_approach.cpp:66`: a View used for two checkpoints of one size holds the second in both places of the caller's vector |
| `tree` with 2 chunks, `FailingWrites = {1}`, without `\notin spoiled` in the property | `AgreesWithReference` | `tree_approach.cpp:339`: a failed write leaves its entries in the map, and the checkpoint taken again finds its own id there |
| `basic` with `Lengths <- OneOrTwoChunks`, without `Fits` in the property | `RestartExact` | `basic_approach.cpp:594`: `restart()` takes the View by value, and a caller whose View has another size gets none of the data |
| `tree_return` with `NumChunks = 1` | `RestartExact` | `tree_approach.cpp:126`: a region of one chunk is saved nowhere |
| `list_orders` with `SourcesReadAlways` | `SourcesReadAlways` | `list_approach.cpp:187`: one bin per duplicate rather than per checkpoint, so the sources of three duplicates in checkpoint 4 are read back exchanged; Tree makes its bins by checkpoint |

The properties of the runs that pass are stated around these, as narrowly as
the code allows: `RestartExactWithoutReturn` and the `~Returns(k)` of
`OmittedUnchanged` for a region that returns, four chunks for the trees,
`SourcesReadWhenBinsSuffice`, the restarts `StoreSpec` counts (`Fits`, `Honoured`,
`Promised`, `~Wraps`), teams of one thread, the checkpoints that are not `spoiled`, and
`TeamsExact`, `ThreadsExact`, `Steady` or `~ReusesView` for the theorems that need
them. The restarts from files of List and Tree also take a value of a map without asking
whether it is there (`list_approach.cpp:703`, `tree_approach.cpp:1327`), but use it
only for sources in the checkpoint restarted, which the map has.

## 7. Plan

Done: the abstract store; the four classes, each with its refinement proved, and
their common interface, with its own; the Merkle tree with its loops and its regions
proved; Tree's serial reference and its test cases; the programs with their crashes.

What could follow:

1. *Model.* Regions of List and Tree that change size, with capacities that do not
   follow. The dedup kernels of `tree_low_root_approach.cpp`, should something
   come to call them.
2. *Prove.* `FileRestarted` of `Programs`, from what the restarts of each class rely on
   of diffs, whichever runs they are of.
