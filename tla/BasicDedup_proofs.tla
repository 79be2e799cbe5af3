------------------------- MODULE BasicDedup_proofs -------------------------
(***************************************************************************)
(* Proofs about the Basic deduplicator, for every number of checkpoints,   *)
(* every set of contents and every memory region.                          *)
(***************************************************************************)
EXTENDS BasicInvariants, FiniteSetTheorems, TLAPS

-----------------------------------------------------------------------------
(* Facts about the data structures *)

\* A memory region is a length and that many chunks.
LEMMA DataFacts ==
  ASSUME NEW d
  PROVE  d \in Data <=> /\ d = [len |-> d.len, chunk |-> d.chunk]
                        /\ d.len \in Lengths
                        /\ d.chunk \in [Chunks(d.len) -> Vals]
BY DEF Data, Chunks

\* The same for the regions of TypeOK.
LEMMA RegionFacts ==
  ASSUME NEW lens, NEW vals, NEW d
  PROVE  d \in Region(lens, vals)
           <=> /\ d = [len |-> d.len, chunk |-> d.chunk]
               /\ d.len \in lens
               /\ d.chunk \in [Chunks(d.len) -> vals]
BY DEF Region, Chunks

\* A new View is one, whatever its contents.
LEMMA NewView ==
  ASSUME NEW n \in Sizes, NEW f, f \in [Chunks(n) -> Vals \cup {NoVal}], n \in Nat
  PROVE  ViewOK([len |-> n, chunk |-> f])
BY DEF ViewOK, Chunks

\* What is known of a View.
LEMMA ViewFacts ==
  ASSUME NEW view, ViewOK(view)
  PROVE  /\ view = [len |-> view.len, chunk |-> view.chunk]
         /\ view.len \in Sizes
         /\ DOMAIN view.chunk = Chunks(view.len) =>
              view.chunk \in [Chunks(view.len) -> Vals \cup {NoVal}]
BY DEF ViewOK

\* Updating a function keeps its type.
LEMMA ExceptTyped ==
  ASSUME NEW D, NEW R, NEW f \in [D -> R], NEW x, NEW v \in R
  PROVE  [f EXCEPT ![x] = v] \in [D -> R]
OBVIOUS

\* A region has finitely many chunks, and so has any part of it.
LEMMA ChunksFinite ==
  ASSUME NEW n \in Nat, NEW S, S \subseteq Chunks(n)
  PROVE  IsFiniteSet(S) /\ Cardinality(S) \in Nat
<1>1. IsFiniteSet(Chunks(n))
  BY FS_Interval DEF Chunks
<1>2. IsFiniteSet(S)
  BY <1>1, FS_Subset
<1> QED
  BY <1>2, FS_CardinalityType

\* Taking one team away.
LEMMA OneTeamLess ==
  ASSUME NEW S, IsFiniteSet(S), NEW c \in S
  PROVE  Cardinality(S \ {c}) = Cardinality(S) - 1 /\ Cardinality(S) \in Nat
BY FS_RemoveElement, FS_CardinalityType

\* The sizes of Lengths are positive numbers.
LEMMA SizesNat == Sizes \subseteq Nat /\ Lengths \subseteq Nat \ {0} /\ 0 \in Sizes
                  /\ Lengths \subseteq Sizes
BY SizeAssumption DEF Sizes

-----------------------------------------------------------------------------
(* The invariant of every instance *)

LEMMA CoherentInit == Init => Coherent
<1> SUFFICES ASSUME Init PROVE Coherent
  OBVIOUS
<1> USE SizesNat DEF Init
<1>1. TypeOK
  <2>1. data \in Region(Sizes, Vals) /\ ViewOK(out)
    <3>1. /\ data = [len |-> data.len, chunk |-> data.chunk]
          /\ data.len = 0
          /\ data.chunk = [c \in {} |-> NoVal]
          /\ out = data
      OBVIOUS
    <3>2. Chunks(0) = {}
      BY DEF Chunks
    <3>3. data.chunk \in [Chunks(0) -> Vals] /\ data.chunk \in [Chunks(0) -> Vals \cup {NoVal}]
      BY <3>1, <3>2
    <3>4. data \in Region(Sizes, Vals)
      BY <3>1, <3>3, RegionFacts, Zenon
    <3>5. ViewOK(data)
      BY <3>1, <3>3, NewView
    <3> QED
      BY <3>1, <3>4, <3>5
  <2>2. \E n \in Sizes : list \in [Chunks(n) -> Digests \cup {NoDigest}]
    BY DEF Chunks
  <2>3. \E n \in Sizes : bits = Chunks(n)
    BY DEF Chunks
  <2>4. \E n \in Sizes : node_list \in [Chunks(n) -> Int]
    BY DEF Chunks
  <2>5. buffer \in Seq(Entry) /\ incr_chkpts \in Seq(Diff) /\ history \in Seq(Data)
    OBVIOUS
  <2> QED
    BY <2>1, <2>2, <2>3, <2>4, <2>5 DEF TypeOK
<1>2. HeadersTrue /\ EntriesTrue
  BY DEF HeadersTrue, EntriesTrue, Taken
<1>3. GatheredTrue /\ RestartInRange
  BY DEF GatheredTrue, RestartInRange, Restarting
<1> QED
  BY <1>1, <1>2, <1>3 DEF Coherent

\* A View nothing is written to.
LEMMA ViewStutter == ViewOK(out) /\ UNCHANGED out => ViewOK(out)'
BY DEF ViewOK, Chunks

\* Nothing of the stored checkpoints changes while none is stored.
LEMMA StoreStutter ==
  ASSUME HeadersTrue, EntriesTrue, UNCHANGED <<current_id, incr_chkpts, history>>
  PROVE  HeadersTrue' /\ EntriesTrue'
<1>1. HeadersTrue'
  BY DEF HeadersTrue, Taken, Chkpt
<1>2. EntriesTrue'
  BY DEF EntriesTrue, Taken, Chkpt, Chunks
<1> QED
  BY <1>1, <1>2

LEMMA CoherentCheckpoint ==
  ASSUME TeamsExact, Coherent, NEW d \in Data, NEW make_baseline \in BOOLEAN,
         Checkpoint(d, make_baseline)
  PROVE  Coherent'
<1> USE DEF Checkpoint
<1>1. /\ d.len \in Lengths /\ d.len \in Nat /\ d.len \in Sizes
      /\ Teams(d.len) = Chunks(d.len)
  BY DataFacts, SizesNat DEF TeamsExact
<1>2. TypeOK'
  <2>1. data' \in Region(Sizes, Vals)
    BY <1>1, DataFacts, RegionFacts, Zenon
  <2>2. \E n \in Sizes : list' \in [Chunks(n) -> Digests \cup {NoDigest}]
    <3>1. PICK n \in Sizes : list \in [Chunks(n) -> Digests \cup {NoDigest}]
      BY DEF Coherent, TypeOK
    <3>2. n \in Nat
      BY SizesNat
    <3>3. CASE make_baseline
      BY <1>1, <3>3 DEF Chunks
    <3>4. CASE ~make_baseline
      <4>1. Chunks(d.len) \cup Chunks(n) = Chunks(IF d.len > n THEN d.len ELSE n)
        BY <1>1, <3>2 DEF Chunks
      <4> QED
        BY <1>1, <3>1, <3>2, <3>4, <4>1
    <3> QED
      BY <3>3, <3>4
  <2>3. \E n \in Sizes : bits' = Chunks(n)
    BY <1>1 DEF Coherent, TypeOK
  <2>4. todo' \subseteq Nat
    BY <1>1 DEF Chunks
  <2> QED
    BY <2>1, <2>2, <2>3, <2>4 DEF Coherent, TypeOK, restartVars
<1>3. HeadersTrue' /\ EntriesTrue'
  BY StoreStutter DEF Coherent
<1>4. GatheredTrue'
  BY <1>1 DEF GatheredTrue
<1>5. RestartInRange'
  BY DEF RestartInRange, Restarting
<1> QED
  BY <1>2, <1>3, <1>4, <1>5 DEF Coherent

\* Of a chunk of the region.
LEMMA DigestFacts ==
  ASSUME data \in Data, NEW c \in Chunks(data.len)
  PROVE  /\ Digest(c) = Hash[data.chunk[c]]
         /\ EntryOf(c) = [node |-> c, data |-> data.chunk[c]]
BY DataFacts, SizesNat DEF Digest, EntryOf, Chunks

LEMMA CoherentDedupChunk ==
  ASSUME Coherent, NEW c \in todo, DedupChunk(c)
  PROVE  Coherent'
<1> USE DEF DedupChunk
<1>1. c \in Chunks(data.len) /\ data \in Data
  BY DEF Coherent, GatheredTrue
<1>2. Digest(c) \in Digests
  BY <1>1, DataFacts, DigestFacts, HashAssumption
<1>3. changes' \subseteq bits /\ changes' \subseteq Chunks(data.len)
  BY <1>1 DEF Coherent, TypeOK, GatheredTrue, BitsetSet
<1>4. TypeOK'
  <2>1. \E n \in Sizes : list' \in [Chunks(n) -> Digests \cup {NoDigest}]
    BY <1>2 DEF Coherent, TypeOK
  <2> QED
    BY <1>3, <2>1 DEF Coherent, TypeOK, restartVars
<1>5. HeadersTrue' /\ EntriesTrue'
  BY StoreStutter DEF Coherent
<1>6. GatheredTrue'
  BY <1>1, <1>3 DEF Coherent, GatheredTrue
<1>7. RestartInRange'
  BY DEF RestartInRange, Restarting
<1> QED
  BY <1>4, <1>5, <1>6, <1>7 DEF Coherent

LEMMA CoherentStartCollect ==
  ASSUME Coherent, StartCollect
  PROVE  Coherent'
<1> USE DEF StartCollect, dedupVars, restartVars
<1>1. changes \subseteq Nat /\ changes \subseteq Chunks(data.len) /\ data.len \in Nat
  <2>1. data.len \in Nat
    BY DataFacts, SizesNat DEF Coherent, GatheredTrue
  <2> QED
    BY <2>1 DEF Coherent, GatheredTrue, Chunks
<1>2. TypeOK'
  BY <1>1 DEF Coherent, TypeOK
<1>3. HeadersTrue' /\ EntriesTrue'
  BY StoreStutter DEF Coherent
<1>4. GatheredTrue'
  <2>1. Len(buffer) = 0
    BY DEF Coherent, TypeOK, GatheredTrue
  <2>2. Cardinality(changes) \in Nat
    BY <1>1, ChunksFinite
  <2> QED
    BY <1>1, <2>1, <2>2 DEF Coherent, GatheredTrue
<1>5. RestartInRange'
  BY DEF RestartInRange, Restarting
<1> QED
  BY <1>2, <1>3, <1>4, <1>5 DEF Coherent

LEMMA CoherentGatherChunk ==
  ASSUME Coherent, NEW c \in todo, GatherChunk(c)
  PROVE  Coherent'
<1> USE DEF GatherChunk, restartVars
<1>1. c \in Chunks(data.len) /\ data \in Data /\ data.len \in Nat /\ todo \subseteq Chunks(data.len)
  BY DataFacts, SizesNat DEF Coherent, GatheredTrue
<1> DEFINE e == [node |-> c, data |-> data.chunk[c]]
<1>2. e \in Entry /\ EntryOf(c) = e
  BY <1>1, DataFacts, DigestFacts DEF Entry, Chunks
<1>3. /\ buffer' \in Seq(Entry)
      /\ Len(buffer') = Len(buffer) + 1
      /\ buffer'[Len(buffer) + 1] = e
      /\ \A i \in DOMAIN buffer : buffer'[i] = buffer[i]
      /\ DOMAIN buffer' = DOMAIN buffer \cup {Len(buffer) + 1}
      /\ Len(buffer) + 1 \notin DOMAIN buffer
  BY <1>2 DEF Coherent, TypeOK
<1>4. TypeOK'
  BY <1>3 DEF Coherent, TypeOK
<1>5. HeadersTrue' /\ EntriesTrue'
  BY StoreStutter DEF Coherent
<1>6. GatheredTrue'
  <2>1. Len(buffer') + Cardinality(todo') = Cardinality(changes')
    <3>1. Cardinality(todo') = Cardinality(todo) - 1 /\ Cardinality(todo) \in Nat
      BY <1>1, ChunksFinite, OneTeamLess
    <3>2. Len(buffer) \in Nat
      BY DEF Coherent, TypeOK
    <3> QED
      BY <1>3, <3>1, <3>2 DEF Coherent, GatheredTrue
  <2>2. \A i \in DOMAIN buffer' : /\ buffer'[i].node \in changes \ todo'
                                  /\ buffer'[i].data = data.chunk[buffer'[i].node]
    BY <1>3 DEF Coherent, GatheredTrue
  <2>3. \A i \in DOMAIN buffer : buffer[i].node # c
    BY DEF Coherent, GatheredTrue
  <2>4. \A i, j \in DOMAIN buffer' : buffer'[i].node = buffer'[j].node => i = j
    BY <1>3, <2>3 DEF Coherent, GatheredTrue
  <2> QED
    BY <1>1, <2>1, <2>2, <2>4 DEF Coherent, GatheredTrue
<1>7. RestartInRange'
  BY DEF RestartInRange, Restarting
<1> QED
  BY <1>4, <1>5, <1>6, <1>7 DEF Coherent

LEMMA CoherentFinishCheckpoint ==
  ASSUME Coherent, FinishCheckpoint
  PROVE  Coherent'
<1> USE DEF FinishCheckpoint, restartVars
<1>0. pc = "collect" /\ todo = {}
  OBVIOUS
<1> DEFINE diff == [ref_id |-> baseline_id, chkpt_id |-> current_id, len |-> data.len,
                    num_first_ocur |-> Cardinality(changes), first_ocur |-> buffer]
<1>1. /\ data \in Data
      /\ data.len \in Lengths
      /\ data.len \in Nat
      /\ changes \subseteq Chunks(data.len)
      /\ Cardinality(changes) \in Nat
  <2>1. data \in Data /\ changes \subseteq Chunks(data.len)
    BY DEF Coherent, GatheredTrue
  <2>2. data.len \in Lengths /\ data.len \in Nat
    BY <2>1, DataFacts, SizesNat
  <2> QED
    BY <2>1, <2>2, ChunksFinite
<1>2. Len(buffer) = Cardinality(changes) /\ buffer \in Seq(Entry)
  <2>1. Cardinality(todo) = 0
    BY FS_EmptySet
  <2> QED
    BY <2>1, <1>1 DEF Coherent, GatheredTrue, TypeOK
<1>3. diff \in Diff
  BY <1>1, <1>2 DEF Diff, Coherent, TypeOK
<1>4. /\ incr_chkpts' \in Seq(Diff)
      /\ Len(incr_chkpts') = Len(incr_chkpts) + 1
      /\ incr_chkpts'[Len(incr_chkpts) + 1] = diff
      /\ \A k \in Taken : incr_chkpts'[k + 1] = incr_chkpts[k + 1]
      /\ Taken' = Taken \cup {Len(incr_chkpts)}
      /\ Len(incr_chkpts) \in Nat
  BY <1>3 DEF Coherent, TypeOK, Chkpt, Taken
<1>5. /\ history' \in Seq(Data)
      /\ Len(history') = Len(history) + 1
      /\ history'[Len(incr_chkpts) + 1] = data
      /\ \A k \in Taken : history'[k + 1] = history[k + 1]
  BY <1>1 DEF Coherent, TypeOK, Taken
<1>6. TypeOK'
  BY <1>4, <1>5 DEF Coherent, TypeOK
<1>7. HeadersTrue'
  BY <1>4, <1>5 DEF Coherent, HeadersTrue, Taken, Chkpt
<1>8. EntriesTrue'
  <2> HIDE DEF FinishCheckpoint, diff
  <2> SUFFICES ASSUME NEW k \in Taken'
               PROVE  LET entries == incr_chkpts'[k + 1].first_ocur
                      IN  /\ incr_chkpts'[k + 1].num_first_ocur = Len(entries)
                          /\ \A i, j \in DOMAIN entries :
                               entries[i].node = entries[j].node => i = j
                          /\ \A i \in DOMAIN entries :
                               /\ entries[i].node \in Chunks(history'[k + 1].len)
                               /\ entries[i].data = history'[k + 1].chunk[entries[i].node]
    BY DEF EntriesTrue, Chunks, Chkpt
  <2>1. CASE k \in Taken
    <3>1. incr_chkpts'[k + 1] = Chkpt(k) /\ history'[k + 1] = history[k + 1]
      BY <1>4, <1>5, <2>1 DEF Chkpt
    <3>2. EntriesTrue
      BY DEF Coherent
    <3> QED
      BY <2>1, <3>1, <3>2 DEF EntriesTrue
  <2>2. CASE k = Len(incr_chkpts)
    <3>1. /\ incr_chkpts'[k + 1].first_ocur = buffer
          /\ incr_chkpts'[k + 1].num_first_ocur = Cardinality(changes)
          /\ history'[k + 1] = data
      BY <1>4, <1>5, <2>2 DEF diff
    <3> QED
      BY <1>0, <1>1, <1>2, <3>1 DEF Coherent, GatheredTrue
  <2> QED
    BY <1>4, <2>1, <2>2
<1>9. GatheredTrue' /\ RestartInRange'
  BY DEF GatheredTrue, RestartInRange, Restarting
<1> QED
  BY <1>6, <1>7, <1>8, <1>9 DEF Coherent

LEMMA CoherentFailToWrite ==
  ASSUME Coherent, FailToWrite
  PROVE  Coherent'
<1> USE DEF FailToWrite, restartVars
<1>1. TypeOK'
  BY DEF Coherent, TypeOK
<1>2. HeadersTrue' /\ EntriesTrue'
  BY StoreStutter DEF Coherent
<1>3. GatheredTrue' /\ RestartInRange'
  BY DEF GatheredTrue, RestartInRange, Restarting
<1> QED
  BY <1>1, <1>2, <1>3 DEF Coherent

\* What is known of a stored checkpoint.
LEMMA StoredFacts ==
  ASSUME Coherent, NEW k \in Taken
  PROVE  /\ k \in Nat
         /\ Chkpt(k).ref_id \in Nat
         /\ Chkpt(k).chkpt_id = k
         /\ Chkpt(k).len \in Sizes
         /\ Chkpt(k).len \in Lengths
         /\ Chkpt(k).num_first_ocur = Len(Chkpt(k).first_ocur)
         /\ Chkpt(k).num_first_ocur \in Nat
         /\ DOMAIN Chkpt(k).first_ocur = 1 .. Chkpt(k).num_first_ocur
         /\ history[k + 1] \in Data
         /\ history[k + 1].len = Chkpt(k).len
         /\ history[k + 1].chunk \in [Chunks(Chkpt(k).len) -> Vals]
         /\ \A i \in 1 .. Chkpt(k).num_first_ocur :
              /\ Chkpt(k).first_ocur[i].node \in Chunks(Chkpt(k).len)
              /\ Chkpt(k).first_ocur[i].node \in Nat
              /\ Chkpt(k).first_ocur[i].data \in Vals
              /\ Chkpt(k).first_ocur[i].data
                   = history[k + 1].chunk[Chkpt(k).first_ocur[i].node]
<1>1. k \in Nat /\ k + 1 \in 1 .. Len(incr_chkpts) /\ Len(incr_chkpts) = Len(history)
  BY DEF Coherent, TypeOK, Taken
<1>2. incr_chkpts[k + 1] \in Diff /\ history[k + 1] \in Data
  BY <1>1 DEF Coherent, TypeOK
<1>3. \A d \in Diff : /\ d.ref_id \in Nat
                      /\ d.len \in Lengths
                      /\ d.num_first_ocur \in Nat
                      /\ d.first_ocur \in Seq(Entry)
  BY DEF Diff
<1>4. /\ Chkpt(k).ref_id \in Nat
      /\ Chkpt(k).len \in Lengths
      /\ Chkpt(k).num_first_ocur \in Nat
      /\ Chkpt(k).first_ocur \in Seq(Entry)
  BY <1>2, <1>3 DEF Chkpt
<1>5. /\ Chkpt(k).chkpt_id = k
      /\ history[k + 1].len = Chkpt(k).len
      /\ Chkpt(k).num_first_ocur = Len(Chkpt(k).first_ocur)
  BY DEF Coherent, HeadersTrue, EntriesTrue
<1>6. history[k + 1].chunk \in [Chunks(Chkpt(k).len) -> Vals]
  BY <1>2, <1>5, DataFacts
<1>7. DOMAIN Chkpt(k).first_ocur = 1 .. Chkpt(k).num_first_ocur
  BY <1>4, <1>5
<1>8. ASSUME NEW i \in 1 .. Chkpt(k).num_first_ocur
      PROVE  /\ Chkpt(k).first_ocur[i].node \in Chunks(Chkpt(k).len)
             /\ Chkpt(k).first_ocur[i].node \in Nat
             /\ Chkpt(k).first_ocur[i].data \in Vals
             /\ Chkpt(k).first_ocur[i].data
                  = history[k + 1].chunk[Chkpt(k).first_ocur[i].node]
  <2>1. Chkpt(k).first_ocur[i] \in Entry
    BY <1>4, <1>7
  <2>2. Chkpt(k).first_ocur[i].node \in Nat /\ Chkpt(k).first_ocur[i].data \in Vals
    BY <2>1 DEF Entry
  <2>3. /\ Chkpt(k).first_ocur[i].node \in Chunks(Chkpt(k).len)
        /\ Chkpt(k).first_ocur[i].data
             = history[k + 1].chunk[Chkpt(k).first_ocur[i].node]
    BY <1>5, <1>7 DEF Coherent, EntriesTrue
  <2> QED
    BY <2>2, <2>3
<1> QED
  BY <1>1, <1>2, <1>4, <1>5, <1>6, <1>7, <1>8, SizesNat

LEMMA CoherentOpen ==
  ASSUME TeamsExact, Coherent, NEW k \in Taken, RestartFromViews(k) \/ RestartFromFiles(k)
  PROVE  Coherent'
<1>1. OpenCheckpoint(k) /\ via' \in {"memory", "files"}
  BY DEF RestartFromViews, RestartFromFiles
<1>2. /\ Chkpt(k).len \in Sizes
      /\ Chkpt(k).len \in Nat
      /\ Chkpt(k).ref_id \in Nat
      /\ k \in Nat
      /\ Chkpt(k).num_first_ocur \in Nat
      /\ Teams(Chkpt(k).len) = Chunks(Chkpt(k).len)
  BY StoredFacts, SizesNat DEF TeamsExact
<1>3. /\ pc' = "first" /\ target' = k /\ idx' = k /\ ref_id' = Chkpt(k).ref_id
      /\ todo' = 1 .. Chkpt(k).num_first_ocur
      /\ out' = [len |-> Chkpt(k).len, chunk |-> [c \in Chunks(Chkpt(k).len) |-> NoVal]]
      /\ node_list' = [c \in Chunks(Chkpt(k).len) |-> Untouched]
      /\ UNCHANGED dedupVars
  BY <1>1, <1>2 DEF OpenCheckpoint
<1>4. /\ out'.len = Chkpt(k).len
      /\ out'.chunk \in [Chunks(Chkpt(k).len) -> Vals \cup {NoVal}]
      /\ node_list' \in [Chunks(Chkpt(k).len) -> Int]
  BY <1>3 DEF Untouched
<1>5. TypeOK'
  <2>1. ViewOK(out)'
    <3> DEFINE f == [c \in Chunks(Chkpt(k).len) |-> NoVal]
    <3>1. ViewOK([len |-> Chkpt(k).len, chunk |-> f])
      BY <1>2, NewView
    <3> QED
      BY <1>3, <3>1 DEF ViewOK, Chunks
  <2> QED
    BY <1>1, <1>2, <1>3, <1>4, <2>1 DEF Coherent, TypeOK, dedupVars
<1>6. HeadersTrue' /\ EntriesTrue'
  BY <1>3, StoreStutter DEF Coherent, dedupVars
<1>7. GatheredTrue'
  BY <1>3 DEF GatheredTrue
<1>8. RestartInRange'
  <2>1. Taken' = Taken /\ incr_chkpts'[target' + 1] = Chkpt(k)
    BY <1>3 DEF Taken, Chkpt, dedupVars
  <2> QED
    BY <1>3, <1>4, <2>1 DEF RestartInRange, Chkpt
<1> QED
  BY <1>5, <1>6, <1>7, <1>8 DEF Coherent

\* Offsets wrap to smaller ones.
LEMMA SlotFacts ==
  ASSUME NEW c \in Nat
  PROVE  Slot(c) \in 0 .. c
<1>1. OffsetSpan \in Nat \ {0}
  BY SizeAssumption
<1>2. c % OffsetSpan \in 0 .. OffsetSpan - 1
  BY <1>1
<1>3. CASE c < OffsetSpan
  BY <1>1, <1>3 DEF Slot
<1>4. CASE OffsetSpan <= c
  BY <1>1, <1>2, <1>4 DEF Slot
<1> QED
  BY <1>1, <1>3, <1>4

\* One chunk is copied, where the checkpoint copied is not of a longer region.
LEMMA OneCopied ==
  ASSUME Coherent, Restarting, pc # "restarted", NEW k \in Taken,
         Chkpt(k).len <= Chkpt(target).len, NEW c \in Chunks(Chkpt(k).len)
  PROVE  CopySize(k, c) = 1 /\ c \in Chunks(Chkpt(target).len)
<1>1. /\ target \in Taken
      /\ DOMAIN node_list = Chunks(Chkpt(target).len)
  BY DEF Coherent, RestartInRange
<1>2. Chkpt(k).len \in Nat /\ Chkpt(target).len \in Nat /\ c \in Nat /\ c < Chkpt(k).len
  <2>1. Chkpt(k).len \in Sizes /\ Chkpt(target).len \in Sizes
    BY <1>1, StoredFacts
  <2>2. Chkpt(k).len \in Nat /\ Chkpt(target).len \in Nat
    BY <2>1, SizesNat
  <2> QED
    BY <2>2 DEF Chunks
<1>3. CASE c + 1 \in DOMAIN node_list
  BY <1>1, <1>2, <1>3 DEF CopySize, Chunks
<1>4. CASE c + 1 \notin DOMAIN node_list
  <2>1. Chkpt(k).len - c = 1
    BY <1>1, <1>2, <1>4 DEF Chunks
  <2>2. OffsetSpan \in Nat /\ OffsetSpan >= 2
    BY SizeAssumption
  <2>3. 1 % OffsetSpan = 1 /\ 0 % OffsetSpan = 0
    BY <2>2
  <2>4. CopySize(k, c) = LET short == IF WholeChunks THEN 0 ELSE 1
                         IN  ((Chkpt(k).len - c - short) % OffsetSpan) + short
    BY <1>4 DEF CopySize
  <2>5. CASE WholeChunks
    <3>1. CopySize(k, c) = ((Chkpt(k).len - c - 0) % OffsetSpan) + 0
      BY <2>4, <2>5
    <3>2. Chkpt(k).len - c - 0 = 1
      BY <1>2, <2>1
    <3>3. (Chkpt(k).len - c - 0) % OffsetSpan = 1 % OffsetSpan
      BY <3>2, Zenon
    <3>4. CopySize(k, c) = 1 + 0
      BY <2>3, <3>1, <3>3, Zenon
    <3> QED
      BY <1>2, <3>4 DEF Chunks
  <2>6. CASE ~WholeChunks
    <3>1. CopySize(k, c) = ((Chkpt(k).len - c - 1) % OffsetSpan) + 1
      BY <2>4, <2>6
    <3>2. Chkpt(k).len - c - 1 = 0
      BY <1>2, <2>1
    <3>3. (Chkpt(k).len - c - 1) % OffsetSpan = 0 % OffsetSpan
      BY <3>2, Zenon
    <3>4. CopySize(k, c) = 0 + 1
      BY <2>3, <3>1, <3>3, Zenon
    <3> QED
      BY <1>2, <3>4 DEF Chunks
  <2> QED
    BY <1>1, <1>2, <2>5, <2>6 DEF Chunks
<1> QED
  BY <1>3, <1>4

\* A copy puts contents into the View and past it, wherever the offset points, and
\* into the View only where no longer region is copied.
LEMMA CopyTyped ==
  ASSUME Coherent, Restarting, pc # "restarted", NEW k \in Taken,
         NEW c \in Chunks(Chkpt(k).len),
         NEW i \in 1 .. Chkpt(k).num_first_ocur, CopyEntry(k, i, c)
  PROVE  /\ out'.len = out.len
         /\ ViewOK(out)'
         /\ Chkpt(k).len <= Chkpt(target).len =>
              DOMAIN out'.chunk = DOMAIN out.chunk
<1> DEFINE copied == Slot(c) .. Slot(c) + CopySize(k, c) - 1
           f == [s \in DOMAIN out.chunk \cup copied |->
                   IF s \in copied THEN DataAt(k, Slot(i - 1) + 1 + s - Slot(c))
                   ELSE out.chunk[s]]
<1>1. ViewOK(out) /\ c \in Nat
  BY DEF Coherent, TypeOK, Chunks
<1>2. out' = [len |-> out.len, chunk |-> f]
  <2>1. out = [len |-> out.len, chunk |-> out.chunk]
    BY <1>1, ViewFacts
  <2>2. out' = [out EXCEPT !.chunk = f]
    BY DEF CopyEntry
  <2> HIDE DEF f
  <2> QED
    BY <2>1, <2>2
<1>3. copied \subseteq Nat
  BY <1>1, SlotFacts
<1>4. \A p : DataAt(k, p) \in Vals \cup {NoVal}
  BY StoredFacts DEF DataAt
<1>5. \A s \in DOMAIN f : f[s] \in Vals \cup {NoVal}
  BY <1>1, <1>4 DEF ViewOK
<1>6. f = [s \in DOMAIN f |-> f[s]] /\ DOMAIN f = DOMAIN out.chunk \cup copied
  OBVIOUS
<1>7. ViewOK(out)'
  <2> HIDE DEF f, copied
  <2>1. out'.chunk = f /\ out'.len = out.len
    BY <1>2
  <2>2. Chunks(out.len) \subseteq DOMAIN f /\ DOMAIN f \subseteq Nat
    BY <1>1, <1>3, <1>6 DEF ViewOK
  <2>3. out' = [len |-> out'.len, chunk |-> [s \in DOMAIN out'.chunk |-> out'.chunk[s]]]
    BY <1>2, <1>6, <2>1
  <2>4. Chunks(out'.len) \subseteq DOMAIN out'.chunk /\ out'.len \in Sizes
    BY <1>1, <2>1, <2>2 DEF ViewOK
  <2>5. \A s \in DOMAIN out'.chunk : out'.chunk[s] \in Vals \cup {NoVal}
    BY <1>5, <2>1
  <2> QED
    BY <2>1, <2>2, <2>3, <2>4, <2>5 DEF ViewOK, Chunks
<1>8. ASSUME Chkpt(k).len <= Chkpt(target).len
      PROVE  DOMAIN out'.chunk = DOMAIN out.chunk
  <2>1. CopySize(k, c) = 1 /\ c \in Chunks(Chkpt(target).len)
    BY <1>8, OneCopied
  <2>2. Slot(c) \in Chunks(out.len)
    <3>1. target \in Taken /\ out.len = Chkpt(target).len
      BY DEF Coherent, RestartInRange
    <3>2. out.len \in Nat
      BY <3>1, StoredFacts, SizesNat
    <3> QED
      BY <1>1, <2>1, <3>1, <3>2, SlotFacts DEF Chunks
  <2>3. copied = {Slot(c)}
    BY <1>1, <2>1, SlotFacts
  <2>4. copied \subseteq DOMAIN out.chunk
    BY <1>1, <2>2, <2>3 DEF ViewOK
  <2> HIDE DEF copied, f
  <2> QED
    BY <1>2, <1>6, <2>4
<1> QED
  BY <1>2, <1>7, <1>8

LEMMA CoherentRestartFirst ==
  ASSUME Coherent, NEW i \in todo, RestartFirst(i)
  PROVE  Coherent'
<1> USE DEF RestartFirst, dedupVars
<1> DEFINE node == Chkpt(target).first_ocur[i].node
<1>1. /\ Restarting
      /\ target \in Taken
      /\ i \in 1 .. Chkpt(target).num_first_ocur
      /\ CopyEntry(target, i, node)
  BY DEF Coherent, RestartInRange, Restarting
<1>3. node \in Nat /\ Chkpt(target).chkpt_id \in Nat
  BY <1>1, StoredFacts
<1>2. pc = "first" /\ node \in Chunks(Chkpt(target).len) /\ target \in Nat
  BY <1>1, StoredFacts
<1>4. /\ out'.len = out.len
      /\ ViewOK(out)'
      /\ Chkpt(target).len <= Chkpt(target).len =>
           DOMAIN out'.chunk = DOMAIN out.chunk
  BY <1>1, <1>2, CopyTyped
<1>5. TypeOK'
  <2>1. \E n \in Sizes : node_list' \in [Chunks(n) -> Int]
    <3>1. PICK n \in Sizes : node_list \in [Chunks(n) -> Int]
      BY DEF Coherent, TypeOK
    <3> QED
      BY <1>3, <3>1, ExceptTyped
  <2> QED
    BY <1>4, <2>1 DEF Coherent, TypeOK
<1>6. HeadersTrue' /\ EntriesTrue'
  BY StoreStutter DEF Coherent
<1>7. GatheredTrue'
  BY DEF GatheredTrue
<1>8. RestartInRange'
  <2>1. /\ Taken' = Taken
        /\ incr_chkpts'[target' + 1] = Chkpt(target)
        /\ target' = target
    BY DEF Taken, Chkpt
  <2>2. node_list' \in [Chunks(Chkpt(target).len) -> Int]
    BY <1>1, <1>3, ExceptTyped DEF Coherent, RestartInRange
  <2>3. NoneLonger' => NoneLonger /\ Chkpt(target).len <= Chkpt(target).len
    BY <1>2, <2>1 DEF NoneLonger, Chkpt
  <2> QED
    BY <1>1, <1>2, <1>4, <2>1, <2>2, <2>3 DEF Coherent, RestartInRange, Chkpt
<1> QED
  BY <1>5, <1>6, <1>7, <1>8 DEF Coherent

LEMMA CoherentFillSame ==
  ASSUME Coherent, FillSame
  PROVE  Coherent'
<1>1. /\ target \in Taken
      /\ Restarting
      /\ node_list \in [Chunks(Chkpt(target).len) -> Int]
      /\ target \in Nat
  BY DEF FillSame, Coherent, TypeOK, RestartInRange, Restarting
<1>2. Chkpt(target).chkpt_id - 1 \in Int /\ Chkpt(target).len \in Sizes
  BY <1>1, StoredFacts
<1>3. /\ pc' = "load" /\ idx' = target - 1 /\ todo' = {}
      /\ UNCHANGED <<dedupVars, target, via, ref_id, out>>
  BY DEF FillSame
<1>4. node_list' \in [Chunks(Chkpt(target).len) -> Int]
  BY <1>1, <1>2 DEF FillSame
<1>5. TypeOK'
  BY <1>1, <1>2, <1>3, <1>4, ViewStutter DEF Coherent, TypeOK, dedupVars
<1>6. HeadersTrue' /\ EntriesTrue'
  BY <1>3, StoreStutter DEF Coherent, dedupVars
<1>7. GatheredTrue'
  BY <1>3 DEF GatheredTrue
<1>8. RestartInRange'
  <2>1. pc = "first"
    BY DEF FillSame
  <2> QED
    BY <1>1, <1>3, <1>4, <2>1
       DEF Coherent, RestartInRange, Restarting, NoneLonger, Taken, Chkpt, dedupVars
<1> QED
  BY <1>5, <1>6, <1>7, <1>8 DEF Coherent

LEMMA CoherentLoadPrior ==
  ASSUME Coherent, LoadPrior
  PROVE  Coherent'
<1>1. /\ idx \in Taken /\ idx \in 0 .. target - 1
      /\ Restarting
      /\ DOMAIN node_list = Chunks(Chkpt(target).len)
      /\ target \in Taken
  <2>1. /\ idx \in -1 .. target - 1 /\ ref_id \in Nat /\ idx >= ref_id /\ target \in Taken
        /\ node_list \in [Chunks(Chkpt(target).len) -> Int]
    BY DEF LoadPrior, Coherent, TypeOK, RestartInRange, Restarting
  <2> QED
    BY <2>1 DEF LoadPrior, Restarting, Taken, Coherent, TypeOK
<1>2. Chkpt(idx).ref_id \in Nat
  BY <1>1, StoredFacts
<1>3. /\ pc' = "middle" /\ ref_id' = Chkpt(idx).ref_id /\ todo' = DOMAIN node_list
      /\ UNCHANGED <<dedupVars, target, via, idx, node_list, out>>
  BY DEF LoadPrior
<1>4. TypeOK'
  BY <1>1, <1>2, <1>3, ViewStutter DEF Coherent, TypeOK, dedupVars, Chunks
<1>5. HeadersTrue' /\ EntriesTrue'
  BY <1>3, StoreStutter DEF Coherent, dedupVars
<1>6. GatheredTrue'
  BY <1>3 DEF GatheredTrue
<1>7. RestartInRange'
  <2>1. pc = "load"
    BY DEF LoadPrior
  <2> QED
    BY <1>1, <1>3, <2>1
       DEF Coherent, RestartInRange, Restarting, NoneLonger, Taken, Chkpt, dedupVars
<1> QED
  BY <1>4, <1>5, <1>6, <1>7 DEF Coherent

LEMMA CoherentRestartMiddle ==
  ASSUME Coherent, NEW c \in todo, RestartMiddle(c)
  PROVE  Coherent'
<1>1. /\ target \in Taken
      /\ idx \in Taken /\ idx \in 0 .. target - 1
      /\ Restarting
      /\ node_list \in [Chunks(Chkpt(target).len) -> Int]
      /\ pc = "middle"
      /\ ViewOK(out)
  BY DEF RestartMiddle, Coherent, TypeOK, RestartInRange, Restarting, Taken
<1>2. Chkpt(idx).chkpt_id - 1 \in Int /\ Chkpt(target).len \in Sizes
  BY <1>1, StoredFacts
<1>3. /\ pc' = pc /\ todo' = todo \ {c}
      /\ UNCHANGED <<dedupVars, target, via, idx, ref_id>>
  BY DEF RestartMiddle
<1>4. /\ node_list' \in [Chunks(Chkpt(target).len) -> Int]
      /\ out'.len = out.len
      /\ ViewOK(out)'
      /\ NoneLonger => DOMAIN out'.chunk = DOMAIN out.chunk
  <2>1. CASE UNCHANGED <<node_list, out>>
    BY <1>1, <2>1, ViewStutter
  <2>2. CASE \E i \in DistinctMap(idx, c) : CopyEntry(idx, i, c) /\ UNCHANGED node_list
    <3>1. PICK i \in 1 .. Chkpt(idx).num_first_ocur :
            CopyEntry(idx, i, c) /\ c = Chkpt(idx).first_ocur[i].node
      BY <2>2 DEF DistinctMap
    <3>2. c \in Chunks(Chkpt(idx).len)
      BY <1>1, <3>1, StoredFacts
    <3>3. idx \in 0 .. target
      BY <1>1 DEF Taken
    <3>4. NoneLonger => Chkpt(idx).len <= Chkpt(target).len
      BY <3>3 DEF NoneLonger
    <3> QED
      BY <1>1, <2>2, <3>1, <3>2, <3>4, CopyTyped
  <2>3. CASE /\ node_list' = [node_list EXCEPT ![c] = Chkpt(idx).chkpt_id - 1]
             /\ UNCHANGED out
    BY <1>1, <1>2, <2>3, ExceptTyped, ViewStutter
  <2> QED
    BY <2>1, <2>2, <2>3 DEF RestartMiddle
<1>5. TypeOK'
  BY <1>1, <1>2, <1>3, <1>4 DEF Coherent, TypeOK, dedupVars
<1>6. HeadersTrue' /\ EntriesTrue'
  BY <1>3, StoreStutter DEF Coherent, dedupVars
<1>7. GatheredTrue'
  BY <1>1, <1>3 DEF GatheredTrue
<1>8. RestartInRange'
  BY <1>1, <1>3, <1>4 DEF Coherent, RestartInRange, NoneLonger, Taken, Chkpt, dedupVars
<1> QED
  BY <1>5, <1>6, <1>7, <1>8 DEF Coherent

LEMMA CoherentNextPrior ==
  ASSUME Coherent, NextPrior
  PROVE  Coherent'
<1>1. /\ UNCHANGED <<dedupVars, target, via, ref_id, node_list, out, todo>>
      /\ pc = "middle" /\ idx' = idx - 1 /\ pc' = "load"
  BY DEF NextPrior
<1>2. idx' \in Int
  BY <1>1 DEF Coherent, TypeOK
<1>3. TypeOK'
  BY <1>1, <1>2, ViewStutter DEF Coherent, TypeOK, dedupVars
<1>4. HeadersTrue' /\ EntriesTrue'
  BY <1>1, StoreStutter DEF Coherent, dedupVars
<1>5. GatheredTrue'
  BY <1>1 DEF GatheredTrue
<1>6. RestartInRange'
  <2>1. idx - 1 \in -1 .. target - 1
    BY <1>1 DEF Coherent, TypeOK, RestartInRange, Restarting
  <2> QED
    BY <1>1, <2>1
       DEF Coherent, RestartInRange, Restarting, NoneLonger, Taken, Chkpt, dedupVars
<1> QED
  BY <1>3, <1>4, <1>5, <1>6 DEF Coherent

LEMMA CoherentFinishRestart ==
  ASSUME Coherent, NEW n \in Lengths, FinishRestart(n)
  PROVE  Coherent'
<1>1. /\ UNCHANGED <<dedupVars, target, via, idx, ref_id, node_list, todo>>
      /\ pc = "load" /\ pc' = "restarted" /\ out' = CallersView(n)
  BY DEF FinishRestart
<1>2. out'.len = n /\ ViewOK(out)' /\ (NoneLonger => DOMAIN out'.chunk = Chunks(out'.len))
  <2>1. CASE n = out.len
    <3>1. out' = out
      BY <1>1, <2>1 DEF CallersView
    <3> QED
      BY <1>1, <2>1, <3>1, ViewStutter DEF Coherent, TypeOK, RestartInRange, Restarting
  <2>2. CASE n # out.len
    <3> DEFINE f == [c \in Chunks(n) |-> NoVal]
    <3>1. n \in Sizes /\ n \in Nat
      BY SizesNat
    <3>2. out' = [len |-> n, chunk |-> f]
      BY <1>1, <2>2 DEF CallersView
    <3>3. ViewOK([len |-> n, chunk |-> f])
      BY <3>1, NewView
    <3> QED
      BY <3>2, <3>3 DEF ViewOK, Chunks
  <2> QED
    BY <2>1, <2>2
<1>3. TypeOK'
  BY <1>1, <1>2 DEF Coherent, TypeOK, dedupVars
<1>4. HeadersTrue' /\ EntriesTrue'
  BY <1>1, StoreStutter DEF Coherent, dedupVars
<1>5. GatheredTrue'
  BY <1>1 DEF GatheredTrue
<1>6. RestartInRange'
  BY <1>1, <1>2
     DEF Coherent, RestartInRange, Restarting, NoneLonger, Taken, Chkpt, dedupVars
<1> QED
  BY <1>3, <1>4, <1>5, <1>6 DEF Coherent

LEMMA CoherentRelease ==
  ASSUME Coherent, Release
  PROVE  Coherent'
<1>1. /\ pc' = "idle" /\ target' = 0 /\ via' = "memory" /\ idx' = 0 /\ ref_id' = 0
      /\ node_list' = [c \in {} |-> 0]
      /\ out' = [len |-> 0, chunk |-> [c \in {} |-> NoVal]]
      /\ UNCHANGED <<dedupVars, todo>>
  BY DEF Release
<1>2. Chunks(0) = {}
  BY DEF Chunks
<1>3. \E n \in Sizes : node_list' \in [Chunks(n) -> Int]
  BY <1>1, <1>2, SizesNat
<1>4. ViewOK(out)'
  <2> DEFINE f == [c \in {} |-> NoVal]
  <2>1. f \in [Chunks(0) -> Vals \cup {NoVal}] /\ 0 \in Sizes
    BY <1>2, SizesNat
  <2>2. ViewOK([len |-> 0, chunk |-> f])
    BY <2>1, NewView
  <2> QED
    BY <1>1, <2>2 DEF ViewOK, Chunks
<1>5. TypeOK'
  BY <1>1, <1>3, <1>4 DEF Coherent, TypeOK, dedupVars
<1>6. HeadersTrue' /\ EntriesTrue'
  BY <1>1, StoreStutter DEF Coherent, dedupVars
<1>7. GatheredTrue' /\ RestartInRange'
  BY <1>1 DEF GatheredTrue, RestartInRange, Restarting
<1> QED
  BY <1>5, <1>6, <1>7 DEF Coherent

LEMMA CoherentStutter ==
  ASSUME Coherent, UNCHANGED vars
  PROVE  Coherent'
<1>1. TypeOK' /\ GatheredTrue'
  BY ViewStutter DEF Coherent, TypeOK, GatheredTrue, vars, dedupVars, restartVars
<1>2. HeadersTrue' /\ EntriesTrue'
  BY StoreStutter DEF Coherent, vars, dedupVars
<1>3. RestartInRange'
  BY DEF Coherent, RestartInRange, Restarting, NoneLonger, Taken, Chkpt, vars, dedupVars, restartVars
<1> QED
  BY <1>1, <1>2, <1>3 DEF Coherent

\* One action at a time.
LEMMA CoherentStep ==
  ASSUME TeamsExact, Coherent, [Next]_vars
  PROVE  Coherent'
<1>1. CASE Call
  <2>1. ASSUME NEW d \in Data, NEW m \in BOOLEAN, Checkpoint(d, m) PROVE Coherent'
    BY <2>1, CoherentCheckpoint
  <2>2. ASSUME NEW k \in 0 .. Len(incr_chkpts) - 1,
               RestartFromViews(k) \/ RestartFromFiles(k)
        PROVE Coherent'
    BY <2>2, CoherentOpen DEF Taken
  <2>3. CASE Release
    BY <2>3, CoherentRelease
  <2> QED
    BY <1>1, <2>1, <2>2, <2>3 DEF Call
<1>2. CASE Progress
  <2>1. ASSUME NEW c \in todo,
               DedupChunk(c) \/ GatherChunk(c) \/ RestartFirst(c) \/ RestartMiddle(c)
        PROVE Coherent'
    BY <2>1, CoherentDedupChunk, CoherentGatherChunk, CoherentRestartFirst,
       CoherentRestartMiddle
  <2>2. CASE StartCollect \/ FinishCheckpoint \/ FailToWrite
    BY <2>2, CoherentStartCollect, CoherentFinishCheckpoint, CoherentFailToWrite
  <2>3. CASE FillSame \/ LoadPrior \/ NextPrior
    BY <2>3, CoherentFillSame, CoherentLoadPrior, CoherentNextPrior
  <2>4. CASE \E n \in Lengths : FinishRestart(n)
    BY <2>4, CoherentFinishRestart
  <2> QED
    BY <1>2, <2>1, <2>2, <2>3, <2>4 DEF Progress
<1>3. CASE UNCHANGED vars
  BY <1>3, CoherentStutter
<1> QED
  BY <1>1, <1>2, <1>3 DEF Next

\* Coherent is an invariant of every instance without a team too many: whatever
\* sizes the memory region takes, whether or not writes fail, in whatever order teams
\* run.  So a restart stays within the checkpoints, and within the View unless a
\* checkpoint before is of a longer region.
THEOREM CoherentAlways == TeamsExact => (Spec => []Coherent)
<1> SUFFICES ASSUME TeamsExact PROVE Spec => []Coherent
  OBVIOUS
<1>1. Init => Coherent
  BY CoherentInit
<1>2. Coherent /\ [Next]_vars => Coherent'
  BY CoherentStep
<1> QED
  BY <1>1, <1>2, PTL DEF Spec

\* Every variable of the Basic deduplicator always has its type, without a team too
\* many.
THEOREM TypeCorrect == TeamsExact => (Spec => []TypeOK)
<1>1. Coherent => TypeOK
  BY DEF Coherent
<1> QED
  BY <1>1, CoherentAlways, PTL

\* Every checkpoint file is well formed and true to the data it was taken from, in
\* every instance without a team too many.
THEOREM EntriesAlwaysTrue == TeamsExact => (Spec => []EntriesTrue)
<1>1. Coherent => EntriesTrue
  BY DEF Coherent
<1> QED
  BY <1>1, CoherentAlways, PTL

-----------------------------------------------------------------------------
(* The invariant of steady instances, whatever writes fail *)

\* In a steady instance there is one size.
LEMMA OneSize ==
  ASSUME Steady, NEW m \in Lengths, NEW n \in Lengths
  PROVE  m = n /\ n \in Nat /\ n <= OffsetSpan
BY SizesNat DEF Steady

\* ... so a restart is into a View of the size of every checkpoint, and stays within.
LEMMA SteadyView ==
  ASSUME Steady, Coherent, Restarting
  PROVE  /\ target \in Taken
         /\ out.len = Chkpt(target).len
         /\ out.len \in Lengths
         /\ out.chunk \in [Chunks(out.len) -> Vals \cup {NoVal}]
         /\ node_list \in [Chunks(out.len) -> Int]
         /\ out = [len |-> out.len, chunk |-> out.chunk]
         /\ Fits
<1>1. target \in Taken /\ target \in Nat /\ Chkpt(target).len \in Lengths
  BY StoredFacts DEF Coherent, RestartInRange
<1>2. NoneLonger
  <2> SUFFICES ASSUME NEW k \in 0 .. target PROVE Chkpt(k).len <= Chkpt(target).len
    BY DEF NoneLonger
  <2>1. k \in Taken
    BY <1>1 DEF Taken
  <2> QED
    BY <1>1, <2>1, StoredFacts, OneSize
<1>3. DOMAIN out.chunk = Chunks(out.len)
  BY <1>2 DEF Coherent, RestartInRange
<1>4. /\ out = [len |-> out.len, chunk |-> out.chunk]
      /\ out.chunk \in [Chunks(out.len) -> Vals \cup {NoVal}]
  BY <1>3, ViewFacts DEF Coherent, TypeOK
<1>5. out.len = Chkpt(target).len
  <2>1. CASE pc # "restarted"
    BY <2>1 DEF Coherent, RestartInRange
  <2>2. CASE pc = "restarted"
    BY <1>1, <2>2, OneSize DEF Coherent, RestartInRange, Restarting
  <2> QED
    BY <2>1, <2>2
<1>6. Fits
  BY <1>1, <1>5, StoredFacts DEF Fits
<1> QED
  BY <1>1, <1>4, <1>5, <1>6 DEF Coherent, RestartInRange

\* Offsets within a steady region do not wrap.
LEMMA SlotExact ==
  ASSUME Steady, NEW n \in Lengths, NEW c \in Chunks(n)
  PROVE  Slot(c) = c
<1>1. c \in Nat /\ c < OffsetSpan /\ OffsetSpan \in Nat \ {0}
  BY SizesNat, SizeAssumption DEF Steady, Chunks
<1> QED
  BY <1>1 DEF Slot

\* What Exact says of the stored checkpoints is kept while none is stored.
LEMMA ChainStutter ==
  ASSUME Coherent, ChainsUnbroken, OmittedUnchanged, UnchangedOmitted,
         UNCHANGED <<current_id, incr_chkpts, history>>,
         \A k \in Taken : k \in spoiled' <=> k \in spoiled,
         IF pc' \in {"dedup", "collect"}
         THEN baseline_id' = current_id \/ Continues'
         ELSE \/ current_id = 0
              \/ Continues'
              \/ baseline_id' = current_id /\ current_id \in spoiled'
  PROVE  ChainsUnbroken' /\ OmittedUnchanged' /\ UnchangedOmitted'
<1>1. ChainsUnbroken'
  <2>1. /\ \A k \in Taken : Chkpt(k).ref_id <= k
        /\ \A k \in Taken : \A j \in Chkpt(k).ref_id .. k :
             /\ Chkpt(j).ref_id = Chkpt(k).ref_id
             /\ j \in spoiled' => k \in spoiled'
    <3> SUFFICES ASSUME NEW k \in Taken, NEW j \in Chkpt(k).ref_id .. k
                 PROVE  j \in spoiled' => k \in spoiled'
      BY DEF ChainsUnbroken
    <3>1. j \in Taken
      BY StoredFacts DEF Taken
    <3> QED
      BY <3>1 DEF ChainsUnbroken
  <2> QED
    BY <2>1 DEF ChainsUnbroken, Taken, Chkpt
<1>2. OmittedUnchanged'
  BY DEF OmittedUnchanged, Taken, Chkpt, Saved, Chunks
<1>3. UnchangedOmitted'
  BY DEF UnchangedOmitted, Taken, Chkpt, Saved, Chunks
<1> QED
  BY <1>1, <1>2, <1>3

\* The list and the bits are kept during a restart.
LEMMA RestartKeepsList ==
  ASSUME Exact, UNCHANGED dedupVars,
         pc \notin {"dedup", "collect"}, pc' \notin {"dedup", "collect"}
  PROVE  /\ GatheredAll' /\ ChainsUnbroken' /\ OmittedUnchanged' /\ UnchangedOmitted'
         /\ ListAhead' /\ ListIsNewest'
<1>1. ChainsUnbroken' /\ OmittedUnchanged' /\ UnchangedOmitted'
  BY ChainStutter DEF Exact, ChainsUnbroken, Continues, Chkpt, dedupVars
<1>2. GatheredAll'
  BY DEF GatheredAll
<1>3. ListAhead' /\ ListIsNewest'
  BY DEF Exact, ListAhead, ListIsNewest, dedupVars
<1> QED
  BY <1>1, <1>2, <1>3

\* Nothing is said of the restart of a checkpoint a failed write has spoiled.
LEMMA SpoiledRestart ==
  ASSUME Exact, Coherent', UNCHANGED <<dedupVars, target>>, target \in spoiled,
         pc \notin {"dedup", "collect"}, pc' \notin {"dedup", "collect"}
  PROVE  Exact'
<1>1. /\ GatheredAll' /\ ChainsUnbroken' /\ OmittedUnchanged' /\ UnchangedOmitted'
      /\ ListAhead' /\ ListIsNewest'
  BY RestartKeepsList
<1>2. target' \in spoiled'
  BY DEF dedupVars
<1>3. WalkTrue' /\ RestartExact'
  BY <1>2 DEF WalkTrue, RestartExact
<1> QED
  BY <1>1, <1>3 DEF Exact

LEMMA ExactCheckpoint ==
  ASSUME Steady, Exact, NEW d \in Data, NEW make_baseline \in BOOLEAN,
         Checkpoint(d, make_baseline), Coherent'
  PROVE  Exact'
<1>1. /\ pc = "idle" /\ pc' = "dedup"
      /\ current_id = 0 => make_baseline
      /\ data' = d
      /\ todo' = Chunks(d.len)
      /\ UNCHANGED <<current_id, incr_chkpts, history>>
      /\ baseline_id' = IF make_baseline THEN current_id ELSE baseline_id
      /\ spoiled' = IF make_baseline THEN spoiled \ {current_id} ELSE spoiled
      /\ changes' = {}
  BY DataFacts DEF Checkpoint, Steady, TeamsExact
<1>2. current_id = Len(incr_chkpts) /\ current_id \in Nat /\ d.len \in Lengths
  BY DataFacts DEF Exact, Coherent, HeadersTrue, TypeOK
<1>3. ChainsUnbroken' /\ OmittedUnchanged' /\ UnchangedOmitted'
  <2>1. \A k \in Taken : k \in spoiled' <=> k \in spoiled
    BY <1>1, <1>2 DEF Taken
  <2>2. baseline_id' = current_id \/ Continues'
    BY <1>1 DEF Exact, ChainsUnbroken, Continues, Chkpt
  <2> QED
    BY <1>1, <2>1, <2>2, ChainStutter DEF Exact
<1>4. ListAhead'
  <2>1. ASSUME make_baseline
        PROVE  /\ bits' = Chunks(d.len)
               /\ list' = [c \in Chunks(d.len) |-> NoDigest]
    BY <2>1 DEF Checkpoint
  <2>2. ASSUME ~make_baseline
        PROVE  /\ bits' = Chunks(d.len)
               /\ DOMAIN list' = Chunks(d.len)
               /\ current_id \notin spoiled' =>
                    /\ \A c \in Chunks(d.len) : list'[c] = Hash[history[current_id].chunk[c]]
                    /\ baseline_id' < current_id
    <3>1. current_id > 0 /\ current_id - 1 \in Taken
      BY <1>1, <1>2, <2>2 DEF Taken
    <3>2. history[current_id].len = d.len
      BY <1>2, <3>1, StoredFacts, OneSize DEF Exact
    <3>3. bits = Chunks(d.len) /\ DOMAIN list = Chunks(d.len)
      BY <1>2, <3>1 DEF Exact, ListAhead
    <3>4. current_id \notin spoiled =>
            \A c \in Chunks(d.len) : list[c] = Hash[history[current_id].chunk[c]]
      BY <1>1, <3>1, <3>2 DEF Exact, ListIsNewest
    <3>5. bits' = bits /\ list' = [c \in Chunks(d.len) |-> list[c]]
      BY <2>2, <3>3 DEF Checkpoint
    <3>6. current_id \notin spoiled => baseline_id < current_id
      BY <1>1, <1>2, <3>1, StoredFacts DEF Exact, ChainsUnbroken, Continues
    <3> QED
      BY <1>1, <2>2, <3>3, <3>4, <3>5, <3>6
  <2>3. \A n \in Lengths : n = d.len
    BY <1>2, OneSize
  <2>4. CASE make_baseline
    BY <1>1, <1>2, <2>1, <2>3, <2>4 DEF ListAhead
  <2>5. CASE ~make_baseline
    BY <1>1, <1>2, <2>2, <2>3, <2>5 DEF ListAhead
  <2> QED
    BY <2>4, <2>5
<1>5. GatheredAll' /\ ListIsNewest' /\ WalkTrue' /\ RestartExact'
  BY <1>1 DEF GatheredAll, ListIsNewest, WalkTrue, RestartExact, Restarting
<1> QED
  BY <1>3, <1>4, <1>5 DEF Exact

LEMMA ExactDedupChunk ==
  ASSUME Steady, Exact, NEW c \in todo, DedupChunk(c), Coherent'
  PROVE  Exact'
<1>1. /\ pc = "dedup" /\ pc' = "dedup"
      /\ todo' = todo \ {c}
      /\ UNCHANGED <<current_id, baseline_id, bits, data, incr_chkpts, history, spoiled>>
  BY DEF DedupChunk
<1>2. /\ c \in Chunks(data.len)
      /\ data.len \in Lengths
      /\ data.chunk \in [Chunks(data.len) -> Vals]
      /\ todo \subseteq Chunks(data.len)
  BY <1>1, DataFacts DEF Exact, Coherent, GatheredTrue
<1>3. /\ DOMAIN list = Chunks(data.len)
      /\ bits = Chunks(data.len)
      /\ \A n \in Lengths : n = data.len
      /\ current_id \in Nat /\ baseline_id \in Nat
  BY <1>1, <1>2, OneSize DEF Exact, ListAhead, Coherent, TypeOK
<1>4. ChainsUnbroken' /\ OmittedUnchanged' /\ UnchangedOmitted'
  BY <1>1, ChainStutter DEF Exact, ChainsUnbroken, Continues, Chkpt
<1>5. ListAhead'
  <2>1. current_id \notin spoiled => list[c] = IF baseline_id = current_id
                                               THEN NoDigest
                                               ELSE Hash[history[current_id].chunk[c]]
    BY <1>1, <1>2 DEF Exact, ListAhead
  <2>0. Digest(c) = Hash[data.chunk[c]] /\ c \in DOMAIN list
    BY <1>1, <1>2, <1>3, DigestFacts DEF Exact, Coherent, GatheredTrue
  <2>2. /\ DOMAIN list' = Chunks(data.len) /\ list'[c] = Hash[data.chunk[c]]
        /\ \A x \in Chunks(data.len) \ {c} : list'[x] = list[x]
        /\ changes \subseteq changes' /\ changes' \subseteq changes \cup {c}
    <3>1. list \in [DOMAIN list -> Digests \cup {NoDigest}]
      BY DEF Exact, Coherent, TypeOK
    <3>2. CASE /\ list' = [list EXCEPT ![c] = Hash[data.chunk[c]]]
               /\ changes' = (changes \cup {c}) \cap bits
      BY <1>2, <1>3, <3>1, <3>2 DEF Exact, Coherent, GatheredTrue, TypeOK
    <3>3. CASE ~Changed(c) /\ UNCHANGED <<list, changes>>
      BY <1>2, <1>3, <2>0, <3>1, <3>3 DEF Changed
    <3> QED
      BY <2>0, <3>2, <3>3 DEF DedupChunk, BitsetSet
  <2>3. current_id \notin spoiled =>
          /\ c \notin changes' => /\ baseline_id < current_id
                                 /\ history[current_id].chunk[c] = data.chunk[c]
          /\ c \in changes' /\ baseline_id < current_id =>
               history[current_id].chunk[c] # data.chunk[c]
    <3> SUFFICES ASSUME current_id \notin spoiled
                 PROVE  /\ c \notin changes' => /\ baseline_id < current_id
                                                /\ history[current_id].chunk[c] = data.chunk[c]
                        /\ c \in changes' /\ baseline_id < current_id =>
                             history[current_id].chunk[c] # data.chunk[c]
      OBVIOUS
    <3>1. CASE Changed(c) /\ changes' = (changes \cup {c}) \cap bits
      <4>1. c \in changes'
        BY <1>2, <1>3, <3>1
      <4>2. ASSUME baseline_id < current_id
            PROVE  history[current_id].chunk[c] # data.chunk[c]
        BY <1>3, <2>0, <2>1, <3>1, <4>2 DEF Changed
      <4> QED
        BY <4>1, <4>2
    <3>2. CASE ~Changed(c) /\ changes' = changes
      <4>0. c \notin changes'
        BY <1>1, <3>2 DEF Exact, ListAhead
      <4>1. current_id > 0 /\ list[c] = Hash[data.chunk[c]]
        BY <2>0, <3>2, <1>3 DEF Changed
      <4>2. list[c] # NoDigest
        BY <1>2, <4>1, HashAssumption
      <4>3. current_id - 1 \in Taken
        BY <1>3, <4>1 DEF Exact, Coherent, HeadersTrue, Taken, TypeOK
      <4>4. history[current_id].chunk[c] \in Vals
        <5>1. Chkpt(current_id - 1).len = data.len
          BY <1>2, <4>3, StoredFacts, OneSize DEF Exact
        <5>2. history[current_id - 1 + 1].chunk \in [Chunks(data.len) -> Vals]
          BY <4>3, <5>1, StoredFacts DEF Exact
        <5> QED
          BY <1>2, <1>3, <5>2
      <4>5. baseline_id # current_id /\ history[current_id].chunk[c] = data.chunk[c]
        BY <1>2, <2>1, <4>1, <4>2, <4>4, HashAssumption
      <4>6. baseline_id <= current_id
        BY <1>1, <1>3, <4>3, StoredFacts DEF Exact, ChainsUnbroken, Continues
      <4> QED
        BY <1>3, <4>0, <4>5, <4>6
    <3> QED
      BY <3>1, <3>2 DEF DedupChunk, BitsetSet
  <2>4. ASSUME current_id \notin spoiled, NEW x \in Chunks(data.len)
        PROVE  IF x \in todo'
               THEN list'[x] = IF baseline_id = current_id THEN NoDigest
                               ELSE Hash[history[current_id].chunk[x]]
               ELSE /\ list'[x] = Hash[data.chunk[x]]
                    /\ x \notin changes' =>
                         /\ baseline_id < current_id
                         /\ history[current_id].chunk[x] = data.chunk[x]
                    /\ x \in changes' /\ baseline_id < current_id =>
                         history[current_id].chunk[x] # data.chunk[x]
    <3>1. CASE x = c
      BY <1>1, <2>2, <2>3, <2>4, <3>1
    <3>2. CASE x # c
      BY <1>1, <2>2, <2>4, <3>2 DEF Exact, ListAhead
    <3> QED
      BY <3>1, <3>2
  <2>5. changes' \cap todo' = {}
    BY <1>1, <2>2 DEF Exact, ListAhead
  <2> QED
    BY <1>1, <1>3, <2>2, <2>4, <2>5 DEF ListAhead
<1>6. GatheredAll' /\ ListIsNewest' /\ WalkTrue' /\ RestartExact'
  BY <1>1 DEF GatheredAll, ListIsNewest, WalkTrue, RestartExact, Restarting
<1> QED
  BY <1>4, <1>5, <1>6 DEF Exact

LEMMA ExactStartCollect ==
  ASSUME Exact, StartCollect, Coherent'
  PROVE  Exact'
<1>1. /\ pc = "dedup" /\ pc' = "collect" /\ todo = {} /\ todo' = changes
      /\ UNCHANGED <<current_id, baseline_id, bits, list, changes, data, incr_chkpts, history,
                     spoiled>>
  BY DEF StartCollect, dedupVars
<1>2. ChainsUnbroken' /\ OmittedUnchanged' /\ UnchangedOmitted'
  BY <1>1, ChainStutter DEF Exact, ChainsUnbroken, Continues, Chkpt
<1>3. ListAhead'
  BY <1>1 DEF Exact, ListAhead
<1>4. GatheredAll' /\ ListIsNewest' /\ WalkTrue' /\ RestartExact'
  BY <1>1 DEF GatheredAll, ListIsNewest, WalkTrue, RestartExact, Restarting
<1> QED
  BY <1>2, <1>3, <1>4 DEF Exact

\* What is gathered is the chunk.
LEMMA GatheredEntry ==
  ASSUME Coherent, pc = "collect", NEW c \in todo
  PROVE  EntryOf(c) = [node |-> c, data |-> data.chunk[c]]
BY DigestFacts DEF Coherent, GatheredTrue

\* An entry gathered leaves those gathered before it.
LEMMA GatheredMore ==
  ASSUME Coherent, GatheredAll, NEW c \in todo, GatherChunk(c)
  PROVE  GatheredAll'
<1>1. /\ pc = "collect" /\ pc' = "collect" /\ todo' = todo \ {c} /\ changes' = changes
      /\ buffer' = Append(buffer, [node |-> c, data |-> data.chunk[c]])
  BY GatheredEntry DEF GatherChunk
<1>2. /\ DOMAIN buffer' = DOMAIN buffer \cup {Len(buffer) + 1}
      /\ \A i \in DOMAIN buffer : buffer'[i] = buffer[i]
      /\ buffer'[Len(buffer) + 1].node = c
  BY <1>1 DEF Coherent, TypeOK
<1>3. ASSUME NEW x \in changes \ todo' PROVE \E i \in DOMAIN buffer' : buffer'[i].node = x
  <2>1. CASE x = c
    BY <1>2, <2>1
  <2>2. CASE x # c
    <3>1. PICK i \in DOMAIN buffer : buffer[i].node = x
      BY <1>1, <2>2 DEF GatheredAll
    <3> QED
      BY <1>2, <3>1
  <2> QED
    BY <2>1, <2>2
<1> QED
  BY <1>1, <1>3 DEF GatheredAll

LEMMA ExactGatherChunk ==
  ASSUME Exact, NEW c \in todo, GatherChunk(c), Coherent'
  PROVE  Exact'
<1>1. /\ pc = "collect" /\ pc' = "collect" /\ todo' = todo \ {c}
      /\ buffer' = Append(buffer, [node |-> c, data |-> data.chunk[c]])
      /\ UNCHANGED <<current_id, baseline_id, bits, list, changes, data, incr_chkpts, history,
                     spoiled>>
  BY GatheredEntry DEF GatherChunk, Exact
<1>2. ChainsUnbroken' /\ OmittedUnchanged' /\ UnchangedOmitted'
  BY <1>1, ChainStutter DEF Exact, ChainsUnbroken, Continues, Chkpt
<1>3. ListAhead'
  BY <1>1 DEF Exact, ListAhead
<1>4. GatheredAll'
  BY GatheredMore DEF Exact
<1>5. ListIsNewest' /\ WalkTrue' /\ RestartExact'
  BY <1>1 DEF ListIsNewest, WalkTrue, RestartExact, Restarting
<1> QED
  BY <1>2, <1>3, <1>4, <1>5 DEF Exact

LEMMA ExactFinishCheckpoint ==
  ASSUME Steady, Exact, FinishCheckpoint, Coherent'
  PROVE  Exact'
<1> DEFINE K == Len(incr_chkpts)
<1>1. /\ pc = "collect" /\ pc' = "idle" /\ todo = {}
      /\ current_id' = current_id + 1
      /\ spoiled' = IF current_id \in spoiled THEN spoiled \cup {current_id + 1} ELSE spoiled
      /\ UNCHANGED <<baseline_id, bits, list>>
  BY DEF FinishCheckpoint
<1>2. K = current_id /\ K = Len(history) /\ K \in Nat /\ baseline_id \in Nat
  BY DEF Exact, Coherent, HeadersTrue, TypeOK
<1>3. /\ Taken' = Taken \cup {K}
      /\ incr_chkpts'[K + 1].ref_id = baseline_id
      /\ incr_chkpts'[K + 1].first_ocur = buffer
      /\ history'[K + 1] = data
      /\ \A k \in Taken : incr_chkpts'[k + 1] = incr_chkpts[k + 1]
      /\ \A k \in Taken : history'[k + 1] = history[k + 1]
      /\ \A k \in Taken : k \in Nat /\ k < K
  BY <1>2 DEF FinishCheckpoint, Exact, Coherent, TypeOK, Taken
<1>4. K \notin spoiled => \A c \in Chunks(data.len) :
        /\ list[c] = Hash[data.chunk[c]]
        /\ c \notin changes => /\ baseline_id < K
                               /\ history[K].chunk[c] = data.chunk[c]
        /\ c \in changes /\ baseline_id < K => history[K].chunk[c] # data.chunk[c]
  BY <1>1, <1>2 DEF Exact, ListAhead
<1>5. \/ baseline_id = K
      \/ /\ K > 0 /\ baseline_id = Chkpt(K - 1).ref_id
         /\ K - 1 \in spoiled => K \in spoiled
  BY <1>1, <1>2 DEF Exact, ChainsUnbroken, Continues
<1>6. K > 0 => K - 1 \in Taken /\ Chkpt(K - 1).ref_id <= K - 1
  BY <1>2 DEF Exact, ChainsUnbroken, Taken
<1>7. baseline_id <= K
  <2>1. CASE baseline_id = K
    BY <1>2, <2>1
  <2>2. CASE K > 0 /\ baseline_id = Chkpt(K - 1).ref_id
    BY <1>2, <1>6, <2>2
  <2> QED
    BY <1>5, <2>1, <2>2
<1>8. ChainsUnbroken'
  <2>1. \A k \in Taken : /\ incr_chkpts'[k + 1].ref_id <= k
                         /\ \A j \in incr_chkpts'[k + 1].ref_id .. k :
                              /\ incr_chkpts'[j + 1].ref_id = incr_chkpts'[k + 1].ref_id
                              /\ j \in spoiled' => k \in spoiled'
    <3> SUFFICES ASSUME NEW k \in Taken
                 PROVE  /\ incr_chkpts'[k + 1].ref_id <= k
                        /\ \A j \in incr_chkpts'[k + 1].ref_id .. k :
                             /\ incr_chkpts'[j + 1].ref_id = incr_chkpts'[k + 1].ref_id
                             /\ j \in spoiled' => k \in spoiled'
      OBVIOUS
    <3>1. Chkpt(k).ref_id \in Nat /\ k \in Nat /\ Chkpt(k).ref_id <= k
      BY StoredFacts DEF Exact, ChainsUnbroken
    <3>2. \A j \in Chkpt(k).ref_id .. k : j \in Taken
      BY <3>1 DEF Taken
    <3>3. \A j \in Taken : j \in spoiled' <=> j \in spoiled
      BY <1>1, <1>2, <1>3
    <3> QED
      BY <1>3, <3>1, <3>2, <3>3 DEF Exact, ChainsUnbroken, Chkpt
  <2>2. ASSUME NEW j \in baseline_id .. K
        PROVE  incr_chkpts'[j + 1].ref_id = baseline_id /\ (j \in spoiled' => K \in spoiled')
    <3>1. CASE j = K
      BY <1>3, <3>1
    <3>2. CASE j # K
      <4>1. /\ K - 1 \in Taken /\ j \in Taken /\ j \in Chkpt(K - 1).ref_id .. K - 1
            /\ baseline_id = Chkpt(K - 1).ref_id
            /\ K - 1 \in spoiled => K \in spoiled
        BY <1>2, <1>5, <1>6, <3>2 DEF Taken
      <4>2. Chkpt(j).ref_id = Chkpt(K - 1).ref_id /\ (j \in spoiled => K - 1 \in spoiled)
        BY <4>1 DEF Exact, ChainsUnbroken
      <4>3. (j \in spoiled' => j \in spoiled) /\ (K \in spoiled => K \in spoiled')
        BY <1>1, <1>2, <1>3, <4>1
      <4> QED
        BY <1>3, <4>1, <4>2, <4>3 DEF Chkpt
    <3> QED
      BY <3>1, <3>2
  <2>3. current_id' - 1 = K /\ Chkpt(current_id - 1)' = incr_chkpts'[K + 1]
    BY <1>1, <1>2 DEF Chkpt
  <2>4. Continues'
    BY <1>1, <1>2, <1>3, <2>3 DEF Continues, Chkpt
  <2> QED
    BY <1>1, <1>3, <1>7, <2>1, <2>2, <2>4 DEF ChainsUnbroken, Chkpt
<1>9. OmittedUnchanged'
  <2>1. ASSUME NEW k \in Taken \ spoiled,
               NEW c \in Chunks(history[k + 1].len) \ Saved(k)
        PROVE  /\ k > incr_chkpts'[k + 1].ref_id
               /\ incr_chkpts'[k - 1 + 1].ref_id = incr_chkpts'[k + 1].ref_id
               /\ c \in Chunks(history'[k].len)
               /\ history'[k].chunk[c] = history'[k + 1].chunk[c]
    <3>1. /\ k > Chkpt(k).ref_id
          /\ Chkpt(k - 1).ref_id = Chkpt(k).ref_id
          /\ c \in Chunks(history[k].len)
          /\ history[k].chunk[c] = history[k + 1].chunk[c]
      BY <2>1 DEF Exact, OmittedUnchanged
    <3>2. k - 1 \in Taken /\ k - 1 + 1 = k
      BY <3>1, StoredFacts DEF Exact, Taken
    <3>3. history'[k] = history[k] /\ incr_chkpts'[k - 1 + 1] = incr_chkpts[k - 1 + 1]
      BY <1>3, <3>2
    <3> QED
      BY <1>3, <3>1, <3>3 DEF Chkpt
  <2>2. ASSUME K \notin spoiled, NEW c \in Chunks(data.len),
               \A i \in DOMAIN buffer : buffer[i].node # c
        PROVE  /\ K > baseline_id
               /\ incr_chkpts'[K - 1 + 1].ref_id = baseline_id
               /\ c \in Chunks(history'[K].len)
               /\ history'[K].chunk[c] = data.chunk[c]
    <3>1. c \notin changes
      BY <1>1, <2>2 DEF Exact, GatheredAll
    <3>2. baseline_id < K /\ history[K].chunk[c] = data.chunk[c]
      BY <1>4, <2>2, <3>1
    <3>3. K > 0 /\ K - 1 \in Taken /\ K - 1 + 1 = K
          /\ baseline_id = Chkpt(K - 1).ref_id
      BY <1>2, <1>5, <1>6, <3>2
    <3>4. history'[K] = history[K] /\ incr_chkpts'[K - 1 + 1] = incr_chkpts[K - 1 + 1]
      BY <1>3, <3>3
    <3>5. history[K].len = data.len
      <4>1. data.len \in Lengths
        BY <1>1, DataFacts DEF Exact, Coherent, GatheredTrue
      <4>2. history[K - 1 + 1].len = Chkpt(K - 1).len /\ Chkpt(K - 1).len \in Lengths
        BY <3>3, StoredFacts DEF Exact
      <4> QED
        BY <3>3, <4>1, <4>2, OneSize
    <3> QED
      BY <3>2, <3>3, <3>4, <3>5 DEF Chkpt
  <2> SUFFICES ASSUME NEW k \in Taken', k \notin spoiled',
                      NEW c \in Chunks(history'[k + 1].len),
                      \A i \in DOMAIN incr_chkpts'[k + 1].first_ocur :
                        incr_chkpts'[k + 1].first_ocur[i].node # c
               PROVE  /\ k > incr_chkpts'[k + 1].ref_id
                      /\ incr_chkpts'[k - 1 + 1].ref_id = incr_chkpts'[k + 1].ref_id
                      /\ c \in Chunks(history'[k].len)
                      /\ history'[k].chunk[c] = history'[k + 1].chunk[c]
    BY DEF OmittedUnchanged, Saved, Chkpt, Chunks
  <2>3. k \notin spoiled
    BY <1>1
  <2>4. CASE k \in Taken
    <3>1. c \in Chunks(history[k + 1].len) \ Saved(k)
      BY <1>3, <2>4 DEF Saved, Chkpt
    <3> QED
      BY <2>1, <2>3, <2>4, <3>1
  <2>5. CASE k = K
    BY <1>3, <2>2, <2>3, <2>5
  <2> QED
    BY <1>3, <2>4, <2>5
<1>10. UnchangedOmitted'
  <2> SUFFICES ASSUME NEW k \in Taken', k \notin spoiled',
                      NEW i \in DOMAIN incr_chkpts'[k + 1].first_ocur, NEW c,
                      c = incr_chkpts'[k + 1].first_ocur[i].node,
                      k > incr_chkpts'[k + 1].ref_id, c \in Chunks(history'[k].len)
               PROVE  history'[k].chunk[c] # history'[k + 1].chunk[c]
    BY DEF UnchangedOmitted, Saved, Chkpt, Chunks
  <2>1. k \notin spoiled /\ k \in Nat
    BY <1>1, <1>2, <1>3
  <2>2. k > 0
    <3>1. incr_chkpts'[k + 1].ref_id \in Nat
      BY <1>2, <1>3, StoredFacts DEF Exact, Chkpt
    <3> QED
      BY <2>1, <3>1
  <2>3. CASE k \in Taken
    <3>1. history'[k] = history[k]
      <4>1. k - 1 \in Taken /\ k - 1 + 1 = k
        BY <2>1, <2>2, <2>3 DEF Taken
      <4> QED
        BY <1>3, <4>1
    <3>2. c \in Saved(k) /\ k > Chkpt(k).ref_id /\ c \in Chunks(history[k].len)
      BY <1>3, <2>3, <3>1 DEF Saved, Chkpt
    <3> QED
      BY <1>3, <2>1, <2>3, <3>1, <3>2 DEF Exact, UnchangedOmitted
  <2>4. CASE k = K
    <3>1. c \in changes /\ c \in Chunks(data.len)
      BY <1>1, <1>3, <2>4 DEF Exact, Coherent, GatheredTrue
    <3>2. history'[K] = history[K]
      BY <1>2, <1>3, <2>2, <2>4 DEF Taken
    <3> QED
      BY <1>3, <1>4, <2>1, <2>4, <3>1, <3>2
  <2> QED
    BY <1>3, <2>3, <2>4
<1>11. ListIsNewest' /\ ListAhead'
  <2>1. history'[current_id'] = data
    BY <1>1, <1>2, <1>3
  <2>2. current_id' \notin spoiled' => K \notin spoiled
    BY <1>1, <1>2
  <2> QED
    BY <1>1, <1>4, <2>1, <2>2 DEF ListIsNewest, ListAhead, Exact
<1>12. GatheredAll' /\ WalkTrue' /\ RestartExact'
  BY <1>1 DEF GatheredAll, WalkTrue, RestartExact, Restarting
<1> QED
  BY <1>8, <1>9, <1>10, <1>11, <1>12 DEF Exact

\* A write that fails spoils the checkpoint that was being taken.
LEMMA ExactFailToWrite ==
  ASSUME Exact, FailToWrite, Coherent'
  PROVE  Exact'
<1>1. /\ pc = "collect" /\ pc' = "idle" /\ spoiled' = spoiled \cup {current_id}
      /\ UNCHANGED <<current_id, baseline_id, bits, list, incr_chkpts, history>>
  BY DEF FailToWrite
<1>2. current_id = Len(incr_chkpts) /\ current_id \in Nat
  BY DEF Exact, Coherent, HeadersTrue, TypeOK
<1>3. ChainsUnbroken' /\ OmittedUnchanged' /\ UnchangedOmitted'
  <2>1. \A k \in Taken : k \in spoiled' <=> k \in spoiled
    BY <1>1, <1>2 DEF Taken
  <2>2. Continues' \/ baseline_id' = current_id
    BY <1>1 DEF Exact, ChainsUnbroken, Continues, Chkpt
  <2> QED
    BY <1>1, <2>1, <2>2, ChainStutter DEF Exact
<1>4. ListAhead' /\ ListIsNewest'
  BY <1>1 DEF Exact, ListAhead, ListIsNewest
<1>5. GatheredAll' /\ WalkTrue' /\ RestartExact'
  BY <1>1 DEF GatheredAll, WalkTrue, RestartExact, Restarting
<1> QED
  BY <1>3, <1>4, <1>5 DEF Exact

LEMMA ExactOpen ==
  ASSUME Steady, Exact, NEW k \in Taken, RestartFromViews(k) \/ RestartFromFiles(k), Coherent'
  PROVE  Exact'
<1>1. OpenCheckpoint(k)
  BY DEF RestartFromViews, RestartFromFiles
<1>2. /\ pc = "idle" /\ pc' = "first" /\ target' = k /\ ref_id' = Chkpt(k).ref_id
      /\ todo' = 1 .. Chkpt(k).num_first_ocur
      /\ node_list' = [c \in Chunks(Chkpt(k).len) |-> Untouched]
      /\ out'.len = Chkpt(k).len
      /\ UNCHANGED dedupVars
  BY <1>1, StoredFacts DEF OpenCheckpoint, Exact, Steady, TeamsExact
<1>3. /\ GatheredAll' /\ ChainsUnbroken' /\ OmittedUnchanged' /\ UnchangedOmitted'
      /\ ListAhead' /\ ListIsNewest'
  BY <1>2, RestartKeepsList
<1>4. incr_chkpts'[target' + 1] = Chkpt(k)
  BY <1>2 DEF dedupVars, Chkpt
<1>5. WalkTrue' /\ RestartExact'
  BY <1>2, <1>4 DEF WalkTrue, RestartExact, Chkpt
<1> QED
  BY <1>3, <1>5 DEF Exact

\* A copy of one chunk, to the place its entry names: it is restored as it was at
\* checkpoint k, and no other is touched.
LEMMA CopyOne ==
  ASSUME Coherent, Restarting, pc # "restarted", NEW k \in Taken,
         Chkpt(k).len <= Chkpt(target).len,
         NEW i \in 1 .. Chkpt(k).num_first_ocur,
         CopyEntry(k, i, Chkpt(k).first_ocur[i].node),
         Slot(Chkpt(k).first_ocur[i].node) = Chkpt(k).first_ocur[i].node,
         Slot(i - 1) = i - 1
  PROVE  /\ out'.chunk[Chkpt(k).first_ocur[i].node]
              = history[k + 1].chunk[Chkpt(k).first_ocur[i].node]
         /\ \A c \in Chunks(out.len) \ {Chkpt(k).first_ocur[i].node} :
              out'.chunk[c] = out.chunk[c]
         /\ Chkpt(k).first_ocur[i].node \in Chunks(out.len)
         /\ out'.len = out.len
         /\ DOMAIN out'.chunk = DOMAIN out.chunk
<1> DEFINE c == Chkpt(k).first_ocur[i].node
           v == history[k + 1].chunk[c]
<1>1. out.len = Chkpt(target).len /\ ViewOK(out)
  BY DEF Coherent, RestartInRange, TypeOK
<1>2. c \in Chunks(Chkpt(k).len) /\ c \in Nat /\ Chkpt(k).first_ocur[i].data = v
  BY StoredFacts
<1>3. CopySize(k, c) = 1 /\ c \in Chunks(out.len)
  BY <1>1, <1>2, OneCopied
<1>4. DataAt(k, i) = v
  BY <1>2, StoredFacts DEF DataAt
<1>5. c \in DOMAIN out.chunk /\ out = [len |-> out.len, chunk |-> out.chunk]
  BY <1>1, <1>3, ViewFacts DEF ViewOK
<1>6. Slot(c) .. Slot(c) + CopySize(k, c) - 1 = {c} /\ Slot(i - 1) + 1 + c - Slot(c) = i
  BY <1>2, <1>3
<1> DEFINE f == [x \in DOMAIN out.chunk |-> IF x = c THEN v ELSE out.chunk[x]]
<1>7. out' = [out EXCEPT !.chunk = f]
  <2> DEFINE g == [x \in DOMAIN out.chunk \cup (Slot(c) .. Slot(c) + CopySize(k, c) - 1) |->
                     IF x \in Slot(c) .. Slot(c) + CopySize(k, c) - 1
                     THEN DataAt(k, Slot(i - 1) + 1 + x - Slot(c)) ELSE out.chunk[x]]
  <2>1. out' = [out EXCEPT !.chunk = g]
    BY DEF CopyEntry
  <2>2. g = f
    BY <1>4, <1>5, <1>6
  <2> HIDE DEF f, g
  <2> QED
    BY <2>1, <2>2
<1>8. out' = [len |-> out.len, chunk |-> f]
  <2> HIDE DEF f
  <2> QED
    BY <1>5, <1>7
<1>9. \A x \in Chunks(out.len) : x \in DOMAIN out.chunk
  BY <1>1 DEF ViewOK
<1> QED
  BY <1>3, <1>5, <1>8, <1>9

\* In a steady instance the copy of the entry of chunk c of checkpoint k restores
\* that chunk as it was at checkpoint k, and touches no other.
LEMMA CopyExact ==
  ASSUME Steady, Coherent, Restarting, pc # "restarted", NEW k \in Taken,
         NEW i \in 1 .. Chkpt(k).num_first_ocur,
         CopyEntry(k, i, Chkpt(k).first_ocur[i].node)
  PROVE  /\ out'.chunk[Chkpt(k).first_ocur[i].node]
              = history[k + 1].chunk[Chkpt(k).first_ocur[i].node]
         /\ \A c \in Chunks(out.len) \ {Chkpt(k).first_ocur[i].node} :
              out'.chunk[c] = out.chunk[c]
         /\ Chkpt(k).first_ocur[i].node \in Chunks(out.len)
         /\ out'.len = out.len
<1> DEFINE c == Chkpt(k).first_ocur[i].node
<1>1. target \in Taken /\ out.len = Chkpt(target).len
  BY SteadyView
<1>2. out.len \in Lengths /\ Chkpt(k).len = out.len /\ out.len \in Nat
  BY <1>1, StoredFacts, OneSize
<1>3. c \in Chunks(out.len) /\ Chkpt(k).first_ocur[i].data = history[k + 1].chunk[c]
  BY <1>2, StoredFacts
<1>4. Slot(c) = c
  BY <1>2, <1>3, SlotExact
<1>5. Slot(i - 1) = i - 1
  <2>1. Chkpt(k).num_first_ocur <= out.len
    <3> DEFINE S == Chkpt(k).first_ocur
               f == [x \in 1 .. Chkpt(k).num_first_ocur |-> S[x].node]
    <3>1. f \in [1 .. Chkpt(k).num_first_ocur -> Chunks(out.len)]
      BY <1>2, StoredFacts
    <3>2. \A x, y \in 1 .. Chkpt(k).num_first_ocur : f[x] = f[y] => x = y
      BY StoredFacts DEF Coherent, EntriesTrue
    <3>3. f \in Injection(1 .. Chkpt(k).num_first_ocur, Chunks(out.len))
      BY <3>1, <3>2 DEF Injection, IsInjective
    <3>4. /\ IsFiniteSet(Chunks(out.len))
          /\ Cardinality(Chunks(out.len)) = out.len
          /\ Cardinality(1 .. Chkpt(k).num_first_ocur) = Chkpt(k).num_first_ocur
      <4>1. Chkpt(k).num_first_ocur \in Nat
        BY StoredFacts
      <4>2. ASSUME NEW m \in Nat
            PROVE  /\ IsFiniteSet(0 .. m - 1) /\ Cardinality(0 .. m - 1) = m
                   /\ Cardinality(1 .. m) = m
        <5>1. 0 \in Int /\ 1 \in Int /\ m - 1 \in Int /\ m \in Int
          OBVIOUS
        <5>2. Cardinality(0 .. m - 1) = IF 0 > m - 1 THEN 0 ELSE m - 1 - 0 + 1
          BY <5>1, FS_Interval
        <5>3. Cardinality(1 .. m) = IF 1 > m THEN 0 ELSE m - 1 + 1
          BY <5>1, FS_Interval
        <5>4. IsFiniteSet(0 .. m - 1)
          BY <5>1, FS_Interval
        <5> QED
          BY <5>2, <5>3, <5>4
      <4> QED
        BY <1>2, <4>1, <4>2 DEF Chunks
    <3> QED
      BY <3>3, <3>4, FS_Injection
  <2>2. i - 1 \in Chunks(out.len)
    BY <1>2, <2>1, StoredFacts DEF Chunks
  <2>3. Slot(i - 1) = i - 1
    BY <1>2, <2>2, SlotExact
  <2> QED
    BY <2>3
<1> QED
  BY <1>1, <1>2, <1>4, <1>5, CopyOne

LEMMA ExactRestartFirst ==
  ASSUME Steady, Exact, NEW i \in todo, RestartFirst(i), Coherent',
         target \notin spoiled
  PROVE  Exact'
<1> DEFINE node == Chkpt(target).first_ocur[i].node
           num == Chkpt(target).num_first_ocur
<1>1. /\ pc = "first" /\ pc' = "first" /\ todo' = todo \ {i}
      /\ node_list' = [node_list EXCEPT ![node] = Chkpt(target).chkpt_id]
      /\ CopyEntry(target, i, node)
      /\ UNCHANGED <<dedupVars, target, via, idx, ref_id>>
  BY DEF RestartFirst
<1>2. /\ target \in Taken /\ Restarting
      /\ node_list \in [Chunks(out.len) -> Int]
      /\ i \in 1 .. num
      /\ todo \subseteq 1 .. num
      /\ out'.len = out.len
  BY <1>1, SteadyView, CopyExact DEF Exact, Coherent, RestartInRange, Restarting
<1>3. /\ GatheredAll' /\ ChainsUnbroken' /\ OmittedUnchanged' /\ UnchangedOmitted'
      /\ ListAhead' /\ ListIsNewest'
  BY <1>1, RestartKeepsList
<1>4. /\ out'.chunk[node] = history[target + 1].chunk[node]
      /\ \A c \in Chunks(out.len) \ {node} : out'.chunk[c] = out.chunk[c]
      /\ node \in Chunks(out.len)
  BY <1>1, <1>2, CopyExact DEF Exact
<1>5. Chkpt(target).chkpt_id = target
  BY <1>2, StoredFacts DEF Exact
<1>6. ASSUME NEW c \in Chunks(out.len)
      PROVE  IF \E j \in (1 .. num) \ todo' : Chkpt(target).first_ocur[j].node = c
             THEN node_list'[c] = target /\ out'.chunk[c] = history[target + 1].chunk[c]
             ELSE node_list'[c] = Untouched
  <2>1. CASE c = node
    BY <1>1, <1>2, <1>4, <1>5, <2>1
  <2>2. CASE c # node
    <3>1. (\E j \in (1 .. num) \ todo' : Chkpt(target).first_ocur[j].node = c)
            <=> (\E j \in (1 .. num) \ todo : Chkpt(target).first_ocur[j].node = c)
      BY <1>1, <2>2
    <3>2. node_list'[c] = node_list[c] /\ out'.chunk[c] = out.chunk[c]
      BY <1>1, <1>2, <1>4, <2>2
    <3> QED
      BY <1>1, <3>1, <3>2 DEF Exact, WalkTrue, Restored
  <2> QED
    BY <2>1, <2>2
<1>7. WalkTrue'
  <2>1. /\ incr_chkpts'[target' + 1] = Chkpt(target) /\ history'[target' + 1] = history[target + 1]
        /\ target' = target /\ ref_id' = Chkpt(target).ref_id
    BY <1>1, <1>2 DEF Exact, WalkTrue, Chkpt, dedupVars
  <2> QED
    BY <1>1, <1>2, <1>6, <2>1 DEF WalkTrue, Chkpt, Restored
<1>8. RestartExact'
  BY <1>1 DEF RestartExact
<1> QED
  BY <1>3, <1>7, <1>8 DEF Exact

\* A chunk that the chain's checkpoint k does not hold is the same in checkpoint
\* k - 1, which belongs to the chain.
LEMMA StepBack ==
  ASSUME Steady, Exact, Restarting, target \notin spoiled,
         NEW k \in Taken, ref_id <= k, k <= target, NEW c \in Chunks(out.len), c \notin Saved(k)
  PROVE  k - 1 >= ref_id /\ history[k].chunk[c] = history[k + 1].chunk[c]
<1>1. target \in Taken /\ out.len = Chkpt(target).len /\ ref_id = Chkpt(target).ref_id
  BY SteadyView DEF Exact, WalkTrue
<1>2. k \in Nat /\ target \in Nat /\ ref_id \in Nat
  BY <1>1, StoredFacts DEF Exact
<1>3. Chkpt(k).ref_id = ref_id /\ k \notin spoiled
  BY <1>1, <1>2 DEF Exact, ChainsUnbroken
<1>4. history[k + 1].len = out.len
  BY <1>1, StoredFacts, OneSize DEF Exact
<1>5. k > Chkpt(k).ref_id /\ history[k].chunk[c] = history[k + 1].chunk[c]
  BY <1>3, <1>4 DEF Exact, OmittedUnchanged
<1> QED
  BY <1>2, <1>3, <1>5

LEMMA ExactFillSame ==
  ASSUME Steady, Exact, FillSame, Coherent',
         target \notin spoiled
  PROVE  Exact'
<1>1. /\ pc = "first" /\ pc' = "load" /\ todo = {} /\ idx' = target - 1
      /\ node_list' = [c \in DOMAIN node_list |->
                         IF node_list[c] = Untouched THEN Chkpt(target).chkpt_id - 1
                         ELSE node_list[c]]
      /\ UNCHANGED <<dedupVars, target, via, ref_id, out>>
  BY DEF FillSame
<1>2. /\ target \in Taken /\ Restarting
      /\ node_list \in [Chunks(out.len) -> Int]
      /\ ref_id = Chkpt(target).ref_id
  BY <1>1, SteadyView DEF Exact, Restarting, WalkTrue
<1>3. /\ GatheredAll' /\ ChainsUnbroken' /\ OmittedUnchanged' /\ UnchangedOmitted'
      /\ ListAhead' /\ ListIsNewest'
  BY <1>1, RestartKeepsList
<1>4. /\ Chkpt(target).chkpt_id = target /\ target \in Nat /\ ref_id \in Nat
      /\ DOMAIN Chkpt(target).first_ocur = 1 .. Chkpt(target).num_first_ocur
      /\ ref_id <= target
  BY <1>2, StoredFacts DEF Exact, ChainsUnbroken
<1>5. ASSUME NEW c \in Chunks(out.len)
      PROVE  \/ node_list'[c] > target - 1 /\ Restored(c)
             \/ /\ node_list'[c] = target - 1
                /\ target - 1 >= ref_id
                /\ history[target].chunk[c] = history[target + 1].chunk[c]
  <2>1. CASE c \in Saved(target)
    <3>1. node_list[c] = target /\ Restored(c)
      BY <1>1, <1>4, <2>1 DEF Exact, WalkTrue, Saved
    <3>2. node_list'[c] = target
      BY <1>1, <1>2, <1>4, <3>1 DEF Untouched
    <3> QED
      BY <1>4, <3>1, <3>2
  <2>2. CASE c \notin Saved(target)
    <3>1. node_list[c] = Untouched
      BY <1>1, <1>4, <2>2 DEF Exact, WalkTrue, Saved
    <3>2. node_list'[c] = target - 1
      BY <1>1, <1>2, <1>4, <3>1
    <3> QED
      BY <1>2, <1>4, <2>2, <3>2, StepBack
  <2> QED
    BY <2>1, <2>2
<1>6. WalkTrue'
  <2>1. /\ incr_chkpts'[target' + 1] = Chkpt(target)
        /\ history' = history /\ out' = out /\ target' = target /\ ref_id' = ref_id
        /\ idx' < target /\ idx' + 1 = target
    BY <1>1, <1>4 DEF Chkpt, dedupVars
  <2> QED
    BY <1>1, <1>2, <1>5, <2>1 DEF WalkTrue, Chkpt, Restored, Deferred
<1>7. RestartExact'
  BY <1>1 DEF RestartExact
<1> QED
  BY <1>3, <1>6, <1>7 DEF Exact

LEMMA ExactLoadPrior ==
  ASSUME Steady, Exact, LoadPrior, Coherent',
         target \notin spoiled
  PROVE  Exact'
<1>1. /\ pc = "load" /\ pc' = "middle" /\ idx >= ref_id
      /\ ref_id' = Chkpt(idx).ref_id /\ todo' = DOMAIN node_list
      /\ UNCHANGED <<dedupVars, target, via, idx, node_list, out>>
  BY DEF LoadPrior
<1>2. /\ target \in Taken /\ ref_id = Chkpt(target).ref_id /\ idx < target /\ idx \in Int
      /\ DOMAIN node_list = Chunks(out.len)
  BY <1>1, SteadyView DEF Exact, Coherent, TypeOK, Restarting, WalkTrue
<1>3. /\ GatheredAll' /\ ChainsUnbroken' /\ OmittedUnchanged' /\ UnchangedOmitted'
      /\ ListAhead' /\ ListIsNewest'
  BY <1>1, RestartKeepsList
<1>4. Chkpt(idx).ref_id = ref_id
  <2>1. idx \in Chkpt(target).ref_id .. target
    BY <1>1, <1>2, StoredFacts DEF Exact
  <2> QED
    BY <1>2, <2>1 DEF Exact, ChainsUnbroken
<1>5. WalkTrue'
  <2>1. /\ incr_chkpts'[target' + 1] = Chkpt(target)
        /\ history' = history /\ out' = out /\ target' = target /\ ref_id' = ref_id
        /\ node_list' = node_list /\ idx' = idx
    BY <1>1, <1>4 DEF Chkpt, dedupVars
  <2>2. \A c \in Chunks(out.len) : \/ node_list[c] > idx /\ Restored(c)
                                   \/ Deferred(c, idx)
    BY <1>1 DEF Exact, WalkTrue
  <2> QED
    BY <1>1, <1>2, <2>1, <2>2 DEF WalkTrue, Chkpt, Restored, Deferred
<1>6. RestartExact'
  BY <1>1 DEF RestartExact
<1> QED
  BY <1>3, <1>5, <1>6 DEF Exact

LEMMA ExactRestartMiddle ==
  ASSUME Steady, Exact, NEW c \in todo, RestartMiddle(c), Coherent',
         target \notin spoiled
  PROVE  Exact'
<1>1. /\ pc = "middle" /\ pc' = "middle" /\ todo' = todo \ {c}
      /\ UNCHANGED <<dedupVars, target, via, idx, ref_id>>
  BY DEF RestartMiddle
<1>2. /\ target \in Taken /\ idx \in Taken /\ Restarting
      /\ node_list \in [Chunks(out.len) -> Int]
      /\ c \in Chunks(out.len)
      /\ ref_id = Chkpt(target).ref_id /\ idx >= ref_id /\ idx < target
  BY <1>1, SteadyView DEF Exact, Coherent, RestartInRange, Restarting, WalkTrue, Taken
<1>3. /\ GatheredAll' /\ ChainsUnbroken' /\ OmittedUnchanged' /\ UnchangedOmitted'
      /\ ListAhead' /\ ListIsNewest'
  BY <1>1, RestartKeepsList
<1>4. Chkpt(idx).chkpt_id = idx /\ idx \in Nat /\ target \in Nat
      /\ DOMAIN Chkpt(idx).first_ocur = 1 .. Chkpt(idx).num_first_ocur
  BY <1>2, StoredFacts DEF Exact
<1>5. \/ node_list[c] > idx /\ Restored(c)
      \/ Deferred(c, idx)
  BY <1>1, <1>2 DEF Exact, WalkTrue
<1>6. /\ \A x \in Chunks(out.len) \ {c} :
           node_list'[x] = node_list[x] /\ out'.chunk[x] = out.chunk[x]
      /\ out'.len = out.len
      /\ \/ node_list'[c] >= idx /\ out'.chunk[c] = history[target + 1].chunk[c]
         \/ /\ node_list'[c] = idx - 1 /\ idx - 1 >= ref_id
            /\ history[idx].chunk[c] = history[target + 1].chunk[c]
  <2>1. CASE node_list[c] # idx /\ UNCHANGED <<node_list, out>>
    BY <1>2, <1>4, <1>5, <2>1 DEF Deferred, Restored
  <2>2. CASE /\ node_list[c] = idx
             /\ \E i \in DistinctMap(idx, c) : CopyEntry(idx, i, c)
             /\ UNCHANGED node_list
    <3>1. PICK i \in 1 .. Chkpt(idx).num_first_ocur :
            Chkpt(idx).first_ocur[i].node = c /\ CopyEntry(idx, i, c)
      BY <2>2 DEF DistinctMap
    <3>2. /\ out'.chunk[c] = history[idx + 1].chunk[c]
          /\ \A x \in Chunks(out.len) \ {c} : out'.chunk[x] = out.chunk[x]
      BY <1>1, <1>2, <3>1, CopyExact DEF Exact
    <3>3. history[idx + 1].chunk[c] = history[target + 1].chunk[c]
      BY <1>4, <1>5, <2>2 DEF Deferred
    <3>4. out'.len = out.len
      BY <1>1, <1>2, <3>1, CopyExact DEF Exact
    <3> QED
      BY <1>4, <2>2, <3>2, <3>3, <3>4
  <2>3. CASE /\ node_list[c] = idx
             /\ DistinctMap(idx, c) = {}
             /\ node_list' = [node_list EXCEPT ![c] = idx - 1]
             /\ UNCHANGED out
    <3>1. c \notin Saved(idx)
      BY <1>4, <2>3 DEF DistinctMap, Saved
    <3>2. idx - 1 >= ref_id /\ history[idx].chunk[c] = history[idx + 1].chunk[c]
      BY <1>2, <1>4, <3>1, StepBack
    <3>3. history[idx + 1].chunk[c] = history[target + 1].chunk[c]
      BY <1>4, <1>5, <2>3 DEF Deferred
    <3> QED
      BY <1>2, <2>3, <3>2, <3>3
  <2> QED
    BY <1>4, <2>1, <2>2, <2>3 DEF RestartMiddle
<1>7. WalkTrue'
  <2>1. /\ incr_chkpts'[target' + 1] = Chkpt(target)
        /\ history' = history /\ target' = target /\ ref_id' = ref_id /\ idx' = idx
        /\ idx - 1 + 1 = idx
    BY <1>1, <1>4 DEF Chkpt, dedupVars
  <2>2. ASSUME NEW x \in Chunks(out.len)
        PROVE  \/ node_list'[x] > idx /\ out'.chunk[x] = history[target + 1].chunk[x]
               \/ x \in todo' /\ /\ node_list'[x] = idx
                                 /\ idx >= ref_id
                                 /\ history[idx + 1].chunk[x] = history[target + 1].chunk[x]
               \/ x \notin todo' /\ \/ /\ node_list'[x] = idx
                                       /\ out'.chunk[x] = history[target + 1].chunk[x]
                                    \/ /\ node_list'[x] = idx - 1
                                       /\ idx - 1 >= ref_id
                                       /\ history[idx].chunk[x] = history[target + 1].chunk[x]
    <3>1. CASE x = c
      <4>1. node_list'[c] \in Int
        <5>1. node_list'[c] = node_list[c] \/ node_list'[c] = idx - 1
          BY <1>2, <1>4 DEF RestartMiddle
        <5> QED
          BY <1>2, <1>4, <5>1
      <4> QED
        BY <1>1, <1>4, <1>6, <3>1, <4>1
    <3>2. CASE x # c
      <4>1. \/ node_list[x] > idx /\ Restored(x)
            \/ x \in todo /\ Deferred(x, idx)
            \/ x \notin todo /\ (\/ node_list[x] = idx /\ Restored(x)
                                 \/ Deferred(x, idx - 1))
        BY <1>1 DEF Exact, WalkTrue
      <4> QED
        BY <1>1, <1>6, <2>1, <3>2, <4>1 DEF Restored, Deferred
    <3> QED
      BY <3>1, <3>2
  <2> QED
    BY <1>1, <1>2, <1>6, <2>1, <2>2 DEF WalkTrue, Chkpt, Restored, Deferred
<1>8. RestartExact'
  BY <1>1 DEF RestartExact
<1> QED
  BY <1>3, <1>7, <1>8 DEF Exact

LEMMA ExactNextPrior ==
  ASSUME Steady, Exact, NextPrior, Coherent',
         target \notin spoiled
  PROVE  Exact'
<1>1. /\ pc = "middle" /\ pc' = "load" /\ todo = {} /\ idx' = idx - 1
      /\ UNCHANGED <<dedupVars, target, via, ref_id, node_list, out>>
  BY DEF NextPrior
<1>2. /\ target \in Taken /\ idx \in Nat /\ target \in Nat /\ idx < target
      /\ node_list \in [Chunks(out.len) -> Int]
  BY <1>1, SteadyView, StoredFacts DEF Exact, Coherent, RestartInRange, Restarting, WalkTrue
<1>3. /\ GatheredAll' /\ ChainsUnbroken' /\ OmittedUnchanged' /\ UnchangedOmitted'
      /\ ListAhead' /\ ListIsNewest'
  BY <1>1, RestartKeepsList
<1>4. WalkTrue'
  <2>1. /\ incr_chkpts'[target' + 1] = Chkpt(target)
        /\ history' = history /\ out' = out /\ target' = target /\ ref_id' = ref_id
        /\ node_list' = node_list /\ idx' + 1 = idx /\ idx' < target
        /\ ref_id = Chkpt(target).ref_id
    BY <1>1, <1>2 DEF Chkpt, dedupVars, Exact, WalkTrue, Restarting
  <2>2. \A c \in Chunks(out.len) : \/ node_list[c] > idx - 1 /\ Restored(c)
                                   \/ Deferred(c, idx - 1)
    BY <1>1, <1>2 DEF Exact, WalkTrue
  <2> QED
    BY <1>1, <2>1, <2>2 DEF WalkTrue, Chkpt, Restored, Deferred
<1>5. RestartExact'
  BY <1>1 DEF RestartExact
<1> QED
  BY <1>3, <1>4, <1>5 DEF Exact

LEMMA ExactFinishRestart ==
  ASSUME Steady, Exact, NEW n \in Lengths, FinishRestart(n), Coherent',
         target \notin spoiled
  PROVE  Exact'
<1>1. /\ pc = "load" /\ pc' = "restarted" /\ idx < ref_id
      /\ UNCHANGED <<dedupVars, target, via, idx, ref_id, node_list>>
      /\ out' = CallersView(n)
  BY DEF FinishRestart
<1>2. /\ target \in Taken /\ idx \in Int /\ ref_id \in Nat
      /\ out.len = Chkpt(target).len
      /\ out.chunk \in [Chunks(out.len) -> Vals \cup {NoVal}]
      /\ ref_id = Chkpt(target).ref_id
  BY <1>1, SteadyView DEF Exact, Coherent, TypeOK, Restarting, WalkTrue
<1>0. UNCHANGED out
  <2>1. n = out.len
    BY <1>1, <1>2, SteadyView, OneSize DEF Exact, Restarting
  <2> QED
    BY <1>1, <2>1 DEF CallersView
<1>3. /\ GatheredAll' /\ ChainsUnbroken' /\ OmittedUnchanged' /\ UnchangedOmitted'
      /\ ListAhead' /\ ListIsNewest'
  BY <1>1, RestartKeepsList
<1>4. RestartExact'
  <2>1. \A c \in Chunks(out.len) : out.chunk[c] = history[target + 1].chunk[c]
    BY <1>1, <1>2 DEF Exact, WalkTrue, Deferred, Restored
  <2>2. /\ history[target + 1] = [len |-> history[target + 1].len,
                                  chunk |-> history[target + 1].chunk]
        /\ history[target + 1].len = out.len
        /\ history[target + 1].chunk \in [Chunks(out.len) -> Vals]
    BY <1>2, StoredFacts, DataFacts DEF Exact
  <2>3. out = [len |-> out.len, chunk |-> out.chunk]
    BY <1>1, SteadyView DEF Exact, Restarting
  <2>4. out.chunk = history[target + 1].chunk
    BY <1>2, <2>1, <2>2
  <2>5. out = history[target + 1]
    BY <2>2, <2>3, <2>4
  <2> QED
    BY <1>0, <1>1, <2>5 DEF RestartExact, dedupVars
<1>5. WalkTrue'
  BY <1>0, <1>1, <1>2 DEF WalkTrue, Chkpt, dedupVars
<1> QED
  BY <1>3, <1>4, <1>5 DEF Exact

LEMMA ExactRelease ==
  ASSUME Exact, Release, Coherent'
  PROVE  Exact'
<1>1. pc = "restarted" /\ pc' = "idle" /\ UNCHANGED dedupVars
  BY DEF Release
<1>2. /\ GatheredAll' /\ ChainsUnbroken' /\ OmittedUnchanged' /\ UnchangedOmitted'
      /\ ListAhead' /\ ListIsNewest'
  BY <1>1, RestartKeepsList
<1>3. WalkTrue' /\ RestartExact'
  BY <1>1 DEF WalkTrue, RestartExact, Restarting
<1> QED
  BY <1>2, <1>3 DEF Exact

LEMMA ExactInit == Init => Exact
<1> SUFFICES ASSUME Init PROVE Exact
  OBVIOUS
<1>1. Coherent
  BY CoherentInit
<1>2. GatheredAll /\ ListAhead /\ ListIsNewest /\ WalkTrue /\ RestartExact
  BY DEF Init, GatheredAll, ListAhead, ListIsNewest, WalkTrue, RestartExact, Restarting
<1>3. ChainsUnbroken /\ OmittedUnchanged /\ UnchangedOmitted
  BY DEF Init, ChainsUnbroken, OmittedUnchanged, UnchangedOmitted, Taken
<1> QED
  BY <1>1, <1>2, <1>3 DEF Exact

LEMMA ExactStutter ==
  ASSUME Exact, UNCHANGED vars
  PROVE  Exact'
<1>1. Coherent'
  BY CoherentStutter DEF Exact
<1>2. GatheredAll' /\ ListAhead' /\ ListIsNewest' /\ RestartExact'
  BY DEF Exact, GatheredAll, ListAhead, ListIsNewest, RestartExact, Fits, vars, dedupVars, restartVars
<1>3. ChainsUnbroken' /\ OmittedUnchanged' /\ UnchangedOmitted'
  BY ChainStutter DEF Exact, ChainsUnbroken, Continues, Chkpt, vars, dedupVars
<1>4. WalkTrue'
  BY DEF Exact, WalkTrue, Restarting, Restored, Deferred, Chkpt, vars, dedupVars, restartVars
<1> QED
  BY <1>1, <1>2, <1>3, <1>4 DEF Exact

\* One action at a time.
LEMMA ExactStep ==
  ASSUME Steady, Exact, [Next]_vars
  PROVE  Exact'
<1>1. Coherent'
  BY CoherentStep DEF Exact, Steady
<1>2. CASE Call
  <2>1. ASSUME NEW d \in Data, NEW m \in BOOLEAN, Checkpoint(d, m) PROVE Exact'
    BY <1>1, <2>1, ExactCheckpoint
  <2>2. ASSUME NEW k \in 0 .. Len(incr_chkpts) - 1,
               RestartFromViews(k) \/ RestartFromFiles(k)
        PROVE Exact'
    BY <1>1, <2>2, ExactOpen DEF Taken
  <2>3. CASE Release
    BY <1>1, <2>3, ExactRelease
  <2> QED
    BY <1>2, <2>1, <2>2, <2>3 DEF Call
<1>3. CASE Progress
  <2>1. ASSUME NEW c \in todo, DedupChunk(c) \/ GatherChunk(c) PROVE Exact'
    BY <1>1, <2>1, ExactDedupChunk, ExactGatherChunk
  <2>2. CASE StartCollect \/ FinishCheckpoint \/ FailToWrite
    BY <1>1, <2>2, ExactStartCollect, ExactFinishCheckpoint, ExactFailToWrite
  <2>3. CASE \/ \E c \in todo : RestartFirst(c) \/ RestartMiddle(c)
             \/ FillSame \/ LoadPrior \/ NextPrior
             \/ \E n \in Lengths : FinishRestart(n)
    <3>1. CASE target \in spoiled
      <4>1. /\ pc \notin {"dedup", "collect"} /\ pc' \notin {"dedup", "collect"}
            /\ UNCHANGED <<dedupVars, target>>
        BY <2>3 DEF RestartFirst, RestartMiddle, FillSame, LoadPrior, NextPrior, FinishRestart,
                    restartVars
      <4> QED
        BY <1>1, <3>1, <4>1, SpoiledRestart
    <3>2. CASE target \notin spoiled
      BY <1>1, <2>3, <3>2, ExactRestartFirst, ExactRestartMiddle, ExactFillSame, ExactLoadPrior,
         ExactNextPrior, ExactFinishRestart
    <3> QED
      BY <3>1, <3>2
  <2> QED
    BY <1>3, <2>1, <2>2, <2>3 DEF Progress
<1>4. CASE UNCHANGED vars
  BY <1>4, ExactStutter
<1> QED
  BY <1>2, <1>3, <1>4 DEF Next

\* Exact is an invariant of every steady instance.
THEOREM ExactAlways == Steady => (Spec => []Exact)
<1> SUFFICES ASSUME Steady PROVE Spec => []Exact
  OBVIOUS
<1>1. Init => Exact
  BY ExactInit
<1>2. Exact /\ [Next]_vars => Exact'
  BY ExactStep
<1> QED
  BY <1>1, <1>2, PTL DEF Spec

\* In a steady instance every restart of checkpoint k, through views or files,
\* ends with exactly the data checkpoint k was given.
THEOREM RestartAlwaysExact == Steady => (Spec => []RestartExact)
<1>1. Exact => RestartExact
  BY DEF Exact
<1> QED
  BY <1>1, ExactAlways, PTL

\* In a steady instance a chunk left out of a checkpoint has not changed since
\* the previous checkpoint of its chain.
THEOREM OmittedAlwaysUnchanged == Steady => (Spec => []OmittedUnchanged)
<1>1. Exact => OmittedUnchanged
  BY DEF Exact
<1> QED
  BY <1>1, ExactAlways, PTL

\* ... and, but for baselines, no chunk is kept that has not.
THEOREM UnchangedAlwaysOmitted == Steady => (Spec => []UnchangedOmitted)
<1>1. Exact => UnchangedOmitted
  BY DEF Exact
<1> QED
  BY <1>1, ExactAlways, PTL

-----------------------------------------------------------------------------
(* Baselines, of every instance *)

LEMMA WholeInit == Init => Whole
<1> SUFFICES ASSUME Init PROVE Whole
  OBVIOUS
<1>1. Coherent
  BY CoherentInit
<1>2. GatheredAll /\ BaselineAhead /\ BaselinesFull /\ BaselineRestored
  BY DEF Init, GatheredAll, BaselineAhead, TakingBaseline, BaselinesFull, BaselineRestored,
         Restarting, Taken
<1> QED
  BY <1>1, <1>2 DEF Whole

\* The baselines stored are kept while none is stored.
LEMMA BaselinesStutter ==
  ASSUME BaselinesFull, UNCHANGED <<incr_chkpts, history>>,
         \A k \in Taken : k \in spoiled' <=> k \in spoiled
  PROVE  BaselinesFull'
BY DEF BaselinesFull, Taken, Chkpt, Saved, Chunks

\* A baseline starts with a list of no digests and a bitset of its own size.  What is
\* not a baseline is not numbered as one, unless it follows one that was lost.
LEMMA WholeCheckpoint ==
  ASSUME TeamsExact, Whole, NEW d \in Data, NEW make_baseline \in BOOLEAN,
         Checkpoint(d, make_baseline), Coherent'
  PROVE  Whole'
<1>1. /\ pc = "idle" /\ pc' = "dedup"
      /\ current_id = 0 => make_baseline
      /\ data' = d /\ todo' = Chunks(d.len) /\ changes' = {}
      /\ UNCHANGED <<current_id, incr_chkpts, history>>
      /\ baseline_id' = IF make_baseline THEN current_id ELSE baseline_id
      /\ spoiled' = IF make_baseline THEN spoiled \ {current_id} ELSE spoiled
  BY DataFacts DEF Checkpoint, TeamsExact
<1>2. current_id = Len(incr_chkpts) /\ current_id \in Nat
  BY DEF Whole, Coherent, HeadersTrue, TypeOK
<1>3. BaselinesFull'
  <2>1. \A k \in Taken : k \in spoiled' <=> k \in spoiled
    BY <1>1, <1>2 DEF Taken
  <2> QED
    BY <1>1, <2>1, BaselinesStutter DEF Whole
<1>4. BaselineAhead'
  <2>1. baseline_id' <= current_id'
    BY <1>1, <1>2 DEF Whole, BaselineAhead
  <2>2. CASE make_baseline
    <3>1. bits' = Chunks(d.len) /\ list' = [c \in Chunks(d.len) |-> NoDigest]
      BY <2>2 DEF Checkpoint
    <3> QED
      BY <1>1, <2>1, <3>1 DEF BaselineAhead
  <2>3. CASE ~make_baseline
    <3>1. ~TakingBaseline'
      BY <1>1, <2>3 DEF TakingBaseline, Whole, BaselineAhead
    <3> QED
      BY <1>1, <2>1, <3>1 DEF BaselineAhead
  <2> QED
    BY <2>2, <2>3
<1>5. GatheredAll' /\ BaselineRestored'
  BY <1>1 DEF GatheredAll, BaselineRestored, Restarting
<1> QED
  BY <1>3, <1>4, <1>5 DEF Whole

\* No digest is that of a content: each chunk of a baseline is found changed.
LEMMA WholeDedupChunk ==
  ASSUME Whole, NEW c \in todo, DedupChunk(c), Coherent'
  PROVE  Whole'
<1>1. /\ pc = "dedup" /\ pc' = "dedup" /\ todo' = todo \ {c}
      /\ UNCHANGED <<current_id, baseline_id, bits, data, incr_chkpts, history, spoiled>>
  BY DEF DedupChunk
<1>2. BaselinesFull'
  BY <1>1, BaselinesStutter DEF Whole
<1>3. BaselineAhead'
  <2> SUFFICES ASSUME TakingBaseline
               PROVE  /\ DOMAIN list' = Chunks(data.len)
                      /\ \A x \in todo' : list'[x] = NoDigest
                      /\ Chunks(data.len) \ todo' \subseteq changes'
    BY <1>1 DEF Whole, BaselineAhead, TakingBaseline
  <2>1. /\ c \in Chunks(data.len) /\ bits = Chunks(data.len) /\ DOMAIN list = Chunks(data.len)
        /\ data.chunk[c] \in Vals
        /\ \A x \in todo : list[x] = NoDigest
        /\ Chunks(data.len) \ todo \subseteq changes
    BY <1>1, DataFacts DEF Whole, BaselineAhead, Coherent, GatheredTrue
  <2>4. Digest(c) = Hash[data.chunk[c]]
    BY <1>1, <2>1, DigestFacts DEF Whole, Coherent, GatheredTrue
  <2>2. Changed(c)
    BY <2>1, <2>4, HashAssumption DEF Changed
  <2>3. /\ list' = [list EXCEPT ![c] = Hash[data.chunk[c]]]
        /\ changes' = (changes \cup {c}) \cap bits
    BY <2>2, <2>4 DEF DedupChunk, BitsetSet
  <2> QED
    BY <1>1, <2>1, <2>3
<1>4. GatheredAll' /\ BaselineRestored'
  BY <1>1 DEF GatheredAll, BaselineRestored, Restarting
<1> QED
  BY <1>2, <1>3, <1>4 DEF Whole

LEMMA WholeStartCollect ==
  ASSUME Whole, StartCollect, Coherent'
  PROVE  Whole'
<1>1. /\ pc = "dedup" /\ pc' = "collect" /\ todo = {} /\ todo' = changes
      /\ UNCHANGED dedupVars
  BY DEF StartCollect
<1>2. BaselinesFull'
  BY <1>1, BaselinesStutter DEF Whole, dedupVars
<1>3. BaselineAhead'
  <2>1. changes \subseteq Chunks(data.len)
    BY <1>1 DEF Whole, Coherent, GatheredTrue
  <2> QED
    BY <1>1, <2>1 DEF Whole, BaselineAhead, TakingBaseline, dedupVars
<1>4. GatheredAll' /\ BaselineRestored'
  BY <1>1 DEF GatheredAll, BaselineRestored, Restarting, dedupVars
<1> QED
  BY <1>2, <1>3, <1>4 DEF Whole

LEMMA WholeGatherChunk ==
  ASSUME Whole, NEW c \in todo, GatherChunk(c), Coherent'
  PROVE  Whole'
<1>1. /\ pc = "collect" /\ pc' = "collect"
      /\ UNCHANGED <<current_id, baseline_id, bits, list, changes, data, incr_chkpts, history,
                     spoiled>>
  BY DEF GatherChunk
<1>2. BaselinesFull'
  BY <1>1, BaselinesStutter DEF Whole
<1>3. BaselineAhead'
  BY <1>1 DEF Whole, BaselineAhead, TakingBaseline
<1>4. GatheredAll' /\ BaselineRestored'
  BY <1>1, GatheredMore DEF Whole, BaselineRestored, Restarting
<1> QED
  BY <1>2, <1>3, <1>4 DEF Whole

\* What is stored of a baseline is what was gathered: every chunk.
LEMMA WholeFinishCheckpoint ==
  ASSUME Whole, FinishCheckpoint, Coherent'
  PROVE  Whole'
<1> DEFINE K == Len(incr_chkpts)
<1>1. /\ pc = "collect" /\ pc' = "idle" /\ todo = {}
      /\ current_id' = current_id + 1 /\ baseline_id' = baseline_id
      /\ spoiled' = IF current_id \in spoiled THEN spoiled \cup {current_id + 1} ELSE spoiled
  BY DEF FinishCheckpoint
<1>2. K = current_id /\ K \in Nat /\ baseline_id \in Nat
  BY DEF Whole, Coherent, HeadersTrue, TypeOK
<1>3. /\ Taken' = Taken \cup {K}
      /\ incr_chkpts'[K + 1].ref_id = baseline_id
      /\ incr_chkpts'[K + 1].len = data.len
      /\ incr_chkpts'[K + 1].first_ocur = buffer
      /\ \A k \in Taken : incr_chkpts'[k + 1] = incr_chkpts[k + 1]
  BY <1>2 DEF FinishCheckpoint, Whole, Coherent, TypeOK, Taken
<1>4. BaselinesFull'
  <2> SUFFICES ASSUME NEW k \in Taken' \ spoiled', incr_chkpts'[k + 1].ref_id = k,
                      NEW c \in Chunks(incr_chkpts'[k + 1].len)
               PROVE  \E i \in DOMAIN incr_chkpts'[k + 1].first_ocur :
                        incr_chkpts'[k + 1].first_ocur[i].node = c
    BY DEF BaselinesFull, Chkpt, Saved, Chunks
  <2>1. CASE k \in Taken
    <3>1. k \notin spoiled /\ incr_chkpts'[k + 1] = Chkpt(k)
      BY <1>1, <1>3, <2>1 DEF Chkpt
    <3> QED
      BY <2>1, <3>1 DEF Whole, BaselinesFull, Saved
  <2>2. CASE k = K
    <3>1. TakingBaseline
      BY <1>1, <1>2, <1>3, <2>2 DEF TakingBaseline
    <3>2. c \in changes \ todo
      BY <1>1, <1>3, <2>2, <3>1 DEF Whole, BaselineAhead
    <3> QED
      BY <1>1, <1>3, <2>2, <3>2 DEF Whole, GatheredAll
  <2> QED
    BY <1>3, <2>1, <2>2
<1>5. BaselineAhead'
  <2>1. baseline_id < current_id'
    BY <1>1, <1>2 DEF Whole, BaselineAhead
  <2> QED
    BY <1>1, <1>2, <2>1 DEF BaselineAhead, TakingBaseline
<1>6. GatheredAll' /\ BaselineRestored'
  BY <1>1 DEF GatheredAll, BaselineRestored, Restarting
<1> QED
  BY <1>4, <1>5, <1>6 DEF Whole

LEMMA WholeFailToWrite ==
  ASSUME Whole, FailToWrite, Coherent'
  PROVE  Whole'
<1>1. /\ pc = "collect" /\ pc' = "idle" /\ spoiled' = spoiled \cup {current_id}
      /\ UNCHANGED <<current_id, baseline_id, incr_chkpts, history>>
  BY DEF FailToWrite
<1>2. \A k \in Taken : k \in spoiled' <=> k \in spoiled
  BY <1>1 DEF Whole, Coherent, HeadersTrue, TypeOK, Taken
<1>3. BaselinesFull'
  BY <1>1, <1>2, BaselinesStutter DEF Whole
<1>4. BaselineAhead'
  BY <1>1 DEF Whole, BaselineAhead, TakingBaseline
<1>5. GatheredAll' /\ BaselineRestored'
  BY <1>1 DEF GatheredAll, BaselineRestored, Restarting
<1> QED
  BY <1>3, <1>4, <1>5 DEF Whole

\* A restart leaves the baselines as they are.
LEMMA RestartKeepsBaselines ==
  ASSUME Whole, UNCHANGED dedupVars,
         pc \notin {"dedup", "collect"}, pc' \notin {"dedup", "collect"}
  PROVE  GatheredAll' /\ BaselineAhead' /\ BaselinesFull'
<1>1. BaselinesFull'
  BY BaselinesStutter DEF Whole, dedupVars
<1>2. GatheredAll' /\ BaselineAhead'
  BY DEF Whole, GatheredAll, BaselineAhead, TakingBaseline, dedupVars
<1> QED
  BY <1>1, <1>2

LEMMA WholeOpen ==
  ASSUME TeamsExact, Whole, NEW k \in Taken, RestartFromViews(k) \/ RestartFromFiles(k), Coherent'
  PROVE  Whole'
<1>1. OpenCheckpoint(k)
  BY DEF RestartFromViews, RestartFromFiles
<1>2. /\ pc = "idle" /\ pc' = "first" /\ target' = k /\ ref_id' = Chkpt(k).ref_id
      /\ todo' = 1 .. Chkpt(k).num_first_ocur
      /\ DOMAIN out'.chunk = Chunks(out'.len)
      /\ UNCHANGED dedupVars
  BY <1>1 DEF OpenCheckpoint
<1>3. GatheredAll' /\ BaselineAhead' /\ BaselinesFull'
  BY <1>2, RestartKeepsBaselines
<1>4. BaselineRestored'
  BY <1>2 DEF BaselineRestored, RestartsBaseline, Chkpt, Chunks, dedupVars
<1> QED
  BY <1>3, <1>4 DEF Whole

\* In 64 bits every entry is copied to the chunk it names.
LEMMA ViewCopyExact ==
  ASSUME Coherent, Restarting, pc # "restarted", via = "memory",
         NEW i \in 1 .. Chkpt(target).num_first_ocur,
         CopyEntry(target, i, Chkpt(target).first_ocur[i].node)
  PROVE  /\ out'.chunk[Chkpt(target).first_ocur[i].node]
              = history[target + 1].chunk[Chkpt(target).first_ocur[i].node]
         /\ \A c \in Chunks(out.len) \ {Chkpt(target).first_ocur[i].node} :
              out'.chunk[c] = out.chunk[c]
         /\ out'.len = out.len
         /\ DOMAIN out'.chunk = DOMAIN out.chunk
<1>1. target \in Taken
  BY DEF Coherent, RestartInRange
<1>2. Chkpt(target).len <= Chkpt(target).len
  <2>1. Chkpt(target).len \in Sizes
    BY <1>1, StoredFacts
  <2>2. Chkpt(target).len \in Nat
    BY <2>1, SizesNat
  <2> QED
    BY <2>2
<1>3. /\ Slot(Chkpt(target).first_ocur[i].node) = Chkpt(target).first_ocur[i].node
      /\ Slot(i - 1) = i - 1
  BY DEF Slot
<1> QED
  BY <1>1, <1>2, <1>3, CopyOne

LEMMA WholeRestartFirst ==
  ASSUME Whole, NEW i \in todo, RestartFirst(i), Coherent'
  PROVE  Whole'
<1> DEFINE node(j) == Chkpt(target).first_ocur[j].node
           num == Chkpt(target).num_first_ocur
<1>1. /\ pc = "first" /\ pc' = "first" /\ todo' = todo \ {i}
      /\ CopyEntry(target, i, node(i))
      /\ UNCHANGED <<dedupVars, target, via, idx, ref_id>>
  BY DEF RestartFirst
<1>2. /\ target \in Taken /\ Restarting /\ todo \subseteq 1 .. num
      /\ out.len = Chkpt(target).len
  BY <1>1 DEF Whole, Coherent, RestartInRange, Restarting
<1>3. GatheredAll' /\ BaselineAhead' /\ BaselinesFull'
  BY <1>1, RestartKeepsBaselines
<1>4. BaselineRestored'
  <2> SUFFICES ASSUME RestartsBaseline
               PROVE  /\ DOMAIN out'.chunk = Chunks(out'.len)
                      /\ \A j \in (1 .. num) \ todo' :
                        out'.chunk[node(j)] = history[target + 1].chunk[node(j)]
    BY <1>1, <1>2 DEF Whole, BaselineRestored, RestartsBaseline, Restored, Chkpt, Chunks,
                      dedupVars
  <2>0. DOMAIN out'.chunk = Chunks(out'.len)
    BY <1>1, <1>2, ViewCopyExact DEF Whole, BaselineRestored, RestartsBaseline
  <2> SUFFICES ASSUME NEW j \in (1 .. num) \ todo'
               PROVE  out'.chunk[node(j)] = history[target + 1].chunk[node(j)]
    BY <2>0
  <2>1. /\ out'.chunk[node(i)] = history[target + 1].chunk[node(i)]
        /\ \A c \in Chunks(out.len) \ {node(i)} : out'.chunk[c] = out.chunk[c]
    BY <1>1, <1>2, ViewCopyExact DEF Whole, RestartsBaseline
  <2>2. CASE node(j) = node(i)
    BY <2>1, <2>2
  <2>3. CASE node(j) # node(i)
    <3>1. j \in (1 .. num) \ todo
      BY <1>1, <2>3
    <3>2. node(j) \in Chunks(out.len)
      BY <1>2, StoredFacts DEF Whole
    <3>3. out.chunk[node(j)] = history[target + 1].chunk[node(j)]
      BY <1>1, <1>2, <3>1 DEF Whole, BaselineRestored, Restored
    <3> QED
      BY <2>1, <2>3, <3>2, <3>3
  <2> QED
    BY <2>2, <2>3
<1> QED
  BY <1>3, <1>4 DEF Whole

\* After the first kernel nothing of a baseline is left to restore.
LEMMA WholeFillSame ==
  ASSUME Whole, FillSame, Coherent'
  PROVE  Whole'
<1>1. /\ pc = "first" /\ pc' = "load" /\ todo = {} /\ idx' = target - 1
      /\ UNCHANGED <<dedupVars, target, via, ref_id, out>>
  BY DEF FillSame
<1>2. /\ target \in Taken /\ Restarting /\ out.len = Chkpt(target).len
      /\ DOMAIN Chkpt(target).first_ocur = 1 .. Chkpt(target).num_first_ocur
  BY <1>1, StoredFacts DEF Whole, Coherent, RestartInRange, Restarting
<1>3. GatheredAll' /\ BaselineAhead' /\ BaselinesFull'
  BY <1>1, RestartKeepsBaselines
<1>4. ASSUME RestartsBaseline, NEW c \in Chunks(out.len) PROVE Restored(c)
  <2>1. PICK i \in DOMAIN Chkpt(target).first_ocur : Chkpt(target).first_ocur[i].node = c
    BY <1>2, <1>4 DEF Whole, BaselinesFull, RestartsBaseline, Saved
  <2> QED
    BY <1>1, <1>2, <1>4, <2>1 DEF Whole, BaselineRestored
<1>5. BaselineRestored'
  BY <1>1, <1>2, <1>4
     DEF Whole, BaselineRestored, RestartsBaseline, Restored, Chkpt, dedupVars
<1> QED
  BY <1>3, <1>5 DEF Whole

\* The loop over earlier checkpoints is of restarts of others.
LEMMA WholeWalk ==
  ASSUME Whole, Coherent',
         \/ LoadPrior \/ NextPrior \/ \E n \in Lengths : FinishRestart(n)
         \/ \E c \in todo : RestartMiddle(c)
  PROVE  Whole'
<1>1. /\ pc \in {"load", "middle"} /\ pc' \in {"load", "middle", "restarted"}
      /\ UNCHANGED <<dedupVars, target, via>>
  BY DEF LoadPrior, NextPrior, FinishRestart, RestartMiddle, restartVars
<1>2. GatheredAll' /\ BaselineAhead' /\ BaselinesFull'
  BY <1>1, RestartKeepsBaselines
<1>3. BaselineRestored'
  <2> SUFFICES ASSUME RestartsBaseline PROVE BaselineRestored'
    BY <1>1 DEF BaselineRestored, RestartsBaseline, Chkpt, dedupVars
  <2>1. /\ pc = "load" /\ ref_id = target /\ idx = target - 1
        /\ DOMAIN out.chunk = Chunks(out.len)
    BY <1>1 DEF Whole, BaselineRestored, Restarting
  <2>2. target \in Nat
    BY DEF Whole, Coherent, TypeOK
  <2>3. PICK n \in Lengths : FinishRestart(n)
    BY <2>1, <2>2 DEF LoadPrior, NextPrior, RestartMiddle
  <2>4. out.len = history[target + 1].len
    BY <2>1, StoredFacts DEF Whole, Coherent, RestartInRange, Restarting
  <2>8. Fits
    BY <2>4 DEF Fits
  <2>9. \A c \in Chunks(out.len) : Restored(c)
    BY <2>1, <2>8 DEF Whole, BaselineRestored, Restarting
  <2>5. pc' = "restarted" /\ UNCHANGED <<history, target>>
    BY <2>3 DEF FinishRestart, dedupVars
  <2>10. DOMAIN out'.chunk = Chunks(out'.len)
    BY <2>1, <2>3 DEF FinishRestart, CallersView, Chunks
  <2> SUFFICES ASSUME Fits', NEW c \in Chunks(out'.len)
               PROVE  out'.chunk[c] = history[target + 1].chunk[c]
    BY <2>5, <2>10 DEF BaselineRestored, Restored, Chunks
  <2>6. out' = CallersView(n) /\ out'.len = out.len
    BY <2>3, <2>4, <2>5 DEF FinishRestart, Fits
  <2>7. out' = out
    BY <2>6 DEF CallersView
  <2> QED
    BY <2>7, <2>9 DEF Restored
<1> QED
  BY <1>2, <1>3 DEF Whole

\* One action at a time.
LEMMA WholeStep ==
  ASSUME TeamsExact, Whole, [Next]_vars
  PROVE  Whole'
<1>1. Coherent'
  BY CoherentStep DEF Whole
<1>2. CASE Call
  <2>1. ASSUME NEW d \in Data, NEW m \in BOOLEAN, Checkpoint(d, m) PROVE Whole'
    BY <1>1, <2>1, WholeCheckpoint
  <2>2. ASSUME NEW k \in 0 .. Len(incr_chkpts) - 1,
               RestartFromViews(k) \/ RestartFromFiles(k)
        PROVE Whole'
    BY <1>1, <2>2, WholeOpen DEF Taken
  <2>3. CASE Release
    <3>1. pc = "restarted" /\ pc' = "idle" /\ UNCHANGED dedupVars
      BY <2>3 DEF Release
    <3> QED
      BY <1>1, <3>1, RestartKeepsBaselines DEF Whole, BaselineRestored, Restarting
  <2> QED
    BY <1>2, <2>1, <2>2, <2>3 DEF Call
<1>3. CASE Progress
  <2>1. ASSUME NEW c \in todo, DedupChunk(c) \/ GatherChunk(c) \/ RestartFirst(c)
        PROVE Whole'
    BY <1>1, <2>1, WholeDedupChunk, WholeGatherChunk, WholeRestartFirst
  <2>2. CASE StartCollect \/ FinishCheckpoint \/ FailToWrite \/ FillSame
    BY <1>1, <2>2, WholeStartCollect, WholeFinishCheckpoint, WholeFailToWrite, WholeFillSame
  <2>3. CASE \/ LoadPrior \/ NextPrior \/ \E n \in Lengths : FinishRestart(n)
             \/ \E c \in todo : RestartMiddle(c)
    BY <1>1, <2>3, WholeWalk
  <2> QED
    BY <1>3, <2>1, <2>2, <2>3 DEF Progress
<1>4. CASE UNCHANGED vars
  <2>1. BaselinesFull'
    BY <1>4, BaselinesStutter DEF Whole, vars, dedupVars
  <2>2. GatheredAll' /\ BaselineAhead' /\ BaselineRestored'
    BY <1>4 DEF Whole, GatheredAll, BaselineAhead, TakingBaseline, BaselineRestored,
                RestartsBaseline, Restarting, Restored, Fits, Chkpt, vars, dedupVars, restartVars
  <2> QED
    BY <1>1, <2>1, <2>2 DEF Whole
<1> QED
  BY <1>2, <1>3, <1>4 DEF Next

\* A baseline no failed write has spoiled is restarted exactly from Views into a View
\* of its size, although the region grows and shrinks and whatever became of the
\* checkpoints before it.
THEOREM BaselinesAlwaysExact == TeamsExact => (Spec => []BaselineExact)
<1> SUFFICES ASSUME TeamsExact PROVE Spec => []BaselineExact
  OBVIOUS
<1>1. Init => Whole
  BY WholeInit
<1>2. Whole /\ [Next]_vars => Whole'
  BY WholeStep
<1>3. Whole => BaselineExact
  <2> SUFFICES ASSUME Whole, pc = "restarted", RestartsBaseline, Fits
               PROVE  target \in Taken /\ out = history[target + 1]
    BY DEF BaselineExact
  <2>1. /\ target \in Taken
        /\ \A c \in Chunks(out.len) : out.chunk[c] = history[target + 1].chunk[c]
        /\ DOMAIN out.chunk = Chunks(out.len)
    BY DEF Whole, Coherent, RestartInRange, BaselineRestored, Restarting, Restored
  <2>2. /\ history[target + 1] = [len |-> history[target + 1].len,
                                  chunk |-> history[target + 1].chunk]
        /\ history[target + 1].len = out.len
        /\ history[target + 1].chunk \in [Chunks(out.len) -> Vals]
    BY <2>1, StoredFacts, DataFacts DEF Whole, Fits
  <2>3. out = [len |-> out.len, chunk |-> out.chunk]
    BY ViewFacts DEF Whole, Coherent, TypeOK
  <2>4. out.chunk = history[target + 1].chunk
    <3>1. out.chunk \in [Chunks(out.len) -> Vals \cup {NoVal}]
      BY <2>1, ViewFacts DEF Whole, Coherent, TypeOK
    <3> QED
      BY <2>1, <2>2, <3>1
  <2> QED
    BY <2>1, <2>2, <2>3, <2>4
<1> QED
  BY <1>1, <1>2, <1>3, PTL DEF Spec

-----------------------------------------------------------------------------
(* Refinement *)

\* What a step is to the callers: a new checkpoint, a restart that returns, the end
\* of its use, or nothing.
LEMMA SeenSteps ==
  ASSUME Coherent, [Next]_vars
  PROVE  \/ UNCHANGED <<history, spoiled, incr_chkpts, target, via, out, pc>>
         \/ /\ pc # "restarted" /\ pc' # "restarted"
            /\ history' = history \/ (data \in Data /\ history' = Append(history, data))
         \/ pc # "restarted" /\ pc' = "restarted" /\ history' = history
         \/ pc = "restarted" /\ pc' # "restarted" /\ history' = history
<1>1. CASE FinishCheckpoint
  BY <1>1 DEF FinishCheckpoint, Coherent, GatheredTrue
<1>2. CASE \E n \in Lengths : FinishRestart(n)
  BY <1>2 DEF FinishRestart, dedupVars
<1>3. CASE Release
  BY <1>3 DEF Release, dedupVars
<1>4. CASE \/ \E d \in Data, m \in BOOLEAN : Checkpoint(d, m)
           \/ StartCollect
           \/ \E c \in todo : DedupChunk(c) \/ GatherChunk(c) \/ RestartFirst(c)
                              \/ RestartMiddle(c)
           \/ FillSame \/ LoadPrior \/ NextPrior \/ FailToWrite
  <2>1. UNCHANGED history /\ pc # "restarted" /\ pc' # "restarted"
    BY <1>4 DEF Checkpoint, StartCollect, DedupChunk, GatherChunk, RestartFirst,
                RestartMiddle, FillSame, LoadPrior, NextPrior, FailToWrite, dedupVars
  <2> QED
    BY <2>1
<1>5. CASE \E k \in 0 .. Len(incr_chkpts) - 1 : RestartFromViews(k) \/ RestartFromFiles(k)
  BY <1>5 DEF RestartFromViews, RestartFromFiles, OpenCheckpoint, dedupVars
<1>6. CASE UNCHANGED vars
  BY <1>6 DEF vars, dedupVars, restartVars
<1> QED
  BY <1>1, <1>2, <1>3, <1>4, <1>5, <1>6 DEF Next, Call, Progress

\* A step of the deduplicator is a step of the store, or one its callers do not see.
LEMMA StoreStep ==
  ASSUME Steady, Exact, Exact', [Next]_vars
  PROVE  [Store!Next]_(Store!vars)
<1> USE DEF Store!Next, Store!vars
<1>1. CASE /\ pc # "restarted" /\ pc' # "restarted"
           /\ history' = history \/ (data \in Data /\ history' = Append(history, data))
  BY <1>1 DEF Store!Checkpoint
<1>2. CASE pc # "restarted" /\ pc' = "restarted" /\ history' = history
  <2>1. CASE target' \in spoiled' \/ ~Fits'
    BY <1>2, <2>1
  <2>2. CASE target' \notin spoiled' /\ Fits'
    <3>1. out' = history[target' + 1] /\ target' \in 0 .. Len(history) - 1
      BY <1>2, <2>2 DEF Exact, RestartExact, Coherent, RestartInRange, Restarting, HeadersTrue,
                        Taken
    <3>2. Store!Restart(target')
      BY <1>2, <2>2, <3>1 DEF Store!Restart
    <3> QED
      BY <3>1, <3>2
  <2> QED
    BY <2>1, <2>2
<1>3. CASE pc = "restarted" /\ pc' # "restarted" /\ history' = history
  <2>1. [id |-> target, data |-> out].id # [id |-> -1].id
    BY DEF Exact, Coherent, TypeOK
  <2> QED
    BY <1>3, <2>1 DEF Store!Release
<1>4. CASE UNCHANGED <<history, spoiled, incr_chkpts, target, via, out, pc>>
  BY <1>4 DEF Fits
<1> QED
  BY <1>1, <1>2, <1>3, <1>4, SeenSteps DEF Exact

\* The Basic deduplicator implements the checkpoint store: what its callers see
\* is a store that gives back what it was given.
THEOREM ImplementsStore == Steady => (Spec => StoreSpec)
<1> SUFFICES ASSUME Steady PROVE Spec => StoreSpec
  OBVIOUS
<1>1. Init => Store!Init
  BY DEF Init, Store!Init
<1>2. Exact /\ Exact' /\ [Next]_vars => [Store!Next]_(Store!vars)
  BY StoreStep
<1>3. Spec => []Exact
  BY ExactAlways
<1> QED
  BY <1>1, <1>2, <1>3, PTL DEF Spec, StoreSpec, Store!Spec
=============================================================================
