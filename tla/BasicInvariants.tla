-------------------------- MODULE BasicInvariants --------------------------
(***************************************************************************)
(* The inductive invariants behind the properties of BasicDedup: Coherent  *)
(* holds whatever sizes regions have, Exact when the region keeps its size *)
(* and 32-bit offsets reach all of it, whatever writes fail.               *)
(***************************************************************************)
EXTENDS BasicDedup

Restarting == pc \in {"first", "load", "middle", "restarted"}

\* Ids count the checkpoints stored; the header of a checkpoint is its own.
HeadersTrue ==
  /\ current_id = Len(incr_chkpts)
  /\ Len(history) = Len(incr_chkpts)
  /\ \A k \in Taken : /\ Chkpt(k).chkpt_id = k
                      /\ Chkpt(k).len = history[k + 1].len

\* The teams left, the bits set and the entries gathered while a checkpoint is
\* being taken.
GatheredTrue ==
  /\ pc \in {"dedup", "collect"} =>
       /\ data \in Data
       /\ changes \subseteq Chunks(data.len)
       /\ todo \subseteq Chunks(data.len)
  /\ pc = "dedup" => DOMAIN buffer = {}
  /\ pc = "collect" =>
       /\ todo \subseteq changes
       /\ Len(buffer) + Cardinality(todo) = Cardinality(changes)
       /\ \A i, j \in DOMAIN buffer : buffer[i].node = buffer[j].node => i = j
       /\ \A i \in DOMAIN buffer :
            /\ buffer[i].node \in changes \ todo
            /\ buffer[i].data = data.chunk[buffer[i].node]

\* No checkpoint before the one restarted is of a longer region.
NoneLonger == \A k \in 0 .. target : Chkpt(k).len <= Chkpt(target).len

\* A restart stays within the checkpoints it was given, and within the View, unless
\* a checkpoint before is of a longer region.
RestartInRange ==
  Restarting =>
    /\ target \in Taken
    /\ IF pc = "restarted" THEN out.len \in Lengths ELSE out.len = Chkpt(target).len
    /\ NoneLonger => DOMAIN out.chunk = Chunks(out.len)
    /\ node_list \in [Chunks(Chkpt(target).len) -> Int]
    /\ pc = "first" => todo \subseteq 1 .. Chkpt(target).num_first_ocur
    /\ pc = "load" => idx \in -1 .. target - 1
    /\ pc = "middle" => idx \in 0 .. target - 1 /\ todo \subseteq DOMAIN node_list

Coherent ==
  /\ TypeOK
  /\ HeadersTrue
  /\ EntriesTrue
  /\ GatheredTrue
  /\ RestartInRange

-----------------------------------------------------------------------------
\* All gathered: no chunk that changed is missing from the buffer.
GatheredAll ==
  pc = "collect" =>
    \A c \in changes \ todo : \E i \in DOMAIN buffer : buffer[i].node = c

\* The next checkpoint continues the chain of the newest one, and is spoiled if
\* that one is.
Continues ==
  /\ current_id > 0
  /\ baseline_id = Chkpt(current_id - 1).ref_id
  /\ current_id - 1 \in spoiled => current_id \in spoiled

\* The chain a checkpoint belongs to starts at its ref_id and has no gap, and
\* once spoiled stays so.  Between two calls only a baseline whose write failed
\* leaves the deduplicator at the start of a chain.
ChainsUnbroken ==
  /\ \A k \in Taken : Chkpt(k).ref_id <= k
  /\ \A k \in Taken : \A j \in Chkpt(k).ref_id .. k :
       /\ Chkpt(j).ref_id = Chkpt(k).ref_id
       /\ j \in spoiled => k \in spoiled
  /\ IF pc \in {"dedup", "collect"}
     THEN baseline_id = current_id \/ Continues
     ELSE \/ current_id = 0
          \/ Continues
          \/ baseline_id = current_id /\ current_id \in spoiled

\* The digests and the bits while dedup_data() runs: a chunk already compared
\* has its new digest, and its bit is clear just if it is unchanged, unless the
\* digests are those of a checkpoint that was lost.
ListAhead ==
  /\ pc \in {"dedup", "collect"} \/ current_id > 0 =>
       \A n \in Lengths : bits = Chunks(n) /\ DOMAIN list = Chunks(n)
  /\ pc = "dedup" => changes \cap todo = {}
  /\ pc \in {"dedup", "collect"} /\ current_id \notin spoiled =>
       \A c \in Chunks(data.len) :
         IF pc = "dedup" /\ c \in todo
         THEN list[c] = IF baseline_id = current_id THEN NoDigest
                        ELSE Hash[history[current_id].chunk[c]]
         ELSE /\ list[c] = Hash[data.chunk[c]]
              /\ c \notin changes =>
                   /\ baseline_id < current_id
                   /\ history[current_id].chunk[c] = data.chunk[c]
              /\ c \in changes /\ baseline_id < current_id =>
                   history[current_id].chunk[c] # data.chunk[c]

\* Chunk c of the View is restored.
Restored(c) == out.chunk[c] = history[target + 1].chunk[c]

\* Chunk c will be looked for in checkpoint k, where it is the same.
Deferred(c, k) ==
  /\ node_list[c] = k
  /\ k >= ref_id
  /\ history[k + 1].chunk[c] = history[target + 1].chunk[c]

\* How far the backwards walk has come, chunk by chunk.
WalkTrue == target \notin spoiled =>
  /\ Restarting => ref_id = Chkpt(target).ref_id
  /\ pc = "first" => \A c \in Chunks(out.len) :
       IF \E i \in (1 .. Chkpt(target).num_first_ocur) \ todo :
            Chkpt(target).first_ocur[i].node = c
       THEN node_list[c] = target /\ Restored(c)
       ELSE node_list[c] = Untouched
  /\ pc = "load" => \A c \in Chunks(out.len) :
       \/ node_list[c] > idx /\ Restored(c)
       \/ Deferred(c, idx)
  /\ pc = "middle" =>
       /\ idx >= ref_id
       /\ idx < target
       /\ \A c \in Chunks(out.len) :
            \/ node_list[c] > idx /\ Restored(c)
            \/ c \in todo /\ Deferred(c, idx)
            \/ c \notin todo /\ (\/ node_list[c] = idx /\ Restored(c)
                                 \/ Deferred(c, idx - 1))
  /\ pc = "load" => idx < target

\* No region is one for which there is a team too many.
TeamsExact == \A n \in Lengths : Teams(n) = Chunks(n)

\* The instances for which Exact holds: the size never changes, and is within
\* reach of 32-bit offsets.
Steady ==
  /\ TeamsExact
  /\ \A m, n \in Lengths : m = n
  /\ \A n \in Lengths : n <= OffsetSpan

Exact ==
  /\ Coherent
  /\ GatheredAll
  /\ ChainsUnbroken
  /\ ListAhead
  /\ ListIsNewest
  /\ OmittedUnchanged
  /\ UnchangedOmitted
  /\ WalkTrue
  /\ RestartExact

-----------------------------------------------------------------------------
(* Baselines, of every instance: the parts of Whole *)

\* The checkpoint being taken is a baseline, and none of its writes has failed.
TakingBaseline ==
  pc \in {"dedup", "collect"} /\ baseline_id = current_id /\ current_id \notin spoiled

\* A baseline that is being taken has room for every bit, finds no digest, and has
\* set the bits of all the chunks compared.
BaselineAhead ==
  /\ baseline_id <= current_id
  /\ pc \notin {"dedup", "collect"} /\ baseline_id = current_id =>
       current_id = 0 \/ current_id \in spoiled
  /\ TakingBaseline =>
       /\ bits = Chunks(data.len) /\ DOMAIN list = Chunks(data.len)
       /\ pc = "dedup" =>
            /\ \A c \in todo : list[c] = NoDigest
            /\ Chunks(data.len) \ todo \subseteq changes
       /\ pc = "collect" => changes = Chunks(data.len)

\* A baseline holds every chunk.
BaselinesFull ==
  \A k \in Taken \ spoiled : Chkpt(k).ref_id = k => Chunks(Chkpt(k).len) \subseteq Saved(k)

\* A restart from Views of a baseline.
RestartsBaseline ==
  via = "memory" /\ target \notin spoiled /\ Chkpt(target).ref_id = target

\* Its first kernel copies all chunks; no checkpoint before it is loaded.
BaselineRestored ==
  Restarting /\ RestartsBaseline =>
    /\ DOMAIN out.chunk = Chunks(out.len)
    /\ pc # "restarted" => ref_id = target
    /\ pc = "first" => \A i \in (1 .. Chkpt(target).num_first_ocur) \ todo :
         Restored(Chkpt(target).first_ocur[i].node)
    /\ pc # "first" /\ Fits => \A c \in Chunks(out.len) : Restored(c)
    /\ pc # "first" => pc # "middle" /\ (pc = "load" => idx = target - 1)

Whole ==
  Coherent /\ GatheredAll /\ BaselineAhead /\ BaselinesFull /\ BaselineRestored

\* A baseline no failed write has spoiled is restarted exactly from Views, into a
\* View of its size.
BaselineExact ==
  pc = "restarted" /\ RestartsBaseline /\ Fits => target \in Taken /\ out = history[target + 1]
=============================================================================
