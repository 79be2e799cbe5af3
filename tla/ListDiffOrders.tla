--------------------------- MODULE ListDiffOrders ---------------------------
(***************************************************************************)
(* One diff of the List deduplicator, for every number of duplicates and   *)
(* every choice of the checkpoints their sources are in: what collect_diff *)
(* writes, in every order its kernels may choose, and what a restart reads *)
(* back.                                                                   *)
(***************************************************************************)
EXTENDS ListDiff

CONSTANTS
  MaxDupl,  \* bound on the number of duplicates
  MaxId     \* bound on the id of the checkpoint

ASSUME BoundAssumption == MaxDupl \in Nat /\ MaxId \in Nat /\ NoWord \in Nat

VARIABLES
  source,  \* the NodeID each duplicate copies
  first,   \* the chunks that are first occurrences
  header,
  words,   \* the diff
  pc

vars == <<source, first, header, words, pc>>

Dupl == DOMAIN source

\* The chunk a duplicate copies is of no account here, but for the read back.
Init ==
  /\ \E n \in 0 .. MaxDupl, id \in 0 .. MaxId : \E tree \in [0 .. n - 1 -> 0 .. id] :
       /\ source = [c \in 0 .. n - 1 |-> NodeID(10 + c, tree[c])]
       /\ header = [chkpt_id |-> id]
  /\ first \in {{}, {MaxDupl, MaxDupl + 1}}
  /\ words = <<>>
  /\ pc = "dedup"

\* collect_diff()
Collect ==
  /\ pc = "dedup"
  /\ \E f \in SetToSeqs(first), needed \in SetToSeqs(Needed(Dupl, source)),
        shift \in BinSorted(Dupl, source) :
       words' = DiffWords(f, needed, shift, source, [c \in first |-> 20 + c])
  /\ header' = [chkpt_id |-> header.chkpt_id,
                num_first_ocur |-> Cardinality(first),
                num_prior_chkpts |-> Cardinality(Needed(Dupl, source)),
                num_shift_dupl |-> Cardinality(Dupl)]
  /\ pc' = "collected"
  /\ UNCHANGED <<source, first>>

Spec == Init /\ [][Collect]_vars

-----------------------------------------------------------------------------
Read == Sections(words, header)

\* Each duplicate is read back once, with its source.
SourcesRead ==
  {<<Read.shift[i].node, Read.shift[i].prev>> : i \in DOMAIN Read.shift} =
    {<<c, source[c]>> : c \in Dupl}

\* Each first occurrence is read back with its own data.
FirstsRead ==
  pc = "collected" =>
    {<<Read.first[i], Read.data[i]>> : i \in DOMAIN Read.first} = {<<c, 20 + c>> : c \in first}

\* A restart reads the sources that were written, whatever order the kernels
\* left them in, when there are at least as many duplicates as the highest id
\* among their sources' checkpoints, or at most two.
SourcesReadWhenBinsSuffice ==
  pc = "collected"
    /\ \/ \A c \in Dupl : source[c].tree <= Cardinality(Dupl)
       \/ Cardinality(Dupl) <= 2
    => SourcesRead

\* "Sort shifted duplicates by the list ID": a restart reads the sources that
\* were written.
SourcesReadAlways == pc = "collected" => SourcesRead
=============================================================================
