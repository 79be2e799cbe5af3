------------------------------ MODULE ListDiff ------------------------------
(***************************************************************************)
(* The bytes of a diff of the List deduplicator (list_approach.cpp), after *)
(* its header, as a sequence of 32-bit words: the chunks that are first    *)
(* occurrences; how many duplicates have their source in which checkpoint; *)
(* the duplicates, each with the chunk it copies; and the data of the      *)
(* first occurrences, a chunk being one word (chunk_size = 4).             *)
(*                                                                         *)
(* The checkpoint a duplicate's source is in is not written: a restart     *)
(* finds it from the counts and from the duplicate's position.             *)
(***************************************************************************)
EXTENDS SequencesExt

CONSTANT NoWord  \* what is read past the end of a View

NodeID(node, chkpt) == [node |-> node, tree |-> chkpt]

-----------------------------------------------------------------------------
(* Writing: collect_diff() *)

\* Mutant: the bins of a key range one too large.
BinCoarse(key, n, max_key) == IF max_key + 1 <= n THEN key ELSE (n * key) \div (max_key + 1)

\* Kokkos::BinOp1D(n, 0, max_key): one bin per key when there are enough bins.
Bin(key, n, max_key) == IF max_key <= n THEN key ELSE (n * key) \div max_key

\* The orders BinSort may leave the chunks of S in: by the bin of their
\* source's checkpoint, and in any order within a bin.
BinSorted(S, source) ==
  LET max_key == Max({0} \cup {source[c].tree : c \in S})
      bin(c) == Bin(source[c].tree, Cardinality(S), max_key)
  IN  {s \in SetToSeqs(S) : \A i, j \in DOMAIN s : i < j => bin(s[i]) <= bin(s[j])}

\* The checkpoints with a source: chkpts_needed and the counters that are not 0.
Needed(S, source) == {source[c].tree : c \in S}

\* Mutant: data and chunk numbers are in opposite orders.
DataReversed(first, content) == [i \in DOMAIN first |-> content[first[Len(first) + 1 - i]]]

\* "Write data": the data of the i-th first occurrence is the i-th.
DataSection(first, content) == [i \in DOMAIN first |-> content[first[i]]]

\* Two words for each entry of a section.
Pairs(s) == [p \in 1 .. 2 * Len(s) |-> s[(p + 1) \div 2][2 - (p % 2)]]

\* The words of a diff, given the order of each of its sections.
DiffWords(first, needed, shift, source, content) ==
  LET count(k) == Cardinality({i \in DOMAIN shift : source[shift[i]].tree = k})
  IN  first
      \o Pairs([i \in DOMAIN needed |-> <<needed[i], count(needed[i])>>])
      \o Pairs([i \in DOMAIN shift |-> <<shift[i], source[shift[i]].node>>])
      \o DataSection(first, content)

-----------------------------------------------------------------------------
(* Reading: restart_chkpt() *)

WordAt(words, p) == IF p + 1 \in DOMAIN words THEN words[p + 1] ELSE NoWord

\* How many duplicates have their source in checkpoint k, by the entry that says.
RegionSize(words, header, k) ==
  LET entry(j) == header.num_first_ocur + 2 * j
      entries == {j \in 0 .. header.num_prior_chkpts - 1 : WordAt(words, entry(j)) = k}
  IN  IF entries = {} THEN 0 ELSE WordAt(words, entry(CHOOSE j \in entries : TRUE) + 1)

\* repeat_region_sizes after the scan.
RegionEnds(words, header) ==
  LET ends[k \in 0 .. header.chkpt_id] ==
        RegionSize(words, header, k) + (IF k = 0 THEN 0 ELSE ends[k - 1])
  IN  ends

\* The checkpoint the source of the i-th duplicate is in: the first one up to
\* which there are more than i duplicates.
SourceChkpt(words, header, i) ==
  LET ends == RegionEnds(words, header)
      past == {k \in 0 .. header.chkpt_id : i < ends[k]}
  IN  IF past = {} THEN 0 ELSE Min(past)

\* The sections of a diff with the header's counts in the words given: the
\* chunks first occurring, the duplicates with the NodeID each copies, and the
\* data, each numbered from 0.
Sections(words, header) ==
  LET dupl_map_offset == header.num_first_ocur + 2 * header.num_prior_chkpts
      data_offset == dupl_map_offset + 2 * header.num_shift_dupl
  IN  [first |-> [i \in 0 .. header.num_first_ocur - 1 |-> WordAt(words, i)],
       shift |-> [i \in 0 .. header.num_shift_dupl - 1 |->
         [node |-> WordAt(words, dupl_map_offset + 2 * i),
          prev |-> NodeID(WordAt(words, dupl_map_offset + 2 * i + 1),
                          SourceChkpt(words, header, i))]],
       data |-> [i \in 0 .. header.num_first_ocur - 1 |-> WordAt(words, data_offset + i)]]
=============================================================================
