-------------------------- MODULE ListDedup_proofs --------------------------
(***************************************************************************)
(* Proofs about the List deduplicator, for regions of every number of      *)
(* chunks, every set of contents and any number of checkpoints, with the   *)
(* threads of the kernel in any order.  But for DiffReadBack they assume   *)
(* ThreadsExact: a whole number of chunks that comes to 2^32 bytes or more *)
(* is left out, since one thread too many works on it.                     *)
(***************************************************************************)
EXTENDS ListInvariants, FiniteSetTheorems, WellFoundedInduction, TLAPS

-----------------------------------------------------------------------------
(* Facts about the data structures *)

LEMMA ChunksFinite ==
  /\ IsFiniteSet(Chunks) /\ Cardinality(Chunks) = NumChunks
  /\ Chunks \subseteq Nat
BY SizeAssumption, FS_Interval DEF Chunks

\* A sequence with every element of a set once has all of them, and no other.
LEMMA OrderOfSet ==
  ASSUME NEW S, IsFiniteSet(S), NEW s \in SetToSeqs(S)
  PROVE  /\ Cardinality(S) \in Nat
         /\ s \in [1 .. Cardinality(S) -> S]
         /\ \A x \in S : \E i \in 1 .. Cardinality(S) : s[i] = x
<1>1. Cardinality(S) \in Nat
  BY FS_CardinalityType
<1>2. IsFiniteSet(1 .. Cardinality(S)) /\ Cardinality(1 .. Cardinality(S)) = Cardinality(S)
  BY <1>1, FS_Interval
<1>3. /\ s \in [1 .. Cardinality(S) -> S]
      /\ \A i, j \in 1 .. Cardinality(S) : i # j => s[i] # s[j]
  BY DEF SetToSeqs
<1>4. s \in Injection(1 .. Cardinality(S), S)
  BY <1>3 DEF Injection, IsInjective
<1>5. s \in Surjection(1 .. Cardinality(S), S)
  BY <1>2, <1>4, FS_Injection
<1> QED
  BY <1>1, <1>3, <1>5 DEF Surjection

\* The words of a section.
LEMMA PairsWords ==
  ASSUME NEW n \in Nat, NEW s \in [1 .. n -> Nat \X Nat]
  PROVE  Pairs(s) \in Seq(Nat) /\ Len(Pairs(s)) = 2 * n
<1>1. s \in Seq(Nat \X Nat) /\ Len(s) = n
  OBVIOUS
<1>2. \A p \in 1 .. 2 * n : (p + 1) \div 2 \in 1 .. n
  OBVIOUS
<1>3. \A p \in 1 .. 2 * n : p % 2 = 0 \/ p % 2 = 1
  OBVIOUS
<1>4. \A p \in 1 .. 2 * n : s[(p + 1) \div 2][2 - (p % 2)] \in Nat
  BY <1>2, <1>3, SMTT(30)
<1>5. Pairs(s) = [p \in 1 .. 2 * n |-> s[(p + 1) \div 2][2 - (p % 2)]]
  BY <1>1 DEF Pairs
<1> QED
  BY <1>4, <1>5

\* Both words of an entry are where a restart reads them.
LEMMA PairsRead ==
  ASSUME NEW n \in Nat, NEW s \in [1 .. n -> Nat \X Nat], NEW i \in 0 .. n - 1
  PROVE  Pairs(s)[2 * i + 1] = s[i + 1][1] /\ Pairs(s)[2 * i + 2] = s[i + 1][2]
<1>1. Len(s) = n
  OBVIOUS
<1>2. /\ 2 * i + 1 \in 1 .. 2 * n
      /\ (2 * i + 1 + 1) \div 2 = i + 1 /\ (2 * i + 1) % 2 = 1
  OBVIOUS
<1>3. /\ 2 * i + 2 \in 1 .. 2 * n
      /\ (2 * i + 2 + 1) \div 2 = i + 1 /\ (2 * i + 2) % 2 = 0
  OBVIOUS
<1> QED
  BY <1>1, <1>2, <1>3 DEF Pairs

\* The checkpoints with a source are finitely many.
LEMMA NeededFinite ==
  ASSUME NEW S, IsFiniteSet(S), NEW source, \A c \in S : source[c] \in Entries
  PROVE  IsFiniteSet(Needed(S, source)) /\ Needed(S, source) \subseteq Nat
<1> DEFINE f == [c \in S |-> source[c].tree]
<1>1. f \in Surjection(S, Needed(S, source))
  BY DEF Surjection, Needed
<1>2. IsFiniteSet(Needed(S, source))
  BY <1>1, FS_Surjection
<1>3. Needed(S, source) \subseteq Nat
  BY DEF Needed, Entries
<1> QED
  BY <1>2, <1>3

\* A function on 1 .. n is a sequence.
LEMMA FunctionSequence ==
  ASSUME NEW n \in Nat, NEW T, NEW s \in [1 .. n -> T]
  PROVE  s \in Seq(T) /\ Len(s) = n
OBVIOUS

\* A restart reads the words of each section where they were written.
LEMMA WordsRead ==
  ASSUME NEW a \in Seq(Nat), NEW b \in Seq(Nat), NEW c \in Seq(Nat), NEW d \in Seq(Nat)
  PROVE  LET w == a \o b \o c \o d
         IN  /\ w \in Seq(Nat)
             /\ \A i \in 0 .. Len(a) - 1 : WordAt(w, i) = a[i + 1]
             /\ \A i \in 0 .. Len(b) - 1 : WordAt(w, Len(a) + i) = b[i + 1]
             /\ \A i \in 0 .. Len(c) - 1 : WordAt(w, Len(a) + Len(b) + i) = c[i + 1]
             /\ \A i \in 0 .. Len(d) - 1 : WordAt(w, Len(a) + Len(b) + Len(c) + i) = d[i + 1]
<1> DEFINE w == a \o b \o c \o d
<1>1. w \in Seq(Nat)
  OBVIOUS
<1>2. \A i \in 0 .. Len(a) - 1 : i + 1 \in DOMAIN w /\ w[i + 1] = a[i + 1]
  OBVIOUS
<1>3. \A i \in 0 .. Len(b) - 1 : Len(a) + i + 1 \in DOMAIN w /\ w[Len(a) + i + 1] = b[i + 1]
  BY SMTT(60)
<1>4. \A i \in 0 .. Len(c) - 1 :
        Len(a) + Len(b) + i + 1 \in DOMAIN w /\ w[Len(a) + Len(b) + i + 1] = c[i + 1]
  BY SMTT(60)
<1>5. \A i \in 0 .. Len(d) - 1 :
        /\ Len(a) + Len(b) + Len(c) + i + 1 \in DOMAIN w
        /\ w[Len(a) + Len(b) + Len(c) + i + 1] = d[i + 1]
  BY SMTT(60)
<1> HIDE DEF w
<1>6. \A i \in 0 .. Len(a) - 1 : WordAt(w, i) = a[i + 1]
  BY <1>2 DEF WordAt
<1>7. \A i \in 0 .. Len(b) - 1 : WordAt(w, Len(a) + i) = b[i + 1]
  BY <1>3 DEF WordAt
<1>8. \A i \in 0 .. Len(c) - 1 : WordAt(w, Len(a) + Len(b) + i) = c[i + 1]
  BY <1>4 DEF WordAt
<1>9. \A i \in 0 .. Len(d) - 1 : WordAt(w, Len(a) + Len(b) + Len(c) + i) = d[i + 1]
  BY <1>5 DEF WordAt
<1> QED
  BY <1>1, <1>6, <1>7, <1>8, <1>9 DEF w

\* How many of the duplicates have their source in checkpoint k.
SourcesIn(n, shift, source, k) == Cardinality({i \in 1 .. n : source[shift[i]].tree = k})

\* Where a restart finds what was written of each section, in whatever order the
\* kernels left it.
LEMMA DiffWordsRead ==
  ASSUME NEW F, NEW S, F \subseteq Chunks, S \subseteq Chunks,
         NEW source, \A c \in S : source[c] \in Entries, NEW content \in Data,
         NEW first \in SetToSeqs(F), NEW counted \in SetToSeqs(Needed(S, source)),
         NEW shift \in SetToSeqs(S),
         NEW words, words = DiffWords(first, counted, shift, source, content),
         NEW m, m = Cardinality(F), NEW n, n = Cardinality(S),
         NEW q, q = Cardinality(Needed(S, source))
  PROVE  /\ words \in Seq(Nat) /\ m \in Nat /\ n \in Nat /\ q \in Nat
         /\ first \in [1 .. m -> F] /\ \A x \in F : \E i \in 1 .. m : first[i] = x
         /\ shift \in [1 .. n -> S] /\ \A x \in S : \E i \in 1 .. n : shift[i] = x
         /\ counted \in [1 .. q -> Needed(S, source)]
         /\ \A x \in Needed(S, source) : \E i \in 1 .. q : counted[i] = x
         /\ \A i \in 0 .. m - 1 : WordAt(words, i) = first[i + 1]
         /\ \A j \in 0 .. q - 1 :
              /\ WordAt(words, m + 2 * j) = counted[j + 1]
              /\ WordAt(words, m + 2 * j + 1) = SourcesIn(n, shift, source, counted[j + 1])
         /\ \A i \in 0 .. n - 1 :
              /\ WordAt(words, m + 2 * q + 2 * i) = shift[i + 1]
              /\ WordAt(words, m + 2 * q + 2 * i + 1) = source[shift[i + 1]].node
         /\ \A i \in 0 .. m - 1 : WordAt(words, m + 2 * q + 2 * n + i) = content[first[i + 1]]
<1> DEFINE count(k) == Cardinality({i \in DOMAIN shift : source[shift[i]].tree = k})
           counts == [i \in DOMAIN counted |-> <<counted[i], count(counted[i])>>]
           dupls == [i \in DOMAIN shift |-> <<shift[i], source[shift[i]].node>>]
           held == DataSection(first, content)
<1>1. IsFiniteSet(F) /\ IsFiniteSet(S)
  BY ChunksFinite, FS_Subset
<1>2. /\ m \in Nat /\ first \in [1 .. m -> F]
      /\ \A x \in F : \E i \in 1 .. m : first[i] = x
  BY <1>1, OrderOfSet
<1>3. /\ n \in Nat /\ shift \in [1 .. n -> S] /\ DOMAIN shift = 1 .. n
      /\ \A x \in S : \E i \in 1 .. n : shift[i] = x
  BY <1>1, OrderOfSet
<1>4. /\ q \in Nat /\ counted \in [1 .. q -> Needed(S, source)] /\ DOMAIN counted = 1 .. q
      /\ \A x \in Needed(S, source) : \E i \in 1 .. q : counted[i] = x
  BY <1>1, NeededFinite, OrderOfSet
<1>5. F \subseteq Nat /\ S \subseteq Nat /\ Needed(S, source) \subseteq Nat
  BY <1>1, ChunksFinite, NeededFinite
<1>6. \A k : count(k) \in Nat
  <2> SUFFICES ASSUME NEW k PROVE count(k) \in Nat
    OBVIOUS
  <2>1. IsFiniteSet(1 .. n)
    BY <1>3, FS_Interval
  <2>2. {i \in DOMAIN shift : source[shift[i]].tree = k} \in SUBSET (1 .. n)
    BY <1>3
  <2> QED
    BY <2>1, <2>2, FS_Subset, FS_CardinalityType
<1>7. /\ counts \in [1 .. q -> Nat \X Nat]
      /\ \A j \in 1 .. q : counts[j][1] = counted[j] /\ counts[j][2] = count(counted[j])
  <2> HIDE DEF count
  <2> QED
    BY <1>4, <1>5, <1>6
<1>8. /\ dupls \in [1 .. n -> Nat \X Nat]
      /\ \A i \in 1 .. n : dupls[i][1] = shift[i] /\ dupls[i][2] = source[shift[i]].node
  BY <1>3, <1>5 DEF Entries
<1>9. held \in [1 .. m -> Nat] /\ \A i \in 1 .. m : held[i] = content[first[i]]
  <2>1. \A i \in 1 .. m : content[first[i]] \in Nat
    BY <1>2, SizeAssumption DEF Data
  <2>2. held = [i \in 1 .. m |-> content[first[i]]]
    BY <1>2 DEF DataSection
  <2> QED
    BY <2>1, <2>2
<1>10. words = first \o Pairs(counts) \o Pairs(dupls) \o held
  BY DEF DiffWords
<1>11. \A k : count(k) = SourcesIn(n, shift, source, k)
  BY <1>3 DEF SourcesIn
<1> HIDE DEF count, counts, dupls, held
<1>12. PICK a \in Seq(Nat) : a = first /\ Len(a) = m
  <2>1. first \in [1 .. m -> Nat]
    BY <1>2, <1>5
  <2>2. first \in Seq(Nat) /\ Len(first) = m
    BY <1>2, <2>1
  <2> QED
    BY <2>2
<1>13. PICK b \in Seq(Nat) : b = Pairs(counts) /\ Len(b) = 2 * q
  BY <1>4, <1>7, PairsWords
<1>14. PICK c \in Seq(Nat) : c = Pairs(dupls) /\ Len(c) = 2 * n
  BY <1>3, <1>8, PairsWords
<1>15. PICK d \in Seq(Nat) : d = held /\ Len(d) = m
  <2>1. held \in Seq(Nat) /\ Len(held) = m
    BY <1>2, <1>9, FunctionSequence
  <2> QED
    BY <2>1
<1>16. words = a \o b \o c \o d
  BY <1>10, <1>12, <1>13, <1>14, <1>15
<1>17. /\ words \in Seq(Nat)
       /\ \A i \in 0 .. m - 1 : WordAt(words, i) = a[i + 1]
       /\ \A i \in 0 .. 2 * q - 1 : WordAt(words, m + i) = b[i + 1]
       /\ \A i \in 0 .. 2 * n - 1 : WordAt(words, m + 2 * q + i) = c[i + 1]
       /\ \A i \in 0 .. m - 1 : WordAt(words, m + 2 * q + 2 * n + i) = d[i + 1]
  <2> DEFINE w == a \o b \o c \o d
  <2>0. a \in Seq(Nat) /\ b \in Seq(Nat) /\ c \in Seq(Nat) /\ d \in Seq(Nat)
    BY <1>12, <1>13, <1>14, <1>15
  <2>1. /\ w \in Seq(Nat)
        /\ \A i \in 0 .. Len(a) - 1 : WordAt(w, i) = a[i + 1]
        /\ \A i \in 0 .. Len(b) - 1 : WordAt(w, Len(a) + i) = b[i + 1]
        /\ \A i \in 0 .. Len(c) - 1 : WordAt(w, Len(a) + Len(b) + i) = c[i + 1]
        /\ \A i \in 0 .. Len(d) - 1 : WordAt(w, Len(a) + Len(b) + Len(c) + i) = d[i + 1]
    BY <2>0, WordsRead, SMTT(60)
  <2>2. w = words
    BY <1>16
  <2> HIDE DEF w
  <2>3. Len(a) = m /\ Len(b) = 2 * q /\ Len(c) = 2 * n /\ Len(d) = m
    BY <1>12, <1>13, <1>14, <1>15
  <2> QED
    BY <2>1, <2>2, <2>3
<1>18. ASSUME NEW j \in 0 .. q - 1
       PROVE  /\ WordAt(words, m + 2 * j) = counted[j + 1]
              /\ WordAt(words, m + 2 * j + 1) = count(counted[j + 1])
  <2>1. 2 * j \in 0 .. 2 * q - 1 /\ 2 * j + 1 \in 0 .. 2 * q - 1 /\ j + 1 \in 1 .. q
    BY <1>4
  <2>2. b[2 * j + 1] = counts[j + 1][1] /\ b[2 * j + 2] = counts[j + 1][2]
    BY <1>4, <1>7, <1>13, PairsRead
  <2>3. m + (2 * j + 1) = m + 2 * j + 1 /\ (2 * j + 1) + 1 = 2 * j + 2
    BY <1>2, <2>1, SMTT(30)
  <2>4. WordAt(words, m + 2 * j) = b[2 * j + 1]
    BY <1>17, <2>1
  <2>5. WordAt(words, m + 2 * j + 1) = b[2 * j + 2]
    BY <1>17, <2>1, <2>3
  <2> QED
    BY <1>7, <2>1, <2>2, <2>4, <2>5
<1>19. ASSUME NEW i \in 0 .. n - 1
       PROVE  /\ WordAt(words, m + 2 * q + 2 * i) = shift[i + 1]
              /\ WordAt(words, m + 2 * q + 2 * i + 1) = source[shift[i + 1]].node
  <2>1. 2 * i \in 0 .. 2 * n - 1 /\ 2 * i + 1 \in 0 .. 2 * n - 1 /\ i + 1 \in 1 .. n
    BY <1>3
  <2>2. c[2 * i + 1] = dupls[i + 1][1] /\ c[2 * i + 2] = dupls[i + 1][2]
    BY <1>3, <1>8, <1>14, PairsRead
  <2>3. m + 2 * q + (2 * i + 1) = m + 2 * q + 2 * i + 1 /\ (2 * i + 1) + 1 = 2 * i + 2
    BY <1>2, <1>4, <2>1, SMTT(30)
  <2>4. WordAt(words, m + 2 * q + 2 * i) = c[2 * i + 1]
    BY <1>17, <2>1
  <2>5. WordAt(words, m + 2 * q + 2 * i + 1) = c[2 * i + 2]
    BY <1>17, <2>1, <2>3
  <2> QED
    BY <1>8, <2>1, <2>2, <2>4, <2>5
<1>20. \A i \in 0 .. m - 1 : WordAt(words, m + 2 * q + 2 * n + i) = content[first[i + 1]]
  <2>1. \A i \in 0 .. m - 1 : i + 1 \in 1 .. m
    BY <1>2
  <2> QED
    BY <1>9, <1>15, <1>17, <2>1
<1>21. \A i \in 0 .. m - 1 : WordAt(words, i) = first[i + 1]
  BY <1>12, <1>17
<1> QED
  BY <1>2, <1>3, <1>4, <1>11, <1>17, <1>18, <1>19, <1>20, <1>21

\* A restart reads the first occurrences, each with its data, and the duplicates
\* that were written, in whatever order the kernels left them.
LEMMA DiffRead ==
  ASSUME NEW F, NEW S, F \subseteq Chunks, S \subseteq Chunks,
         NEW source, \A c \in S : source[c] \in Entries, NEW content \in Data,
         NEW first \in SetToSeqs(F), NEW counted \in SetToSeqs(Needed(S, source)),
         NEW shift \in SetToSeqs(S), NEW header,
         header.num_first_ocur = Cardinality(F),
         header.num_prior_chkpts = Cardinality(Needed(S, source)),
         header.num_shift_dupl = Cardinality(S),
         NEW words, words = DiffWords(first, counted, shift, source, content)
  PROVE  /\ words \in Seq(Nat)
         /\ {Sections(words, header).first[i] : i \in DOMAIN Sections(words, header).first} = F
         /\ \A i \in DOMAIN Sections(words, header).first :
              Sections(words, header).data[i] = content[Sections(words, header).first[i]]
         /\ {Sections(words, header).shift[i].node :
               i \in DOMAIN Sections(words, header).shift} = S
<1> DEFINE m == Cardinality(F)
           n == Cardinality(S)
           q == Cardinality(Needed(S, source))
           s == Sections(words, header)
<1>1. /\ words \in Seq(Nat) /\ m \in Nat /\ n \in Nat /\ q \in Nat
      /\ first \in [1 .. m -> F] /\ \A x \in F : \E i \in 1 .. m : first[i] = x
      /\ shift \in [1 .. n -> S] /\ \A x \in S : \E i \in 1 .. n : shift[i] = x
      /\ \A i \in 0 .. m - 1 : WordAt(words, i) = first[i + 1]
      /\ \A i \in 0 .. n - 1 : WordAt(words, m + 2 * q + 2 * i) = shift[i + 1]
      /\ \A i \in 0 .. m - 1 : WordAt(words, m + 2 * q + 2 * n + i) = content[first[i + 1]]
  BY DiffWordsRead, SMTT(30)
<1>2. /\ DOMAIN s.first = 0 .. m - 1 /\ DOMAIN s.shift = 0 .. n - 1
      /\ \A i \in 0 .. m - 1 : s.first[i] = WordAt(words, i)
      /\ \A i \in 0 .. m - 1 : s.data[i] = WordAt(words, m + 2 * q + 2 * n + i)
      /\ \A i \in 0 .. n - 1 : s.shift[i].node = WordAt(words, m + 2 * q + 2 * i)
  BY DEF Sections
<1> HIDE DEF s, m, n, q
<1>3. /\ \A i \in 0 .. m - 1 : i + 1 \in 1 .. m
      /\ \A i \in 1 .. m : i - 1 \in 0 .. m - 1 /\ i - 1 + 1 = i
      /\ \A i \in 0 .. n - 1 : i + 1 \in 1 .. n
      /\ \A i \in 1 .. n : i - 1 \in 0 .. n - 1 /\ i - 1 + 1 = i
  BY <1>1
<1>4. ASSUME NEW i \in 0 .. m - 1
      PROVE  s.first[i] = first[i + 1] /\ s.first[i] \in F /\ s.data[i] = content[s.first[i]]
  <2>1. s.first[i] = first[i + 1] /\ s.data[i] = content[first[i + 1]]
    BY <1>1, <1>2
  <2>2. first[i + 1] \in F
    BY <1>1, <1>3
  <2> QED
    BY <2>1, <2>2
<1>5. \A x \in F : \E i \in 0 .. m - 1 : s.first[i] = x
  <2> SUFFICES ASSUME NEW x \in F PROVE \E i \in 0 .. m - 1 : s.first[i] = x
    OBVIOUS
  <2>1. PICK i \in 1 .. m : first[i] = x
    BY <1>1
  <2>2. i - 1 \in 0 .. m - 1 /\ i - 1 + 1 = i
    BY <1>3
  <2>3. s.first[i - 1] = first[i]
    BY <1>4, <2>2
  <2> QED
    BY <2>1, <2>2, <2>3
<1>6. ASSUME NEW i \in 0 .. n - 1 PROVE s.shift[i].node = shift[i + 1] /\ s.shift[i].node \in S
  <2>1. s.shift[i].node = shift[i + 1]
    BY <1>1, <1>2
  <2>2. shift[i + 1] \in S
    BY <1>1, <1>3
  <2> QED
    BY <2>1, <2>2
<1>7. \A x \in S : \E i \in 0 .. n - 1 : s.shift[i].node = x
  <2> SUFFICES ASSUME NEW x \in S PROVE \E i \in 0 .. n - 1 : s.shift[i].node = x
    OBVIOUS
  <2>1. PICK i \in 1 .. n : shift[i] = x
    BY <1>1
  <2>2. i - 1 \in 0 .. n - 1 /\ i - 1 + 1 = i
    BY <1>3
  <2>3. s.shift[i - 1].node = shift[i]
    BY <1>6, <2>2
  <2> QED
    BY <2>1, <2>2, <2>3
<1>8. {s.first[i] : i \in DOMAIN s.first} = F
  BY <1>2, <1>4, <1>5
<1>9. {s.shift[i].node : i \in DOMAIN s.shift} = S
  BY <1>2, <1>6, <1>7
<1> QED
  BY <1>1, <1>2, <1>4, <1>8, <1>9 DEF s

-----------------------------------------------------------------------------
(* The sources a restart reads *)

\* The least and the greatest of a set of checkpoints.
LEMMA LeastOf ==
  ASSUME NEW S \in SUBSET Nat, S # {}
  PROVE  Min(S) \in S /\ \A y \in S : Min(S) <= y
<1> DEFINE R == OpToRel(<, Nat)
<1>1. \E m \in S : \A n \in S : ~(<<n, m>> \in R)
  BY NatLessThanWellFounded, WFMin
<1>2. \A n, m \in Nat : n < m => <<n, m>> \in R
  BY DEF OpToRel
<1> HIDE DEF R
<1>3. \A n, m \in Nat : ~(n < m) => m <= n
  OBVIOUS
<1>4. \E m \in S : \A n \in S : m <= n
  BY <1>1, <1>2, <1>3
<1> QED
  BY <1>4 DEF Min

LEMMA GreatestOf ==
  ASSUME NEW K \in Nat, NEW S \in SUBSET (0 .. K), S # {}
  PROVE  Max(S) \in S /\ \A y \in S : y <= Max(S)
<1> DEFINE T == {K - x : x \in S}
<1>1. T \in SUBSET Nat /\ T # {}
  <2>1. \A x \in S : x \in 0 .. K
    OBVIOUS
  <2>2. \A x \in 0 .. K : K - x \in Nat
    OBVIOUS
  <2> QED
    BY <2>1, <2>2
<1>2. Min(T) \in T /\ \A y \in T : Min(T) <= y
  <2> HIDE DEF T
  <2> QED
    BY <1>1, LeastOf
<1>3. PICK m \in S : Min(T) = K - m
  BY <1>2
<1>4. \A y \in S : K - m <= K - y
  BY <1>2, <1>3
<1>5. \A y \in S : m >= y
  BY <1>4
<1>6. \E x \in S : \A y \in S : x >= y
  BY <1>5
<1>7. Max(S) \in S /\ \A y \in S : Max(S) >= y
  BY <1>6 DEF Max
<1> QED
  BY <1>7

\* BinSort orders the duplicates by the checkpoint of their source when there are
\* as many duplicates as the highest of these checkpoints, or at most two.
LEMMA BinsOrder ==
  ASSUME NEW S, IsFiniteSet(S), NEW source, NEW K \in Nat, \A c \in S : source[c].tree \in 0 .. K,
         NEW shift \in BinSorted(S, source), NEW n, n = Cardinality(S), K <= n \/ n <= 2
  PROVE  \A i, j \in 1 .. n : i < j => source[shift[i]].tree <= source[shift[j]].tree
<1> DEFINE keys == {0} \cup {source[c].tree : c \in S}
           m == Max(keys)
<1>1. /\ n \in Nat /\ shift \in [1 .. n -> S] /\ DOMAIN shift = 1 .. n
      /\ \A x \in S : \E i \in 1 .. n : shift[i] = x
  <2>1. shift \in SetToSeqs(S)
    BY DEF BinSorted
  <2> QED
    BY <2>1, OrderOfSet
<1>2. \A i, j \in 1 .. n : i < j =>
        Bin(source[shift[i]].tree, n, m) <= Bin(source[shift[j]].tree, n, m)
  BY <1>1 DEF BinSorted
<1>3. m \in keys /\ \A y \in keys : y <= m
  <2>1. keys \in SUBSET (0 .. K) /\ keys # {}
    OBVIOUS
  <2> HIDE DEF keys
  <2> QED
    BY <2>1, GreatestOf
<1> HIDE DEF m
<1> SUFFICES ASSUME NEW i \in 1 .. n, NEW j \in 1 .. n, i < j,
                    ~(source[shift[i]].tree <= source[shift[j]].tree)
             PROVE  FALSE
  OBVIOUS
<1>4. PICK a \in 0 .. K : a = source[shift[i]].tree
  BY <1>1
<1>5. PICK b \in 0 .. K : b = source[shift[j]].tree
  BY <1>1
<1>6. b < a /\ a <= m /\ b <= m /\ m \in 0 .. K /\ Bin(a, n, m) <= Bin(b, n, m)
  <2>1. a \in keys /\ b \in keys /\ keys \subseteq 0 .. K
    BY <1>1, <1>4, <1>5, SMTT(30)
  <2>2. a <= m /\ b <= m /\ m \in 0 .. K
    <3> HIDE DEF keys
    <3> QED
      BY <1>3, <2>1
  <2>3. Bin(a, n, m) <= Bin(b, n, m)
    BY <1>2, <1>4, <1>5
  <2>4. b < a
    BY <1>4, <1>5
  <2> QED
    BY <2>2, <2>3, <2>4
<1>7. CASE m <= n
  BY <1>4, <1>5, <1>6, <1>7 DEF Bin
<1>8. CASE n < m
  <2>1. n = 2 /\ i = 1 /\ j = 2
    BY <1>1, <1>6, <1>8
  <2>2. \A x \in S : x = shift[1] \/ x = shift[2]
    BY <1>1, <2>1
  <2>3. m = a
    <3>1. m = 0 \/ m = a \/ m = b
      BY <1>3, <1>4, <1>5, <2>1, <2>2
    <3> QED
      BY <1>4, <1>5, <1>6, <3>1
  <2>4. Bin(a, n, m) = (2 * m) \div m /\ Bin(b, n, m) = (2 * b) \div m
    BY <1>8, <2>1, <2>3 DEF Bin
  <2>5. (2 * m) \div m = 2 /\ (2 * b) \div m < 2
    <3>1. m \in Nat /\ b \in Nat /\ b < m /\ m > 0
      BY <1>5, <1>6, <2>3
    <3> QED
      BY <3>1
  <2>6. (2 * b) \div m \in Int
    BY <1>5, <1>6
  <2> QED
    BY <1>6, <2>4, <2>5, <2>6
<1> QED
  BY <1>1, <1>6, <1>7, <1>8

\* How many of the places 1 .. n hold k, and at most k.
CountAt(n, t, k) == Cardinality({i \in 1 .. n : t[i] = k})

CountUpTo(n, t, k) == Cardinality({i \in 1 .. n : t[i] <= k})

LEMMA CountsTrue ==
  ASSUME NEW n \in Nat, NEW t \in [1 .. n -> Nat], NEW k \in Nat
  PROVE  /\ CountAt(n, t, k) \in Nat /\ CountUpTo(n, t, k) \in Nat
         /\ k = 0 => CountUpTo(n, t, k) = CountAt(n, t, k)
         /\ k > 0 => CountUpTo(n, t, k) = CountAt(n, t, k) + CountUpTo(n, t, k - 1)
<1> DEFINE At == {i \in 1 .. n : t[i] = k}
           Below == {i \in 1 .. n : t[i] <= k - 1}
           All == {i \in 1 .. n : t[i] <= k}
<1>1. IsFiniteSet(1 .. n)
  BY FS_Interval
<1>2. IsFiniteSet(At) /\ IsFiniteSet(Below) /\ IsFiniteSet(All)
  <2>1. At \subseteq 1 .. n /\ Below \subseteq 1 .. n /\ All \subseteq 1 .. n
    OBVIOUS
  <2> HIDE DEF At, Below, All
  <2> QED
    BY <1>1, <2>1, FS_Subset
<1>3. \A i \in 1 .. n : t[i] \in Nat
  OBVIOUS
<1>4. k = 0 => All = At
  BY <1>3
<1>5. k > 0 => All = At \cup Below /\ At \cap Below = {}
  BY <1>3
<1>6. CountAt(n, t, k) = Cardinality(At) /\ CountUpTo(n, t, k) = Cardinality(All)
      /\ CountUpTo(n, t, k - 1) = Cardinality(Below)
  BY DEF CountAt, CountUpTo
<1> HIDE DEF At, Below, All
<1>7. k > 0 => Cardinality(All) = Cardinality(At) + Cardinality(Below)
  <2>1. Cardinality(At \cup Below) =
          Cardinality(At) + Cardinality(Below) - Cardinality(At \cap Below)
    BY <1>2, FS_Union
  <2>2. Cardinality(At) \in Nat /\ Cardinality(Below) \in Nat /\ Cardinality({}) = 0
    BY <1>2, FS_CardinalityType, FS_EmptySet
  <2>3. k > 0 => Cardinality(All) = Cardinality(At) + Cardinality(Below) - 0
    BY <1>5, <2>1, <2>2
  <2> QED
    BY <2>2, <2>3
<1> QED
  BY <1>2, <1>4, <1>6, <1>7, FS_CardinalityType

\* In a sequence in order, those that are at most k come first.
LEMMA CountsInOrder ==
  ASSUME NEW n \in Nat, NEW t \in [1 .. n -> Nat], \A i, j \in 1 .. n : i < j => t[i] <= t[j],
         NEW k \in Nat, NEW i \in 1 .. n
  PROVE  i <= CountUpTo(n, t, k) <=> t[i] <= k
<1> DEFINE All == {j \in 1 .. n : t[j] <= k}
<1>1. IsFiniteSet(All)
  <2>1. IsFiniteSet(1 .. n) /\ All \subseteq 1 .. n
    BY FS_Interval
  <2> QED
    BY <2>1, FS_Subset
<1>2. PICK q \in Nat : q = CountUpTo(n, t, k) /\ q = Cardinality(All)
  BY <1>1, FS_CardinalityType DEF CountUpTo
<1>3. ASSUME t[i] <= k PROVE i <= q
  <2>1. \A j \in 1 .. i : j \in 1 .. n /\ t[j] \in Nat /\ t[i] \in Nat /\ t[j] <= t[i]
    OBVIOUS
  <2>2. 1 .. i \subseteq All
    BY <1>3, <2>1
  <2>3. Cardinality(1 .. i) = i
    BY FS_Interval
  <2> HIDE DEF All
  <2> QED
    BY <1>1, <1>2, <2>2, <2>3, FS_Subset
<1>4. ASSUME ~(t[i] <= k) PROVE q <= i - 1
  <2>1. \A j \in 1 .. n : t[j] <= k => ~(i < j) /\ i # j
    BY <1>4
  <2>2. All \subseteq 1 .. i - 1
    BY <2>1
  <2>3. IsFiniteSet(1 .. i - 1) /\ Cardinality(1 .. i - 1) = i - 1
    BY FS_Interval
  <2> HIDE DEF All
  <2> QED
    BY <1>2, <2>2, <2>3, FS_Subset
<1> QED
  BY <1>2, <1>3, <1>4

\* The scan adds up the sizes of the regions.
LEMMA EndsRead ==
  ASSUME NEW words, NEW header, NEW K \in Nat, K = header.chkpt_id,
         NEW n \in Nat, NEW t \in [1 .. n -> Nat],
         \A k \in 0 .. K : RegionSize(words, header, k) = CountAt(n, t, k)
  PROVE  \A k \in 0 .. K : RegionEnds(words, header)[k] = CountUpTo(n, t, k)
<1> DEFINE size(k) == RegionSize(words, header, k)
           IsEnds(f) == f = [k \in 0 .. K |-> size(k) + (IF k = 0 THEN 0 ELSE f[k - 1])]
           upto == [k \in 0 .. K |-> CountUpTo(n, t, k)]
           ends == RegionEnds(words, header)
           Wrong == {k \in 0 .. K : ends[k] # CountUpTo(n, t, k)}
<1>1. ends = CHOOSE f : IsEnds(f)
  BY DEF RegionEnds
<1>2. \A k \in 0 .. K :
        /\ CountAt(n, t, k) \in Nat /\ CountUpTo(n, t, k) \in Nat
        /\ k = 0 => CountUpTo(n, t, k) = CountAt(n, t, k)
        /\ k > 0 => /\ k - 1 \in 0 .. K
                    /\ CountUpTo(n, t, k) = CountAt(n, t, k) + CountUpTo(n, t, k - 1)
  <2>1. \A k \in 0 .. K : k \in Nat /\ (k > 0 => k - 1 \in 0 .. K)
    OBVIOUS
  <2> QED
    BY <2>1, CountsTrue
<1>3. ASSUME NEW k \in 0 .. K
      PROVE  upto[k] = size(k) + (IF k = 0 THEN 0 ELSE upto[k - 1])
  <2>1. CASE k = 0
    BY <1>2, <2>1
  <2>2. CASE k > 0
    BY <1>2, <2>2
  <2> QED
    BY <2>1, <2>2
<1>4. IsEnds(upto)
  <2> HIDE DEF size
  <2> QED
    BY <1>3
<1>5. IsEnds(ends)
  <2> HIDE DEF IsEnds, ends
  <2> QED
    BY <1>1, <1>4
<1>6. SUFFICES ASSUME Wrong # {} PROVE FALSE
  OBVIOUS
<1> HIDE DEF ends
<1>7. PICK k \in Wrong : \A j \in Wrong : k <= j
  <2>1. Wrong \in SUBSET Nat
    OBVIOUS
  <2> HIDE DEF Wrong
  <2> QED
    BY <1>6, <2>1, LeastOf
<1>8. k \in 0 .. K /\ ends[k] # CountUpTo(n, t, k)
  BY <1>7
<1>9. ends[k] = CountAt(n, t, k) + (IF k = 0 THEN 0 ELSE ends[k - 1])
  BY <1>5, <1>8
<1>10. CASE k = 0
  BY <1>2, <1>8, <1>9, <1>10
<1>11. CASE k > 0
  <2>1. k - 1 \in 0 .. K /\ k - 1 \notin Wrong
    BY <1>7, <1>8, <1>11
  <2>2. ends[k - 1] = CountUpTo(n, t, k - 1)
    BY <2>1
  <2> QED
    BY <1>2, <1>8, <1>9, <1>11, <2>2
<1> QED
  BY <1>8, <1>10, <1>11

\* The checkpoint a restart reads for the source of a duplicate is the one it is
\* in, when the duplicates are in the order of these checkpoints.
LEMMA SourceRead ==
  ASSUME NEW words, NEW header, NEW K \in Nat, K = header.chkpt_id,
         NEW n \in Nat, NEW t \in [1 .. n -> 0 .. K],
         \A i, j \in 1 .. n : i < j => t[i] <= t[j],
         \A k \in 0 .. K : RegionSize(words, header, k) = CountAt(n, t, k),
         NEW i \in 0 .. n - 1
  PROVE  SourceChkpt(words, header, i) = t[i + 1]
<1> DEFINE ends == RegionEnds(words, header)
           past == {k \in 0 .. header.chkpt_id : i < ends[k]}
<1>1. SourceChkpt(words, header, i) = IF past = {} THEN 0 ELSE Min(past)
  BY DEF SourceChkpt
<1>2. t \in [1 .. n -> Nat] /\ i + 1 \in 1 .. n
  OBVIOUS
<1>3. \A k \in 0 .. K : ends[k] = CountUpTo(n, t, k)
  <2> HIDE DEF ends
  <2> QED
    BY <1>2, EndsRead DEF ends
<1>4. \A k \in 0 .. K : k \in Nat /\ CountUpTo(n, t, k) \in Nat
                        /\ (i + 1 <= CountUpTo(n, t, k) <=> t[i + 1] <= k)
  <2>1. \A k \in 0 .. K : k \in Nat
    OBVIOUS
  <2>2. \A k \in Nat : CountUpTo(n, t, k) \in Nat
    BY <1>2, CountsTrue
  <2>3. \A k \in Nat : i + 1 <= CountUpTo(n, t, k) <=> t[i + 1] <= k
    BY <1>2, CountsInOrder
  <2> QED
    BY <2>1, <2>2, <2>3
<1> HIDE DEF ends
<1>5. \A k \in 0 .. K : i < ends[k] <=> t[i + 1] <= k
  BY <1>3, <1>4
<1>6. t[i + 1] \in 0 .. K
  BY <1>2
<1>7. past \in SUBSET Nat /\ t[i + 1] \in past /\ \A k \in past : t[i + 1] <= k
  BY <1>5, <1>6
<1> HIDE DEF past
<1>8. Min(past) \in past /\ Min(past) <= t[i + 1]
  BY <1>7, LeastOf
<1>9. Min(past) \in Nat /\ t[i + 1] \in Nat /\ t[i + 1] <= Min(past)
  BY <1>6, <1>7, <1>8
<1> QED
  BY <1>1, <1>7, <1>8, <1>9

\* Every duplicate is read with the source it was written with.
LEMMA SourcesRead ==
  ASSUME NEW F, NEW S, F \subseteq Chunks, S \subseteq Chunks,
         NEW source, NEW K \in Nat,
         \A c \in S : source[c] \in Entries /\ source[c].tree \in 0 .. K,
         NEW content \in Data,
         NEW first \in SetToSeqs(F), NEW counted \in SetToSeqs(Needed(S, source)),
         NEW shift \in SetToSeqs(S), NEW header,
         NEW m, m = Cardinality(F), NEW n, n = Cardinality(S),
         NEW q, q = Cardinality(Needed(S, source)),
         header.num_first_ocur = m, header.num_prior_chkpts = q,
         header.num_shift_dupl = n, header.chkpt_id = K,
         \A i, j \in 1 .. n :
           i < j => source[shift[i]].tree <= source[shift[j]].tree,
         NEW words, words = DiffWords(first, counted, shift, source, content)
  PROVE  \A i \in DOMAIN Sections(words, header).shift :
           LET e == Sections(words, header).shift[i]
           IN  e.node \in S /\ e.prev = source[e.node]
<1> DEFINE s == Sections(words, header)
           t == [i \in 1 .. n |-> source[shift[i]].tree]
<1>2. /\ words \in Seq(Nat) /\ m \in Nat /\ n \in Nat /\ q \in Nat
      /\ first \in [1 .. m -> F] /\ \A x \in F : \E i \in 1 .. m : first[i] = x
      /\ shift \in [1 .. n -> S] /\ \A x \in S : \E i \in 1 .. n : shift[i] = x
      /\ counted \in [1 .. q -> Needed(S, source)]
      /\ \A x \in Needed(S, source) : \E i \in 1 .. q : counted[i] = x
      /\ \A i \in 0 .. m - 1 : WordAt(words, i) = first[i + 1]
      /\ \A j \in 0 .. q - 1 :
           /\ WordAt(words, m + 2 * j) = counted[j + 1]
           /\ WordAt(words, m + 2 * j + 1) = SourcesIn(n, shift, source, counted[j + 1])
      /\ \A i \in 0 .. n - 1 :
           /\ WordAt(words, m + 2 * q + 2 * i) = shift[i + 1]
           /\ WordAt(words, m + 2 * q + 2 * i + 1) = source[shift[i + 1]].node
      /\ \A i \in 0 .. m - 1 : WordAt(words, m + 2 * q + 2 * n + i) = content[first[i + 1]]
  <2>1. \A c \in S : source[c] \in Entries
    OBVIOUS
  <2> HIDE DEF s, t
  <2> QED
    BY <2>1, DiffWordsRead, SMTT(30)
<1>3. \A i, j \in 1 .. n : i < j => source[shift[i]].tree <= source[shift[j]].tree
  OBVIOUS
<1>4. t \in [1 .. n -> 0 .. K] /\ \A i \in 1 .. n : t[i] = source[shift[i]].tree
  BY <1>2
<1>5. /\ DOMAIN s.shift = 0 .. n - 1
      /\ \A i \in 0 .. n - 1 :
           /\ s.shift[i].node = WordAt(words, m + 2 * q + 2 * i)
           /\ s.shift[i].prev = NodeID(WordAt(words, m + 2 * q + 2 * i + 1),
                                       SourceChkpt(words, header, i))
  BY DEF Sections
<1>6. ASSUME NEW k \in 0 .. K PROVE RegionSize(words, header, k) = CountAt(n, t, k)
  <2> DEFINE entries == {j \in 0 .. q - 1 : WordAt(words, m + 2 * j) = k}
             j0 == CHOOSE j \in entries : TRUE
  <2>1. RegionSize(words, header, k) = IF entries = {} THEN 0 ELSE WordAt(words, m + 2 * j0 + 1)
    BY DEF RegionSize
  <2>2. CountAt(n, t, k) = SourcesIn(n, shift, source, k)
    BY <1>4 DEF CountAt, SourcesIn
  <2>3. CASE entries = {}
    <3>1. \A j \in 1 .. q : counted[j] # k
      <4>1. SUFFICES ASSUME NEW j \in 1 .. q, counted[j] = k PROVE FALSE
        OBVIOUS
      <4>2. j - 1 \in 0 .. q - 1 /\ j - 1 + 1 = j
        BY <1>2
      <4>3. j - 1 \in entries
        <5> HIDE DEF s, t
        <5> QED
          BY <1>2, <4>1, <4>2
      <4> QED
        BY <2>3, <4>3
    <3>2. k \notin Needed(S, source)
      BY <1>2, <3>1
    <3>3. {i \in 1 .. n : source[shift[i]].tree = k} = {}
      BY <1>2, <3>2 DEF Needed
    <3>4. RegionSize(words, header, k) = 0
      BY <2>1, <2>3
    <3> QED
      BY <2>2, <3>3, <3>4, FS_EmptySet DEF SourcesIn
  <2>4. CASE entries # {}
    <3>1. j0 \in entries
      BY <2>4
    <3>2. j0 \in 0 .. q - 1 /\ WordAt(words, m + 2 * j0) = k
      BY <3>1
    <3> HIDE DEF j0, entries, s, t
    <3>3. counted[j0 + 1] = k
      BY <1>2, <3>2
    <3>4. WordAt(words, m + 2 * j0 + 1) = SourcesIn(n, shift, source, k)
      <4>1. WordAt(words, m + 2 * j0 + 1) = SourcesIn(n, shift, source, counted[j0 + 1])
        BY <1>2, <3>2
      <4> QED
        BY <3>3, <4>1
    <3> QED
      BY <2>1, <2>2, <2>4, <3>4
  <2> QED
    BY <2>3, <2>4
<1> HIDE DEF s, t
<1>7. \A i, j \in 1 .. n : i < j => t[i] <= t[j]
  BY <1>3, <1>4
<1>8. ASSUME NEW i \in 0 .. n - 1 PROVE SourceChkpt(words, header, i) = t[i + 1]
  <2>1. \A k \in 0 .. K : RegionSize(words, header, k) = CountAt(n, t, k)
    BY <1>6
  <2>2. n \in Nat
    BY <1>2
  <2>3. t \in [1 .. n -> 0 .. K]
    BY <1>4
  <2>4. K \in Nat /\ K = header.chkpt_id /\ i \in 0 .. n - 1
    OBVIOUS
  <2> QED
    BY ONLY <1>7, <2>1, <2>2, <2>3, <2>4, SourceRead, SMTT(60)
<1>9. ASSUME NEW i \in 0 .. n - 1
      PROVE  s.shift[i].node \in S /\ s.shift[i].prev = source[s.shift[i].node]
  <2>1. i + 1 \in 1 .. n
    BY <1>2
  <2>2. PICK c \in S : c = shift[i + 1]
    BY <1>2, <2>1
  <2>3. s.shift[i].node = c
    BY <1>2, <1>5, <2>2
  <2>4. SourceChkpt(words, header, i) = source[c].tree
    BY <1>4, <1>8, <2>1, <2>2
  <2>5. WordAt(words, m + 2 * q + 2 * i + 1) = source[c].node
    BY <1>2, <2>2
  <2>6. s.shift[i].prev = NodeID(source[c].node, source[c].tree)
    BY <1>5, <2>4, <2>5
  <2>7. source[c] = NodeID(source[c].node, source[c].tree)
    BY DEF Entries, NodeID
  <2> QED
    BY <2>2, <2>3, <2>6, <2>7
<1> QED
  BY <1>5, <1>9 DEF s

\* Whatever duplicates a diff has and in whatever order its kernels leave its sections,
\* a restart reads each first occurrence with its data and, if the sort had enough bins,
\* each duplicate with its source: ListDiffOrders at every size.
THEOREM DiffReadBack ==
  ASSUME NEW F, NEW S, F \subseteq Chunks, S \subseteq Chunks,
         NEW source, NEW K \in Nat,
         \A c \in S : source[c] \in Entries /\ source[c].tree \in 0 .. K,
         NEW content \in Data,
         NEW first \in SetToSeqs(F), NEW counted \in SetToSeqs(Needed(S, source)),
         NEW shift \in BinSorted(S, source), NEW header,
         header.num_first_ocur = Cardinality(F),
         header.num_prior_chkpts = Cardinality(Needed(S, source)),
         header.num_shift_dupl = Cardinality(S), header.chkpt_id = K
  PROVE  LET read == Sections(DiffWords(first, counted, shift, source, content), header)
         IN  /\ {<<read.first[i], read.data[i]>> : i \in DOMAIN read.first}
                  = {<<c, content[c]>> : c \in F}
             /\ \/ \A c \in S : source[c].tree <= Cardinality(S)
                \/ Cardinality(S) <= 2
                => {<<read.shift[i].node, read.shift[i].prev>> : i \in DOMAIN read.shift}
                     = {<<c, source[c]>> : c \in S}
<1> DEFINE words == DiffWords(first, counted, shift, source, content)
           read == Sections(words, header)
           n == Cardinality(S)
<1>1. shift \in SetToSeqs(S)
  BY DEF BinSorted
<1>2. \A c \in S : source[c] \in Entries
  OBVIOUS
<1>3. PICK w : w = words
  OBVIOUS
<1>4. PICK s : s = Sections(w, header)
  OBVIOUS
<1>5. /\ {s.first[i] : i \in DOMAIN s.first} = F
      /\ \A i \in DOMAIN s.first : s.data[i] = content[s.first[i]]
      /\ {s.shift[i].node : i \in DOMAIN s.shift} = S
  BY <1>1, <1>2, <1>3, <1>4, DiffRead
<1>6. {<<s.first[i], s.data[i]>> : i \in DOMAIN s.first} = {<<c, content[c]>> : c \in F}
  BY <1>5
<1>7. ASSUME (\A c \in S : source[c].tree <= n) \/ n <= 2
      PROVE  {<<s.shift[i].node, s.shift[i].prev>> : i \in DOMAIN s.shift}
               = {<<c, source[c]>> : c \in S}
  <2>1. IsFiniteSet(S) /\ n \in Nat
    BY ChunksFinite, FS_Subset, FS_CardinalityType
  <2>2. PICK m : m = n
    OBVIOUS
  <2>3. \A i, j \in 1 .. m : i < j => source[shift[i]].tree <= source[shift[j]].tree
    <3>1. CASE \A c \in S : source[c].tree <= n
      <4>1. \A c \in S : source[c].tree \in 0 .. n
        BY <2>1, <3>1
      <4> QED
        BY <2>1, <2>2, <4>1, BinsOrder
    <3>2. CASE n <= 2
      <4>1. \A c \in S : source[c].tree \in 0 .. K
        OBVIOUS
      <4> QED
        BY <2>1, <2>2, <3>2, <4>1, BinsOrder
    <3> QED
      BY <1>7, <3>1, <3>2
  <2>4. \A i \in DOMAIN s.shift : s.shift[i].node \in S
                                  /\ s.shift[i].prev = source[s.shift[i].node]
    <3>1. /\ m = Cardinality(S) /\ header.num_shift_dupl = m
          /\ \A c \in S : source[c] \in Entries /\ source[c].tree \in 0 .. K
      BY <2>2
    <3> HIDE DEF n, read, words
    <3>2. \A i \in DOMAIN Sections(w, header).shift :
            LET e == Sections(w, header).shift[i]
            IN  e.node \in S /\ e.prev = source[e.node]
      BY <1>1, <1>3, <2>3, <3>1, SourcesRead, SMTT(60) DEF words
    <3> QED
      BY <1>4, <3>2
  <2> QED
    BY <1>5, <2>4
<1> QED
  BY <1>3, <1>4, <1>6, <1>7

-----------------------------------------------------------------------------
(* Facts about the chain *)

\* A step that keeps the diffs keeps what is read of them.
LEMMA ChainKept ==
  ASSUME incr_chkpts' = incr_chkpts
  PROVE  /\ Taken' = Taken
         /\ \A k : /\ Chkpt(k)' = Chkpt(k)
                   /\ SavedIn(k)' = SavedIn(k)
                   /\ PointedIn(k)' = PointedIn(k)
BY DEF Taken, Chkpt, SavedIn, PointedIn, Diff

\* Checkpoint k and its diff are those of the chain.
LEMMA ChkptIn ==
  ASSUME HeadersTrue
  PROVE  /\ Taken = 0 .. current_id - 1
         /\ \A k \in Taken : /\ k \in Nat /\ k + 1 \in 1 .. Len(history)
                             /\ k + 1 \in 1 .. Len(incr_chkpts)
                             /\ history[k + 1] \in Data
                             /\ Chkpt(k) \in Headers
<1>1. /\ current_id \in Nat /\ incr_chkpts \in Seq(Headers) /\ Len(incr_chkpts) = current_id
      /\ history \in Seq(Data) /\ Len(history) = current_id
  BY DEF HeadersTrue
<1>2. Taken = 0 .. current_id - 1
  BY <1>1 DEF Taken
<1>3. \A k \in 0 .. current_id - 1 : k \in Nat /\ k + 1 \in 1 .. current_id
  BY <1>1
<1> QED
  BY <1>1, <1>2, <1>3 DEF Chkpt

\* A step that appends a diff adds a checkpoint to the chain.
LEMMA ChainGrown ==
  ASSUME HeadersTrue, NEW diff \in Headers, incr_chkpts' = Append(incr_chkpts, diff),
         NEW n, n = current_id
  PROVE  /\ Taken' = Taken \cup {n} /\ n \notin Taken
         /\ \A k \in Taken : /\ Chkpt(k)' = Chkpt(k)
                             /\ SavedIn(k)' = SavedIn(k)
                             /\ PointedIn(k)' = PointedIn(k)
         /\ Chkpt(n)' = diff
         /\ SavedIn(n)' = {Sections(diff.words, diff).first[i] :
                             i \in DOMAIN Sections(diff.words, diff).first}
         /\ PointedIn(n)' = {Sections(diff.words, diff).shift[i].node :
                               i \in DOMAIN Sections(diff.words, diff).shift}
<1>1. n \in Nat /\ incr_chkpts \in Seq(Headers) /\ Len(incr_chkpts) = n
  BY DEF HeadersTrue
<1>2. /\ Len(incr_chkpts') = n + 1 /\ incr_chkpts'[n + 1] = diff
      /\ \A i \in 1 .. n : incr_chkpts'[i] = incr_chkpts[i]
  BY <1>1
<1>3. Taken = 0 .. n - 1 /\ Taken' = 0 .. n
  BY <1>1, <1>2 DEF Taken
<1>4. Chkpt(n)' = diff
  BY <1>2 DEF Chkpt
<1>5. \A k \in Taken : Chkpt(k)' = Chkpt(k)
  <2>1. \A k \in 0 .. n - 1 : k + 1 \in 1 .. n
    BY <1>1
  <2> QED
    BY <1>2, <1>3, <2>1 DEF Chkpt
<1>6. \A k \in Taken : SavedIn(k)' = SavedIn(k) /\ PointedIn(k)' = PointedIn(k)
  BY <1>5 DEF SavedIn, PointedIn, Diff
<1>7. /\ SavedIn(n)' = Range(Sections(diff.words, diff).first)
      /\ PointedIn(n)' = {e.node : e \in Range(Sections(diff.words, diff).shift)}
  BY <1>4 DEF SavedIn, PointedIn, Diff
<1> QED
  BY <1>1, <1>3, <1>4, <1>5, <1>6, <1>7 DEF Range

\* Without a thread too many, what is copied of the chunks saved is the data.
LEMMA SavedIsData ==
  ASSUME ThreadsExact, data \in Data
  PROVE  Saved = data
BY DEF Saved, ThreadsExact, Data

\* What collect_diff() writes is a diff of the chain that names the chunks that
\* were pushed.
LEMMA DiffsTrue ==
  ASSUME ThreadsExact, HeadersTrue, RoomLeft, KernelTrue, pc = "dedup", todo = {}, NEW diff \in Diffs
  PROVE  /\ diff \in Headers /\ diff.ref_id = baseline_id
         /\ {Sections(diff.words, diff).first[i] :
               i \in DOMAIN Sections(diff.words, diff).first} = first_ocur_vec
         /\ {Sections(diff.words, diff).shift[i].node :
               i \in DOMAIN Sections(diff.words, diff).shift} = shift_dupl_vec
<1>1. /\ first_ocur_vec \subseteq Chunks /\ shift_dupl_vec \subseteq Chunks /\ data \in Data
      /\ \A c \in Chunks : list[c] = Hash(data[c])
      /\ \A c \in shift_dupl_vec : Hash(data[c]) \in DOMAIN first_ocur
  BY DEF KernelTrue
<1>2. \A c \in shift_dupl_vec : Source[c] \in Entries
  BY <1>1 DEF RoomLeft, Source
<1>3. PICK first \in SetToSeqs(first_ocur_vec),
           counted \in SetToSeqs(Needed(shift_dupl_vec, Source)),
           shift \in BinSorted(shift_dupl_vec, Source) :
        diff = [ref_id |-> baseline_id, chkpt_id |-> current_id,
                num_first_ocur |-> Cardinality(first_ocur_vec),
                num_prior_chkpts |-> Cardinality(Needed(shift_dupl_vec, Source)),
                num_shift_dupl |-> Cardinality(shift_dupl_vec),
                words |-> DiffWords(first, counted, shift, Source, data)]
  BY <1>1, SavedIsData DEF Diffs
<1>4. shift \in SetToSeqs(shift_dupl_vec)
  BY DEF BinSorted
<1>5. /\ diff.ref_id = baseline_id /\ diff.num_first_ocur = Cardinality(first_ocur_vec)
      /\ diff.num_prior_chkpts = Cardinality(Needed(shift_dupl_vec, Source))
      /\ diff.num_shift_dupl = Cardinality(shift_dupl_vec)
      /\ diff.words = DiffWords(first, counted, shift, Source, data)
  BY <1>3
<1>6. /\ diff.words \in Seq(Nat)
      /\ {Sections(diff.words, diff).first[i] :
            i \in DOMAIN Sections(diff.words, diff).first} = first_ocur_vec
      /\ {Sections(diff.words, diff).shift[i].node :
            i \in DOMAIN Sections(diff.words, diff).shift} = shift_dupl_vec
  BY <1>1, <1>2, <1>4, <1>5, DiffRead
<1>7. /\ Cardinality(first_ocur_vec) \in Nat /\ Cardinality(shift_dupl_vec) \in Nat
      /\ Cardinality(Needed(shift_dupl_vec, Source)) \in Nat
  <2>1. IsFiniteSet(first_ocur_vec) /\ IsFiniteSet(shift_dupl_vec)
    BY <1>1, ChunksFinite, FS_Subset
  <2> QED
    BY <1>2, <2>1, NeededFinite, FS_CardinalityType
<1>8. diff \in Headers
  BY <1>3, <1>5, <1>6, <1>7 DEF HeadersTrue, Headers
<1> QED
  BY <1>5, <1>6, <1>8

-----------------------------------------------------------------------------
(* Coherent is an invariant, whatever fails *)

LEMMA CoherentInit == Init => Coherent
<1> SUFFICES ASSUME Init PROVE Coherent
  OBVIOUS
<1> USE DEF Init
<1>1. Taken = {}
  BY DEF Taken
<1>2. HeadersTrue
  BY <1>1 DEF HeadersTrue
<1>3. RoomLeft
  BY FS_EmptySet DEF RoomLeft
<1>4. KernelTrue
  BY DEF KernelTrue
<1>5. SavedKnown /\ SavingNew
  BY <1>1 DEF SavedKnown, SavingNew, Chain
<1> QED
  BY <1>2, <1>3, <1>4, <1>5 DEF Coherent

LEMMA CoherentCheckpoint ==
  ASSUME ThreadsExact, Coherent, NEW d \in Data, NEW make_baseline \in BOOLEAN,
         Checkpoint(d, make_baseline)
  PROVE  Coherent'
<1> USE DEF Coherent
<1>1. /\ pc = "idle" /\ pc' = "dedup" /\ data' = d /\ todo' = Chunks
      /\ first_ocur_vec' = {} /\ shift_dupl_vec' = {}
      /\ current_id' = current_id /\ incr_chkpts' = incr_chkpts /\ history' = history
      /\ baseline_id' = IF make_baseline THEN current_id ELSE baseline_id
      /\ current_id = 0 => make_baseline
  BY DEF Checkpoint, ThreadsExact
<1>2. /\ first_ocur' = IF make_baseline THEN [e \in {} |-> Untouched] ELSE first_ocur
      /\ list' = IF make_baseline THEN [c \in Chunks |-> NoDigest] ELSE list
      /\ capacity' = Rehashed(IF make_baseline THEN NumChunks ELSE capacity,
                              Cardinality(DOMAIN first_ocur'))
  BY DEF Checkpoint, MapAtStart, ThreadsExact
<1>3. /\ Taken' = Taken
      /\ \A k : Chkpt(k)' = Chkpt(k) /\ SavedIn(k)' = SavedIn(k) /\ PointedIn(k)' = PointedIn(k)
  BY <1>1, ChainKept
<1>4. /\ current_id \in Nat /\ baseline_id \in 0 .. current_id
      /\ \A k \in Taken : k \in 0 .. current_id - 1 /\ Chkpt(k).ref_id \in 0 .. k
  BY ChkptIn DEF HeadersTrue
<1>5. HeadersTrue'
  BY <1>1, <1>3, <1>4 DEF HeadersTrue
<1>6. RoomLeft'
  <2>1. /\ IsFiniteSet(DOMAIN first_ocur') /\ Cardinality(DOMAIN first_ocur') \in Nat
        /\ \A e \in DOMAIN first_ocur' : first_ocur'[e] \in Entries
    BY <1>2, FS_EmptySet, FS_CardinalityType DEF RoomLeft
  <2>2. NumChunks \in Nat /\ Cardinality(todo') = NumChunks
    BY <1>1, ChunksFinite, SizeAssumption
  <2>3. capacity \in Nat
    BY DEF RoomLeft
  <2>4. PICK size \in Nat : size = Cardinality(DOMAIN first_ocur')
    BY <2>1
  <2>5. capacity' \in Nat /\ size + NumChunks <= capacity'
    BY <1>2, <2>2, <2>3, <2>4 DEF Rehashed
  <2> QED
    BY <2>1, <2>2, <2>4, <2>5 DEF RoomLeft
<1>7. KernelTrue'
  <2>1. DOMAIN list' = Chunks
    BY <1>1, <1>2, <1>4 DEF KernelTrue
  <2> QED
    BY <1>1, <2>1 DEF KernelTrue
<1>8. SavedKnown'
  <2>1. CASE make_baseline
    <3>1. Chain' = {}
      BY <1>1, <1>3, <1>4, <2>1 DEF Chain
    <3> QED
      BY <1>1, <1>3, <3>1 DEF SavedKnown
  <2>2. CASE ~make_baseline
    <3>1. Chain' = Chain
      BY <1>1, <1>3, <2>2 DEF Chain
    <3> QED
      BY <1>1, <1>2, <1>3, <2>2, <3>1 DEF SavedKnown
  <2> QED
    BY <2>1, <2>2
<1>9. SavingNew'
  BY <1>1 DEF SavingNew
<1> QED
  BY <1>5, <1>6, <1>7, <1>8, <1>9

\* What the thread of chunk c leaves behind.
LEMMA ThreadRan ==
  ASSUME ThreadsExact, Coherent, NEW c, DedupChunk(c)
  PROVE  /\ pc = "dedup" /\ pc' = "dedup" /\ c \in todo /\ c \in Chunks /\ todo' = todo \ {c}
         /\ current_id' = current_id /\ baseline_id' = baseline_id /\ capacity' = capacity
         /\ data' = data /\ incr_chkpts' = incr_chkpts /\ history' = history
         /\ DOMAIN list' = Chunks /\ list'[c] = Hash(data[c])
         /\ \A x \in Chunks : x # c => list'[x] = list[x]
         /\ \/ /\ list[c] # Hash(data[c]) /\ Hash(data[c]) \notin DOMAIN first_ocur
               /\ DOMAIN first_ocur' = DOMAIN first_ocur \cup {Hash(data[c])}
               /\ first_ocur'[Hash(data[c])] = [node |-> c, tree |-> current_id]
               /\ \A e \in DOMAIN first_ocur : first_ocur'[e] = first_ocur[e]
               /\ first_ocur_vec' = first_ocur_vec \cup {c}
               /\ shift_dupl_vec' = shift_dupl_vec
            \/ /\ list[c] # Hash(data[c]) /\ Hash(data[c]) \in DOMAIN first_ocur
               /\ first_ocur' = first_ocur /\ first_ocur_vec' = first_ocur_vec
               /\ shift_dupl_vec' = shift_dupl_vec \cup {c}
            \/ /\ list[c] = Hash(data[c])
               /\ first_ocur' = first_ocur /\ first_ocur_vec' = first_ocur_vec
               /\ shift_dupl_vec' = shift_dupl_vec
<1>1. /\ pc = "dedup" /\ pc' = "dedup" /\ c \in todo /\ todo' = todo \ {c}
      /\ current_id' = current_id /\ baseline_id' = baseline_id /\ capacity' = capacity
      /\ data' = data /\ incr_chkpts' = incr_chkpts /\ history' = history
      /\ list' = [list EXCEPT ![c] = Digest(c)]
  BY DEF DedupChunk
<1>2. todo \subseteq Chunks /\ DOMAIN list = Chunks
  BY <1>1 DEF Coherent, KernelTrue
<1>6. c \in Chunks /\ Digest(c) = Hash(data[c])
  BY <1>1, <1>2 DEF Digest
<1>7. \/ Changed(c) /\ IsNew(Digest(c))
      \/ Changed(c) /\ ~IsNew(Digest(c))
      \/ ~Changed(c)
  OBVIOUS
<1>3. CASE Changed(c) /\ IsNew(Digest(c))
  <2>1. /\ first_ocur' = [e \in DOMAIN first_ocur \cup {Digest(c)} |->
             IF e = Digest(c) THEN NodeID(c, current_id) ELSE first_ocur[e]]
        /\ first_ocur_vec' = first_ocur_vec \cup {c} /\ shift_dupl_vec' = shift_dupl_vec
    BY <1>3, <1>6 DEF DedupChunk
  <2> QED
    BY <1>1, <1>2, <1>3, <1>6, <2>1 DEF Changed, IsNew, NodeID
<1>4. CASE Changed(c) /\ ~IsNew(Digest(c))
  <2>1. /\ first_ocur' = first_ocur /\ first_ocur_vec' = first_ocur_vec
        /\ shift_dupl_vec' = shift_dupl_vec \cup {c}
    BY <1>4, <1>6 DEF DedupChunk
  <2> QED
    BY <1>1, <1>2, <1>4, <1>6, <2>1 DEF Changed, IsNew
<1>5. CASE ~Changed(c)
  <2>1. /\ first_ocur' = first_ocur /\ first_ocur_vec' = first_ocur_vec
        /\ shift_dupl_vec' = shift_dupl_vec
    BY <1>5, <1>6 DEF DedupChunk
  <2> QED
    BY <1>1, <1>2, <1>5, <1>6, <2>1 DEF Changed
<1> QED
  BY <1>3, <1>4, <1>5, <1>7

LEMMA CoherentDedupChunk ==
  ASSUME ThreadsExact, Coherent, NEW c, DedupChunk(c)
  PROVE  Coherent'
<1> USE DEF Coherent
<1>1. /\ pc = "dedup" /\ pc' = "dedup" /\ c \in todo /\ c \in Chunks /\ todo' = todo \ {c}
      /\ current_id' = current_id /\ baseline_id' = baseline_id /\ capacity' = capacity
      /\ data' = data /\ incr_chkpts' = incr_chkpts /\ history' = history
      /\ DOMAIN list' = Chunks /\ list'[c] = Hash(data[c])
      /\ \A x \in Chunks : x # c => list'[x] = list[x]
  BY ThreadRan
<1>2. \/ /\ Hash(data[c]) \notin DOMAIN first_ocur
         /\ DOMAIN first_ocur' = DOMAIN first_ocur \cup {Hash(data[c])}
         /\ first_ocur'[Hash(data[c])] = [node |-> c, tree |-> current_id]
         /\ \A e \in DOMAIN first_ocur : first_ocur'[e] = first_ocur[e]
         /\ first_ocur_vec' = first_ocur_vec \cup {c}
         /\ shift_dupl_vec' = shift_dupl_vec
      \/ /\ Hash(data[c]) \in DOMAIN first_ocur
         /\ first_ocur' = first_ocur /\ first_ocur_vec' = first_ocur_vec
         /\ shift_dupl_vec' = shift_dupl_vec \cup {c}
      \/ /\ first_ocur' = first_ocur /\ first_ocur_vec' = first_ocur_vec
         /\ shift_dupl_vec' = shift_dupl_vec
  BY ThreadRan
<1>3. DOMAIN first_ocur \subseteq DOMAIN first_ocur'
  BY <1>2
<1>4. /\ Taken' = Taken /\ Chain' = Chain
      /\ \A k : Chkpt(k)' = Chkpt(k) /\ SavedIn(k)' = SavedIn(k) /\ PointedIn(k)' = PointedIn(k)
  BY <1>1, ChainKept DEF Chain
<1>5. HeadersTrue'
  BY <1>1, <1>4 DEF HeadersTrue
<1>6. RoomLeft'
  <2>1. IsFiniteSet(todo) /\ Cardinality(todo) \in Nat
    BY ChunksFinite, FS_Subset, FS_CardinalityType DEF KernelTrue
  <2>2. Cardinality(todo') = Cardinality(todo) - 1
    BY <1>1, <2>1, FS_RemoveElement
  <2>3. /\ IsFiniteSet(DOMAIN first_ocur) /\ Cardinality(DOMAIN first_ocur) \in Nat
        /\ Cardinality(DOMAIN first_ocur) + Cardinality(todo) <= capacity /\ capacity \in Nat
    BY FS_CardinalityType DEF RoomLeft
  <2>4. CASE first_ocur' = first_ocur
    <3>1. capacity' = capacity
      BY <1>1
    <3> QED
      BY <2>1, <2>2, <2>3, <2>4, <3>1 DEF RoomLeft
  <2>5. CASE first_ocur' # first_ocur
    <3>1. IsFiniteSet(DOMAIN first_ocur')
          /\ Cardinality(DOMAIN first_ocur') = Cardinality(DOMAIN first_ocur) + 1
      BY <1>2, <2>3, <2>5, FS_AddElement
    <3>2. current_id \in Nat /\ c \in Nat
      BY <1>1, ChunksFinite DEF HeadersTrue
    <3>3. \A e \in DOMAIN first_ocur' : first_ocur'[e] \in Entries
      BY <1>2, <2>5, <3>2 DEF RoomLeft, Entries
    <3>4. capacity' = capacity
      BY <1>1
    <3> QED
      BY <2>1, <2>2, <2>3, <3>1, <3>3, <3>4 DEF RoomLeft
  <2> QED
    BY <2>4, <2>5
<1>7. KernelTrue'
  <2>1. /\ todo' \subseteq Chunks /\ first_ocur_vec' \subseteq Chunks
        /\ shift_dupl_vec' \subseteq Chunks /\ data' \in Data
    BY <1>1, <1>2 DEF KernelTrue
  <2>2. \A x \in Chunks \ todo' : list'[x] = Hash(data'[x])
    BY <1>1 DEF KernelTrue
  <2>3. (first_ocur_vec' \cup shift_dupl_vec') \cap todo' = {}
    BY <1>1, <1>2 DEF KernelTrue
  <2>4. \A x \in first_ocur_vec' \cup shift_dupl_vec' : Hash(data'[x]) \in DOMAIN first_ocur'
    BY <1>1, <1>2, <1>3 DEF KernelTrue
  <2> QED
    BY <1>1, <2>1, <2>2, <2>3, <2>4 DEF KernelTrue
<1>8. SavedKnown'
  BY <1>1, <1>3, <1>4 DEF SavedKnown
<1>9. SavingNew'
  <2>1. CASE first_ocur_vec' = first_ocur_vec
    BY <1>1, <1>4, <2>1 DEF SavingNew
  <2>2. CASE first_ocur_vec' # first_ocur_vec
    <3>1. Hash(data[c]) \notin DOMAIN first_ocur /\ first_ocur_vec' = first_ocur_vec \cup {c}
      BY <1>2, <2>2
    <3>2. \A x \in first_ocur_vec : data[c] # data[x]
      BY <1>1, <3>1 DEF KernelTrue
    <3>3. \A k \in Chain : \A x \in SavedIn(k) : data[c] # history[k + 1][x]
      BY <3>1 DEF SavedKnown
    <3> QED
      BY <1>1, <1>4, <3>1, <3>2, <3>3 DEF SavingNew
  <2> QED
    BY <2>1, <2>2
<1> QED
  BY <1>5, <1>6, <1>7, <1>8, <1>9

\* The chain after collect_diff().
LEMMA CheckpointTaken ==
  ASSUME ThreadsExact, Coherent, FinishCheckpoint, NEW n, n = current_id
  PROVE  /\ pc = "dedup" /\ pc' = "idle" /\ todo = {} /\ todo' = {}
         /\ n \in Nat /\ current_id' = n + 1 /\ baseline_id' = baseline_id
         /\ list' = list /\ first_ocur' = first_ocur /\ capacity' = capacity
         /\ first_ocur_vec' = first_ocur_vec /\ shift_dupl_vec' = shift_dupl_vec
         /\ data \in Data
         /\ \E diff \in Headers : /\ incr_chkpts' = Append(incr_chkpts, diff)
                                  /\ diff.ref_id = baseline_id
         /\ Taken' = Taken \cup {n} /\ n \notin Taken
         /\ \A k \in Taken : /\ k \in Nat /\ history'[k + 1] = history[k + 1]
                             /\ k > 0 => history'[k] = history[k]
                             /\ Chkpt(k)' = Chkpt(k)
                             /\ SavedIn(k)' = SavedIn(k)
                             /\ PointedIn(k)' = PointedIn(k)
         /\ history' = Append(history, data) /\ history'[n + 1] = data
         /\ n > 0 => history'[n] = history[n]
         /\ Chkpt(n)'.ref_id = baseline_id
         /\ SavedIn(n)' = first_ocur_vec /\ PointedIn(n)' = shift_dupl_vec
         /\ Chain' = Chain \cup {n}
<1> USE DEF Coherent
<1>1. /\ pc = "dedup" /\ pc' = "idle" /\ todo = {} /\ todo' = {}
      /\ current_id' = n + 1 /\ baseline_id' = baseline_id
      /\ list' = list /\ first_ocur' = first_ocur /\ capacity' = capacity
      /\ first_ocur_vec' = first_ocur_vec /\ shift_dupl_vec' = shift_dupl_vec
      /\ history' = Append(history, data)
  BY DEF FinishCheckpoint
<1>2. PICK diff \in Diffs : incr_chkpts' = Append(incr_chkpts, diff)
  BY DEF FinishCheckpoint
<1>3. /\ diff \in Headers /\ diff.ref_id = baseline_id
      /\ {Sections(diff.words, diff).first[i] :
            i \in DOMAIN Sections(diff.words, diff).first} = first_ocur_vec
      /\ {Sections(diff.words, diff).shift[i].node :
            i \in DOMAIN Sections(diff.words, diff).shift} = shift_dupl_vec
  BY <1>1, DiffsTrue
<1>4. /\ Taken' = Taken \cup {n} /\ n \notin Taken
      /\ \A k \in Taken : /\ Chkpt(k)' = Chkpt(k)
                          /\ SavedIn(k)' = SavedIn(k)
                          /\ PointedIn(k)' = PointedIn(k)
      /\ Chkpt(n)' = diff
      /\ SavedIn(n)' = first_ocur_vec /\ PointedIn(n)' = shift_dupl_vec
  BY <1>2, <1>3, ChainGrown
<1>5. data \in Data /\ n \in Nat /\ history \in Seq(Data) /\ Len(history) = n
  BY <1>1 DEF KernelTrue, HeadersTrue
<1>6. /\ history'[n + 1] = data
      /\ \A i \in 1 .. n : history'[i] = history[i]
  BY <1>1, <1>5
<1>7. Taken = 0 .. n - 1
  BY ChkptIn
<1>8. \A k \in Taken : /\ k \in Nat /\ history'[k + 1] = history[k + 1]
                       /\ k > 0 => history'[k] = history[k]
  <2>1. \A k \in 0 .. n - 1 : k \in Nat /\ k + 1 \in 1 .. n /\ (k > 0 => k \in 1 .. n)
    BY <1>5
  <2> QED
    BY <1>6, <1>7, <2>1
<1>9. n > 0 => history'[n] = history[n]
  BY <1>5, <1>6
<1>10. Chain' = Chain \cup {n}
  BY <1>1, <1>3, <1>4 DEF Chain
<1> QED
  BY <1>1, <1>2, <1>3, <1>4, <1>5, <1>6, <1>8, <1>9, <1>10

LEMMA CoherentFinishCheckpoint ==
  ASSUME ThreadsExact, Coherent, FinishCheckpoint
  PROVE  Coherent'
<1> USE DEF Coherent
<1>1. PICK n : n = current_id
  OBVIOUS
<1>2. /\ pc = "dedup" /\ pc' = "idle" /\ todo = {} /\ todo' = {}
      /\ n \in Nat /\ current_id' = n + 1 /\ baseline_id' = baseline_id
      /\ list' = list /\ first_ocur' = first_ocur /\ capacity' = capacity
      /\ first_ocur_vec' = first_ocur_vec /\ shift_dupl_vec' = shift_dupl_vec
      /\ data \in Data
  BY <1>1, CheckpointTaken
<1>3. /\ Taken' = Taken \cup {n} /\ n \notin Taken
      /\ \A k \in Taken : /\ k \in Nat /\ history'[k + 1] = history[k + 1]
                          /\ Chkpt(k)' = Chkpt(k)
                          /\ SavedIn(k)' = SavedIn(k)
      /\ history'[n + 1] = data /\ Chkpt(n)'.ref_id = baseline_id
      /\ SavedIn(n)' = first_ocur_vec
      /\ Chain' = Chain \cup {n}
  BY <1>1, CheckpointTaken
<1>4. HeadersTrue'
  <2>1. PICK diff \in Headers : incr_chkpts' = Append(incr_chkpts, diff)
    BY <1>1, CheckpointTaken
  <2>2. history' = Append(history, data)
    BY <1>1, CheckpointTaken
  <2>3. /\ incr_chkpts' \in Seq(Headers) /\ Len(incr_chkpts') = n + 1
        /\ history' \in Seq(Data) /\ Len(history') = n + 1
    BY <1>1, <1>2, <2>1, <2>2 DEF HeadersTrue
  <2>4. baseline_id \in 0 .. n /\ baseline_id' \in 0 .. n + 1
    BY <1>1, <1>2 DEF HeadersTrue
  <2>5. \A k \in Taken' : (Chkpt(k)').ref_id \in 0 .. k
    BY <1>3, <2>4 DEF HeadersTrue
  <2> QED
    BY <1>2, <2>3, <2>4, <2>5 DEF HeadersTrue
<1>5. RoomLeft'
  BY <1>2 DEF RoomLeft
<1>6. KernelTrue'
  BY <1>2 DEF KernelTrue
<1>7. SavedKnown'
  <2>1. \A k \in Taken' : SavedIn(k)' \subseteq Chunks
    BY <1>3 DEF SavedKnown, KernelTrue
  <2>2. \A k \in Chain' : \A c \in SavedIn(k)' : Hash(history'[k + 1][c]) \in DOMAIN first_ocur'
    <3>1. \A c \in first_ocur_vec : Hash(data[c]) \in DOMAIN first_ocur
      BY <1>2 DEF KernelTrue
    <3>2. Chain \subseteq Taken
      BY DEF Chain
    <3> QED
      BY <1>2, <1>3, <3>1, <3>2 DEF SavedKnown
  <2>3. ASSUME NEW j \in Taken', NEW k \in Taken', (Chkpt(j)').ref_id = (Chkpt(k)').ref_id,
               NEW c \in SavedIn(j)', NEW d \in SavedIn(k)',
               history'[j + 1][c] = history'[k + 1][d]
        PROVE  j = k /\ c = d
    <3>1. CASE j \in Taken /\ k \in Taken
      BY <1>3, <2>3, <3>1 DEF SavedKnown
    <3>2. CASE j = n /\ k = n
      BY <1>2, <1>3, <2>3, <3>2 DEF SavingNew
    <3>3. CASE j = n /\ k \in Taken
      <4>1. k \in Chain /\ d \in SavedIn(k) /\ c \in first_ocur_vec
        BY <1>3, <2>3, <3>3 DEF Chain
      <4> QED
        BY <1>2, <1>3, <2>3, <3>3, <4>1 DEF SavingNew
    <3>4. CASE j \in Taken /\ k = n
      <4>1. j \in Chain /\ c \in SavedIn(j) /\ d \in first_ocur_vec
        BY <1>3, <2>3, <3>4 DEF Chain
      <4> QED
        BY <1>2, <1>3, <2>3, <3>4, <4>1 DEF SavingNew
    <3> QED
      BY <1>3, <3>1, <3>2, <3>3, <3>4
  <2> QED
    BY <2>1, <2>2, <2>3 DEF SavedKnown
<1>8. SavingNew'
  BY <1>2 DEF SavingNew
<1> QED
  BY <1>4, <1>5, <1>6, <1>7, <1>8

\* Every other step leaves the deduplicator alone, and none starts a kernel.
LEMMA OtherSteps ==
  ASSUME [Next]_vars,
         ~ \E d \in Data, make_baseline \in BOOLEAN : Checkpoint(d, make_baseline),
         ~ \E c \in todo : DedupChunk(c), ~ FinishCheckpoint
  PROVE  /\ UNCHANGED <<current_id, baseline_id, list, first_ocur, capacity, data,
                        first_ocur_vec, shift_dupl_vec, incr_chkpts, history, todo>>
         /\ \/ spoiled' = spoiled /\ (pc' = "dedup" <=> pc = "dedup")
            \/ spoiled' = spoiled \cup {current_id} /\ pc' = "idle"
<1>1. CASE UNCHANGED vars
  BY <1>1 DEF vars, dedupVars
<1>2. CASE FailToWrite
  BY <1>2 DEF FailToWrite
<1>3. CASE RestartFirst
  BY <1>3 DEF RestartFirst, dedupVars
<1>4. CASE RestartRepeats
  BY <1>4 DEF RestartRepeats, dedupVars
<1>5. CASE FillSame
  BY <1>5 DEF FillSame, dedupVars
<1>6. CASE RestartPrior
  BY <1>6 DEF RestartPrior, dedupVars
<1>7. CASE FinishRestart
  BY <1>7 DEF FinishRestart, dedupVars
<1>8. CASE \E k \in 0 .. Len(incr_chkpts) - 1 : RestartFromViews(k) \/ RestartFromFiles(k)
  BY <1>8 DEF RestartFromViews, RestartFromFiles, OpenCheckpoint, dedupVars
<1>9. CASE Release
  BY <1>9 DEF Release, dedupVars
<1> QED
  BY <1>1, <1>2, <1>3, <1>4, <1>5, <1>6, <1>7, <1>8, <1>9 DEF Next, Progress, Call

LEMMA CoherentStep == ThreadsExact /\ Coherent /\ [Next]_vars => Coherent'
<1> SUFFICES ASSUME ThreadsExact, Coherent, [Next]_vars PROVE Coherent'
  OBVIOUS
<1>1. CASE \E d \in Data, make_baseline \in BOOLEAN : Checkpoint(d, make_baseline)
  BY <1>1, CoherentCheckpoint
<1>2. CASE \E c \in todo : DedupChunk(c)
  BY <1>2, CoherentDedupChunk
<1>3. CASE FinishCheckpoint
  BY <1>3, CoherentFinishCheckpoint
<1>4. CASE /\ ~ \E d \in Data, make_baseline \in BOOLEAN : Checkpoint(d, make_baseline)
           /\ ~ \E c \in todo : DedupChunk(c)
           /\ ~ FinishCheckpoint
  <2>1. /\ pc' = "dedup" => pc = "dedup"
        /\ todo' = todo
    BY <1>4, OtherSteps
  <2>2. /\ current_id' = current_id /\ baseline_id' = baseline_id /\ list' = list
        /\ first_ocur' = first_ocur /\ capacity' = capacity /\ data' = data
        /\ first_ocur_vec' = first_ocur_vec /\ shift_dupl_vec' = shift_dupl_vec
        /\ incr_chkpts' = incr_chkpts /\ history' = history
    BY <1>4, OtherSteps
  <2>3. /\ Taken' = Taken /\ Chain' = Chain
        /\ \A k : Chkpt(k)' = Chkpt(k) /\ SavedIn(k)' = SavedIn(k)
    BY <2>2, ChainKept DEF Chain
  <2>4. HeadersTrue'
    BY <2>2, <2>3 DEF Coherent, HeadersTrue
  <2>5. RoomLeft'
    BY <2>1, <2>2 DEF Coherent, RoomLeft
  <2>6. KernelTrue'
    BY <2>1, <2>2 DEF Coherent, KernelTrue
  <2>7. SavedKnown'
    BY <2>2, <2>3 DEF Coherent, SavedKnown
  <2>8. SavingNew'
    BY <2>1, <2>2, <2>3 DEF Coherent, SavingNew
  <2> QED
    BY <2>4, <2>5, <2>6, <2>7, <2>8 DEF Coherent
<1> QED
  BY <1>1, <1>2, <1>3, <1>4

\* The invariant, for every region that no thread too many works on and threads in
\* any order, with and without files that fail.
THEOREM CoherentAlways == ThreadsExact => (Spec => []Coherent)
<1> SUFFICES ASSUME ThreadsExact PROVE Spec => []Coherent
  OBVIOUS
<1>1. Coherent /\ [Next]_vars => Coherent'
  BY CoherentStep
<1> QED
  BY <1>1, CoherentInit, PTL DEF Spec

\* No vector and no map is ever written past its allocation, whatever failed before:
\* insert() and push() are safe not to look (list_approach.cpp:34-68), unless there is
\* a thread too many (list_approach.cpp:27-29).
THEOREM RoomAlwaysEnough == ThreadsExact => (Spec => []RoomEnough)
<1> SUFFICES ASSUME ThreadsExact PROVE Spec => []RoomEnough
  OBVIOUS
<1>1. Coherent => RoomEnough
  <2> SUFFICES ASSUME Coherent PROVE RoomEnough
    OBVIOUS
  <2>1. /\ Cardinality(first_ocur_vec) <= NumChunks
        /\ Cardinality(shift_dupl_vec) <= NumChunks
    BY ChunksFinite, FS_Subset DEF Coherent, KernelTrue
  <2>2. Cardinality(todo) \in Nat /\ Cardinality(DOMAIN first_ocur) \in Nat
    BY ChunksFinite, FS_Subset, FS_CardinalityType DEF Coherent, KernelTrue, RoomLeft
  <2>3. Cardinality(DOMAIN first_ocur) <= capacity
    BY <2>2 DEF Coherent, RoomLeft
  <2> QED
    BY <2>1, <2>3 DEF RoomEnough
<1>2. Spec => []Coherent
  BY CoherentAlways
<1> QED
  BY <1>1, <1>2, PTL

\* No chain holds a content twice, however the threads of the kernel race for the
\* map and whichever files could not be written.
THEOREM SavedOnceAlways == ThreadsExact => (Spec => []SavedOnce)
<1> SUFFICES ASSUME ThreadsExact PROVE Spec => []SavedOnce
  OBVIOUS
<1>1. Coherent => SavedOnce
  BY DEF Coherent, SavedKnown, SavedOnce
<1>2. Spec => []Coherent
  BY CoherentAlways
<1> QED
  BY <1>1, <1>2, PTL

-----------------------------------------------------------------------------
(* Exact, whatever writes fail *)

LEMMA ExactInit == Init => Exact
<1> SUFFICES ASSUME Init PROVE Exact
  OBVIOUS
<1>1. Coherent
  BY CoherentInit
<1> USE DEF Init
<1>2. Taken = {}
  BY DEF Taken
<1>3. ListIsNewest /\ ListAhead /\ OmittedSame /\ MapTrue
  BY <1>2 DEF ListIsNewest, ListAhead, OmittedSame, MapTrue
<1> QED
  BY <1>1, <1>3 DEF Exact

LEMMA ExactCheckpoint ==
  ASSUME ThreadsExact, Exact, Coherent', NEW d \in Data, NEW make_baseline \in BOOLEAN,
         Checkpoint(d, make_baseline)
  PROVE  Exact'
<1> USE DEF Exact
<1>1. /\ pc = "idle" /\ pc' = "dedup" /\ todo' = Chunks
      /\ first_ocur_vec' = {} /\ shift_dupl_vec' = {}
      /\ current_id' = current_id /\ incr_chkpts' = incr_chkpts /\ history' = history
      /\ baseline_id' = IF make_baseline THEN current_id ELSE baseline_id
      /\ current_id = 0 => make_baseline
      /\ list' = IF make_baseline THEN [c \in Chunks |-> NoDigest] ELSE list
      /\ spoiled' = IF make_baseline THEN spoiled \ {current_id} ELSE spoiled
  BY DEF Checkpoint, ThreadsExact
<1>2. first_ocur' = IF make_baseline THEN [e \in {} |-> Untouched] ELSE first_ocur
  BY DEF Checkpoint, MapAtStart
<1>3. /\ Taken' = Taken
      /\ \A k : Chkpt(k)' = Chkpt(k) /\ SavedIn(k)' = SavedIn(k) /\ PointedIn(k)' = PointedIn(k)
  BY <1>1, ChainKept
<1>4. current_id \in Nat
  BY DEF Coherent, HeadersTrue
<1>5. ListIsNewest'
  BY <1>1 DEF ListIsNewest
<1>6. ListAhead'
  <2>1. CASE make_baseline
    BY <1>1, <2>1 DEF ListAhead
  <2>2. CASE ~make_baseline
    BY <1>1, <1>4, <2>2 DEF ListAhead, ListIsNewest
  <2> QED
    BY <2>1, <2>2
<1>7. OmittedSame'
  <2>1. \A k \in Taken : k \in spoiled' <=> k \in spoiled
    BY <1>1, <1>4 DEF Coherent, HeadersTrue, Taken
  <2> QED
    BY <1>1, <1>3, <2>1 DEF OmittedSame
<1>8. MapTrue'
  <2>1. CASE make_baseline
    BY <1>2, <2>1 DEF MapTrue
  <2>2. CASE ~make_baseline
    <3>1. Chain' = Chain
      BY <1>1, <1>3, <2>2 DEF Chain
    <3>2. current_id \notin spoiled => \A digest \in DOMAIN first_ocur :
            LET id == first_ocur[digest]
            IN  /\ id.tree \in Chain
                /\ id.node \in SavedIn(id.tree)
                /\ Hash(history[id.tree + 1][id.node]) = digest
      BY <1>1 DEF MapTrue
    <3> QED
      BY <1>1, <1>2, <1>3, <2>2, <3>1, <3>2 DEF MapTrue
  <2> QED
    BY <2>1, <2>2
<1> QED
  BY <1>5, <1>6, <1>7, <1>8

LEMMA ExactDedupChunk ==
  ASSUME ThreadsExact, Exact, Coherent', NEW c, DedupChunk(c)
  PROVE  Exact'
<1> USE DEF Exact
<1>0. spoiled' = spoiled
  BY DEF DedupChunk
<1>1. /\ pc = "dedup" /\ pc' = "dedup" /\ c \in todo /\ c \in Chunks /\ todo' = todo \ {c}
      /\ current_id' = current_id /\ baseline_id' = baseline_id
      /\ data' = data /\ incr_chkpts' = incr_chkpts /\ history' = history
      /\ list'[c] = Hash(data[c])
      /\ \A x \in Chunks : x # c => list'[x] = list[x]
  BY ThreadRan
<1>2. \/ /\ list[c] # Hash(data[c]) /\ Hash(data[c]) \notin DOMAIN first_ocur
         /\ DOMAIN first_ocur' = DOMAIN first_ocur \cup {Hash(data[c])}
         /\ first_ocur'[Hash(data[c])] = [node |-> c, tree |-> current_id]
         /\ \A e \in DOMAIN first_ocur : first_ocur'[e] = first_ocur[e]
         /\ first_ocur_vec' = first_ocur_vec \cup {c}
         /\ shift_dupl_vec' = shift_dupl_vec
      \/ /\ list[c] # Hash(data[c]) /\ Hash(data[c]) \in DOMAIN first_ocur
         /\ first_ocur' = first_ocur /\ first_ocur_vec' = first_ocur_vec
         /\ shift_dupl_vec' = shift_dupl_vec \cup {c}
      \/ /\ list[c] = Hash(data[c])
         /\ first_ocur' = first_ocur /\ first_ocur_vec' = first_ocur_vec
         /\ shift_dupl_vec' = shift_dupl_vec
  BY ThreadRan
<1>3. /\ Taken' = Taken /\ Chain' = Chain
      /\ \A k : Chkpt(k)' = Chkpt(k) /\ SavedIn(k)' = SavedIn(k) /\ PointedIn(k)' = PointedIn(k)
  BY <1>1, ChainKept DEF Chain
<1>4. ListIsNewest'
  BY <1>1 DEF ListIsNewest
<1>5. ListAhead'
  <2> SUFFICES ASSUME current_id \notin spoiled PROVE ListAhead'
    BY <1>0, <1>1 DEF ListAhead
  <2>1. todo \subseteq Chunks
    BY DEF Coherent, KernelTrue
  <2>2. \A x \in todo' : IF baseline_id' = current_id' THEN list'[x] = NoDigest
                         ELSE list'[x] = Hash(history'[current_id'][x])
    BY <1>1, <2>1 DEF ListAhead
  <2>3. ASSUME NEW x \in Chunks \ (todo' \cup first_ocur_vec' \cup shift_dupl_vec')
        PROVE  baseline_id' < current_id' /\ history'[current_id'][x] = data'[x]
    <3>1. CASE x = c
      <4>1. list[c] = Hash(data[c])
        BY <1>2, <2>3, <3>1
      <4>2. data[c] \in Vals
        BY <1>1 DEF Coherent, KernelTrue, Data
      <4>3. baseline_id # current_id /\ list[c] = Hash(history[current_id][c])
        BY <1>1, <4>1, <4>2, HashAssumption DEF ListAhead
      <4>4. /\ current_id \in Nat /\ baseline_id \in 0 .. current_id
            /\ history \in Seq(Data) /\ Len(history) = current_id
        BY DEF Coherent, HeadersTrue
      <4>5. baseline_id < current_id /\ current_id \in 1 .. Len(history)
        BY <4>3, <4>4
      <4>6. history[current_id] \in Data
        BY <4>4, <4>5
      <4>7. history[current_id][c] \in Vals
        BY <1>1, <4>6 DEF Data
      <4> QED
        BY <1>1, <3>1, <4>1, <4>2, <4>3, <4>5, <4>7, HashAssumption
    <3>2. CASE x # c
      <4>1. x \in Chunks \ (todo \cup first_ocur_vec \cup shift_dupl_vec)
        BY <1>1, <1>2, <2>3, <3>2
      <4> QED
        BY <1>1, <4>1 DEF ListAhead
    <3> QED
      BY <3>1, <3>2
  <2> QED
    BY <1>1, <2>2, <2>3 DEF ListAhead
<1>6. OmittedSame'
  BY <1>0, <1>1, <1>3 DEF OmittedSame
<1>7. MapTrue'
  <2> SUFFICES ASSUME current_id \notin spoiled PROVE MapTrue'
    BY <1>0, <1>1 DEF MapTrue
  <2>1. ASSUME NEW digest \in DOMAIN first_ocur, first_ocur'[digest] = first_ocur[digest],
               first_ocur_vec \subseteq first_ocur_vec'
        PROVE  LET id == first_ocur'[digest]
               IN  \/ /\ id.tree \in Chain
                      /\ id.node \in SavedIn(id.tree)
                      /\ Hash(history[id.tree + 1][id.node]) = digest
                   \/ /\ id.tree = current_id
                      /\ id.node \in first_ocur_vec'
                      /\ Hash(data[id.node]) = digest
    BY <2>1 DEF MapTrue
  <2>2. CASE first_ocur' = first_ocur /\ first_ocur_vec' = first_ocur_vec
    BY <1>1, <1>3, <2>1, <2>2 DEF MapTrue
  <2>3. CASE /\ DOMAIN first_ocur' = DOMAIN first_ocur \cup {Hash(data[c])}
             /\ first_ocur'[Hash(data[c])] = [node |-> c, tree |-> current_id]
             /\ \A e \in DOMAIN first_ocur : first_ocur'[e] = first_ocur[e]
             /\ first_ocur_vec' = first_ocur_vec \cup {c}
    BY <1>1, <1>3, <2>1, <2>3 DEF MapTrue
  <2> QED
    BY <1>2, <2>2, <2>3
<1> QED
  BY <1>4, <1>5, <1>6, <1>7

LEMMA ExactFinishCheckpoint ==
  ASSUME ThreadsExact, Exact, Coherent', FinishCheckpoint
  PROVE  Exact'
<1> USE DEF Exact
<1>1. PICK n : n = current_id
  OBVIOUS
<1>2. /\ pc = "dedup" /\ pc' = "idle" /\ todo = {} /\ todo' = {}
      /\ n \in Nat /\ current_id' = n + 1 /\ baseline_id' = baseline_id
      /\ list' = list /\ first_ocur' = first_ocur
      /\ first_ocur_vec' = first_ocur_vec /\ shift_dupl_vec' = shift_dupl_vec
      /\ data \in Data
  BY <1>1, CheckpointTaken
<1>3. /\ Taken' = Taken \cup {n} /\ n \notin Taken
      /\ \A k \in Taken : /\ k \in Nat /\ history'[k + 1] = history[k + 1]
                          /\ k > 0 => history'[k] = history[k]
                          /\ Chkpt(k)' = Chkpt(k)
                          /\ SavedIn(k)' = SavedIn(k)
                          /\ PointedIn(k)' = PointedIn(k)
      /\ history'[n + 1] = data
      /\ n > 0 => history'[n] = history[n]
      /\ (Chkpt(n)').ref_id = baseline_id
      /\ SavedIn(n)' = first_ocur_vec /\ PointedIn(n)' = shift_dupl_vec
      /\ Chain' = Chain \cup {n}
  BY <1>1, CheckpointTaken
<1>4. /\ baseline_id \in 0 .. n
      /\ spoiled' = IF n \in spoiled THEN spoiled \cup {n + 1} ELSE spoiled
  BY <1>1 DEF Coherent, HeadersTrue, FinishCheckpoint
<1>5. ListIsNewest'
  <2>1. \A c \in Chunks : list[c] = Hash(data[c])
    BY <1>2 DEF Coherent, KernelTrue
  <2> QED
    BY <1>2, <1>3, <1>4, <2>1 DEF ListIsNewest
<1>6. ListAhead'
  BY <1>2 DEF ListAhead
<1>7. OmittedSame'
  <2>1. ASSUME NEW k \in Taken \ spoiled, NEW c \in Chunks \ (SavedIn(k)' \cup PointedIn(k)')
        PROVE  k > (Chkpt(k)').ref_id /\ history'[k][c] = history'[k + 1][c]
    <3>1. k > Chkpt(k).ref_id /\ history[k][c] = history[k + 1][c]
      BY <1>3, <2>1 DEF OmittedSame
    <3>2. k \in Nat /\ Chkpt(k).ref_id \in 0 .. k
      BY <1>3 DEF Coherent, HeadersTrue
    <3>3. k > 0
      BY <3>1, <3>2
    <3> QED
      BY <1>3, <3>1, <3>3
  <2>2. ASSUME n \notin spoiled, NEW c \in Chunks \ (first_ocur_vec \cup shift_dupl_vec)
        PROVE  n > baseline_id /\ history'[n][c] = data[c]
    <3>1. baseline_id < n /\ history[n][c] = data[c]
      BY <1>1, <1>2, <2>2 DEF ListAhead
    <3>2. n > 0
      BY <1>2, <1>4, <3>1
    <3> QED
      BY <1>3, <3>1, <3>2
  <2>3. ASSUME NEW k \in Taken' \ spoiled',
               NEW c \in Chunks \ (SavedIn(k)' \cup PointedIn(k)')
        PROVE  k > (Chkpt(k)').ref_id /\ history'[k][c] = history'[k + 1][c]
    <3>0. k \notin spoiled
      BY <1>4
    <3>1. CASE k \in Taken
      BY <2>1, <2>3, <3>0, <3>1
    <3>2. CASE k = n
      BY <1>3, <2>2, <2>3, <3>0, <3>2
    <3> QED
      BY <1>3, <3>1, <3>2
  <2> QED
    BY <2>3 DEF OmittedSame
<1>8. MapTrue'
  <2> SUFFICES ASSUME n \notin spoiled PROVE MapTrue'
    BY <1>2, <1>4 DEF MapTrue
  <2>1. Chain \subseteq Taken
    BY DEF Chain
  <2>2. ASSUME NEW digest \in DOMAIN first_ocur, NEW id, id = first_ocur[digest]
        PROVE  /\ id.tree \in Chain'
               /\ id.node \in SavedIn(id.tree)'
               /\ Hash(history'[id.tree + 1][id.node]) = digest
    <3>1. CASE /\ id.tree \in Chain
               /\ id.node \in SavedIn(id.tree)
               /\ Hash(history[id.tree + 1][id.node]) = digest
      BY <1>3, <2>1, <3>1
    <3>2. CASE /\ id.tree = n
               /\ id.node \in first_ocur_vec
               /\ Hash(data[id.node]) = digest
      BY <1>3, <3>2
    <3> QED
      BY <1>1, <2>2, <3>1, <3>2 DEF MapTrue
  <2>3. SUFFICES ASSUME NEW digest \in DOMAIN first_ocur', NEW id, id = first_ocur'[digest]
                 PROVE  /\ id.tree \in Chain'
                        /\ id.node \in SavedIn(id.tree)'
                        /\ Hash(history'[id.tree + 1][id.node]) = digest
    BY DEF MapTrue
  <2> QED
    BY <1>2, <2>2, <2>3
<1> QED
  BY <1>5, <1>6, <1>7, <1>8

LEMMA ExactStep == ThreadsExact /\ Exact /\ Coherent' /\ [Next]_vars => Exact'
<1> SUFFICES ASSUME ThreadsExact, Exact, Coherent', [Next]_vars PROVE Exact'
  OBVIOUS
<1>1. CASE \E d \in Data, make_baseline \in BOOLEAN : Checkpoint(d, make_baseline)
  BY <1>1, ExactCheckpoint
<1>2. CASE \E c \in todo : DedupChunk(c)
  BY <1>2, ExactDedupChunk
<1>3. CASE FinishCheckpoint
  BY <1>3, ExactFinishCheckpoint
<1>4. CASE /\ ~ \E d \in Data, make_baseline \in BOOLEAN : Checkpoint(d, make_baseline)
           /\ ~ \E c \in todo : DedupChunk(c)
           /\ ~ FinishCheckpoint
  <2>1. /\ todo' = todo
        /\ \/ spoiled' = spoiled /\ (pc' = "dedup" <=> pc = "dedup")
           \/ spoiled' = spoiled \cup {current_id} /\ pc' = "idle"
    BY <1>4, OtherSteps
  <2>2. /\ current_id' = current_id /\ baseline_id' = baseline_id /\ list' = list
        /\ first_ocur' = first_ocur /\ data' = data
        /\ first_ocur_vec' = first_ocur_vec /\ shift_dupl_vec' = shift_dupl_vec
        /\ incr_chkpts' = incr_chkpts /\ history' = history
    BY <1>4, OtherSteps
  <2>3. /\ Taken' = Taken /\ Chain' = Chain
        /\ \A k : Chkpt(k)' = Chkpt(k) /\ SavedIn(k)' = SavedIn(k) /\ PointedIn(k)' = PointedIn(k)
    BY <2>2, ChainKept DEF Chain
  <2>4. ListIsNewest'
    BY <2>1, <2>2 DEF Exact, ListIsNewest
  <2>5. ListAhead'
    BY <2>1, <2>2 DEF Exact, ListAhead
  <2>6. OmittedSame'
    BY <2>1, <2>2, <2>3 DEF Exact, OmittedSame
  <2>7. MapTrue'
    BY <2>1, <2>2, <2>3 DEF Exact, MapTrue
  <2> QED
    BY <2>4, <2>5, <2>6, <2>7 DEF Exact
<1> QED
  BY <1>1, <1>2, <1>3, <1>4

\* The list, the map and the vectors describe the checkpoints that were kept, as
\* long as none of the chain is lost.
THEOREM ExactAlways == ThreadsExact => (Spec => []Exact)
<1> SUFFICES ASSUME ThreadsExact PROVE Spec => []Exact
  OBVIOUS
<1>1. Exact /\ [Next]_vars => Exact'
  BY ExactStep, CoherentStep DEF Exact
<1> QED
  BY <1>1, ExactInit, PTL DEF Spec

\* What a diff leaves out is what a restart will find in the checkpoint before,
\* but for the diffs that follow a failed write in its chain.
THEOREM OmittedAlwaysUnchanged == ThreadsExact => (Spec => []OmittedUnchanged)
<1> SUFFICES ASSUME ThreadsExact PROVE Spec => []OmittedUnchanged
  OBVIOUS
<1>1. Exact => OmittedUnchanged
  BY DEF Exact, OmittedSame, OmittedUnchanged
<1>2. Spec => []Exact
  BY ExactAlways
<1> QED
  BY <1>1, <1>2, PTL


-----------------------------------------------------------------------------
(* Types *)

Restarting == {"first", "repeats", "same", "load", "restarted"}

\* What Coherent leaves out of TypeOK, of the deduplicator's object.
ObjectTyped ==
  /\ DOMAIN list \in {{}, Chunks}
  /\ data \in Data \cup {[c \in {} |-> NoVal]}
  /\ spoiled \subseteq 0 .. current_id

\* The restart: while one runs, its checkpoint and the next one to be loaded are
\* among those taken, whatever was read from the diffs.
RestartTyped ==
  /\ target \in Nat /\ via \in {"memory", "files"} /\ idx \in Int /\ ref_id \in Nat
  /\ pc \in Restarting => target \in Taken /\ idx < Len(incr_chkpts)
  /\ DOMAIN node_list = IF pc \in Restarting THEN Chunks ELSE {}
  /\ \A c \in DOMAIN node_list : node_list[c] \in NodeIDs
  /\ out \in [DOMAIN node_list -> Nat \cup {NoVal}]

LEMMA TypedInit == Init => ObjectTyped /\ RestartTyped
<1> SUFFICES ASSUME Init PROVE ObjectTyped /\ RestartTyped
  OBVIOUS
<1>1. ObjectTyped
  BY DEF Init, ObjectTyped
<1>2. RestartTyped
  BY DEF Init, RestartTyped, Restarting
<1> QED
  BY <1>1, <1>2

LEMMA ObjectTypedStep ==
  ASSUME ThreadsExact, HeadersTrue, KernelTrue, ObjectTyped, [Next]_vars
  PROVE  ObjectTyped'
<1>0. current_id \in Nat
  BY DEF HeadersTrue
<1>1. ASSUME NEW d \in Data, NEW make_baseline \in BOOLEAN, Checkpoint(d, make_baseline)
      PROVE  ObjectTyped'
  <2>1. /\ data' = d /\ spoiled' \subseteq spoiled /\ current_id' = current_id
        /\ list' = IF make_baseline THEN [c \in Chunks |-> NoDigest] ELSE list
    BY <1>1 DEF Checkpoint, ThreadsExact
  <2>2. DOMAIN list' \in {{}, Chunks}
    BY <2>1 DEF ObjectTyped
  <2> QED
    BY <2>1, <2>2 DEF ObjectTyped
<1>2. ASSUME NEW c \in todo, DedupChunk(c) PROVE ObjectTyped'
  <2>1. /\ list' = [list EXCEPT ![c] = Digest(c)]
        /\ UNCHANGED <<data, spoiled, current_id>>
    BY <1>2 DEF DedupChunk
  <2> QED
    BY <2>1 DEF ObjectTyped
<1>3. CASE FinishCheckpoint
  <2>1. /\ UNCHANGED <<list, data>> /\ current_id' = current_id + 1
        /\ spoiled' \subseteq spoiled \cup {current_id + 1}
    BY <1>3 DEF FinishCheckpoint
  <2>2. spoiled' \subseteq 0 .. current_id + 1
    BY <1>0, <2>1 DEF ObjectTyped
  <2> QED
    BY <2>1, <2>2 DEF ObjectTyped
<1>4. CASE /\ ~ \E d \in Data, make_baseline \in BOOLEAN : Checkpoint(d, make_baseline)
           /\ ~ \E c \in todo : DedupChunk(c)
           /\ ~ FinishCheckpoint
  <2>1. UNCHANGED <<list, data, current_id>> /\ spoiled' \subseteq spoiled \cup {current_id}
    BY <1>4, OtherSteps
  <2>2. spoiled' \subseteq 0 .. current_id
    BY <1>0, <2>1 DEF ObjectTyped
  <2> QED
    BY <2>1, <2>2 DEF ObjectTyped
<1> QED
  BY <1>1, <1>2, <1>3, <1>4

\* Whatever the words and the header, what a restart reads is numbers.
LEMMA WordTyped ==
  ASSUME NEW words \in Seq(Nat), NEW p
  PROVE  WordAt(words, p) \in Nat
BY SizeAssumption DEF WordAt

LEMMA SourceTyped ==
  ASSUME NEW words, NEW header \in Headers, NEW i
  PROVE  SourceChkpt(words, header, i) \in Nat
<1> DEFINE ends == RegionEnds(words, header)
           past == {k \in 0 .. header.chkpt_id : i < ends[k]}
<1>1. SourceChkpt(words, header, i) = IF past = {} THEN 0 ELSE Min(past)
  BY DEF SourceChkpt
<1>2. past \in SUBSET Nat
  BY DEF Headers
<1> HIDE DEF ends, past
<1>3. past # {} => Min(past) \in Nat
  BY <1>2, LeastOf
<1> QED
  BY <1>1, <1>3

LEMMA SectionsTyped ==
  ASSUME NEW words \in Seq(Nat), NEW header \in Headers
  PROVE  LET s == Sections(words, header)
         IN  /\ \A i \in DOMAIN s.shift : s.shift[i].prev \in NodeIDs
             /\ DOMAIN s.data = DOMAIN s.first
             /\ \A i \in DOMAIN s.data : s.data[i] \in Nat
<1> DEFINE s == Sections(words, header)
           dupl_map_offset == header.num_first_ocur + 2 * header.num_prior_chkpts
           data_offset == dupl_map_offset + 2 * header.num_shift_dupl
<1>1. \A i \in DOMAIN s.shift :
        s.shift[i].prev = NodeID(WordAt(words, dupl_map_offset + 2 * i + 1),
                                 SourceChkpt(words, header, i))
  BY DEF Sections
<1>2. /\ DOMAIN s.data = DOMAIN s.first
      /\ \A i \in DOMAIN s.data : s.data[i] = WordAt(words, data_offset + i)
  BY DEF Sections
<1> HIDE DEF s, dupl_map_offset, data_offset
<1>3. ASSUME NEW i \in DOMAIN s.shift PROVE s.shift[i].prev \in NodeIDs
  <2>1. /\ WordAt(words, dupl_map_offset + 2 * i + 1) \in Nat
        /\ SourceChkpt(words, header, i) \in Nat
    BY WordTyped, SourceTyped
  <2>2. \A m, n \in Nat : NodeID(m, n) \in NodeIDs
    BY DEF NodeID, NodeIDs
  <2> QED
    BY <1>1, <2>1, <2>2
<1>4. \A i \in DOMAIN s.data : s.data[i] \in Nat
  BY <1>2, WordTyped
<1> QED
  BY <1>2, <1>3, <1>4 DEF s

\* The sections of a checkpoint, in whichever buffer a restart takes them to be.
LEMMA SectionsOfTyped ==
  ASSUME HeadersTrue, target \in Taken, NEW k \in Taken
  PROVE  /\ \A node : Repeats(SectionsOf(k), node) \subseteq NodeIDs
         /\ \A positions \in SUBSET DOMAIN SectionsOf(k).first :
              DataAt(SectionsOf(k), positions) \in Nat
<1>1. Chkpt(k) \in Headers /\ Chkpt(target) \in Headers
  BY ChkptIn
<1> DEFINE words == IF via = "files" THEN Chkpt(target).words ELSE Chkpt(k).words
           s == SectionsOf(k)
<1>2. words \in Seq(Nat)
  BY <1>1 DEF Headers
<1>3. s = Sections(words, Chkpt(k))
  BY DEF SectionsOf
<1>4. /\ \A i \in DOMAIN s.shift : s.shift[i].prev \in NodeIDs
      /\ DOMAIN s.data = DOMAIN s.first
      /\ \A i \in DOMAIN s.data : s.data[i] \in Nat
  <2> HIDE DEF words, s
  <2> QED
    BY <1>1, <1>2, <1>3, SectionsTyped
<1> HIDE DEF words, s
<1>5. \A node : Repeats(s, node) \subseteq NodeIDs
  BY <1>4 DEF Repeats
<1>6. \A positions \in SUBSET DOMAIN s.first : DataAt(s, positions) \in Nat
  BY <1>4, SizeAssumption DEF DataAt
<1> QED
  BY <1>5, <1>6 DEF s

LEMMA FollowTyped ==
  ASSUME NEW s, NEW k \in Int, NEW id \in NodeIDs, Repeats(s, id.node) \subseteq NodeIDs
  PROVE  Follow(s, k, id) \in NodeIDs
<1>1. NodeID(id.node, k - 1) \in NodeIDs
  BY DEF NodeID, NodeIDs
<1> QED
  BY <1>1 DEF Follow

\* What a kernel of a restart leaves in the View is numbers, where offsets wrap too.
LEMMA CopiedTyped ==
  ASSUME NEW view \in [Chunks -> Nat \cup {NoVal}], NEW copy \in Copied(view)
  PROVE  copy \in [Chunks -> Nat \cup {NoVal}]
<1>1. Vals \cup {NoVal, NoWord} \subseteq Nat \cup {NoVal}
  BY SizeAssumption
<1> QED
  BY <1>1 DEF Copied

LEMMA RestartTypedStep ==
  ASSUME HeadersTrue, RestartTyped, [Next]_vars
  PROVE  RestartTyped'
<1>0. Taken = 0 .. current_id - 1 /\ current_id \in Nat /\ Len(incr_chkpts) = current_id
      /\ \A k \in Taken : Chkpt(k).ref_id \in Nat /\ k \in Nat
  <2>1. /\ current_id \in Nat /\ Len(incr_chkpts) = current_id
        /\ \A k \in Taken : Chkpt(k).ref_id \in 0 .. k
    BY DEF HeadersTrue
  <2>2. Taken = 0 .. current_id - 1
    BY ChkptIn
  <2> QED
    BY <2>1, <2>2
<1>1. ASSUME pc \notin Restarting, pc' \notin Restarting, UNCHANGED restartVars PROVE RestartTyped'
  BY <1>1 DEF RestartTyped, restartVars
<1>2. ASSUME NEW d \in Data, NEW make_baseline \in BOOLEAN, Checkpoint(d, make_baseline)
      PROVE  RestartTyped'
  BY <1>1, <1>2 DEF Checkpoint, Restarting
<1>3. CASE (\E c \in todo : DedupChunk(c)) \/ FinishCheckpoint \/ FailToWrite
  <2>1. pc \notin Restarting /\ pc' \notin Restarting /\ UNCHANGED restartVars
    BY <1>3 DEF DedupChunk, FinishCheckpoint, FailToWrite, Restarting
  <2> QED
    BY <1>1, <2>1
<1>4. ASSUME pc' \in Restarting, UNCHANGED incr_chkpts,
             target' \in Taken, via' \in {"memory", "files"}, idx' \in Int,
             idx' < Len(incr_chkpts), ref_id' \in Nat,
             DOMAIN node_list' = Chunks, \A c \in Chunks : node_list'[c] \in NodeIDs,
             out' \in [Chunks -> Nat \cup {NoVal}]
      PROVE  RestartTyped'
  <2>1. target' \in Nat /\ Taken' = Taken
    BY <1>0, <1>4 DEF Taken
  <2> QED
    BY <1>4, <2>1 DEF RestartTyped
<1>5. ASSUME pc \in Restarting
      PROVE  /\ target \in Taken /\ idx < Len(incr_chkpts) /\ DOMAIN node_list = Chunks
             /\ \A c \in Chunks : node_list[c] \in NodeIDs
             /\ out \in [Chunks -> Nat \cup {NoVal}]
             /\ target \in Nat /\ target < Len(incr_chkpts)
             /\ \A k \in Taken :
                  /\ \A node : Repeats(SectionsOf(k), node) \subseteq NodeIDs
                  /\ \A positions \in SUBSET DOMAIN SectionsOf(k).first :
                       DataAt(SectionsOf(k), positions) \in Nat
  <2>1. target \in Taken
    BY <1>5 DEF RestartTyped
  <2> QED
    BY <1>0, <1>5, <2>1, SectionsOfTyped DEF RestartTyped
<1>6. \A s, k, id : Positions(s, k, id) \in SUBSET DOMAIN s.first
  BY DEF Positions
<1>7. ASSUME NEW k \in 0 .. Len(incr_chkpts) - 1, RestartFromViews(k) \/ RestartFromFiles(k)
      PROVE  RestartTyped'
  <2>1. /\ via' \in {"memory", "files"} /\ target' = k /\ idx' = k /\ ref_id' = Chkpt(k).ref_id
        /\ node_list' = [c \in Chunks |-> Untouched] /\ out' = [c \in Chunks |-> NoVal]
        /\ pc' = "first" /\ UNCHANGED incr_chkpts
    BY <1>7 DEF RestartFromViews, RestartFromFiles, OpenCheckpoint, dedupVars
  <2>2. k \in Taken /\ Chkpt(k).ref_id \in Nat /\ k \in Int /\ k < Len(incr_chkpts)
    BY <1>0
  <2>3. Untouched \in NodeIDs
    BY DEF Untouched, NodeID, NodeIDs
  <2> QED
    BY <1>4, <2>1, <2>2, <2>3 DEF Restarting
<1>8. CASE RestartFirst
  <2> DEFINE s == SectionsOf(target)
             At(c) == Positions(s, target, NodeID(c, target))
             Value(c) == DataAt(s, At(c))
             view == [c \in Chunks |-> IF At(c) # {} THEN Value(c) ELSE out[c]]
  <2>1. /\ pc = "first" /\ pc' = "repeats"
        /\ node_list' = [c \in Chunks |-> IF At(c) # {} THEN NodeID(c, target) ELSE node_list[c]]
        /\ out' \in Copied(view)
        /\ UNCHANGED <<incr_chkpts, target, via, idx, ref_id>>
    BY <1>8 DEF RestartFirst, dedupVars
  <2>2. pc \in Restarting /\ pc' \in Restarting
    BY <2>1 DEF Restarting
  <2>3. \A c \in Chunks : Value(c) \in Nat
    BY <1>5, <1>6, <2>2
  <2>4. \A c \in Chunks : NodeID(c, target) \in NodeIDs
    <3>1. target \in Int /\ Chunks \subseteq Int
      BY <1>5, <2>2, ChunksFinite
    <3> QED
      BY <3>1 DEF NodeID, NodeIDs
  <2> HIDE DEF s, At, Value
  <2>5. view \in [Chunks -> Nat \cup {NoVal}]
    BY <1>5, <2>2, <2>3
  <2> HIDE DEF view
  <2>6. out' \in [Chunks -> Nat \cup {NoVal}]
    BY <2>1, <2>5, CopiedTyped
  <2> QED
    BY <1>4, <1>5, <2>1, <2>2, <2>4, <2>6 DEF RestartTyped
<1>9. CASE RestartRepeats
  <2> DEFINE s == SectionsOf(target)
             Seen(c) == Repeats(s, c)
             prev(c) == CHOOSE p \in Repeats(s, c) : TRUE
             Value(c) == DataAt(s, Positions(s, target, prev(c)))
             view == [c \in Chunks |->
                        IF Seen(c) # {} /\ prev(c).tree = target THEN Value(c) ELSE out[c]]
  <2>1. /\ pc = "repeats" /\ pc' = "same"
        /\ node_list' = [c \in Chunks |-> IF Seen(c) # {} THEN prev(c) ELSE node_list[c]]
        /\ out' \in Copied(view)
        /\ UNCHANGED <<incr_chkpts, target, via, idx, ref_id>>
    BY <1>9 DEF RestartRepeats, dedupVars
  <2>2. pc \in Restarting /\ pc' \in Restarting
    BY <2>1 DEF Restarting
  <2>3. \A c \in Chunks : Value(c) \in Nat
    <3> HIDE DEF prev
    <3> QED
      BY <1>5, <1>6, <2>2
  <2>4. ASSUME NEW c \in Chunks, Seen(c) # {} PROVE prev(c) \in NodeIDs
    <3>1. prev(c) \in Seen(c) /\ Seen(c) \subseteq NodeIDs
      BY <1>5, <2>2, <2>4
    <3> QED
      BY <3>1
  <2> HIDE DEF s, Seen, prev, Value
  <2>5. view \in [Chunks -> Nat \cup {NoVal}]
    BY <1>5, <2>2, <2>3
  <2> HIDE DEF view
  <2>6. out' \in [Chunks -> Nat \cup {NoVal}]
    BY <2>1, <2>5, CopiedTyped
  <2> QED
    BY <1>4, <1>5, <2>1, <2>2, <2>4, <2>6 DEF RestartTyped
<1>10. CASE FillSame
  <2>1. /\ pc = "same" /\ pc' = "load" /\ idx' = target - 1
        /\ node_list' = [c \in Chunks |->
             IF node_list[c] = Untouched THEN NodeID(c, target - 1) ELSE node_list[c]]
        /\ UNCHANGED <<incr_chkpts, target, via, ref_id, out>>
    BY <1>10 DEF FillSame, dedupVars
  <2>2. pc \in Restarting /\ pc' \in Restarting
    BY <2>1 DEF Restarting
  <2>3. \A c \in Chunks : NodeID(c, target - 1) \in NodeIDs
    BY <1>5, <2>2, ChunksFinite DEF NodeID, NodeIDs
  <2>4. target - 1 \in Int /\ target - 1 < Len(incr_chkpts)
    BY <1>0, <1>5, <2>2
  <2> QED
    BY <1>4, <1>5, <2>1, <2>2, <2>3, <2>4 DEF RestartTyped
<1>11. CASE RestartPrior
  <2> DEFINE s == SectionsOf(idx)
             At(id) == Positions(s, idx, id)
             due == {c \in Chunks : node_list[c].tree = idx}
             here == {c \in due : At(node_list[c]) # {}}
             nextOf(c) == Follow(s, idx, node_list[c])
             moved == {c \in due \ here : nextOf(c).tree # idx}
             copied == [c \in Chunks |->
               CASE c \in here -> DataAt(s, At(node_list[c]))
                 [] c \in due \ (here \cup moved) -> DataAt(s, At(nextOf(c)))
                 [] OTHER -> out[c]]
  <2>1. /\ pc = "load" /\ pc' = "load" /\ idx >= ref_id /\ ref_id' = Chkpt(idx).ref_id
        /\ idx' = idx - 1 /\ UNCHANGED <<incr_chkpts, target, via>>
    BY <1>11 DEF RestartPrior, NextIdx, dedupVars
  <2>2. PICK raced, again, lost :
          /\ \A c \in raced : again[c] \in Moves(s, idx)
          /\ \A c \in DOMAIN lost : lost[c] \in Vals \cup {NoVal, NoWord}
          /\ out' \in Copied([c \in Chunks |-> IF c \in DOMAIN lost THEN lost[c] ELSE copied[c]])
          /\ node_list' = [c \in Chunks |->
               CASE c \in raced -> again[c]
                 [] c \in moved \ raced -> nextOf(c)
                 [] OTHER -> node_list[c]]
    <3> HIDE DEF s
    <3> QED
      BY <1>11 DEF RestartPrior, s
  <2>3. pc \in Restarting /\ pc' \in Restarting
    BY <2>1 DEF Restarting
  <2>4. idx \in Taken /\ Chkpt(idx).ref_id \in Nat /\ idx \in Int
    <3>1. idx \in Int /\ ref_id \in Nat /\ idx < current_id
      BY <1>0, <1>5, <2>3 DEF RestartTyped
    <3>2. idx \in Taken
      BY <1>0, <2>1, <3>1
    <3> QED
      BY <1>0, <3>1, <3>2
  <2>5. /\ \A c \in Chunks : nextOf(c) \in NodeIDs
        /\ Moves(s, idx) \subseteq NodeIDs
    <3>1. \A id \in NodeIDs : Follow(s, idx, id) \in NodeIDs
      <4>1. \A node : Repeats(s, node) \subseteq NodeIDs
        BY <1>5, <2>3, <2>4
      <4> HIDE DEF s
      <4> QED
        BY <2>4, <4>1, FollowTyped
    <3>2. \A d \in Chunks : NodeID(d, idx) \in NodeIDs /\ NodeID(d, idx - 1) \in NodeIDs
      BY <2>4, ChunksFinite DEF NodeID, NodeIDs
    <3> HIDE DEF s
    <3>3. Moves(s, idx) \subseteq NodeIDs
      BY <3>1, <3>2 DEF Moves
    <3> QED
      BY <1>5, <2>3, <3>1, <3>3
  <2>6. \A id : DataAt(s, At(id)) \in Nat
    BY <1>5, <1>6, <2>3, <2>4
  <2> HIDE DEF s, At, due, here, nextOf, moved
  <2>7. DOMAIN node_list' = Chunks /\ \A c \in Chunks : node_list'[c] \in NodeIDs
    <3>1. ASSUME NEW c \in Chunks PROVE node_list'[c] \in NodeIDs
      <4>1. c \in raced => again[c] \in NodeIDs
        BY <2>2, <2>5
      <4>2. node_list'[c] \in {nextOf(c), node_list[c]} \/ (c \in raced /\ node_list'[c] = again[c])
        BY <2>2
      <4> QED
        BY <1>5, <2>3, <2>5, <4>1, <4>2
    <3> QED
      BY <2>2, <3>1
  <2>8. out' \in [Chunks -> Nat \cup {NoVal}]
    <3>1. \A c \in Chunks : copied[c] \in Nat \cup {NoVal}
      <4>1. \A c \in Chunks : copied[c] \in {DataAt(s, At(node_list[c])),
                                            DataAt(s, At(nextOf(c))), out[c]}
        OBVIOUS
      <4> QED
        BY <1>5, <2>3, <2>6, <4>1
    <3> HIDE DEF copied
    <3>2. \A c \in DOMAIN lost : lost[c] \in Nat \cup {NoVal}
      BY <2>2, SizeAssumption
    <3>3. [c \in Chunks |-> IF c \in DOMAIN lost THEN lost[c] ELSE copied[c]]
            \in [Chunks -> Nat \cup {NoVal}]
      BY <3>1, <3>2
    <3> QED
      BY <2>2, <3>3, CopiedTyped
  <2>9. idx - 1 \in Int /\ idx - 1 < Len(incr_chkpts)
    BY <1>0, <1>5, <2>3, <2>4
  <2> QED
    BY <1>4, <1>5, <2>1, <2>3, <2>4, <2>7, <2>8, <2>9 DEF RestartTyped
<1>12. CASE FinishRestart \/ UNCHANGED vars
  <2>1. UNCHANGED restartVars /\ UNCHANGED incr_chkpts
        /\ (pc \in Restarting <=> pc' \in Restarting)
    BY <1>12 DEF FinishRestart, vars, dedupVars, Restarting
  <2> QED
    BY <2>1 DEF RestartTyped, restartVars, Taken
<1>13. CASE Release
  <2>1. /\ target' = 0 /\ via' = "memory" /\ idx' = 0 /\ ref_id' = 0 /\ pc' \notin Restarting
        /\ node_list' = [c \in {} |-> Untouched] /\ out' = [c \in {} |-> NoVal]
    BY <1>13 DEF Release, Restarting
  <2> QED
    BY <2>1 DEF RestartTyped
<1> QED
  BY <1>2, <1>3, <1>7, <1>8, <1>9, <1>10, <1>11, <1>12, <1>13 DEF Next, Progress, Call

\* Every variable keeps its type, whatever fails and races, and whatever buffer a
\* restart reads: it finds its way within the diffs taken, and hands out numbers.
THEOREM TypeCorrect == ThreadsExact => (Spec => []TypeOK)
<1> SUFFICES ASSUME ThreadsExact PROVE Spec => []TypeOK
  OBVIOUS
<1> DEFINE T == ObjectTyped /\ RestartTyped
           P == pc \in {"idle", "dedup"} \cup Restarting
<1>1. Init => T /\ P
  BY TypedInit DEF Init
<1>2. Coherent /\ T /\ [Next]_vars => T'
  BY ObjectTypedStep, RestartTypedStep DEF Coherent
<1>3. P /\ [Next]_vars => P'
  <2> SUFFICES ASSUME P, [Next]_vars PROVE P'
    OBVIOUS
  <2> QED
    BY DEF Next, Progress, Call, Checkpoint, DedupChunk, FinishCheckpoint, FailToWrite,
           RestartFromViews, RestartFromFiles, OpenCheckpoint, RestartFirst, RestartRepeats,
           FillSame, RestartPrior, FinishRestart, Release, vars, Restarting
<1>4. Coherent /\ T /\ P => TypeOK
  <2> SUFFICES ASSUME Coherent, T, P PROVE TypeOK
    OBVIOUS
  <2>1. /\ current_id \in Nat /\ baseline_id \in 0 .. current_id
        /\ Len(incr_chkpts) = current_id /\ Len(history) = current_id
        /\ \A k \in Taken : Chkpt(k).ref_id \in 0 .. k
    BY DEF Coherent, HeadersTrue
  <2>2. \A k \in Taken : Chkpt(k).words \in Seq(Nat) /\ history[k + 1] \in Data
    BY ChkptIn DEF Coherent, Headers
  <2>3. Entries \subseteq NodeIDs
    BY DEF Entries, NodeIDs
  <2>4. capacity \in Nat /\ \A d \in DOMAIN first_ocur : first_ocur[d] \in NodeIDs
    BY <2>3 DEF Coherent, RoomLeft
  <2>5. todo \subseteq Chunks /\ first_ocur_vec \subseteq Chunks /\ shift_dupl_vec \subseteq Chunks
    BY DEF Coherent, KernelTrue
  <2>6. DOMAIN node_list \in {{}, Chunks}
    BY DEF RestartTyped
  <2>7. pc \in {"idle", "dedup", "first", "repeats", "same", "load", "restarted"}
    BY DEF Restarting
  <2> QED
    BY <2>1, <2>2, <2>4, <2>5, <2>6, <2>7 DEF TypeOK, ObjectTyped, RestartTyped, ThreadsExact
<1>5. Spec => []Coherent
  BY CoherentAlways
<1> HIDE DEF T, P
<1> QED
  BY <1>1, <1>2, <1>3, <1>4, <1>5, PTL DEF Spec

-----------------------------------------------------------------------------
(* The diffs read back *)

LEMMA SourcesOfChain == Exact => SourcesTrue
<1> SUFFICES ASSUME Exact, pc = "dedup", current_id \notin spoiled,
                    NEW c \in shift_dupl_vec, NEW id, id = Source[c]
             PROVE  \/ /\ id.tree \in Chain
                       /\ id.node \in SavedIn(id.tree)
                       /\ history[id.tree + 1][id.node] = data[c]
                    \/ /\ id.tree = current_id
                       /\ id.node \in first_ocur_vec
                       /\ data[id.node] = data[c]
  BY DEF SourcesTrue
<1> USE DEF Exact, Coherent
<1>1. /\ c \in Chunks /\ list[c] = Hash(data[c]) /\ Hash(data[c]) \in DOMAIN first_ocur
      /\ first_ocur_vec \subseteq Chunks /\ data \in Data
  BY DEF KernelTrue
<1>2. id = first_ocur[Hash(data[c])]
  BY <1>1 DEF Source
<1>3. CASE /\ id.tree \in Chain
           /\ id.node \in SavedIn(id.tree)
           /\ Hash(history[id.tree + 1][id.node]) = Hash(data[c])
  <2>1. id.tree \in Taken /\ id.node \in Chunks
    BY <1>3 DEF Chain, SavedKnown
  <2>2. history[id.tree + 1] \in Data
    BY <2>1, ChkptIn
  <2>3. history[id.tree + 1][id.node] \in Vals /\ data[c] \in Vals
    BY <1>1, <2>1, <2>2 DEF Data
  <2> QED
    BY <1>3, <2>3, HashAssumption
<1>4. CASE /\ id.tree = current_id
           /\ id.node \in first_ocur_vec
           /\ Hash(data[id.node]) = Hash(data[c])
  <2>1. data[id.node] \in Vals /\ data[c] \in Vals
    BY <1>1, <1>4 DEF Data
  <2> QED
    BY <1>4, <2>1, HashAssumption
<1> QED
  BY <1>1, <1>2, <1>3, <1>4 DEF MapTrue

\* Every duplicate is about to be saved as a pointer to a chunk of its content
\* that the chain holds, whatever the order of the threads.
THEOREM SourcesAlwaysTrue == ThreadsExact => (Spec => []SourcesTrue)
<1> SUFFICES ASSUME ThreadsExact PROVE Spec => []SourcesTrue
  OBVIOUS
<1>1. Spec => []Exact
  BY ExactAlways
<1> QED
  BY <1>1, SourcesOfChain, PTL

\* What collect_diff() writes is read back: the data of what was pushed as a first
\* occurrence, and the source of what was pushed as a duplicate.
LEMMA DiffsReadable ==
  ASSUME ThreadsExact, HeadersTrue, RoomLeft, KernelTrue, pc = "dedup", todo = {}, NEW diff \in Diffs,
         NEW n, n = current_id
  PROVE  /\ diff.num_shift_dupl \in Nat /\ diff.num_shift_dupl <= NumChunks
         /\ LET s == Sections(diff.words, diff)
            IN  /\ \A i \in DOMAIN s.first :
                     s.first[i] \in first_ocur_vec /\ s.data[i] = data[s.first[i]]
                /\ /\ \A c \in shift_dupl_vec : Source[c].tree \in 0 .. n
                   /\ \/ n <= diff.num_shift_dupl \/ diff.num_shift_dupl <= 2
                      \/ \A c \in shift_dupl_vec : Source[c].tree = n
                   => \A i \in DOMAIN s.shift :
                        /\ s.shift[i].node \in shift_dupl_vec
                        /\ s.shift[i].prev = Source[s.shift[i].node]
<1> DEFINE s == Sections(diff.words, diff)
<1>1. /\ first_ocur_vec \subseteq Chunks /\ shift_dupl_vec \subseteq Chunks /\ data \in Data
      /\ \A c \in Chunks : list[c] = Hash(data[c])
      /\ \A c \in shift_dupl_vec : Hash(data[c]) \in DOMAIN first_ocur
      /\ n \in Nat
  BY DEF KernelTrue, HeadersTrue
<1>2. \A c \in shift_dupl_vec : Source[c] \in Entries
  BY <1>1 DEF RoomLeft, Source
<1>3. PICK first \in SetToSeqs(first_ocur_vec),
           counted \in SetToSeqs(Needed(shift_dupl_vec, Source)),
           shift \in BinSorted(shift_dupl_vec, Source) :
        diff = [ref_id |-> baseline_id, chkpt_id |-> current_id,
                num_first_ocur |-> Cardinality(first_ocur_vec),
                num_prior_chkpts |-> Cardinality(Needed(shift_dupl_vec, Source)),
                num_shift_dupl |-> Cardinality(shift_dupl_vec),
                words |-> DiffWords(first, counted, shift, Source, data)]
  BY <1>1, SavedIsData DEF Diffs
<1>4. shift \in SetToSeqs(shift_dupl_vec)
  BY DEF BinSorted
<1>5. /\ diff.chkpt_id = n /\ diff.num_first_ocur = Cardinality(first_ocur_vec)
      /\ diff.num_prior_chkpts = Cardinality(Needed(shift_dupl_vec, Source))
      /\ diff.num_shift_dupl = Cardinality(shift_dupl_vec)
      /\ diff.words = DiffWords(first, counted, shift, Source, data)
  BY <1>3
<1>6. /\ {s.first[i] : i \in DOMAIN s.first} = first_ocur_vec
      /\ \A i \in DOMAIN s.first : s.data[i] = data[s.first[i]]
  BY <1>1, <1>2, <1>4, <1>5, DiffRead
<1>7. IsFiniteSet(shift_dupl_vec) /\ Cardinality(shift_dupl_vec) <= NumChunks
  BY <1>1, ChunksFinite, FS_Subset
<1>8. diff.num_shift_dupl \in Nat /\ diff.num_shift_dupl <= NumChunks
  BY <1>5, <1>7, FS_CardinalityType
<1>9. ASSUME \A c \in shift_dupl_vec : Source[c].tree \in 0 .. n,
             \/ n <= diff.num_shift_dupl \/ diff.num_shift_dupl <= 2
             \/ \A c \in shift_dupl_vec : Source[c].tree = n
      PROVE  \A i \in DOMAIN s.shift :
               /\ s.shift[i].node \in shift_dupl_vec
               /\ s.shift[i].prev = Source[s.shift[i].node]
  <2> DEFINE f == Cardinality(first_ocur_vec)
             d == Cardinality(shift_dupl_vec)
             q == Cardinality(Needed(shift_dupl_vec, Source))
  <2>1. \A i, j \in 1 .. d : i < j => Source[shift[i]].tree <= Source[shift[j]].tree
    <3>1. n <= d \/ d <= 2 \/ \A c \in shift_dupl_vec : Source[c].tree = n
      BY <1>5, <1>9
    <3> HIDE DEF d
    <3>2. d = Cardinality(shift_dupl_vec)
      BY DEF d
    <3>3. CASE n <= d \/ d <= 2
      BY <1>1, <1>3, <1>7, <1>9, <3>2, <3>3, BinsOrder
    <3>4. CASE \A c \in shift_dupl_vec : Source[c].tree = n
      <4>1. \A i \in 1 .. d : shift[i] \in shift_dupl_vec
        BY <1>4, <1>7, <3>2, OrderOfSet
      <4> QED
        BY <1>1, <3>4, <4>1
    <3> QED
      BY <3>1, <3>3, <3>4
  <2>2. \A c \in shift_dupl_vec : Source[c] \in Entries /\ Source[c].tree \in 0 .. n
    BY <1>2, <1>9
  <2>3. /\ f = Cardinality(first_ocur_vec) /\ d = Cardinality(shift_dupl_vec)
        /\ q = Cardinality(Needed(shift_dupl_vec, Source))
        /\ diff.num_first_ocur = f /\ diff.num_prior_chkpts = q
        /\ diff.num_shift_dupl = d /\ diff.chkpt_id = n
    BY <1>5
  <2> HIDE DEF f, d, q
  <2>4. \A i \in DOMAIN Sections(diff.words, diff).shift :
          LET e == Sections(diff.words, diff).shift[i]
          IN  e.node \in shift_dupl_vec /\ e.prev = Source[e.node]
    BY <1>1, <1>4, <1>5, <2>1, <2>2, <2>3, SourcesRead, SMTT(30)
  <2> QED
    BY <2>4
<1> HIDE DEF s
<1>10. \A i \in DOMAIN s.first : s.first[i] \in first_ocur_vec /\ s.data[i] = data[s.first[i]]
  BY <1>6
<1> QED
  BY <1>8, <1>9, <1>10 DEF s

LEMMA ReadableInit == Init => Readable
<1> SUFFICES ASSUME Init PROVE Readable
  OBVIOUS
<1>1. Taken = {} /\ current_id = 0 /\ pc = "idle"
  BY DEF Init, Taken
<1> QED
  BY <1>1, SizeAssumption DEF Readable, DataKept, DuplicatesKept, CountsBounded

LEMMA ReadableFinishCheckpoint ==
  ASSUME ThreadsExact, Exact, Readable, FinishCheckpoint
  PROVE  Readable'
<1> USE DEF Exact, Coherent
<1>1. PICK n : n = current_id
  OBVIOUS
<1>2. /\ pc = "dedup" /\ pc' = "idle" /\ todo = {} /\ n \in Nat /\ current_id' = n + 1
      /\ Taken' = Taken \cup {n} /\ n \notin Taken
      /\ \A k \in Taken : /\ k \in Nat /\ history'[k + 1] = history[k + 1]
                          /\ Chkpt(k)' = Chkpt(k) /\ SavedIn(k)' = SavedIn(k)
      /\ history'[n + 1] = data /\ Chkpt(n)'.ref_id = baseline_id
      /\ SavedIn(n)' = first_ocur_vec
  BY <1>1, CheckpointTaken
<1>3. PICK diff \in Diffs : incr_chkpts' = Append(incr_chkpts, diff)
  BY DEF FinishCheckpoint
<1>4. Chkpt(n)' = diff /\ Diff(n)' = Sections(diff.words, diff)
  <2>1. diff \in Headers
    BY <1>2, <1>3, DiffsTrue
  <2>2. Chkpt(n)' = diff
    BY <1>1, <1>3, <2>1, ChainGrown
  <2> QED
    BY <2>2 DEF Diff
<1>5. \A k \in Taken : Diff(k)' = Diff(k) /\ (BinsSuffice(k)' <=> BinsSuffice(k))
  BY <1>2 DEF Diff, BinsSuffice
<1> DEFINE s == Sections(diff.words, diff)
<1>6. /\ diff.num_shift_dupl <= NumChunks
      /\ \A i \in DOMAIN s.first : s.first[i] \in first_ocur_vec /\ s.data[i] = data[s.first[i]]
      /\ /\ \A c \in shift_dupl_vec : Source[c].tree \in 0 .. n
         /\ \/ n <= diff.num_shift_dupl \/ diff.num_shift_dupl <= 2
            \/ \A c \in shift_dupl_vec : Source[c].tree = n
         => \A i \in DOMAIN s.shift :
              /\ s.shift[i].node \in shift_dupl_vec
              /\ s.shift[i].prev = Source[s.shift[i].node]
  BY <1>1, <1>2, DiffsReadable
<1> HIDE DEF s
<1>7. Diff(n)' = s
  BY <1>4 DEF s
<1>8. DataKept'
  <2>1. ASSUME NEW k \in Taken, NEW i \in DOMAIN Diff(k)'.first
        PROVE  Diff(k)'.data[i] = history'[k + 1][Diff(k)'.first[i]]
    BY <1>2, <1>5, <2>1 DEF Readable, DataKept
  <2>2. ASSUME NEW i \in DOMAIN Diff(n)'.first
        PROVE  Diff(n)'.data[i] = history'[n + 1][Diff(n)'.first[i]]
    BY <1>2, <1>6, <1>7, <2>2
  <2> QED
    BY <1>2, <2>1, <2>2 DEF DataKept
<1>9. DuplicatesKept'
  <2>1. /\ spoiled \subseteq spoiled' /\ (n \notin spoiled' => n \notin spoiled)
    BY DEF FinishCheckpoint
  <2> SUFFICES ASSUME NEW k \in Taken' \ spoiled', BinsSuffice(k)', NEW i \in DOMAIN Diff(k)'.shift,
                      NEW prev, prev = Diff(k)'.shift[i].prev
               PROVE  /\ prev.tree \in Chkpt(k)'.ref_id .. k
                      /\ prev.node \in SavedIn(prev.tree)'
                      /\ history'[prev.tree + 1][prev.node] = history'[k + 1][Diff(k)'.shift[i].node]
    BY DEF DuplicatesKept
  <2>2. CASE k \in Taken
    <3>1. /\ prev.tree \in Chkpt(k).ref_id .. k /\ prev.node \in SavedIn(prev.tree)
          /\ history[prev.tree + 1][prev.node] = history[k + 1][Diff(k).shift[i].node]
      BY <1>5, <2>1, <2>2 DEF Readable, DuplicatesKept
    <3>2. prev.tree \in Taken
      <4>1. Taken = 0 .. n - 1 /\ Chkpt(k).ref_id \in 0 .. k
        BY <1>1, <2>2, ChkptIn DEF HeadersTrue
      <4> QED
        BY <1>2, <2>2, <3>1, <4>1
    <3> QED
      BY <1>2, <1>5, <2>2, <3>1, <3>2
  <2>3. CASE k = n
    <3>1. n \notin spoiled
      BY <2>1, <2>3
    <3>2. baseline_id \in 0 .. n /\ Taken = 0 .. n - 1
          /\ \A j \in Taken : Chkpt(j).ref_id \in 0 .. j
      BY <1>1, ChkptIn DEF HeadersTrue
    <3>3. ASSUME NEW c \in shift_dupl_vec, NEW id, id = Source[c]
          PROVE  /\ id.tree \in baseline_id .. n
                 /\ id.node \in SavedIn(id.tree)'
                 /\ history'[id.tree + 1][id.node] = data[c]
      <4>1. \/ /\ id.tree \in Chain
               /\ id.node \in SavedIn(id.tree)
               /\ history[id.tree + 1][id.node] = data[c]
            \/ /\ id.tree = n
               /\ id.node \in first_ocur_vec
               /\ data[id.node] = data[c]
        BY <1>1, <1>2, <3>1, <3>3, SourcesOfChain DEF SourcesTrue
      <4>2. CASE /\ id.tree \in Chain
                 /\ id.node \in SavedIn(id.tree)
                 /\ history[id.tree + 1][id.node] = data[c]
        <5>1. id.tree \in Taken /\ Chkpt(id.tree).ref_id = baseline_id
          BY <4>2 DEF Chain
        <5>2. id.tree \in baseline_id .. n
          BY <1>2, <3>2, <5>1
        <5> QED
          BY <1>2, <4>2, <5>1, <5>2
      <4>3. CASE /\ id.tree = n
                 /\ id.node \in first_ocur_vec
                 /\ data[id.node] = data[c]
        <5>1. n \in baseline_id .. n
          BY <1>2, <3>2
        <5> QED
          BY <1>2, <4>3, <5>1
      <4> QED
        BY <4>1, <4>2, <4>3
    <3>4. \A c \in shift_dupl_vec : Source[c].tree \in 0 .. n
      BY <1>2, <3>2, <3>3
    <3>5. \/ n <= diff.num_shift_dupl \/ diff.num_shift_dupl <= 2
          \/ \A c \in shift_dupl_vec : Source[c].tree = n
      <4>1. \/ n <= diff.num_shift_dupl \/ diff.num_shift_dupl <= 2
            \/ baseline_id = n
        BY <1>2, <1>4, <2>3 DEF BinsSuffice
      <4>2. \A c \in shift_dupl_vec : baseline_id = n => Source[c].tree = n
        BY <1>2, <3>3
      <4> QED
        BY <4>1, <4>2
    <3>6. s.shift[i].node \in shift_dupl_vec /\ prev = Source[s.shift[i].node]
      BY <1>6, <1>7, <2>3, <3>4, <3>5
    <3> QED
      BY <1>2, <1>7, <2>3, <3>3, <3>6
  <2> QED
    BY <1>2, <2>2, <2>3
<1>10. CountsBounded'
  <2>1. \A k \in Taken' : Chkpt(k)'.num_shift_dupl <= NumChunks
    BY <1>2, <1>4, <1>6 DEF Readable, CountsBounded
  <2>2. n + 1 <= MaxChkpts
    BY <1>1, <1>2, SizeAssumption DEF Readable, CountsBounded
  <2> QED
    BY <1>2, <2>1, <2>2 DEF CountsBounded
<1> QED
  BY <1>8, <1>9, <1>10 DEF Readable

LEMMA ReadableStep ==
  ASSUME ThreadsExact, Exact, Readable, [Next]_vars
  PROVE  Readable'
<1>0. current_id \in Nat /\ MaxChkpts \in Nat /\ current_id \notin Taken
  BY ChkptIn, SizeAssumption DEF Exact, Coherent, HeadersTrue
<1>1. ASSUME UNCHANGED <<current_id, incr_chkpts, history>>, spoiled \ {current_id} \subseteq spoiled',
             pc' = "dedup" => current_id < MaxChkpts
      PROVE  Readable'
  <2>1. /\ Taken' = Taken
        /\ \A k : /\ Chkpt(k)' = Chkpt(k) /\ Diff(k)' = Diff(k) /\ SavedIn(k)' = SavedIn(k)
                  /\ BinsSuffice(k)' <=> BinsSuffice(k)
    BY <1>1, ChainKept DEF Diff, BinsSuffice
  <2>2. Taken' \ spoiled' \subseteq Taken \ spoiled
    BY <1>0, <1>1, <2>1
  <2>3. DataKept'
    BY <1>1, <2>1 DEF Readable, DataKept
  <2>4. DuplicatesKept'
    BY <1>1, <2>1, <2>2 DEF Readable, DuplicatesKept
  <2>5. CountsBounded'
    BY <1>1, <2>1 DEF Readable, CountsBounded
  <2> QED
    BY <2>3, <2>4, <2>5 DEF Readable
<1>2. ASSUME NEW d \in Data, NEW make_baseline \in BOOLEAN, Checkpoint(d, make_baseline)
      PROVE  Readable'
  BY <1>1, <1>2 DEF Checkpoint
<1>3. ASSUME NEW c \in todo, DedupChunk(c) PROVE Readable'
  BY <1>1, <1>3 DEF DedupChunk, Readable, CountsBounded
<1>4. CASE FinishCheckpoint
  BY <1>4, ReadableFinishCheckpoint
<1>5. CASE /\ ~ \E d \in Data, make_baseline \in BOOLEAN : Checkpoint(d, make_baseline)
           /\ ~ \E c \in todo : DedupChunk(c)
           /\ ~ FinishCheckpoint
  <2>1. /\ UNCHANGED <<current_id, incr_chkpts, history>>
        /\ \/ spoiled' = spoiled /\ (pc' = "dedup" <=> pc = "dedup")
           \/ spoiled' = spoiled \cup {current_id} /\ pc' = "idle"
    BY <1>5, OtherSteps
  <2> QED
    BY <1>1, <2>1 DEF Readable, CountsBounded
<1> QED
  BY <1>2, <1>3, <1>4, <1>5

\* Every diff is read back from its words: the data of what it saved, and, where
\* the sort has bins enough, a source that holds the content of each duplicate, for
\* every order the threads, the vectors and the sort leave them in.
THEOREM ReadableAlways == ThreadsExact => (Spec => []Readable)
<1> SUFFICES ASSUME ThreadsExact PROVE Spec => []Readable
  OBVIOUS
<1>1. Exact /\ Readable /\ [Next]_vars => Readable'
  BY ReadableStep
<1>2. Spec => []Exact
  BY ExactAlways
<1> QED
  BY <1>1, <1>2, ReadableInit, PTL DEF Spec

\* With at most two chunks or four checkpoints, no sort is short of bins.
LEMMA BinsAlwaysSuffice ==
  ASSUME NumChunks <= 2 \/ MaxChkpts <= 4, HeadersTrue, CountsBounded, NEW k \in Taken
  PROVE  BinsSuffice(k)
<1>1. Chkpt(k) \in Headers /\ k \in 0 .. current_id - 1 /\ current_id \in Nat
  BY ChkptIn DEF HeadersTrue
<1>2. Chkpt(k).num_shift_dupl \in Nat /\ Chkpt(k).num_shift_dupl <= NumChunks
      /\ current_id <= MaxChkpts /\ NumChunks \in Nat /\ MaxChkpts \in Nat
  BY <1>1, SizeAssumption DEF Headers, CountsBounded
<1> QED
  BY <1>1, <1>2 DEF BinsSuffice

\* With at most two chunks or at most four checkpoints the sort always has bins
\* enough, and every duplicate is true.  With four chunks and five checkpoints it may
\* not have, and sources are read wrong (SourcesReadAlways of ListDiffOrders).
THEOREM DuplicatesAlwaysTrue ==
  ASSUME ThreadsExact, NumChunks <= 2 \/ MaxChkpts <= 4
  PROVE  Spec => []DuplicatesTrue
<1>1. ASSUME Exact, Readable PROVE DuplicatesTrue
  <2>1. \A k \in Taken : BinsSuffice(k)
    BY <1>1, BinsAlwaysSuffice DEF Exact, Coherent, Readable
  <2> QED
    BY <1>1, <2>1 DEF Readable, DuplicatesKept, DuplicatesTrue
<1>2. Spec => []Exact /\ []Readable
  BY ExactAlways, ReadableAlways, PTL
<1> QED
  BY <1>1, <1>2, PTL

-----------------------------------------------------------------------------
(* Restarts *)

LEMMA ChainTrueInit == Init => ChainTrue
BY DEF Init, ChainTrue, Taken

LEMMA ChainTrueStep ==
  ASSUME ThreadsExact, Coherent, spoiled \subseteq 0 .. current_id, ChainTrue, [Next]_vars
  PROVE  ChainTrue'
<1>1. PICK n : n = current_id
  OBVIOUS
<1>2. /\ n \in Nat /\ Taken = 0 .. n - 1 /\ baseline_id \in 0 .. n
      /\ \A k \in Taken : k \in Nat /\ Chkpt(k).ref_id \in 0 .. k
  <2>1. HeadersTrue
    BY DEF Coherent
  <2> QED
    BY <1>1, <2>1, ChkptIn DEF HeadersTrue
<1>3. \A k \in Taken : \A j \in Chkpt(k).ref_id .. k : j \in Taken
  BY <1>2
\* A step that takes no checkpoint.
<1>4. ASSUME UNCHANGED <<current_id, incr_chkpts>>,
             baseline_id' = baseline_id \/ baseline_id' = n,
             spoiled' \ {n} = spoiled \ {n},
             baseline_id' # n => spoiled \subseteq spoiled'
      PROVE  ChainTrue'
  <2>1. Taken' = Taken /\ \A k : Chkpt(k)' = Chkpt(k)
    BY <1>4, ChainKept
  <2>2. \A k \in Taken : k # n /\ (k \in spoiled' <=> k \in spoiled)
    BY <1>2, <1>4
  <2>3. ASSUME NEW k \in Taken, NEW j \in Chkpt(k).ref_id .. k
        PROVE  Chkpt(j).ref_id = Chkpt(k).ref_id /\ (k \notin spoiled' => j \notin spoiled')
    BY <1>3, <2>2, <2>3 DEF ChainTrue
  <2>4. ASSUME NEW k \in Taken, k >= baseline_id'
        PROVE  Chkpt(k).ref_id = baseline_id' /\ (n \notin spoiled' => k \notin spoiled')
    <3>1. k < n
      BY <1>2
    <3>2. baseline_id' # n
      BY <1>2, <2>4, <3>1
    <3>3. baseline_id' = baseline_id /\ (n \notin spoiled' => n \notin spoiled)
      BY <1>4, <3>2
    <3> QED
      BY <1>1, <2>2, <2>4, <3>3 DEF ChainTrue
  <2> QED
    BY <1>1, <1>4, <2>1, <2>3, <2>4 DEF ChainTrue
<1>5. ASSUME NEW d \in Data, NEW make_baseline \in BOOLEAN, Checkpoint(d, make_baseline)
      PROVE  ChainTrue'
  <2>1. /\ UNCHANGED <<current_id, incr_chkpts>>
        /\ spoiled' = IF make_baseline THEN spoiled \ {n} ELSE spoiled
        /\ baseline_id' = IF make_baseline THEN n ELSE baseline_id
    BY <1>1, <1>5 DEF Checkpoint
  <2> QED
    BY <1>4, <2>1
<1>6. ASSUME NEW c \in todo, DedupChunk(c) PROVE ChainTrue'
  BY <1>4, <1>6 DEF DedupChunk
<1>7. CASE FinishCheckpoint
  <2>1. /\ current_id' = n + 1 /\ baseline_id' = baseline_id
        /\ Taken' = Taken \cup {n} /\ n \notin Taken
        /\ \A k \in Taken : Chkpt(k)' = Chkpt(k)
        /\ Chkpt(n)'.ref_id = baseline_id
    BY <1>1, <1>7, CheckpointTaken
  <2>2. spoiled' = IF n \in spoiled THEN spoiled \cup {n + 1} ELSE spoiled
    BY <1>1, <1>7 DEF FinishCheckpoint
  <2>3. n + 1 \notin spoiled /\ n + 1 \notin Taken'
    BY <1>1, <1>2, <2>1
  <2>4. \A k \in Taken' : k \in spoiled' <=> k \in spoiled
    BY <2>2, <2>3
  <2>5. n \in Taken' /\ (n + 1 \notin spoiled' => n \notin spoiled)
    BY <2>1, <2>2
  <2>6. ASSUME NEW k \in Taken, k >= baseline_id
        PROVE  Chkpt(k)'.ref_id = baseline_id /\ (n \notin spoiled => k \notin spoiled)
    BY <1>1, <2>1, <2>6 DEF ChainTrue
  <2>7. ASSUME NEW k \in Taken', NEW j \in Chkpt(k)'.ref_id .. k
        PROVE  /\ Chkpt(j)'.ref_id = Chkpt(k)'.ref_id
               /\ k \notin spoiled' => j \notin spoiled'
    <3>1. CASE k \in Taken
      <4>1. j \in Taken /\ j \in Chkpt(k).ref_id .. k
        BY <1>3, <2>1, <2>7, <3>1
      <4>2. Chkpt(j).ref_id = Chkpt(k).ref_id /\ (k \notin spoiled => j \notin spoiled)
        BY <3>1, <4>1 DEF ChainTrue
      <4> QED
        BY <2>1, <2>4, <3>1, <4>1, <4>2
    <3>2. CASE k = n /\ j = n
      BY <3>2
    <3>3. CASE k = n /\ j # n
      <4>1. j \in Taken /\ j >= baseline_id
        BY <1>2, <2>1, <2>7, <3>3
      <4>2. Chkpt(j)'.ref_id = baseline_id /\ (n \notin spoiled => j \notin spoiled)
        BY <2>6, <4>1
      <4> QED
        BY <2>1, <2>4, <2>5, <3>3, <4>1, <4>2
    <3> QED
      BY <2>1, <3>1, <3>2, <3>3
  <2>8. ASSUME NEW k \in Taken', k >= baseline_id
        PROVE  Chkpt(k)'.ref_id = baseline_id /\ (n + 1 \notin spoiled' => k \notin spoiled')
    BY <2>1, <2>4, <2>5, <2>6, <2>8
  <2> QED
    BY <2>1, <2>7, <2>8 DEF ChainTrue
<1>8. CASE /\ ~ \E d \in Data, make_baseline \in BOOLEAN : Checkpoint(d, make_baseline)
           /\ ~ \E c \in todo : DedupChunk(c)
           /\ ~ FinishCheckpoint
  <2>1. /\ UNCHANGED <<current_id, baseline_id, incr_chkpts>>
        /\ spoiled' = spoiled \/ spoiled' = spoiled \cup {n}
    BY <1>1, <1>8, OtherSteps
  <2> QED
    BY <1>4, <2>1
<1> QED
  BY <1>5, <1>6, <1>7, <1>8

\* The chain of the checkpoint a restart goes through, and what its diffs say.
LEMMA WalkFacts ==
  ASSUME Exact, Readable, ChainTrue, RestartTyped, RestartPromised,
         NEW b, b = Chkpt(target).ref_id, NEW k \in b .. target
  PROVE  /\ target \in Taken /\ b \in 0 .. target /\ target \in Nat
         /\ k \in Taken /\ k \in Nat /\ Chkpt(k).ref_id = b
         /\ SectionsOf(k) = Diff(k)
         /\ SavedIn(k) \subseteq Chunks
         /\ \A i \in DOMAIN Diff(k).first :
              Diff(k).data[i] = history[k + 1][Diff(k).first[i]]
         /\ \A i \in DOMAIN Diff(k).shift :
              LET prev == Diff(k).shift[i].prev
              IN  /\ prev.tree \in b .. k
                  /\ prev.node \in SavedIn(prev.tree) /\ prev.node \in Chunks
                  /\ history[prev.tree + 1][prev.node] = history[k + 1][Diff(k).shift[i].node]
         /\ \A c \in Chunks \ (SavedIn(k) \cup PointedIn(k)) :
              k > b /\ history[k][c] = history[k + 1][c]
<1>1. Coherent /\ OmittedSame /\ DataKept /\ DuplicatesKept
  BY DEF Exact, Readable
<1>2. /\ target \in Taken /\ target \notin spoiled /\ BinsSuffice(k)
      /\ via = "memory" \/ b = target
  BY DEF RestartPromised, Honoured
<1>3. /\ Taken = 0 .. current_id - 1 /\ current_id \in Nat
      /\ \A j \in Taken : j \in Nat /\ Chkpt(j).ref_id \in 0 .. j
  BY <1>1, ChkptIn DEF Coherent, HeadersTrue
<1>4. b \in 0 .. target /\ target \in Nat
  BY <1>2, <1>3
<1>5. k \in Taken /\ k \in Nat
  BY <1>2, <1>3, <1>4
<1>6. Chkpt(k).ref_id = b /\ k \notin spoiled
  BY <1>2 DEF ChainTrue
<1>7. SectionsOf(k) = Diff(k)
  <2>1. CASE via = "memory"
    BY <2>1 DEF SectionsOf, Diff
  <2>2. CASE b = target
    <3>1. k = target
      BY <1>4, <2>2
    <3> QED
      BY <3>1 DEF SectionsOf, Diff
  <2> QED
    BY <1>2, <2>1, <2>2
<1>8. \A j \in Taken : SavedIn(j) \subseteq Chunks
  BY <1>1 DEF Coherent, SavedKnown
<1>9. \A i \in DOMAIN Diff(k).first : Diff(k).data[i] = history[k + 1][Diff(k).first[i]]
  BY <1>1, <1>5 DEF DataKept
<1>10. ASSUME NEW i \in DOMAIN Diff(k).shift, NEW prev, prev = Diff(k).shift[i].prev
       PROVE  /\ prev.tree \in b .. k
              /\ prev.node \in SavedIn(prev.tree) /\ prev.node \in Chunks
              /\ history[prev.tree + 1][prev.node] = history[k + 1][Diff(k).shift[i].node]
  <2>1. /\ prev.tree \in b .. k /\ prev.node \in SavedIn(prev.tree)
        /\ history[prev.tree + 1][prev.node] = history[k + 1][Diff(k).shift[i].node]
    BY <1>1, <1>2, <1>5, <1>6, <1>10 DEF DuplicatesKept
  <2>2. prev.tree \in Taken
    BY <1>2, <1>3, <1>4, <1>5, <2>1
  <2> QED
    BY <1>8, <2>1, <2>2
<1>11. \A c \in Chunks \ (SavedIn(k) \cup PointedIn(k)) :
         k > b /\ history[k][c] = history[k + 1][c]
  BY <1>1, <1>5, <1>6 DEF OmittedSame
<1> QED
  BY <1>2, <1>4, <1>5, <1>6, <1>7, <1>8, <1>9, <1>10, <1>11

\* What checkpoint k of the chain has saved is found in it, with its content.
LEMMA SavedFound ==
  ASSUME Exact, Readable, ChainTrue, RestartTyped, RestartPromised,
         NEW b, b = Chkpt(target).ref_id, NEW k \in b .. target, NEW c
  PROVE  LET at == Positions(SectionsOf(k), k, NodeID(c, k))
         IN  /\ c \in SavedIn(k) => at # {}
             /\ at # {} => /\ c \in SavedIn(k)
                           /\ DataAt(SectionsOf(k), at) = history[k + 1][c]
<1> DEFINE s == SectionsOf(k)
           at == Positions(s, k, NodeID(c, k))
<1>1. /\ s = Diff(k)
      /\ \A i \in DOMAIN s.first : s.data[i] = history[k + 1][s.first[i]]
      /\ SavedIn(k) = {s.first[i] : i \in DOMAIN s.first}
  BY WalkFacts DEF SavedIn, Range
<1>2. at = {i \in DOMAIN s.first : s.first[i] = c}
  BY DEF Positions, NodeID
<1> HIDE DEF s
<1>3. ASSUME at # {}
      PROVE  c \in SavedIn(k) /\ DataAt(s, at) = history[k + 1][c]
  <2>1. DataAt(s, at) = s.data[CHOOSE i \in at : TRUE]
    BY <1>3 DEF DataAt
  <2>2. (CHOOSE i \in at : TRUE) \in at
    BY <1>3
  <2> HIDE DEF at
  <2>3. PICK i \in at : DataAt(s, at) = s.data[i]
    BY <2>1, <2>2
  <2>4. i \in DOMAIN s.first /\ s.first[i] = c
    BY <1>2, <2>3
  <2> QED
    BY <1>1, <2>3, <2>4
<1>4. c \in SavedIn(k) => at # {}
  BY <1>1, <1>2
<1> QED
  BY <1>3, <1>4 DEF s

\* Where a duplicate of checkpoint k is said to be found.
LEMMA PointedFound ==
  ASSUME Exact, Readable, ChainTrue, RestartTyped, RestartPromised,
         NEW b, b = Chkpt(target).ref_id, NEW k \in b .. target, NEW c
  PROVE  /\ Repeats(SectionsOf(k), c) # {} <=> c \in PointedIn(k)
         /\ \A p \in Repeats(SectionsOf(k), c) :
              /\ p.tree \in b .. k /\ p.node \in SavedIn(p.tree) /\ p.node \in Chunks
              /\ history[p.tree + 1][p.node] = history[k + 1][c]
<1> DEFINE s == SectionsOf(k)
<1>1. /\ s = Diff(k)
      /\ \A i \in DOMAIN s.shift :
           LET prev == s.shift[i].prev
           IN  /\ prev.tree \in b .. k
               /\ prev.node \in SavedIn(prev.tree) /\ prev.node \in Chunks
               /\ history[prev.tree + 1][prev.node] = history[k + 1][s.shift[i].node]
      /\ PointedIn(k) = {s.shift[i].node : i \in DOMAIN s.shift}
  BY WalkFacts DEF PointedIn, Range
<1> HIDE DEF s
<1>2. \A p : p \in Repeats(s, c) <=>
               \E i \in DOMAIN s.shift : s.shift[i].node = c /\ s.shift[i].prev = p
  BY DEF Repeats
<1>3. Repeats(s, c) # {} <=> c \in PointedIn(k)
  <2>1. Repeats(s, c) # {} <=> \E i \in DOMAIN s.shift : s.shift[i].node = c
    BY <1>2
  <2> QED
    BY <1>1, <2>1
<1>4. ASSUME NEW p \in Repeats(s, c)
      PROVE  /\ p.tree \in b .. k /\ p.node \in SavedIn(p.tree) /\ p.node \in Chunks
             /\ history[p.tree + 1][p.node] = history[k + 1][c]
  <2>1. PICK i \in DOMAIN s.shift : s.shift[i].node = c /\ s.shift[i].prev = p
    BY <1>2, <1>4
  <2> QED
    BY <1>1, <2>1
<1> QED
  BY <1>3, <1>4 DEF s

\* A chunk due in checkpoint k that is not found in it is found where it moves on to.
LEMMA MovedFound ==
  ASSUME Exact, Readable, ChainTrue, RestartTyped, RestartPromised,
         NEW b, b = Chkpt(target).ref_id, NEW k \in b .. target,
         NEW id \in NodeIDs, id.tree = k, id.node \in Chunks,
         Positions(SectionsOf(k), k, id) = {},
         NEW next, next = Follow(SectionsOf(k), k, id)
  PROVE  /\ next \in NodeIDs /\ next.node \in Chunks /\ next.tree \in b .. k
         /\ history[next.tree + 1][next.node] = history[k + 1][id.node]
         /\ next.tree = k => next.node \in SavedIn(k)
<1>1. id = NodeID(id.node, k)
  BY DEF NodeID, NodeIDs
<1>2. id.node \notin SavedIn(k)
  BY <1>1, SavedFound
<1>3. /\ k \in Taken /\ target \in Taken /\ k \in Nat /\ b \in 0 .. target /\ target \in Nat
      /\ \A c \in Chunks \ (SavedIn(k) \cup PointedIn(k)) :
           k > b /\ history[k][c] = history[k + 1][c]
  BY WalkFacts
<1>4. /\ Repeats(SectionsOf(k), id.node) # {} <=> id.node \in PointedIn(k)
      /\ \A p \in Repeats(SectionsOf(k), id.node) :
           /\ p.tree \in b .. k /\ p.node \in SavedIn(p.tree) /\ p.node \in Chunks
           /\ history[p.tree + 1][p.node] = history[k + 1][id.node]
  BY PointedFound
<1>5. CASE Repeats(SectionsOf(k), id.node) # {}
  <2>1. next \in Repeats(SectionsOf(k), id.node)
    BY <1>5 DEF Follow
  <2>2. Repeats(SectionsOf(k), id.node) \subseteq NodeIDs
    BY <1>3, SectionsOfTyped DEF Exact, Coherent
  <2> QED
    BY <1>4, <2>1, <2>2
<1>6. CASE Repeats(SectionsOf(k), id.node) = {}
  <2>1. next = NodeID(id.node, k - 1)
    BY <1>6 DEF Follow
  <2>2. k > b /\ history[k][id.node] = history[k + 1][id.node]
    BY <1>2, <1>3, <1>4, <1>6
  <2>3. next.node = id.node /\ next.tree = k - 1 /\ next \in NodeIDs
    BY <1>3, <2>1 DEF NodeID, NodeIDs
  <2>4. k - 1 \in b .. k /\ k - 1 + 1 = k /\ k - 1 # k
    BY <1>3, <2>2
  <2> QED
    BY <2>2, <2>3, <2>4
<1> QED
  BY <1>5, <1>6

\* A restart under way keeps its checkpoint, and the chain is kept under it.
LEMMA RestartKept ==
  ASSUME RestartPromised', UNCHANGED dedupVars, UNCHANGED <<target, via>>
  PROVE  /\ RestartPromised
         /\ Chkpt(target)' = Chkpt(target)
         /\ SavedIn(target)' = SavedIn(target) /\ PointedIn(target)' = PointedIn(target)
         /\ \A c : Wanted(c)' = Wanted(c)
BY DEF RestartPromised, Honoured, BinsSuffice, Taken, Chkpt, SavedIn, PointedIn, Diff, Wanted,
       Wraps, dedupVars

\* Where a restart is promised offsets do not wrap, and each kernel copies what it is to.
LEMMA CopiedAsMeant ==
  ASSUME RestartPromised
  PROVE  \A view : Copied(view) = {view}
BY DEF RestartPromised, Honoured, Copied, Wraps

\* The chunks of checkpoint k a walk deals with in one round: each is copied from k,
\* or is found before it.
LEMMA RoundFinds ==
  ASSUME Exact, Readable, ChainTrue, RestartTyped, RestartPromised,
         NEW b, b = Chkpt(target).ref_id, NEW k \in b .. target,
         NEW id \in NodeIDs, id.tree = k, id.node \in Chunks,
         NEW s, s = SectionsOf(k), NEW next, next = Follow(s, k, id)
  PROVE  /\ Positions(s, k, id) # {} => DataAt(s, Positions(s, k, id)) = history[k + 1][id.node]
         /\ Positions(s, k, id) = {} /\ next.tree = k =>
              DataAt(s, Positions(s, k, next)) = history[k + 1][id.node]
         /\ Positions(s, k, id) = {} /\ next.tree # k =>
              /\ next.node \in Chunks /\ next.tree \in b .. k - 1
              /\ history[next.tree + 1][next.node] = history[k + 1][id.node]
<1>1. id = NodeID(id.node, k)
  BY DEF NodeID, NodeIDs
<1>2. ASSUME Positions(s, k, id) # {}
      PROVE  DataAt(s, Positions(s, k, id)) = history[k + 1][id.node]
  BY <1>1, <1>2, SavedFound
<1>3. ASSUME Positions(s, k, id) = {}
      PROVE  /\ next \in NodeIDs /\ next.node \in Chunks /\ next.tree \in b .. k
             /\ history[next.tree + 1][next.node] = history[k + 1][id.node]
             /\ next.tree = k => next.node \in SavedIn(k)
  BY <1>3, MovedFound
<1>4. ASSUME Positions(s, k, id) = {}, next.tree = k
      PROVE  DataAt(s, Positions(s, k, next)) = history[k + 1][id.node]
  <2>1. next = NodeID(next.node, k) /\ next.node \in SavedIn(k)
    BY <1>3, <1>4 DEF NodeID, NodeIDs
  <2>2. DataAt(s, Positions(s, k, next)) = history[k + 1][next.node]
    BY <2>1, SavedFound
  <2> QED
    BY <1>3, <1>4, <2>2
<1>5. ASSUME Positions(s, k, id) = {}, next.tree # k
      PROVE  next.tree \in b .. k - 1
  <2>1. next.tree \in b .. k /\ k \in Int /\ b \in Int
    BY <1>3, <1>5, WalkFacts
  <2> QED
    BY <1>5, <2>1
<1> QED
  BY <1>2, <1>3, <1>4, <1>5

LEMMA RestartTrueFirst ==
  ASSUME Exact, Readable, ChainTrue, RestartTyped, RestartTrue, RestartFirst
  PROVE  RestartTrue'
<1> SUFFICES ASSUME RestartPromised' PROVE RestartTrue'
  BY DEF RestartTrue
<1> DEFINE s == SectionsOf(target)
           At(c) == Positions(s, target, NodeID(c, target))
           Value(c) == DataAt(s, At(c))
           view == [c \in Chunks |-> IF At(c) # {} THEN Value(c) ELSE out[c]]
<1>1. /\ pc = "first" /\ pc' = "repeats"
      /\ node_list' = [c \in Chunks |-> IF At(c) # {} THEN NodeID(c, target) ELSE node_list[c]]
      /\ out' \in Copied(view)
      /\ UNCHANGED dedupVars /\ UNCHANGED <<target, via, idx, ref_id>>
  BY DEF RestartFirst
<1>2. /\ RestartPromised /\ Chkpt(target)' = Chkpt(target) /\ target' = target
      /\ SavedIn(target)' = SavedIn(target) /\ \A c : Wanted(c)' = Wanted(c)
  BY <1>1, RestartKept
<1>11. out' = [c \in Chunks |-> IF At(c) # {} THEN Value(c) ELSE out[c]]
  <2> HIDE DEF view
  <2>1. out' = view
    BY <1>1, <1>2, CopiedAsMeant
  <2> QED
    BY <2>1 DEF view
<1>3. /\ \A c \in Chunks : node_list[c] = Untouched
      /\ ref_id = Chkpt(target).ref_id
  BY <1>1, <1>2 DEF RestartTrue
<1>4. PICK b : b = Chkpt(target).ref_id
  OBVIOUS
<1>5. target \in Nat /\ target \in b .. target
  <2>1. HeadersTrue /\ target \in Taken
    BY <1>2 DEF Exact, Coherent, RestartPromised
  <2>2. target \in Nat /\ b \in 0 .. target
    BY <1>4, <2>1, ChkptIn DEF HeadersTrue
  <2> QED
    BY <2>2
<1>6. ASSUME NEW c
      PROVE  /\ c \in SavedIn(target) => At(c) # {}
             /\ At(c) # {} => c \in SavedIn(target) /\ Value(c) = Wanted(c)
  BY <1>2, <1>4, <1>5, SavedFound DEF Wanted
<1> HIDE DEF s, At, Value
<1>7. ASSUME NEW c \in Chunks, c \in SavedIn(target)
      PROVE  node_list'[c].tree > target - 1 /\ out'[c] = Wanted(c)
  <2>1. node_list'[c] = NodeID(c, target) /\ out'[c] = Wanted(c)
    BY <1>1, <1>6, <1>7, <1>11
  <2> QED
    BY <1>5, <2>1 DEF NodeID
<1>8. ASSUME NEW c \in Chunks, c \notin SavedIn(target) PROVE node_list'[c] = Untouched
  BY <1>1, <1>3, <1>6, <1>8
<1>9. \A c \in Chunks : IF c \in SavedIn(target)' THEN CopiedAfter(c, target - 1)'
                        ELSE node_list'[c] = Untouched
  BY <1>2, <1>7, <1>8 DEF CopiedAfter
<1>10. ref_id' = Chkpt(target)'.ref_id
  BY <1>1, <1>2, <1>3
<1> QED
  BY <1>1, <1>9, <1>10 DEF RestartTrue

LEMMA RestartTrueRepeats ==
  ASSUME Exact, Readable, ChainTrue, RestartTyped, RestartTrue, RestartRepeats
  PROVE  RestartTrue'
<1> SUFFICES ASSUME RestartPromised' PROVE RestartTrue'
  BY DEF RestartTrue
<1> DEFINE s == SectionsOf(target)
           Seen(c) == Repeats(s, c)
           prev(c) == CHOOSE p \in Repeats(s, c) : TRUE
           Value(c) == DataAt(s, Positions(s, target, prev(c)))
           view == [c \in Chunks |->
                      IF Seen(c) # {} /\ prev(c).tree = target THEN Value(c) ELSE out[c]]
<1>1. /\ pc = "repeats" /\ pc' = "same"
      /\ node_list' = [c \in Chunks |-> IF Seen(c) # {} THEN prev(c) ELSE node_list[c]]
      /\ out' \in Copied(view)
      /\ UNCHANGED dedupVars /\ UNCHANGED <<target, via, idx, ref_id>>
  BY DEF RestartRepeats
<1>2. /\ RestartPromised /\ Chkpt(target)' = Chkpt(target) /\ target' = target
      /\ SavedIn(target)' = SavedIn(target) /\ PointedIn(target)' = PointedIn(target)
      /\ history' = history /\ \A c : Wanted(c)' = Wanted(c)
  BY <1>1, RestartKept DEF dedupVars
<1>11. out' = [c \in Chunks |->
                IF Seen(c) # {} /\ prev(c).tree = target THEN Value(c) ELSE out[c]]
  <2> HIDE DEF view
  <2>1. out' = view
    BY <1>1, <1>2, CopiedAsMeant
  <2> QED
    BY <2>1 DEF view
<1>3. /\ \A c \in Chunks : IF c \in SavedIn(target) THEN CopiedAfter(c, target - 1)
                           ELSE node_list[c] = Untouched
      /\ ref_id = Chkpt(target).ref_id
  BY <1>1, <1>2 DEF RestartTrue
<1>4. PICK b : b = Chkpt(target).ref_id
  OBVIOUS
<1>5. target \in Taken /\ HeadersTrue
  BY <1>2 DEF Exact, Coherent, RestartPromised
<1>6. target \in Nat /\ b \in 0 .. target /\ target \in b .. target
  BY <1>4, <1>5, ChkptIn DEF HeadersTrue
<1>7. /\ \A c : Seen(c) # {} <=> c \in PointedIn(target)
      /\ \A c : Seen(c) # {} =>
           /\ prev(c).tree \in b .. target
           /\ prev(c).node \in SavedIn(prev(c).tree) /\ prev(c).node \in Chunks
           /\ history[prev(c).tree + 1][prev(c).node] = Wanted(c)
           /\ prev(c) \in NodeIDs
  <2>1. ASSUME NEW c
        PROVE  /\ Seen(c) # {} <=> c \in PointedIn(target)
               /\ \A p \in Seen(c) :
                    /\ p.tree \in b .. target /\ p.node \in SavedIn(p.tree) /\ p.node \in Chunks
                    /\ history[p.tree + 1][p.node] = Wanted(c)
    BY <1>2, <1>4, <1>6, PointedFound DEF Wanted
  <2>2. \A c : Seen(c) \subseteq NodeIDs
    BY <1>5, SectionsOfTyped
  <2>3. \A c : Seen(c) # {} => prev(c) \in Seen(c)
    OBVIOUS
  <2> HIDE DEF prev, Seen
  <2> QED
    BY <2>1, <2>2, <2>3
<1>8. ASSUME NEW c, Seen(c) # {}, prev(c).tree = target PROVE Value(c) = Wanted(c)
  <2>1. /\ prev(c) = NodeID(prev(c).node, target)
        /\ prev(c).node \in SavedIn(target)
        /\ history[target + 1][prev(c).node] = Wanted(c)
    <3> HIDE DEF prev
    <3> QED
      BY <1>7, <1>8 DEF NodeID, NodeIDs
  <2> HIDE DEF prev
  <2>2. Value(c) = history[target + 1][prev(c).node]
    BY <1>2, <1>4, <1>6, <2>1, SavedFound
  <2> QED
    BY <2>1, <2>2
<1> HIDE DEF s, Seen, prev, Value
<1>9. ASSUME NEW c \in Chunks
      PROVE  \/ CopiedAfter(c, target - 1)'
             \/ FoundBy(c, target - 1)'
             \/ node_list'[c] = Untouched /\ c \notin SavedIn(target)' \cup PointedIn(target)'
  <2>1. CASE Seen(c) # {} /\ prev(c).tree = target
    <3>1. node_list'[c].tree = target /\ out'[c] = Wanted(c)
      BY <1>1, <1>8, <1>11, <2>1
    <3>2. CopiedAfter(c, target - 1)'
      BY <1>2, <1>6, <3>1 DEF CopiedAfter
    <3> QED
      BY <3>2
  <2>2. CASE Seen(c) # {} /\ prev(c).tree # target
    <3>1. node_list'[c] = prev(c)
      BY <1>1, <2>2
    <3>2. /\ prev(c).tree \in b .. target - 1 /\ prev(c).node \in Chunks
          /\ history[prev(c).tree + 1][prev(c).node] = Wanted(c)
      BY <1>6, <1>7, <2>2
    <3>3. FoundBy(c, target - 1)'
      BY <1>2, <1>4, <3>1, <3>2 DEF FoundBy
    <3> QED
      BY <3>3
  <2>3. CASE Seen(c) = {}
    <3>1. node_list'[c] = node_list[c] /\ out'[c] = out[c] /\ c \notin PointedIn(target)
      BY <1>1, <1>7, <1>11, <2>3
    <3>2. CASE c \in SavedIn(target)
      <4>1. CopiedAfter(c, target - 1)'
        BY <1>2, <1>3, <3>1, <3>2 DEF CopiedAfter
      <4> QED
        BY <4>1
    <3>3. CASE c \notin SavedIn(target)
      BY <1>2, <1>3, <3>1, <3>3
    <3> QED
      BY <3>2, <3>3
  <2> QED
    BY <2>1, <2>2, <2>3
<1>10. ref_id' = Chkpt(target)'.ref_id
  BY <1>1, <1>2, <1>3
<1> QED
  BY <1>1, <1>9, <1>10 DEF RestartTrue

LEMMA RestartTrueFillSame ==
  ASSUME Exact, Readable, ChainTrue, RestartTyped, RestartTrue, FillSame
  PROVE  RestartTrue'
<1> SUFFICES ASSUME RestartPromised' PROVE RestartTrue'
  BY DEF RestartTrue
<1>1. /\ pc = "same" /\ pc' = "load" /\ idx' = target - 1
      /\ node_list' = [c \in Chunks |->
           IF node_list[c] = Untouched THEN NodeID(c, target - 1) ELSE node_list[c]]
      /\ UNCHANGED dedupVars /\ UNCHANGED <<target, via, ref_id, out>>
  BY DEF FillSame
<1>2. /\ RestartPromised /\ Chkpt(target)' = Chkpt(target) /\ target' = target
      /\ history' = history /\ \A c : Wanted(c)' = Wanted(c)
  BY <1>1, RestartKept DEF dedupVars
<1>3. /\ \A c \in Chunks :
           \/ CopiedAfter(c, target - 1)
           \/ FoundBy(c, target - 1)
           \/ node_list[c] = Untouched /\ c \notin SavedIn(target) \cup PointedIn(target)
      /\ ref_id = Chkpt(target).ref_id
  BY <1>1, <1>2 DEF RestartTrue
<1>4. PICK b : b = Chkpt(target).ref_id
  OBVIOUS
<1>5. target \in Nat /\ b \in 0 .. target /\ target \in b .. target
  <2>1. HeadersTrue /\ target \in Taken
    BY <1>2 DEF Exact, Coherent, RestartPromised
  <2> QED
    BY <1>4, <2>1, ChkptIn DEF HeadersTrue
<1>6. \A c \in Chunks \ (SavedIn(target) \cup PointedIn(target)) :
        target > b /\ history[target][c] = history[target + 1][c]
  BY <1>2, <1>4, <1>5, WalkFacts
<1>7. Untouched.tree = -1
  BY DEF Untouched, NodeID
<1>8. ASSUME NEW c \in Chunks PROVE CopiedAfter(c, target - 1)' \/ FoundBy(c, target - 1)'
  <2>1. CASE CopiedAfter(c, target - 1)
    <3>1. node_list[c] # Untouched
      BY <1>5, <1>7, <2>1 DEF CopiedAfter
    <3>2. node_list'[c] = node_list[c] /\ out'[c] = out[c]
      BY <1>1, <3>1
    <3>3. CopiedAfter(c, target - 1)'
      BY <1>2, <2>1, <3>2 DEF CopiedAfter
    <3> QED
      BY <3>3
  <2>2. CASE FoundBy(c, target - 1)
    <3>1. node_list[c] # Untouched
      BY <1>4, <1>5, <1>7, <2>2 DEF FoundBy
    <3>2. node_list'[c] = node_list[c]
      BY <1>1, <3>1
    <3>3. FoundBy(c, target - 1)'
      BY <1>2, <2>2, <3>2 DEF FoundBy
    <3> QED
      BY <3>3
  <2>3. CASE node_list[c] = Untouched /\ c \notin SavedIn(target) \cup PointedIn(target)
    <3>1. node_list'[c] = NodeID(c, target - 1)
      BY <1>1, <2>3
    <3>2. node_list'[c].node = c /\ node_list'[c].tree = target - 1
      BY <3>1 DEF NodeID
    <3>3. target > b /\ history[target][c] = Wanted(c)
      BY <1>6, <2>3 DEF Wanted
    <3>4. target - 1 \in b .. target - 1 /\ target - 1 + 1 = target
      BY <1>5, <3>3
    <3>5. FoundBy(c, target - 1)'
      BY <1>2, <1>4, <3>2, <3>3, <3>4 DEF FoundBy
    <3> QED
      BY <3>5
  <2> QED
    BY <1>3, <2>1, <2>2, <2>3
<1>9. ref_id' = Chkpt(target)'.ref_id /\ idx' \in ref_id' - 1 .. target' - 1
  BY <1>1, <1>2, <1>3, <1>4, <1>5
<1>10. \A c \in Chunks : CopiedAfter(c, idx)' \/ FoundBy(c, idx)'
  BY <1>1, <1>2, <1>8 DEF CopiedAfter, FoundBy
<1> QED
  BY <1>1, <1>9, <1>10 DEF RestartTrue

\* One round of the walk: what is due in checkpoint idx is copied, or moves on.
LEMMA RestartTruePrior ==
  ASSUME Exact, Readable, ChainTrue, RestartTyped, RestartTrue, RestartPrior
  PROVE  RestartTrue'
<1> SUFFICES ASSUME RestartPromised' PROVE RestartTrue'
  BY DEF RestartTrue
<1>1. PICK k : k = idx
  OBVIOUS
<1> DEFINE s == SectionsOf(idx)
           At(id) == Positions(s, idx, id)
           due == {c \in Chunks : node_list[c].tree = idx}
           here == {c \in due : At(node_list[c]) # {}}
           nextOf(c) == Follow(s, idx, node_list[c])
           moved == {c \in due \ here : nextOf(c).tree # idx}
<1>2. /\ pc = "load" /\ pc' = "load" /\ k >= ref_id /\ ref_id' = Chkpt(k).ref_id
      /\ idx' = k - 1 /\ UNCHANGED dedupVars /\ UNCHANGED <<target, via>>
  BY <1>1 DEF RestartPrior, NextIdx
<1>3. /\ RestartPromised /\ Chkpt(target)' = Chkpt(target) /\ target' = target
      /\ history' = history /\ \A c : Wanted(c)' = Wanted(c)
  BY <1>2, RestartKept DEF dedupVars
<1>4. /\ ref_id = Chkpt(target).ref_id /\ k \in ref_id - 1 .. target - 1
      /\ \A c \in Chunks : CopiedAfter(c, k) \/ FoundBy(c, k)
  BY <1>1, <1>2, <1>3 DEF RestartTrue
<1>5. PICK b : b = Chkpt(target).ref_id
  OBVIOUS
<1>6. target \in Nat /\ b \in 0 .. target /\ k \in b .. target - 1 /\ k \in b .. target
  <2>1. HeadersTrue /\ target \in Taken
    BY <1>3 DEF Exact, Coherent, RestartPromised
  <2>2. target \in Nat /\ b \in 0 .. target
    BY <1>5, <2>1, ChkptIn DEF HeadersTrue
  <2> QED
    BY <1>2, <1>4, <1>5, <2>2
\* The threads do not race.
<1>7. /\ out' = [c \in Chunks |->
           CASE c \in here -> DataAt(s, At(node_list[c]))
             [] c \in due \ (here \cup moved) -> DataAt(s, At(nextOf(c)))
             [] OTHER -> out[c]]
      /\ node_list' = [c \in Chunks |-> IF c \in moved THEN nextOf(c) ELSE node_list[c]]
  <2> DEFINE copied == [c \in Chunks |->
               CASE c \in here -> DataAt(s, At(node_list[c]))
                 [] c \in due \ (here \cup moved) -> DataAt(s, At(nextOf(c)))
                 [] OTHER -> out[c]]
  <2>1. (IF WideTeams /\ via = "memory" THEN SUBSET moved ELSE {{}}) = {{}}
    <3>1. b # target
      BY <1>6
    <3> QED
      BY <1>3, <1>5, <3>1 DEF RestartPromised
  <2>2. PICK raced, again, lost :
          /\ raced \in IF WideTeams /\ via = "memory" THEN SUBSET moved ELSE {{}}
          /\ DOMAIN lost \subseteq raced
          /\ out' \in Copied([c \in Chunks |-> IF c \in DOMAIN lost THEN lost[c] ELSE copied[c]])
          /\ node_list' = [c \in Chunks |->
               CASE c \in raced -> again[c]
                 [] c \in moved \ raced -> nextOf(c)
                 [] OTHER -> node_list[c]]
    <3> DEFINE parts == \E d \in Chunks : Follow(s, idx, NodeID(d, idx)).tree = idx
    <3>1. PICK raced \in IF WideTeams /\ via = "memory" THEN SUBSET moved ELSE {{}} :
            /\ \E again \in [raced -> Moves(s, idx)] :
                 node_list' = [c \in Chunks |->
                   CASE c \in raced -> again[c]
                     [] c \in moved \ raced -> nextOf(c)
                     [] OTHER -> node_list[c]]
            /\ \E lost \in [IF parts THEN raced ELSE {} -> Vals \cup {NoVal, NoWord}] :
                 out' \in Copied([c \in Chunks |->
                   IF c \in DOMAIN lost THEN lost[c] ELSE copied[c]])
      BY DEF RestartPrior
    <3> HIDE DEF s, At, due, here, nextOf, moved, parts, copied
    <3>2. PICK lost \in [IF parts THEN raced ELSE {} -> Vals \cup {NoVal, NoWord}] :
            out' \in Copied([c \in Chunks |-> IF c \in DOMAIN lost THEN lost[c] ELSE copied[c]])
      BY <3>1
    <3>3. DOMAIN lost \subseteq raced
      OBVIOUS
    <3> QED
      BY <3>1, <3>2, <3>3
  <2>3. raced = {} /\ DOMAIN lost = {}
    BY <2>1, <2>2
  <2> HIDE DEF s, At, due, here, nextOf, moved
  <2>4. out' = copied
    <3> HIDE DEF copied
    <3>1. out' = [c \in Chunks |-> IF c \in DOMAIN lost THEN lost[c] ELSE copied[c]]
      BY <1>3, <2>2, CopiedAsMeant
    <3>2. [c \in Chunks |-> IF c \in DOMAIN lost THEN lost[c] ELSE copied[c]]
            = [c \in Chunks |-> copied[c]]
      BY <2>3
    <3>3. [c \in Chunks |-> copied[c]] = copied
      BY DEF copied
    <3> QED
      BY <3>1, <3>2, <3>3
  <2>5. node_list' = [c \in Chunks |-> IF c \in moved THEN nextOf(c) ELSE node_list[c]]
    BY <2>2, <2>3
  <2> QED
    BY <2>4, <2>5
<1>8. /\ DOMAIN node_list = Chunks
      /\ \A c \in Chunks : node_list[c] \in NodeIDs
  BY <1>2 DEF RestartTyped, Restarting
<1>9. ASSUME NEW c \in Chunks PROVE CopiedAfter(c, k - 1)' \/ FoundBy(c, k - 1)'
  <2>1. CASE CopiedAfter(c, k)
    <3>1. node_list[c].tree > k /\ node_list[c].tree \in Int
      BY <1>8, <2>1 DEF CopiedAfter, NodeIDs
    <3>2. c \notin due
      BY <1>1, <1>6, <3>1
    <3>3. node_list'[c] = node_list[c] /\ out'[c] = out[c]
      <4>1. c \notin here /\ c \notin moved
        BY <3>2
      <4> HIDE DEF due, here, moved, nextOf, At, s
      <4> QED
        BY <1>7, <3>2, <4>1
    <3>4. CopiedAfter(c, k - 1)'
      BY <1>3, <1>6, <2>1, <3>1, <3>3 DEF CopiedAfter
    <3> QED
      BY <3>4
  <2>2. CASE FoundBy(c, k) /\ node_list[c].tree # k
    <3>1. c \notin due
      BY <1>1, <2>2
    <3>2. node_list'[c] = node_list[c]
      <4>1. c \notin moved
        BY <3>1
      <4> HIDE DEF due, here, moved, nextOf, At, s
      <4> QED
        BY <1>7, <4>1
    <3>3. node_list[c].tree \in b .. k - 1
      BY <1>5, <1>6, <2>2 DEF FoundBy
    <3>4. FoundBy(c, k - 1)'
      BY <1>3, <1>5, <2>2, <3>2, <3>3 DEF FoundBy
    <3> QED
      BY <3>4
  <2>3. CASE FoundBy(c, k) /\ node_list[c].tree = k
    <3>1. PICK id : id = node_list[c]
      OBVIOUS
    <3>2. /\ id \in NodeIDs /\ id.tree = k /\ id.node \in Chunks
          /\ history[k + 1][id.node] = Wanted(c) /\ c \in due
      BY <1>1, <1>8, <2>3, <3>1 DEF FoundBy
    <3>3. /\ At(id) # {} => DataAt(s, At(id)) = Wanted(c)
          /\ At(id) = {} /\ nextOf(c).tree = k => DataAt(s, At(nextOf(c))) = Wanted(c)
          /\ At(id) = {} /\ nextOf(c).tree # k =>
               /\ nextOf(c).node \in Chunks /\ nextOf(c).tree \in b .. k - 1
               /\ history[nextOf(c).tree + 1][nextOf(c).node] = Wanted(c)
      <4> HIDE DEF s
      <4>1. s = SectionsOf(k) /\ nextOf(c) = Follow(s, k, id)
        BY <1>1, <3>1 DEF s
      <4> HIDE DEF nextOf
      <4> QED
        BY <1>1, <1>3, <1>5, <1>6, <3>2, <4>1, RoundFinds
    <3>4. /\ c \in here <=> At(id) # {}
          /\ c \in moved <=> At(id) = {} /\ nextOf(c).tree # k
      BY <1>1, <3>1, <3>2
    <3> HIDE DEF due, here, moved, nextOf, At, s
    <3>5. CASE c \notin moved
      <4>1. out'[c] = Wanted(c)
        <5>1. CASE c \in here
          BY <1>7, <3>1, <3>3, <3>4, <5>1
        <5>2. CASE c \notin here
          <6>1. c \in due \ (here \cup moved)
            BY <3>2, <3>5, <5>2
          <6>2. out'[c] = DataAt(s, At(nextOf(c)))
            BY <1>7, <5>2, <6>1
          <6> QED
            BY <3>3, <3>4, <3>5, <5>2, <6>2
        <5> QED
          BY <5>1, <5>2
      <4>2. node_list'[c] = id
        BY <1>7, <3>1, <3>5
      <4>3. CopiedAfter(c, k - 1)'
        BY <1>3, <1>6, <3>2, <4>1, <4>2 DEF CopiedAfter
      <4> QED
        BY <4>3
    <3>6. CASE c \in moved
      <4>1. node_list'[c] = nextOf(c)
        BY <1>7, <3>6
      <4>2. FoundBy(c, k - 1)'
        BY <1>3, <1>5, <3>3, <3>4, <3>6, <4>1 DEF FoundBy
      <4> QED
        BY <4>2
    <3> QED
      BY <3>5, <3>6
  <2> QED
    BY <1>4, <2>1, <2>2, <2>3
<1>10. ref_id' = Chkpt(target)'.ref_id
  BY <1>2, <1>3, <1>5, <1>6, WalkFacts
<1>11. idx' \in ref_id' - 1 .. target' - 1
  BY <1>2, <1>3, <1>5, <1>6, <1>10
<1>12. \A c \in Chunks : CopiedAfter(c, idx)' \/ FoundBy(c, idx)'
  BY <1>2, <1>3, <1>9 DEF CopiedAfter, FoundBy
<1> QED
  BY <1>2, <1>10, <1>11, <1>12 DEF RestartTrue

LEMMA RestartTrueFinish ==
  ASSUME Exact, Readable, ChainTrue, RestartTyped, RestartTrue, FinishRestart
  PROVE  RestartTrue'
<1> SUFFICES ASSUME RestartPromised' PROVE RestartTrue'
  BY DEF RestartTrue
<1>1. /\ pc = "load" /\ pc' = "restarted" /\ idx < ref_id
      /\ UNCHANGED dedupVars /\ UNCHANGED <<target, via, out>>
  BY DEF FinishRestart, restartVars
<1>2. /\ RestartPromised /\ \A c : Wanted(c)' = Wanted(c)
  BY <1>1, RestartKept
<1>3. /\ ref_id = Chkpt(target).ref_id
      /\ \A c \in Chunks : CopiedAfter(c, idx) \/ FoundBy(c, idx)
  BY <1>1, <1>2 DEF RestartTrue
<1>4. ref_id \in Nat /\ idx \in Int
  BY DEF RestartTyped
<1>5. ASSUME NEW c \in Chunks PROVE out'[c] = Wanted(c)'
  <2>1. ~ FoundBy(c, idx)
    BY <1>1, <1>3, <1>4 DEF FoundBy
  <2> QED
    BY <1>1, <1>2, <1>3, <2>1 DEF CopiedAfter
<1> QED
  BY <1>1, <1>5 DEF RestartTrue

LEMMA RestartTrueStep ==
  ASSUME Exact, Readable, ChainTrue, RestartTyped, RestartTrue, [Next]_vars
  PROVE  RestartTrue'
<1>1. ASSUME pc' \notin Restarting PROVE RestartTrue'
  BY <1>1 DEF RestartTrue, Restarting
<1>2. CASE \/ \E d \in Data, make_baseline \in BOOLEAN : Checkpoint(d, make_baseline)
           \/ \E c \in todo : DedupChunk(c)
           \/ FinishCheckpoint \/ FailToWrite \/ Release
  <2>1. pc' \in {"dedup", "idle"}
    BY <1>2 DEF Checkpoint, DedupChunk, FinishCheckpoint, FailToWrite, Release
  <2> QED
    BY <1>1, <2>1 DEF Restarting
<1>3. ASSUME NEW k \in 0 .. Len(incr_chkpts) - 1, RestartFromViews(k) \/ RestartFromFiles(k)
      PROVE  RestartTrue'
  <2>1. /\ target' = k /\ ref_id' = Chkpt(k).ref_id /\ pc' = "first"
        /\ node_list' = [c \in Chunks |-> Untouched] /\ incr_chkpts' = incr_chkpts
    BY <1>3 DEF RestartFromViews, RestartFromFiles, OpenCheckpoint, dedupVars
  <2>2. Chkpt(target)' = Chkpt(k)
    BY <2>1 DEF Chkpt
  <2> QED
    BY <2>1, <2>2 DEF RestartTrue
<1>4. CASE UNCHANGED vars
  <2>1. /\ UNCHANGED dedupVars /\ UNCHANGED <<target, via, idx, ref_id, node_list, out, pc>>
    BY <1>4 DEF vars, restartVars
  <2> SUFFICES ASSUME RestartPromised' PROVE RestartTrue'
    BY DEF RestartTrue
  <2>2. /\ RestartPromised /\ Chkpt(target)' = Chkpt(target) /\ history' = history
        /\ SavedIn(target)' = SavedIn(target) /\ PointedIn(target)' = PointedIn(target)
        /\ \A c : Wanted(c)' = Wanted(c)
    BY <2>1, RestartKept DEF dedupVars
  <2>3. \A c, k : /\ CopiedAfter(c, k)' <=> CopiedAfter(c, k)
                  /\ FoundBy(c, k)' <=> FoundBy(c, k)
    BY <2>1, <2>2 DEF CopiedAfter, FoundBy
  <2>4. \A c : /\ CopiedAfter(c, target - 1)' <=> CopiedAfter(c, target - 1)
               /\ FoundBy(c, target - 1)' <=> FoundBy(c, target - 1)
               /\ CopiedAfter(c, idx)' <=> CopiedAfter(c, idx)
               /\ FoundBy(c, idx)' <=> FoundBy(c, idx)
    BY <2>1, <2>2 DEF CopiedAfter, FoundBy
  <2> QED
    BY <2>1, <2>2, <2>4 DEF RestartTrue
<1> QED
  BY <1>2, <1>3, <1>4, RestartTrueFirst, RestartTrueRepeats, RestartTrueFillSame,
     RestartTruePrior, RestartTrueFinish DEF Next, Progress, Call

\* A restart, at each of its kernels: every chunk is copied or sought where the chain
\* holds its content.
LEMMA RestartAlwaysTrue ==
  ASSUME ThreadsExact
  PROVE  Spec => [](Coherent /\ RestartTyped /\ RestartTrue)
<1> DEFINE R == ObjectTyped /\ RestartTyped
           C == ChainTrue /\ RestartTrue
<1>1. Init => R /\ C
  <2>1. Init => RestartTrue
    BY DEF Init, RestartTrue
  <2> QED
    BY <2>1, TypedInit, ChainTrueInit
<1>2. Coherent /\ R /\ [Next]_vars => R'
  BY ObjectTypedStep, RestartTypedStep DEF Coherent
<1>3. Exact /\ Readable /\ R /\ C /\ [Next]_vars => C'
  BY ChainTrueStep, RestartTrueStep DEF Exact, ObjectTyped
<1>4. R /\ C => RestartTyped /\ RestartTrue
  OBVIOUS
<1>5. Spec => []Coherent /\ []Exact /\ []Readable
  BY CoherentAlways, ExactAlways, ReadableAlways, PTL
<1> HIDE DEF R, C
<1> QED
  BY <1>1, <1>2, <1>3, <1>4, <1>5, PTL DEF Spec

\* What a restart hands out, when it is promised.
LEMMA RestartedData ==
  ASSUME Coherent, RestartTyped, RestartTrue, pc = "restarted", RestartPromised
  PROVE  out = history[target + 1]
<1>1. target \in Taken /\ out \in [Chunks -> Nat \cup {NoVal}]
  BY DEF RestartTyped, Restarting
<1>2. history[target + 1] \in Data
  BY <1>1, ChkptIn DEF Coherent
<1>3. \A c \in Chunks : out[c] = history[target + 1][c]
  BY DEF RestartTrue, Wanted
<1> QED
  BY <1>1, <1>2, <1>3 DEF Data

\* A restart gives back exactly the data the checkpoint was taken of: from Views by
\* teams that do not race, from the file of a baseline of a region whose offsets do
\* not wrap, and in both cases from diffs whose sort had bins enough and that no
\* failed write has spoiled.
THEOREM RestartAlwaysExact ==
  ASSUME ThreadsExact
  PROVE  Spec => [](pc = "restarted" /\ RestartPromised => out = history[target + 1])
<1>1. Coherent /\ RestartTyped /\ RestartTrue
        => (pc = "restarted" /\ RestartPromised => out = history[target + 1])
  BY RestartedData
<1>2. Spec => [](Coherent /\ RestartTyped /\ RestartTrue)
  BY RestartAlwaysTrue
<1> QED
  BY <1>1, <1>2, PTL

\* A baseline no failed write has spoiled is restarted exactly, from Views or, where
\* offsets do not wrap, from its file, whether teams are wide or not and however its
\* duplicates are sorted.
THEOREM BaselinesAlwaysExact == ThreadsExact => (Spec => []BaselineExact)
<1> SUFFICES ASSUME ThreadsExact PROVE Spec => []BaselineExact
  OBVIOUS
<1>1. Coherent /\ RestartTyped /\ RestartTrue => BaselineExact
  <2> SUFFICES ASSUME Coherent, RestartTyped, RestartTrue, pc = "restarted", ~Wraps,
                      target \notin spoiled, Chkpt(target).ref_id = target
               PROVE  target \in Taken /\ out = history[target + 1]
    BY DEF BaselineExact
  <2>1. target \in Taken /\ target \in Nat
    BY DEF RestartTyped, Restarting
  <2>2. \A k \in Chkpt(target).ref_id .. target : k = target
    BY <2>1
  <2>3. RestartPromised
    BY <2>1, <2>2 DEF RestartPromised, Honoured, BinsSuffice
  <2> QED
    BY <2>1, <2>3, RestartedData
<1>2. Spec => [](Coherent /\ RestartTyped /\ RestartTrue)
  BY RestartAlwaysTrue
<1> QED
  BY <1>1, <1>2, PTL

-----------------------------------------------------------------------------
(* Refinement *)

\* What a step is to the callers: a new checkpoint, a restart that returns, the end
\* of its use, or nothing.
LEMMA SeenSteps ==
  ASSUME Coherent, [Next]_vars
  PROVE  \/ UNCHANGED <<history, spoiled, incr_chkpts, target, via, out, pc>>
         \/ /\ pc # "restarted" /\ pc' # "restarted"
            /\ history' = history \/ (data \in Data /\ history' = Append(history, data))
         \/ pc # "restarted" /\ pc' = "restarted" /\ history' = history
         \/ pc = "restarted" /\ pc' # "restarted" /\ history' = history
<1>1. CASE FinishCheckpoint
  BY <1>1 DEF FinishCheckpoint, Coherent, KernelTrue
<1>2. CASE FinishRestart
  BY <1>2 DEF FinishRestart, dedupVars
<1>3. CASE Release
  BY <1>3 DEF Release, dedupVars
<1>4. CASE \/ \E d \in Data, make_baseline \in BOOLEAN : Checkpoint(d, make_baseline)
           \/ \E c \in todo : DedupChunk(c)
           \/ FailToWrite \/ RestartFirst \/ RestartRepeats \/ FillSame \/ RestartPrior
  <2>1. UNCHANGED history /\ pc # "restarted" /\ pc' # "restarted"
    BY <1>4 DEF Checkpoint, DedupChunk, FailToWrite, RestartFirst, RestartRepeats, FillSame,
                RestartPrior, dedupVars
  <2> QED
    BY <2>1
<1>5. CASE \E k \in 0 .. Len(incr_chkpts) - 1 : RestartFromViews(k) \/ RestartFromFiles(k)
  BY <1>5 DEF RestartFromViews, RestartFromFiles, OpenCheckpoint, dedupVars
<1>6. CASE UNCHANGED vars
  BY <1>6 DEF vars, dedupVars, restartVars
<1> QED
  BY <1>1, <1>2, <1>3, <1>4, <1>5, <1>6 DEF Next, Progress, Call

\* A restart that has returned and that is honoured has the data restarted.
HonouredTrue == pc = "restarted" /\ Honoured => target \in Taken /\ out = history[target + 1]

\* ... when threads do not race and sorts have bins enough.
LEMMA HonouredExact ==
  ASSUME ~WideTeams, NumChunks <= 2 \/ MaxChkpts <= 4,
         Coherent, Readable, RestartTyped, RestartTrue
  PROVE  HonouredTrue
<1> SUFFICES ASSUME pc = "restarted", Honoured
             PROVE  target \in Taken /\ out = history[target + 1]
  BY DEF HonouredTrue
<1>1. target \in Taken /\ HeadersTrue
  BY DEF RestartTyped, Restarting, Coherent
<1>2. \A k \in Chkpt(target).ref_id .. target : k \in Taken
  BY <1>1, ChkptIn DEF HeadersTrue
<1>3. \A k \in Chkpt(target).ref_id .. target : BinsSuffice(k)
  BY <1>1, <1>2, BinsAlwaysSuffice DEF Readable
<1>4. RestartPromised
  BY <1>1, <1>3 DEF RestartPromised
<1> QED
  BY <1>1, <1>4, RestartedData

\* A step of the deduplicator is a step of the store, or one its callers do not see.
LEMMA StoreStep ==
  ASSUME Coherent, Coherent', RestartTyped, HonouredTrue', [Next]_vars
  PROVE  [Store!Next]_(Store!vars)
<1> USE DEF Store!Next, Store!vars
<1>1. CASE /\ pc # "restarted" /\ pc' # "restarted"
           /\ history' = history \/ (data \in Data /\ history' = Append(history, data))
  BY <1>1 DEF Store!Checkpoint
<1>2. CASE pc # "restarted" /\ pc' = "restarted" /\ history' = history
  <2>1. CASE ~Honoured'
    BY <1>2, <2>1
  <2>2. CASE Honoured'
    <3>1. target' \in Taken' /\ out' = history[target' + 1]
      BY <1>2, <2>2 DEF HonouredTrue
    <3>2. target' \in 0 .. Len(history) - 1
      BY <1>2, <3>1 DEF Coherent, HeadersTrue, Taken
    <3>3. Store!Restart(target')
      BY <1>2, <2>2, <3>1 DEF Store!Restart
    <3> QED
      BY <3>2, <3>3
  <2> QED
    BY <2>1, <2>2
<1>3. CASE pc = "restarted" /\ pc' # "restarted" /\ history' = history
  <2>1. [id |-> target, data |-> out].id # [id |-> -1].id
    BY DEF RestartTyped
  <2> QED
    BY <1>3, <2>1 DEF Store!Release
<1>4. CASE UNCHANGED <<history, spoiled, incr_chkpts, target, via, out, pc>>
  <2>1. Honoured' <=> Honoured
    BY <1>4 DEF Honoured, Wraps, Chkpt
  <2> QED
    BY <1>4, <2>1
<1> QED
  BY <1>1, <1>2, <1>3, <1>4, SeenSteps

\* The List deduplicator implements the checkpoint store, in the restarts that are
\* honoured, when its threads do not race and its sorts have bins enough.
THEOREM ImplementsStore ==
  ASSUME ThreadsExact, ~WideTeams, NumChunks <= 2 \/ MaxChkpts <= 4
  PROVE  Spec => StoreSpec
<1> DEFINE I == Coherent /\ RestartTyped /\ RestartTrue
<1>1. Init => Store!Init
  BY DEF Init, Store!Init
<1>2. I /\ Readable => HonouredTrue
  BY HonouredExact
<1>3. I /\ I' /\ HonouredTrue' /\ [Next]_vars => [Store!Next]_(Store!vars)
  BY StoreStep
<1>4. Spec => []I /\ []Readable
  BY RestartAlwaysTrue, ReadableAlways, PTL
<1> HIDE DEF I
<1> QED
  BY <1>1, <1>2, <1>3, <1>4, PTL DEF Spec, StoreSpec, Store!Spec
=============================================================================
