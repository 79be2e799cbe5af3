------------------------- MODULE MerkleTree_proofs -------------------------
(***************************************************************************)
(* Proofs about the index functions of a Merkle tree, for trees of every   *)
(* number of chunks: where levels begin and end, which nodes are below a   *)
(* node, and that the region of a node is a row of leaves below it.        *)
(*                                                                         *)
(* The functions go down the tree by tail recursion.  That such a function *)
(* exists, and what it returns, is proved once (TailRecursion, TailResult) *)
(* from the least element of a set of naturals.                            *)
(***************************************************************************)
EXTENDS MerkleTree, WellFoundedInduction, TLAPS

-----------------------------------------------------------------------------
(* Induction and recursion *)

LEMMA LeastElement ==
  ASSUME NEW S \in SUBSET Nat, S # {}
  PROVE  \E m \in S : \A n \in S : m <= n
<1> DEFINE R == OpToRel(<, Nat)
<1>1. \E m \in S : \A n \in S : ~(<<n, m>> \in R)
  BY NatLessThanWellFounded, WFMin
<1>2. \A n, m \in Nat : n < m => <<n, m>> \in R
  BY DEF OpToRel
<1> HIDE DEF R
<1>3. \A n, m \in Nat : ~(n < m) => m <= n
  OBVIOUS
<1> QED
  BY <1>1, <1>2, <1>3

\* The function that goes from p to next[p] until it stops.
IsTail(F, P, stop, next, base) ==
  F = [p \in P |-> IF p \in stop THEN base[p] ELSE F[next[p]]]

\* There is one: it returns what is at a place where the way from p stops.
LEMMA TailRecursion ==
  ASSUME NEW P, NEW stop, NEW next, NEW base,
         \A p \in P \ stop : next[p] \in P
  PROVE  \E F : IsTail(F, P, stop, next, base)
<1> DEFINE Closed(S) == \A x \in S \ stop : next[x] \in S
           Way(p) == {q \in P : \A S \in SUBSET P : p \in S /\ Closed(S) => q \in S}
           End(p) == CHOOSE q : q \in Way(p) \cap stop
           F == [p \in P |-> base[End(p)]]
<1>1. ASSUME NEW p \in P PROVE p \in Way(p) /\ Closed(Way(p))
  OBVIOUS
<1>2. ASSUME NEW p \in P, p \in stop PROVE F[p] = base[p]
  <2>1. {p} \in SUBSET P /\ Closed({p})
    BY <1>2
  <2>2. \A q \in Way(p) : q \in {p}
    BY <2>1
  <2>3. Way(p) \cap stop = {p}
    <3> HIDE DEF Way
    <3> QED
      BY <1>1, <1>2, <2>2
  <2>4. End(p) = p
    BY <2>3
  <2> QED
    BY <2>4
<1>3. ASSUME NEW p \in P, p \notin stop PROVE F[p] = F[next[p]]
  <2>1. next[p] \in P
    BY <1>3
  <2>2. Way(next[p]) \subseteq Way(p)
    BY <1>3
  <2>3. {p} \cup Way(next[p]) \in SUBSET P /\ Closed({p} \cup Way(next[p]))
    BY <1>1, <2>1
  <2>4. Way(p) \subseteq {p} \cup Way(next[p])
    BY <2>3
  <2>5. Way(p) \cap stop = Way(next[p]) \cap stop
    BY <1>3, <2>2, <2>4
  <2>6. End(p) = End(next[p])
    BY <2>5
  <2>7. F[p] = base[End(p)] /\ F[next[p]] = base[End(next[p])]
    <3> HIDE DEF End
    <3> QED
      BY <2>1
  <2> HIDE DEF End, F
  <2> QED
    BY <2>6, <2>7
<1>4. F = [p \in P |-> IF p \in stop THEN base[p] ELSE F[next[p]]]
  <2> DEFINE G == [p \in P |-> IF p \in stop THEN base[p] ELSE F[next[p]]]
  <2>1. \A p \in P : F[p] = G[p]
    <3> HIDE DEF F
    <3> QED
      BY <1>2, <1>3
  <2>2. F \in [P -> {F[p] : p \in P}] /\ G \in [P -> {G[p] : p \in P}]
    OBVIOUS
  <2> HIDE DEF F, G
  <2>3. F = G
    BY <2>1, <2>2
  <2> QED
    BY <2>3 DEF G
<1> QED
  BY <1>4 DEF IsTail

\* From a place in Inv, which steps do not leave and in which they bring the
\* variant down, it returns what is at a place in Inv where it stops.
LEMMA TailResult ==
  ASSUME NEW P, NEW stop, NEW next, NEW base, NEW F,
         IsTail(F, P, stop, next, base),
         NEW Inv \in SUBSET P, NEW variant \in [Inv -> Nat],
         \A p \in Inv \ stop : next[p] \in Inv /\ variant[next[p]] < variant[p],
         NEW p \in Inv
  PROVE  \E q \in Inv \cap stop : F[p] = base[q]
<1> DEFINE Good(x) == \E q \in Inv \cap stop : F[x] = base[q]
           Bad == {n \in Nat : \E x \in Inv : ~Good(x) /\ variant[x] = n}
<1> SUFFICES ASSUME ~Good(p) PROVE FALSE
  OBVIOUS
<1>1. Bad # {}
  OBVIOUS
<1>2. PICK m \in Bad : \A n \in Bad : m <= n
  <2> HIDE DEF Bad
  <2>1. Bad \in SUBSET Nat
    BY DEF Bad
  <2> QED
    BY <1>1, <2>1, LeastElement
<1>3. PICK x \in Inv : ~Good(x) /\ variant[x] = m
  BY <1>2
<1>4. x \notin stop
  BY <1>3 DEF IsTail
<1>5. next[x] \in Inv /\ variant[next[x]] < m
  BY <1>3, <1>4
<1>6. F[x] = F[next[x]]
  BY <1>3, <1>4 DEF IsTail
<1>7. ~Good(next[x])
  BY <1>3, <1>6
<1>8. variant[next[x]] \in Bad
  BY <1>5, <1>7
<1> QED
  BY <1>2, <1>5, <1>8

-----------------------------------------------------------------------------
(* Levels *)

\* That levels begin at nodes 2^d - 1 is said without exponents: these are the
\* numbers from which halving leads to 0 by way of odd numbers only.
HalvesToZero(S) == \A b \in S : b = 0 \/ (b % 2 = 1 /\ (b - 1) \div 2 \in S)

LevelStarts == UNION {S \in SUBSET Nat : HalvesToZero(S)}

LEMMA StartsAbove ==
  ASSUME NEW b \in LevelStarts
  PROVE  b \in Nat /\ (b = 0 \/ (b % 2 = 1 /\ (b - 1) \div 2 \in LevelStarts))
<1>1. PICK S \in SUBSET Nat : b \in S /\ HalvesToZero(S)
  BY DEF LevelStarts
<1>2. S \subseteq LevelStarts
  BY <1>1 DEF LevelStarts
<1> QED
  BY <1>1, <1>2 DEF HalvesToZero

LEMMA StartsBelow ==
  /\ 0 \in LevelStarts
  /\ \A b \in LevelStarts : 2 * b + 1 \in LevelStarts
<1>1. 0 \in LevelStarts
  <2>1. {0} \in SUBSET Nat /\ HalvesToZero({0})
    BY DEF HalvesToZero
  <2> QED
    BY <2>1 DEF LevelStarts
<1>2. ASSUME NEW b \in LevelStarts PROVE 2 * b + 1 \in LevelStarts
  <2> DEFINE S == LevelStarts \cup {2 * b + 1}
  <2>1. b \in Nat /\ LevelStarts \subseteq Nat
    BY StartsAbove
  <2>2. (2 * b + 1) % 2 = 1 /\ (2 * b + 1 - 1) \div 2 = b
    BY <2>1
  <2>3. S \in SUBSET Nat /\ HalvesToZero(S)
    BY <2>1, <2>2, StartsAbove DEF HalvesToZero
  <2> QED
    BY <2>3 DEF LevelStarts
<1> QED
  BY <1>1, <1>2


\* The deepest level is a level, the first to end past the array.
LEMMA BottomIsLevel ==
  ASSUME NEW n \in Nat, n > 0
  PROVE  \E b \in LevelStarts :
           BottomLevel(n) = [beg |-> b, end |-> 2 * b] /\ b <= n /\ n <= 2 * b
<1> DEFINE P == [beg : Nat, end : Nat]
           stop == {l \in P : ~(l.end < n)}
           next == [l \in P |-> [beg |-> Left(l.beg), end |-> Right(l.end)]]
           base == [l \in P |-> l]
           IsDown(f) == f = [l \in P |-> IF l.end < n
                                         THEN f[[beg |-> Left(l.beg), end |-> Right(l.end)]]
                                         ELSE l]
           down == CHOOSE f : IsDown(f)
           Inv == {l \in P : l.beg \in LevelStarts /\ l.end = 2 * l.beg /\ l.beg <= n}
           variant == [l \in Inv |-> n - l.beg]
           first == [beg |-> 0, end |-> 0]
<1>1. BottomLevel(n) = down[first]
  BY DEF BottomLevel
<1>2. \A f : IsDown(f) <=> IsTail(f, P, stop, next, base)
  BY DEF IsTail
<1>3. \A l \in P : next[l] = [beg |-> 2 * l.beg + 1, end |-> 2 * l.end + 2] /\ next[l] \in P
  BY DEF Left, Right
<1>4. \E f : IsTail(f, P, stop, next, base)
  <2> HIDE DEF P, stop, next, base
  <2> QED
    BY <1>3, TailRecursion
<1>5. IsTail(down, P, stop, next, base)
  <2> HIDE DEF IsDown, P, stop, next, base
  <2> QED
    BY <1>2, <1>4
<1>6. ASSUME NEW l \in Inv, l \notin stop
      PROVE  next[l] \in Inv /\ variant[next[l]] < variant[l]
  <2>1. /\ l.beg \in Nat /\ l.end = 2 * l.beg /\ 2 * l.beg < n /\ 2 * l.beg + 1 \in LevelStarts
        /\ l \in P
    BY <1>6, StartsBelow
  <2>2. next[l].beg = 2 * l.beg + 1 /\ next[l].end = 2 * next[l].beg
    <3>1. next[l] = [beg |-> 2 * l.beg + 1, end |-> 2 * l.end + 2]
      BY <1>3, <2>1
    <3> HIDE DEF P, next
    <3> QED
      BY <2>1, <3>1
  <2>3. next[l] \in Inv
    BY <1>3, <2>1, <2>2
  <2> QED
    BY <2>1, <2>2, <2>3
<1>7. Inv \subseteq P /\ variant \in [Inv -> Nat] /\ first \in Inv
  BY StartsBelow
<1>8. \E l \in Inv \cap stop : down[first] = base[l]
  <2> HIDE DEF P, stop, next, base, Inv, variant, down, first
  <2> QED
    BY <1>5, <1>6, <1>7, TailResult
<1>9. PICK l \in Inv \cap stop : down[first] = l
  BY <1>8
<1>10. l = [beg |-> l.beg, end |-> 2 * l.beg] /\ l.beg \in LevelStarts /\ l.beg <= n
       /\ n <= 2 * l.beg
  <2>1. l \in P /\ l.end = 2 * l.beg /\ l.beg \in LevelStarts /\ l.beg <= n /\ ~(l.end < n)
    BY <1>9
  <2> QED
    BY <2>1
<1> QED
  BY <1>1, <1>9, <1>10

\* The loop over the levels goes from a level to the one above, and ends above
\* the root, where the index it wraps to is past the array.
LEMMA LevelUp ==
  ASSUME NEW b \in LevelStarts, NEW n \in Nat, n < HalfOfWrapped, b <= n,
         NEW level, level = [beg |-> b, end |-> 2 * b]
  PROVE  \/ b = 0 /\ ~LevelInTree(LevelAbove(level), n)
         \/ \E a \in LevelStarts :
              /\ LevelAbove(level) = [beg |-> a, end |-> 2 * a]
              /\ b = 2 * a + 1
              /\ LevelInTree(LevelAbove(level), n)
<1>1. b \in Nat /\ level.beg = b /\ level.end = 2 * b
  BY StartsAbove
<1>2. CASE b = 0
  <2>1. LevelAbove(level).beg = 2147483647
    BY <1>1, <1>2 DEF LevelAbove, Parent, HalfOfWrapped
  <2> QED
    BY <1>2, <2>1 DEF LevelInTree, HalfOfWrapped
<1>3. CASE b # 0
  <2>1. b % 2 = 1 /\ (b - 1) \div 2 \in LevelStarts
    BY <1>3, StartsAbove
  <2>2. PICK a \in Nat : a = (b - 1) \div 2 /\ b = 2 * a + 1
    BY <1>1, <1>3, <2>1
  <2>3. (2 * b - 2) \div 2 = 2 * a /\ 2 * b >= 2
    BY <2>2
  <2>4. LevelAbove(level) = [beg |-> a, end |-> 2 * a]
    BY <1>1, <1>3, <2>2, <2>3 DEF LevelAbove, Parent
  <2>5. a <= n
    BY <1>1, <2>2
  <2> QED
    BY <2>1, <2>2, <2>4, <2>5 DEF LevelInTree
<1> QED
  BY <1>2, <1>3

-----------------------------------------------------------------------------
(* The nodes below a node *)

\* Every node has its two children in S.
ChildClosed(S) == \A x \in S : Left(x) \in S /\ Right(x) \in S

\* Node u and the nodes below it, of the tree that goes on without end.
Below(u) == {w \in Nat : \A S \in SUBSET Nat : u \in S /\ ChildClosed(S) => w \in S}

Above(w) == (w - 1) \div 2

LEMMA ChildrenAbove ==
  ASSUME NEW u \in Nat
  PROVE  /\ Left(u) \in Nat /\ Right(u) \in Nat /\ Left(u) > u /\ Right(u) > u
         /\ Above(Left(u)) = u /\ Above(Right(u)) = u
         /\ u > 0 => Above(u) \in Nat /\ (u = Left(Above(u)) \/ u = Right(Above(u)))
BY DEF Left, Right, Above

LEMMA BelowChildren ==
  ASSUME NEW u \in Nat
  PROVE  Below(u) \subseteq Nat /\ u \in Below(u) /\ ChildClosed(Below(u))
BY ChildrenAbove DEF Below, ChildClosed

\* What holds of a node and of the children of all of which it holds, holds of
\* all nodes below it.
LEMMA BelowLeast ==
  ASSUME NEW S \in SUBSET Nat, ChildClosed(S), NEW u \in S
  PROVE  Below(u) \subseteq S
BY DEF Below

LEMMA BelowAbove ==
  ASSUME NEW u \in Nat, NEW w \in Below(u), w # u
  PROVE  w > u /\ Above(w) \in Below(u)
<1> DEFINE S == {x \in Below(u) : x = u \/ (x > u /\ Above(x) \in Below(u))}
<1>1. S \in SUBSET Nat /\ u \in S
  BY BelowChildren
<1>2. ChildClosed(S)
  <2> SUFFICES ASSUME NEW x \in S PROVE Left(x) \in S /\ Right(x) \in S
    BY DEF ChildClosed
  <2>1. x \in Below(u) /\ x \in Nat /\ x >= u
    BY <1>1
  <2>2. Left(x) \in Below(u) /\ Right(x) \in Below(u)
    BY <2>1, BelowChildren DEF ChildClosed
  <2>3. Left(x) > u /\ Right(x) > u
    BY <2>1, ChildrenAbove
  <2> QED
    BY <2>1, <2>2, <2>3, ChildrenAbove
<1> HIDE DEF S
<1>3. w \in S
  BY <1>1, <1>2, BelowLeast
<1> QED
  BY <1>3 DEF S

\* Of two nodes with a node below both, one is below the other.
LEMMA BelowBoth ==
  ASSUME NEW u \in Nat, NEW v \in Nat, NEW w \in Below(u) \cap Below(v)
  PROVE  u \in Below(v) \/ v \in Below(u)
<1> DEFINE S == {x \in Below(u) : x \in Below(v) => u \in Below(v) \/ v \in Below(u)}
<1>1. S \in SUBSET Nat /\ u \in S
  BY BelowChildren
<1>2. ASSUME NEW x \in S, NEW y \in {Left(x), Right(x)} PROVE y \in S
  <2>1. x \in Nat /\ y \in Below(u) /\ Above(y) = x
    BY BelowChildren, ChildrenAbove DEF ChildClosed
  <2>2. y \in Below(v) => y = v \/ x \in Below(v)
    BY <2>1, BelowAbove
  <2> QED
    BY <2>1, <2>2
<1>3. ChildClosed(S)
  <2> HIDE DEF S
  <2> QED
    BY <1>2 DEF ChildClosed
<1> HIDE DEF S
<1>4. w \in S
  BY <1>1, <1>3, BelowLeast
<1> QED
  BY <1>4 DEF S

LEMMA BelowBelow ==
  ASSUME NEW u \in Nat, NEW v \in Below(u)
  PROVE  Below(v) \subseteq Below(u)
BY BelowChildren, BelowLeast

\* No leaf has a node of the tree below it.
LEMMA BelowLeaf ==
  ASSUME NEW N \in Nat, NEW u \in Leaves(N), NEW w \in Below(u), w < NumNodes(N), N > 0
  PROVE  w = u
<1>1. u \in Nat /\ 2 * u + 1 >= NumNodes(N)
  BY DEF Leaves, NumNodes
<1> DEFINE S == {u} \cup {x \in Nat : x >= 2 * u + 1}
<1>2. S \in SUBSET Nat /\ u \in S /\ ChildClosed(S)
  BY <1>1 DEF ChildClosed, Left, Right
<1>3. w \in S
  <2> HIDE DEF S
  <2> QED
    BY <1>2, BelowLeast
<1> QED
  BY <1>1, <1>3 DEF NumNodes

-----------------------------------------------------------------------------
(* The region of a node *)

\* The row below a row of nodes below u that starts within the array.
BelowRowOf(row, u, n) ==
  \E a, b \in Nat :
    /\ row.left = Left(a) /\ row.right = Right(b)
    /\ a <= b /\ a < n /\ (a = b \/ b % 2 = 0)
    /\ a .. b \subseteq Below(u)

LEMMA BelowRowStep ==
  ASSUME NEW u \in Nat, NEW n \in Nat, NEW row \in Rows, BelowRowOf(row, u, n), row.left < n
  PROVE  BelowRowOf(RowBelow(row), u, n)
<1>1. PICK a, b \in Nat :
        /\ row.left = Left(a) /\ row.right = Right(b)
        /\ a <= b /\ a < n /\ (a = b \/ b % 2 = 0) /\ a .. b \subseteq Below(u)
  BY DEF BelowRowOf
<1>2. \A x \in Left(a) .. Right(b) : Above(x) \in a .. b /\ x \in Nat /\ x > 0
  BY <1>1 DEF Left, Right, Above
<1>3. Left(a) .. Right(b) \subseteq Below(u)
  <2> SUFFICES ASSUME NEW x \in Left(a) .. Right(b) PROVE x \in Below(u)
    OBVIOUS
  <2>1. Above(x) \in Below(u) /\ x \in Nat /\ x > 0
    BY <1>1, <1>2
  <2>2. x = Left(Above(x)) \/ x = Right(Above(x))
    BY <2>1, ChildrenAbove
  <2> HIDE DEF Above
  <2> QED
    BY <2>1, <2>2, BelowChildren DEF ChildClosed
<1>4. Left(a) \in Nat /\ Right(b) \in Nat /\ Left(a) <= Right(b) /\ Right(b) % 2 = 0
  BY <1>1 DEF Left, Right
<1>5. RowBelow(row).left = Left(Left(a)) /\ RowBelow(row).right = Right(Right(b))
  BY <1>1 DEF RowBelow
<1> QED
  BY <1>1, <1>3, <1>4, <1>5 DEF BelowRowOf

\* Deepest goes down by tail recursion, and stops where a row starts past the
\* array.
PastArray(n) == {row \in Rows : ~(row.left < n)}
NextRow == [row \in Rows |-> RowBelow(row)]
LastRowOf(n) == [row \in Rows |-> LastRow(row, n)]
Descent(n) ==
  CHOOSE f : f = [row \in Rows |-> IF row.left < n THEN f[RowBelow(row)] ELSE LastRow(row, n)]

FirstRow(u) == RowBelow([left |-> u, right |-> u])

LEMMA DescentTrue ==
  ASSUME NEW n \in Nat
  PROVE  /\ IsTail(Descent(n), Rows, PastArray(n), NextRow, LastRowOf(n))
         /\ \A row \in Rows : RowBelow(row) \in Rows
         /\ \A u \in Nat : Deepest(u, n) = Descent(n)[FirstRow(u)] /\ FirstRow(u) \in Rows
<1> DEFINE IsDescent(f) == f = [row \in Rows |-> IF row.left < n THEN f[RowBelow(row)]
                                                  ELSE LastRow(row, n)]
           stop == PastArray(n)
           next == NextRow
           base == LastRowOf(n)
<1>1. \A f : IsDescent(f) <=> IsTail(f, Rows, stop, next, base)
  BY DEF IsTail, PastArray, NextRow, LastRowOf
<1>2. \A row \in Rows : RowBelow(row) \in Rows
  BY DEF RowBelow, Rows, Left, Right
<1>3. \E f : IsTail(f, Rows, stop, next, base)
  <2>1. \A row \in Rows \ stop : next[row] \in Rows
    BY <1>2 DEF NextRow
  <2> HIDE DEF stop, next, base
  <2> QED
    BY <2>1, TailRecursion
<1>4. Descent(n) = CHOOSE f : IsDescent(f)
  BY DEF Descent
<1>5. IsTail(Descent(n), Rows, stop, next, base)
  <2> HIDE DEF IsDescent, stop, next, base
  <2> QED
    BY <1>1, <1>3, <1>4
<1>6. \A u \in Nat : Deepest(u, n) = Descent(n)[FirstRow(u)] /\ FirstRow(u) \in Rows
  BY DEF Deepest, Descent, FirstRow, RowBelow, Rows, Left, Right
<1> QED
  BY <1>2, <1>5, <1>6

\* The region of a node is a row of leaves below it, at least one.
LEMMA RegionBelow ==
  ASSUME NEW N \in Nat, N > 0, NEW u \in 0 .. NumNodes(N) - 1
  PROVE  /\ leftmost_leaf(u, NumNodes(N)) \in Nat /\ rightmost_leaf(u, NumNodes(N)) \in Nat
         /\ N - 1 <= leftmost_leaf(u, NumNodes(N))
         /\ leftmost_leaf(u, NumNodes(N)) <= rightmost_leaf(u, NumNodes(N))
         /\ rightmost_leaf(u, NumNodes(N)) < NumNodes(N)
         /\ leftmost_leaf(u, NumNodes(N)) .. rightmost_leaf(u, NumNodes(N)) \subseteq Below(u)
<1> DEFINE n == NumNodes(N)
           Inv == {row \in Rows : BelowRowOf(row, u, n)}
           variant == [row \in Inv |-> 2 * n - row.left]
<1>1. n \in Nat /\ n = 2 * N - 1 /\ u \in Nat /\ u < n
  BY DEF NumNodes
<1> HIDE DEF n
<1>2. /\ IsTail(Descent(n), Rows, PastArray(n), NextRow, LastRowOf(n))
      /\ \A row \in Rows : RowBelow(row) \in Rows
      /\ Deepest(u, n) = Descent(n)[FirstRow(u)] /\ FirstRow(u) \in Rows
  BY <1>1, DescentTrue
<1>3. ASSUME NEW row \in Inv, row \notin PastArray(n)
      PROVE  NextRow[row] \in Inv /\ variant[NextRow[row]] < variant[row]
  <2>1. row \in Rows /\ BelowRowOf(row, u, n) /\ row.left < n /\ NextRow[row] = RowBelow(row)
    BY <1>3 DEF PastArray, NextRow
  <2>2. NextRow[row] \in Inv
    BY <1>1, <1>2, <2>1, BelowRowStep
  <2>3. NextRow[row].left = 2 * row.left + 1 /\ row.left \in Nat
    BY <2>1 DEF RowBelow, Left, Rows
  <2> QED
    BY <1>1, <2>1, <2>2, <2>3
<1>4. Inv \subseteq Rows /\ variant \in [Inv -> Nat]
  <2>1. ASSUME NEW row \in Inv PROVE row.left \in Nat /\ row.left <= 2 * n
    BY <1>1 DEF BelowRowOf, Left, Rows
  <2> QED
    BY <1>1, <2>1
<1>5. FirstRow(u) \in Inv
  <2>1. u .. u = {u} /\ {u} \subseteq Below(u)
    BY <1>1, BelowChildren
  <2>2. FirstRow(u).left = Left(u) /\ FirstRow(u).right = Right(u)
    BY DEF FirstRow, RowBelow
  <2> QED
    BY <1>1, <1>2, <2>1, <2>2 DEF BelowRowOf
<1>6. PICK row \in Inv \cap PastArray(n) : Descent(n)[FirstRow(u)] = LastRowOf(n)[row]
  <2> HIDE DEF Inv, variant
  <2> QED
    BY <1>2, <1>3, <1>4, <1>5, TailResult
<1>7. PICK a, b \in Nat :
        /\ row.left = Left(a) /\ row.right = Right(b)
        /\ a <= b /\ a < n /\ (a = b \/ b % 2 = 0) /\ a .. b \subseteq Below(u)
  BY <1>6 DEF BelowRowOf
<1>8. ~(row.left < n) /\ Deepest(u, n) = LastRow(row, n)
  BY <1>2, <1>6 DEF PastArray, LastRowOf
<1>9. (Left(a) - 1) \div 2 = a /\ (Right(b) - 2) \div 2 = b
  BY DEF Left, Right
<1>10. LastRow(row, n) = [left |-> a, right |-> IF b > n THEN n - 1 ELSE b]
  BY <1>7, <1>9 DEF LastRow
<1>11. leftmost_leaf(u, n) = a /\ rightmost_leaf(u, n) = IF b > n THEN n - 1 ELSE b
  BY <1>8, <1>10 DEF leftmost_leaf, rightmost_leaf
<1>12. a >= N - 1 /\ b # n
  BY <1>1, <1>7, <1>8 DEF Left
<1>13. a <= rightmost_leaf(u, n) /\ rightmost_leaf(u, n) < n /\ rightmost_leaf(u, n) <= b
       /\ rightmost_leaf(u, n) \in Nat
  BY <1>1, <1>7, <1>11, <1>12
<1>14. a .. rightmost_leaf(u, n) \subseteq a .. b
  BY <1>13
<1> QED
  BY <1>7, <1>11, <1>12, <1>13, <1>14 DEF n

\* Rows below two nodes that are matched place by place.
MatchedRows(r, s, match, n) ==
  \E a, b, c, d \in Nat :
    /\ r.left = Left(a) /\ r.right = Right(b)
    /\ s.left = Left(c) /\ s.right = Right(d)
    /\ a <= b /\ b - a = d - c /\ a < n /\ c < n
    /\ a = b \/ (b % 2 = 0 /\ d % 2 = 0)
    /\ \A i \in 0 .. b - a : <<a + i, c + i>> \in match

LEMMA MatchedStep ==
  ASSUME NEW n \in Nat, NEW match \in SUBSET (Nat \X Nat),
         \A x, y \in Nat : <<x, y>> \in match =>
           /\ <<Left(x), Left(y)>> \in match /\ <<Right(x), Right(y)>> \in match
           /\ x < n <=> y < n,
         NEW r \in Rows, NEW s \in Rows, MatchedRows(r, s, match, n)
  PROVE  /\ r.left < n <=> s.left < n
         /\ r.left < n => MatchedRows(RowBelow(r), RowBelow(s), match, n)
<1>1. PICK a, b, c, d \in Nat :
        /\ r.left = Left(a) /\ r.right = Right(b) /\ s.left = Left(c) /\ s.right = Right(d)
        /\ a <= b /\ b - a = d - c /\ a < n /\ c < n
        /\ a = b \/ (b % 2 = 0 /\ d % 2 = 0)
        /\ \A i \in 0 .. b - a : <<a + i, c + i>> \in match
  BY DEF MatchedRows
<1>2. <<a, c>> \in match
  <2>1. 0 \in 0 .. b - a /\ a + 0 = a /\ c + 0 = c
    BY <1>1
  <2> QED
    BY <1>1, <2>1
<1>3. Left(a) < n <=> Left(c) < n
  BY <1>2, ChildrenAbove
<1>4. ASSUME NEW i \in 0 .. Right(b) - Left(a)
      PROVE  <<Left(a) + i, Left(c) + i>> \in match
  <2> DEFINE j == i \div 2
  <2>1. /\ j \in 0 .. b - a /\ a + j \in Nat /\ c + j \in Nat
        /\ \/ Left(a) + i = Left(a + j) /\ Left(c) + i = Left(c + j)
           \/ Left(a) + i = Right(a + j) /\ Left(c) + i = Right(c + j)
    BY <1>1 DEF Left, Right
  <2> HIDE DEF j
  <2>2. <<a + j, c + j>> \in match
    BY <1>1, <2>1
  <2> QED
    BY <2>1, <2>2
<1>5. /\ Left(a) \in Nat /\ Right(b) \in Nat /\ Left(c) \in Nat /\ Right(d) \in Nat
      /\ Left(a) <= Right(b) /\ Right(b) - Left(a) = Right(d) - Left(c)
      /\ Right(b) % 2 = 0 /\ Right(d) % 2 = 0
  BY <1>1 DEF Left, Right
<1>6. /\ RowBelow(r).left = Left(Left(a)) /\ RowBelow(r).right = Right(Right(b))
      /\ RowBelow(s).left = Left(Left(c)) /\ RowBelow(s).right = Right(Right(d))
  BY <1>1 DEF RowBelow
<1>7. ASSUME Left(a) < n PROVE MatchedRows(RowBelow(r), RowBelow(s), match, n)
  <2> DEFINE a2 == Left(a)
             b2 == Right(b)
             c2 == Left(c)
             d2 == Right(d)
  <2>1. /\ a2 \in Nat /\ b2 \in Nat /\ c2 \in Nat /\ d2 \in Nat
        /\ a2 <= b2 /\ b2 - a2 = d2 - c2 /\ a2 < n /\ c2 < n
        /\ a2 = b2 \/ (b2 % 2 = 0 /\ d2 % 2 = 0)
        /\ \A i \in 0 .. b2 - a2 : <<a2 + i, c2 + i>> \in match
        /\ RowBelow(r).left = Left(a2) /\ RowBelow(r).right = Right(b2)
        /\ RowBelow(s).left = Left(c2) /\ RowBelow(s).right = Right(d2)
    BY <1>3, <1>4, <1>5, <1>6, <1>7
  <2> HIDE DEF a2, b2, c2, d2
  <2> SUFFICES \E e, f, g, h \in Nat :
        /\ RowBelow(r).left = Left(e) /\ RowBelow(r).right = Right(f)
        /\ RowBelow(s).left = Left(g) /\ RowBelow(s).right = Right(h)
        /\ e <= f /\ f - e = h - g /\ e < n /\ g < n
        /\ e = f \/ (f % 2 = 0 /\ h % 2 = 0)
        /\ \A i \in 0 .. f - e : <<e + i, g + i>> \in match
    BY Zenon DEF MatchedRows
  <2> USE <2>1
  <2> WITNESS a2 \in Nat, b2 \in Nat, c2 \in Nat, d2 \in Nat
  <2> QED
    BY <2>1
<1> QED
  BY <1>1, <1>3, <1>7

\* The regions of two nodes whose subtrees have the same shape are matched leaf
\* by leaf.
LEMMA RegionsMatched ==
  ASSUME NEW N \in Nat, N > 0,
         NEW u \in 0 .. NumNodes(N) - 1, NEW v \in 0 .. NumNodes(N) - 1,
         NEW match \in SUBSET (Nat \X Nat), <<u, v>> \in match,
         \A x, y \in Nat : <<x, y>> \in match =>
           /\ <<Left(x), Left(y)>> \in match /\ <<Right(x), Right(y)>> \in match
           /\ x < NumNodes(N) <=> y < NumNodes(N)
  PROVE  /\ num_leaf_descendents(u, NumNodes(N)) = num_leaf_descendents(v, NumNodes(N))
         /\ \A i \in 0 .. num_leaf_descendents(u, NumNodes(N)) - 1 :
              <<leftmost_leaf(u, NumNodes(N)) + i, leftmost_leaf(v, NumNodes(N)) + i>> \in match
<1> DEFINE n == NumNodes(N)
           F == Descent(n)
           Inv == {p \in Rows \X Rows : MatchedRows(p[1], p[2], match, n)}
           stop == {p \in Inv : p[1] \in PastArray(n)}
           next == [p \in Inv |-> <<RowBelow(p[1]), RowBelow(p[2])>>]
           base == [p \in Inv |-> <<LastRow(p[1], n), LastRow(p[2], n)>>]
           both == [p \in Inv |-> <<F[p[1]], F[p[2]]>>]
           variant == [p \in Inv |-> 2 * n - p[1].left]
           first == <<FirstRow(u), FirstRow(v)>>
<1>1. n \in Nat /\ n = 2 * N - 1 /\ u \in Nat /\ u < n /\ v \in Nat /\ v < n
      /\ \A x, y \in Nat : <<x, y>> \in match =>
           /\ <<Left(x), Left(y)>> \in match /\ <<Right(x), Right(y)>> \in match
           /\ x < n <=> y < n
  BY DEF NumNodes
<1> HIDE DEF n, F
<1>2. /\ IsTail(F, Rows, PastArray(n), NextRow, LastRowOf(n))
      /\ \A row \in Rows : RowBelow(row) \in Rows
      /\ Deepest(u, n) = F[FirstRow(u)] /\ FirstRow(u) \in Rows
      /\ Deepest(v, n) = F[FirstRow(v)] /\ FirstRow(v) \in Rows
  BY <1>1, DescentTrue DEF F
<1>3. \A row \in Rows : F[row] = IF row.left < n THEN F[RowBelow(row)] ELSE LastRow(row, n)
  BY <1>2 DEF IsTail, PastArray, NextRow, LastRowOf
<1>4. ASSUME NEW p \in Inv
      PROVE  /\ p[1] \in Rows /\ p[2] \in Rows /\ p[1].left \in Nat /\ p[1].left <= 2 * n
             /\ p[1].left < n <=> p[2].left < n
             /\ p \in stop <=> ~(p[1].left < n)
             /\ p[1].left < n => next[p] \in Inv
  <2>1. p[1] \in Rows /\ p[2] \in Rows /\ MatchedRows(p[1], p[2], match, n)
    BY <1>4
  <2>2. p[1].left \in Nat /\ p[1].left <= 2 * n
    BY <1>1, <2>1 DEF Rows, MatchedRows, Left
  <2>3. /\ p[1].left < n <=> p[2].left < n
        /\ p[1].left < n => MatchedRows(RowBelow(p[1]), RowBelow(p[2]), match, n)
    <3> DEFINE q1 == p[1]
               q2 == p[2]
    <3>1. q1 \in Rows /\ q2 \in Rows /\ MatchedRows(q1, q2, match, n)
      BY <2>1
    <3> HIDE DEF q1, q2
    <3>2. /\ q1.left < n <=> q2.left < n
          /\ q1.left < n => MatchedRows(RowBelow(q1), RowBelow(q2), match, n)
      BY <1>1, <3>1, MatchedStep
    <3> QED
      BY <3>2 DEF q1, q2
  <2>4. p \in stop <=> ~(p[1].left < n)
    BY <2>1 DEF PastArray
  <2> QED
    BY <1>2, <2>1, <2>2, <2>3, <2>4
<1>5. IsTail(both, Inv, stop, next, base)
  <2>1. ASSUME NEW p \in Inv
        PROVE  both[p] = IF p \in stop THEN base[p] ELSE both[next[p]]
    <3>1. CASE p[1].left < n
      <4>1. F[p[1]] = F[RowBelow(p[1])] /\ F[p[2]] = F[RowBelow(p[2])]
        BY <1>3, <1>4, <3>1
      <4>2. next[p] \in Inv /\ next[p] = <<RowBelow(p[1]), RowBelow(p[2])>> /\ p \notin stop
        BY <1>4, <3>1
      <4> QED
        BY <4>1, <4>2
    <3>2. CASE ~(p[1].left < n)
      <4>1. F[p[1]] = LastRow(p[1], n) /\ F[p[2]] = LastRow(p[2], n) /\ p \in stop
        BY <1>3, <1>4, <3>2
      <4> QED
        BY <4>1
    <3> QED
      BY <3>1, <3>2
  <2>2. both = [p \in Inv |-> both[p]]
    OBVIOUS
  <2> HIDE DEF both, Inv, stop, next, base
  <2>3. both = [p \in Inv |-> IF p \in stop THEN base[p] ELSE both[next[p]]]
    BY <2>1, <2>2
  <2> QED
    BY <2>3 DEF IsTail
<1>6. ASSUME NEW p \in Inv \ stop
      PROVE  next[p] \in Inv /\ variant[next[p]] < variant[p]
  <2>1. /\ p \in Inv /\ p[1].left < n /\ next[p] \in Inv /\ p[1].left \in Nat
        /\ next[p] = <<RowBelow(p[1]), RowBelow(p[2])>>
    BY <1>4, <1>6
  <2>2. next[p][1].left = 2 * p[1].left + 1
    BY <2>1 DEF RowBelow, Left
  <2>3. variant[p] = 2 * n - p[1].left /\ variant[next[p]] = 2 * n - next[p][1].left
    BY <2>1
  <2> HIDE DEF Inv, stop, next, variant
  <2> QED
    BY <1>1, <2>1, <2>2, <2>3
<1>7. variant \in [Inv -> Nat]
  <2>1. ASSUME NEW p \in Inv PROVE 2 * n - p[1].left \in Nat
    <3> DEFINE l == p[1].left
    <3>1. l \in Nat /\ l <= 2 * n
      BY <1>4
    <3> HIDE DEF l
    <3>2. 2 * n - l \in Nat
      BY <1>1, <3>1
    <3> QED
      BY <3>2 DEF l
  <2> HIDE DEF Inv
  <2> QED
    BY <2>1
<1>8. first \in Inv
  <2>1. /\ FirstRow(u).left = Left(u) /\ FirstRow(u).right = Right(u)
        /\ FirstRow(v).left = Left(v) /\ FirstRow(v).right = Right(v)
    BY DEF FirstRow, RowBelow
  <2>2. /\ u <= u /\ u - u = v - v /\ u < n /\ v < n /\ u \in Nat /\ v \in Nat
        /\ \A i \in 0 .. u - u : <<u + i, v + i>> \in match
    BY <1>1
  <2>3. MatchedRows(FirstRow(u), FirstRow(v), match, n)
    BY <2>1, <2>2 DEF MatchedRows
  <2> QED
    BY <1>2, <2>3
<1>9. PICK p \in Inv \cap stop : both[first] = base[p]
  <2>1. Inv \in SUBSET Inv
    OBVIOUS
  <2> HIDE DEF stop, next, base, Inv, variant, both, first
  <2> QED
    BY <1>5, <1>6, <1>7, <1>8, <2>1, TailResult
<1>10. Deepest(u, n) = LastRow(p[1], n) /\ Deepest(v, n) = LastRow(p[2], n)
       /\ ~(p[1].left < n) /\ MatchedRows(p[1], p[2], match, n)
  <2>1. both[first] = <<F[FirstRow(u)], F[FirstRow(v)]>>
    BY <1>8
  <2>2. base[p] = <<LastRow(p[1], n), LastRow(p[2], n)>>
    BY <1>9
  <2>3. Deepest(u, n) = LastRow(p[1], n) /\ Deepest(v, n) = LastRow(p[2], n)
    BY <1>2, <1>9, <2>1, <2>2
  <2>4. p \in Inv /\ p \in stop /\ MatchedRows(p[1], p[2], match, n)
    BY <1>9
  <2> HIDE DEF Inv, stop
  <2>5. ~(p[1].left < n)
    BY <1>4, <2>4
  <2> QED
    BY <2>3, <2>4, <2>5
<1>11. PICK a, b, c, d \in Nat :
         /\ p[1].left = Left(a) /\ p[1].right = Right(b)
         /\ p[2].left = Left(c) /\ p[2].right = Right(d)
         /\ a <= b /\ b - a = d - c /\ a < n /\ c < n
         /\ a = b \/ (b % 2 = 0 /\ d % 2 = 0)
         /\ \A i \in 0 .. b - a : <<a + i, c + i>> \in match
  BY <1>10 DEF MatchedRows
<1>12. /\ (Left(a) - 1) \div 2 = a /\ (Right(b) - 2) \div 2 = b
       /\ (Left(c) - 1) \div 2 = c /\ (Right(d) - 2) \div 2 = d
  BY DEF Left, Right
<1>13. /\ leftmost_leaf(u, n) = a /\ rightmost_leaf(u, n) = (IF b > n THEN n - 1 ELSE b)
       /\ leftmost_leaf(v, n) = c /\ rightmost_leaf(v, n) = (IF d > n THEN n - 1 ELSE d)
  BY <1>10, <1>11, <1>12 DEF leftmost_leaf, rightmost_leaf, LastRow
<1>14. ASSUME NEW i \in 0 .. b - a PROVE a + i < n <=> c + i < n
  <2>1. a + i \in Nat /\ c + i \in Nat /\ <<a + i, c + i>> \in match
    BY <1>11
  <2> QED
    BY <1>1, <2>1
<1>15. b # n /\ d # n
  BY <1>1, <1>11
<1> SUFFICES /\ num_leaf_descendents(u, n) = num_leaf_descendents(v, n)
             /\ \A i \in 0 .. num_leaf_descendents(u, n) - 1 :
                  <<leftmost_leaf(u, n) + i, leftmost_leaf(v, n) + i>> \in match
  BY DEF n
<1>16. CASE b < n
  <2>1. d < n
    <3>1. b - a \in 0 .. b - a /\ a + (b - a) = b /\ c + (b - a) = d
      BY <1>11
    <3> QED
      BY <1>14, <1>16, <3>1
  <2>2. num_leaf_descendents(u, n) = b - a + 1 /\ num_leaf_descendents(v, n) = d - c + 1
    BY <1>1, <1>13, <1>16, <2>1 DEF num_leaf_descendents
  <2>3. b - a + 1 = d - c + 1 /\ 0 .. b - a + 1 - 1 = 0 .. b - a
    BY <1>11
  <2>4. leftmost_leaf(u, n) = a /\ leftmost_leaf(v, n) = c
    BY <1>13
  <2>5. \A i \in 0 .. (b - a + 1) - 1 : <<a + i, c + i>> \in match
    BY <1>11, <2>3, SMTT(30)
  <2> QED
    BY <2>2, <2>3, <2>4, <2>5
<1>17. CASE b > n
  <2>1. a = c
    <3>1. n - a \in 0 .. b - a /\ a + (n - a) = n
      BY <1>1, <1>11, <1>17
    <3>2. ~(c + (n - a) < n)
      <4>1. ~(a + (n - a) < n)
        BY <1>1, <1>11
      <4> QED
        BY <1>14, <3>1, <4>1
    <3>3. ASSUME a < c PROVE FALSE
      <4>1. /\ n - 1 - a \in 0 .. b - a /\ a + (n - 1 - a) < n
            /\ ~(c + (n - 1 - a) < n)
        BY <1>1, <1>11, <1>17, <3>3
      <4> QED
        BY <1>14, <4>1
    <3> QED
      BY <1>1, <1>11, <3>2, <3>3
  <2>2. num_leaf_descendents(u, n) = n - a /\ num_leaf_descendents(v, n) = n - a
    BY <1>1, <1>11, <1>13, <1>17, <2>1 DEF num_leaf_descendents
  <2>3. 0 .. n - a - 1 \subseteq 0 .. b - a
    BY <1>1, <1>17
  <2> QED
    BY <1>11, <1>13, <2>2, <2>3
<1>18. b < n \/ b > n
  BY <1>1, <1>15
<1> QED
  BY <1>16, <1>17, <1>18

-----------------------------------------------------------------------------
(* Trees whose leaves are all on one level *)

\* From one level to another the beginning at least doubles.
LEMMA LevelsApart ==
  ASSUME NEW b \in LevelStarts, NEW c \in LevelStarts, b < c
  PROVE  c >= 2 * b + 1
<1> DEFINE Bad == {x \in Nat : x \in LevelStarts /\ \E y \in LevelStarts : y < x /\ ~(x >= 2 * y + 1)}
<1>1. SUFFICES Bad = {}
  BY StartsAbove
<1>2. SUFFICES ASSUME Bad # {} PROVE FALSE
  OBVIOUS
<1>3. Bad \in SUBSET Nat
  OBVIOUS
<1>4. PICK x \in Bad : \A z \in Bad : x <= z
  <2> HIDE DEF Bad
  <2> QED
    BY <1>2, <1>3, LeastElement
<1>5. PICK y \in LevelStarts : y < x /\ ~(x >= 2 * y + 1)
  BY <1>4
<1>6. /\ x \in Nat /\ y \in Nat /\ x # 0
      /\ x % 2 = 1 /\ (x - 1) \div 2 \in LevelStarts
      /\ y = 0 \/ (y % 2 = 1 /\ (y - 1) \div 2 \in LevelStarts)
  <2>1. x \in LevelStarts /\ x \in Nat
    BY <1>4
  <2>2. /\ x \in Nat /\ (x = 0 \/ (x % 2 = 1 /\ (x - 1) \div 2 \in LevelStarts))
        /\ y \in Nat /\ (y = 0 \/ (y % 2 = 1 /\ (y - 1) \div 2 \in LevelStarts))
    BY <1>5, <2>1, StartsAbove
  <2> HIDE DEF Bad
  <2>3. x # 0 /\ y < x
    BY <1>5, <2>2
  <2> QED
    BY <2>2, <2>3
<1>7. PICK v \in Nat : x = 2 * v + 1 /\ v = (x - 1) \div 2 /\ v \in LevelStarts
  BY <1>6
<1>8. PICK w \in Nat : y = 2 * w + 1 /\ w = (y - 1) \div 2 /\ w \in LevelStarts
  BY <1>5, <1>6
<1>9. w < v /\ ~(v >= 2 * w + 1) /\ v < x
  BY <1>5, <1>7, <1>8
<1>10. v \in Bad
  BY <1>7, <1>8, <1>9
<1> HIDE DEF Bad
<1> QED
  BY <1>4, <1>6, <1>7, <1>9, <1>10

\* Every node is on a level.
LEMMA LevelOf ==
  ASSUME NEW u \in Nat
  PROVE  \E s \in LevelStarts : s \in Nat /\ s <= u /\ u <= 2 * s
<1> DEFINE On(x) == \E s \in LevelStarts : s \in Nat /\ s <= x /\ x <= 2 * s
           Bad == {x \in Nat : ~On(x)}
<1>1. SUFFICES ASSUME Bad # {} PROVE FALSE
  OBVIOUS
<1>2. Bad \in SUBSET Nat
  OBVIOUS
<1>3. PICK x \in Bad : \A z \in Bad : x <= z
  <2> HIDE DEF Bad
  <2> QED
    BY <1>1, <1>2, LeastElement
<1>4. On(0)
  BY StartsBelow
<1>5. x \in Nat /\ ~On(x) /\ x # 0
  BY <1>3, <1>4
<1>6. Above(x) \in Nat /\ (x = 2 * Above(x) + 1 \/ x = 2 * Above(x) + 2)
  BY <1>5, ChildrenAbove DEF Left, Right
<1> HIDE DEF Above
<1>7. Above(x) \notin Bad
  <2> HIDE DEF Bad
  <2> QED
    BY <1>3, <1>5, <1>6
<1>8. PICK s \in LevelStarts : s \in Nat /\ s <= Above(x) /\ Above(x) <= 2 * s
  BY <1>6, <1>7
<1>9. 2 * s + 1 \in LevelStarts /\ 2 * s + 1 \in Nat /\ 2 * s + 1 <= x /\ x <= 2 * (2 * s + 1)
  BY <1>6, <1>8, StartsBelow
<1> QED
  BY <1>5, <1>9

\* Every node is below the root.
LEMMA BelowRoot ==
  ASSUME NEW u \in Nat
  PROVE  u \in Below(0)
<1> DEFINE Bad == {x \in Nat : x \notin Below(0)}
<1>1. SUFFICES ASSUME Bad # {} PROVE FALSE
  OBVIOUS
<1>2. Bad \in SUBSET Nat
  OBVIOUS
<1>3. PICK x \in Bad : \A z \in Bad : x <= z
  <2> HIDE DEF Bad
  <2> QED
    BY <1>1, <1>2, LeastElement
<1>4. 0 \in Below(0) /\ ChildClosed(Below(0))
  BY BelowChildren
<1>5. x \in Nat /\ x > 0 /\ x \notin Below(0)
  BY <1>3, <1>4
<1>6. /\ Above(x) \in Nat /\ (x = Left(Above(x)) \/ x = Right(Above(x)))
      /\ Above(x) < x
  BY <1>5, ChildrenAbove
<1> HIDE DEF Above
<1>7. Above(x) \in Below(0)
  <2>1. Above(x) \notin Bad
    <3> HIDE DEF Bad
    <3> QED
      BY <1>3, <1>5, <1>6
  <2> QED
    BY <1>6, <2>1
<1> QED
  BY <1>4, <1>5, <1>6, <1>7 DEF ChildClosed

\* The nodes below u that are on one level are a row, and so are those on the
\* next: the row below it.
WholeRow(u, s, a, b) ==
  /\ s \in LevelStarts /\ a \in Nat /\ b \in Nat
  /\ s <= a /\ a <= b /\ b <= 2 * s /\ u <= 2 * s
  /\ a .. b = {w \in Below(u) : s <= w /\ w <= 2 * s}

LEMMA WholeRowFirst ==
  ASSUME NEW u \in Nat
  PROVE  \E s \in LevelStarts : WholeRow(u, s, u, u) /\ s <= u
<1>1. PICK s \in LevelStarts : s \in Nat /\ s <= u /\ u <= 2 * s
  BY LevelOf
<1>2. ASSUME NEW w \in Below(u), w <= 2 * s, w # u PROVE FALSE
  <2>1. w \in Nat /\ w > u /\ Above(w) \in Below(u) /\ Above(w) \in Nat
    BY <1>2, BelowAbove, BelowChildren
  <2>2. Above(w) >= u
    BY <2>1, BelowAbove
  <2>3. w = 2 * Above(w) + 1 \/ w = 2 * Above(w) + 2
    BY <2>1, ChildrenAbove DEF Left, Right
  <2> HIDE DEF Above
  <2> QED
    BY <1>1, <1>2, <2>1, <2>2, <2>3
<1>3. u .. u = {u} /\ u \in Below(u)
  BY BelowChildren
<1>4. u .. u = {w \in Below(u) : s <= w /\ w <= 2 * s}
  BY <1>1, <1>2, <1>3
<1> QED
  BY <1>1, <1>4 DEF WholeRow

LEMMA WholeRowBelow ==
  ASSUME NEW u \in Nat, NEW s, NEW a, NEW b, WholeRow(u, s, a, b)
  PROVE  WholeRow(u, 2 * s + 1, Left(a), Right(b))
<1>1. /\ s \in LevelStarts /\ a \in Nat /\ b \in Nat /\ s \in Nat
      /\ s <= a /\ a <= b /\ b <= 2 * s /\ u <= 2 * s
      /\ \A w : w \in a .. b <=> w \in Below(u) /\ s <= w /\ w <= 2 * s
  BY StartsAbove DEF WholeRow
<1>2. ASSUME NEW w \in Nat, w > u
      PROVE  /\ Above(w) \in Nat
             /\ w \in Below(u) <=> Above(w) \in Below(u)
             /\ w = 2 * Above(w) + 1 \/ w = 2 * Above(w) + 2
  <2>1. Above(w) \in Nat /\ (w = Left(Above(w)) \/ w = Right(Above(w)))
    BY <1>2, ChildrenAbove
  <2>2. w \in Below(u) => Above(w) \in Below(u)
    BY <1>2, BelowAbove
  <2>3. Above(w) \in Below(u) => w \in Below(u)
    BY <2>1, BelowChildren DEF ChildClosed
  <2> QED
    BY <2>1, <2>2, <2>3 DEF Left, Right
<1>3. Left(a) = 2 * a + 1 /\ Right(b) = 2 * b + 2
  BY DEF Left, Right
<1> HIDE DEF Above
<1>4. ASSUME NEW w \in Nat
      PROVE  w \in 2 * a + 1 .. 2 * b + 2 <=>
               w \in Below(u) /\ 2 * s + 1 <= w /\ w <= 2 * (2 * s + 1)
  <2>1. CASE w < 2 * s + 1
    BY <1>1, <2>1
  <2>2. CASE w >= 2 * s + 1
    <3>1. w > u
      BY <1>1, <2>2
    <3>2. PICK v \in Nat : /\ w \in Below(u) <=> v \in Below(u)
                           /\ w = 2 * v + 1 \/ w = 2 * v + 2
      BY <1>2, <3>1
    <3>3. w \in 2 * a + 1 .. 2 * b + 2 <=> v \in a .. b
      BY <1>1, <3>2
    <3>4. s <= v /\ (v <= 2 * s <=> w <= 2 * (2 * s + 1))
      BY <1>1, <2>2, <3>2
    <3> QED
      BY <1>1, <2>2, <3>2, <3>3, <3>4
  <2> QED
    BY <1>1, <2>1, <2>2
<1>5. Below(u) \subseteq Nat
  BY BelowChildren
<1>6. 2 * a + 1 .. 2 * b + 2 = {w \in Below(u) : 2 * s + 1 <= w /\ w <= 2 * (2 * s + 1)}
  BY <1>1, <1>4, <1>5
<1>7. 2 * s + 1 \in LevelStarts
  BY <1>1, StartsBelow
<1> QED
  BY <1>1, <1>3, <1>6, <1>7 DEF WholeRow

\* The leaves below u are all on one level.
OnOneLevel(u, N) ==
  \A s \in LevelStarts : \A l, m \in Leaves(N) \cap Below(u) :
    s <= l /\ l <= 2 * s => s <= m /\ m <= 2 * s

\* As they are in a tree whose leaves begin with a level.
LEMMA LeavesLevel ==
  ASSUME NEW N \in Nat, N > 0, N - 1 \in LevelStarts, NEW u
  PROVE  OnOneLevel(u, N)
<1> SUFFICES ASSUME NEW s \in LevelStarts, NEW l \in Leaves(N), NEW m \in Leaves(N),
                    s <= l, l <= 2 * s
             PROVE  s <= m /\ m <= 2 * s
  BY DEF OnOneLevel
<1>1. /\ s \in Nat /\ l \in Nat /\ m \in Nat
      /\ N - 1 <= l /\ l <= 2 * (N - 1) /\ N - 1 <= m /\ m <= 2 * (N - 1)
  BY StartsAbove DEF Leaves, NumNodes
<1>2. ~(s < N - 1)
  <2>1. s < N - 1 => N - 1 >= 2 * s + 1
    BY LevelsApart
  <2> QED
    BY <1>1, <2>1
<1>3. ~(N - 1 < s)
  <2>1. N - 1 < s => s >= 2 * (N - 1) + 1
    BY LevelsApart
  <2> QED
    BY <1>1, <2>1
<1> QED
  BY <1>1, <1>2, <1>3

\* The region of a node is then all the leaves below it.
LEMMA LeavesWhole ==
  ASSUME NEW N \in Nat, N > 0, NEW u \in 0 .. NumNodes(N) - 1, OnOneLevel(u, N)
  PROVE  leftmost_leaf(u, NumNodes(N)) .. rightmost_leaf(u, NumNodes(N)) =
           Leaves(N) \cap Below(u)
<1> DEFINE n == NumNodes(N)
           InvRow(row) == \E s, a, b : /\ WholeRow(u, s, a, b) /\ a < n
                                       /\ row.left = Left(a) /\ row.right = Right(b)
           Inv == {row \in Rows : InvRow(row)}
           variant == [row \in Inv |-> 2 * n - row.left]
<1>1. n \in Nat /\ n = 2 * N - 1 /\ u \in Nat /\ u < n
  BY DEF NumNodes
<1> HIDE DEF n
<1>2. /\ IsTail(Descent(n), Rows, PastArray(n), NextRow, LastRowOf(n))
      /\ \A row \in Rows : RowBelow(row) \in Rows
      /\ Deepest(u, n) = Descent(n)[FirstRow(u)] /\ FirstRow(u) \in Rows
  BY <1>1, DescentTrue
<1>3. ASSUME NEW row \in Inv
      PROVE  \E s, a, b :
               /\ WholeRow(u, s, a, b) /\ s \in LevelStarts /\ s \in Nat /\ a \in Nat /\ b \in Nat
               /\ s <= a /\ a <= b /\ b <= 2 * s /\ a < n
               /\ a .. b = {w \in Below(u) : s <= w /\ w <= 2 * s}
               /\ row.left = 2 * a + 1 /\ row.right = 2 * b + 2
               /\ row.left = Left(a) /\ row.right = Right(b)
  <2>1. PICK s, a, b : /\ WholeRow(u, s, a, b) /\ a < n
                       /\ row.left = Left(a) /\ row.right = Right(b)
    BY <1>3
  <2>2. /\ s \in LevelStarts /\ a \in Nat /\ b \in Nat
        /\ s <= a /\ a <= b /\ b <= 2 * s
        /\ a .. b = {w \in Below(u) : s <= w /\ w <= 2 * s}
    BY <2>1 DEF WholeRow
  <2>3. s \in Nat
    BY <2>2, StartsAbove
  <2> QED
    BY <2>1, <2>2, <2>3 DEF Left, Right
<1>4. ASSUME NEW row \in Inv, row \notin PastArray(n)
      PROVE  NextRow[row] \in Inv /\ variant[NextRow[row]] < variant[row]
  <2>1. row \in Rows /\ row.left < n /\ NextRow[row] = RowBelow(row) /\ RowBelow(row) \in Rows
    BY <1>2, <1>4 DEF PastArray, NextRow
  <2>2. PICK s, a, b :
          /\ WholeRow(u, s, a, b) /\ s \in LevelStarts /\ s \in Nat /\ a \in Nat /\ b \in Nat
          /\ row.left = 2 * a + 1 /\ row.left = Left(a) /\ row.right = Right(b)
    BY <1>3
  <2>4. Left(a) < n
    BY <2>1, <2>2
  <2>5. WholeRow(u, 2 * s + 1, Left(a), Right(b))
    BY <1>1, <2>2, WholeRowBelow
  <2>6. /\ RowBelow(row).left = Left(Left(a)) /\ RowBelow(row).right = Right(Right(b))
        /\ RowBelow(row).left = 2 * row.left + 1
    BY <2>2 DEF RowBelow, Left
  <2>7. RowBelow(row) \in Inv
    BY <2>1, <2>4, <2>5, <2>6
  <2>8. variant[RowBelow(row)] = 2 * n - RowBelow(row).left /\ variant[row] = 2 * n - row.left
    BY <2>7
  <2> HIDE DEF Inv, variant
  <2> QED
    BY <1>1, <2>1, <2>2, <2>6, <2>7, <2>8
<1>5. Inv \subseteq Rows /\ variant \in [Inv -> Nat]
  <2>1. ASSUME NEW row \in Inv PROVE 2 * n - row.left \in Nat
    <3>1. PICK a \in Nat : a < n /\ row.left = 2 * a + 1
      BY <1>3
    <3> DEFINE l == row.left
    <3>2. l = 2 * a + 1
      BY <3>1
    <3> HIDE DEF l
    <3>3. 2 * n - l \in Nat
      BY <1>1, <3>1, <3>2
    <3> QED
      BY <3>3 DEF l
  <2>2. Inv \subseteq Rows
    OBVIOUS
  <2> HIDE DEF Inv
  <2> QED
    BY <2>1, <2>2
<1>6. FirstRow(u) \in Inv
  <2>1. PICK s \in LevelStarts : WholeRow(u, s, u, u) /\ s <= u
    BY <1>1, WholeRowFirst
  <2>4. FirstRow(u).left = Left(u) /\ FirstRow(u).right = Right(u)
    BY DEF FirstRow, RowBelow
  <2> QED
    BY <1>1, <1>2, <2>1, <2>4
<1>7. PICK row \in Inv \cap PastArray(n) : Descent(n)[FirstRow(u)] = LastRowOf(n)[row]
  <2> HIDE DEF Inv, variant
  <2> QED
    BY <1>2, <1>4, <1>5, <1>6, TailResult
<1>8. PICK s, a, b :
        /\ s \in LevelStarts /\ s \in Nat /\ a \in Nat /\ b \in Nat
        /\ s <= a /\ a <= b /\ b <= 2 * s /\ a < n
        /\ a .. b = {w \in Below(u) : s <= w /\ w <= 2 * s}
        /\ row.left = 2 * a + 1 /\ row.right = 2 * b + 2
  <2> HIDE DEF Inv
  <2> QED
    BY <1>3, <1>7
<1>9. ~(row.left < n) /\ Deepest(u, n) = LastRow(row, n)
  <2> HIDE DEF Inv
  <2> QED
    BY <1>2, <1>7 DEF PastArray, LastRowOf
<1>10. (row.left - 1) \div 2 = a /\ (row.right - 2) \div 2 = b
  BY <1>8
<1>11. leftmost_leaf(u, n) = a /\ rightmost_leaf(u, n) = IF b > n THEN n - 1 ELSE b
  BY <1>9, <1>10 DEF leftmost_leaf, rightmost_leaf, LastRow
\* The first of the row is a leaf.
<1>12. /\ a \in Below(u) /\ a \in Leaves(N)
       /\ \A w : w \in Leaves(N) <=> w \in Nat /\ N - 1 <= w /\ w < n
  <2>1. a \in a .. b
    BY <1>8
  <2>2. \A w : w \in Leaves(N) <=> w \in Nat /\ N - 1 <= w /\ w < n
    BY <1>1 DEF Leaves, n
  <2>3. N - 1 <= a
    BY <1>1, <1>8, <1>9
  <2> QED
    BY <1>8, <2>1, <2>2, <2>3
<1>13. ASSUME NEW w \in Leaves(N) \cap Below(u)
       PROVE  w \in leftmost_leaf(u, n) .. rightmost_leaf(u, n)
  <2>1. s <= w /\ w <= 2 * s
    BY <1>8, <1>12, <1>13 DEF OnOneLevel
  <2>2. w \in a .. b
    BY <1>8, <1>13, <2>1
  <2>3. w \in Nat /\ w < n
    BY <1>12, <1>13
  <2> QED
    BY <1>1, <1>8, <1>11, <2>2, <2>3
<1>14. ASSUME NEW w \in leftmost_leaf(u, n) .. rightmost_leaf(u, n)
       PROVE  w \in Leaves(N) \cap Below(u)
  <2>1. /\ N - 1 <= leftmost_leaf(u, n) /\ rightmost_leaf(u, n) < n
        /\ leftmost_leaf(u, n) \in Nat /\ rightmost_leaf(u, n) \in Nat
        /\ leftmost_leaf(u, n) .. rightmost_leaf(u, n) \subseteq Below(u)
    BY RegionBelow DEF n
  <2>2. w \in Nat /\ N - 1 <= w /\ w < n
    BY <1>1, <1>14, <2>1
  <2> QED
    BY <1>12, <1>14, <2>1, <2>2
<1> QED
  BY <1>13, <1>14 DEF n

\* And a restart enters, for a region, all nodes of the tree below its node.
LEMMA NodesWhole ==
  ASSUME NEW N \in Nat, N > 0, NEW u \in 0 .. NumNodes(N) - 1, OnOneLevel(u, N)
  PROVE  RegionNodes(u, NumNodes(N)) = Below(u) \cap 0 .. NumNodes(N) - 1
<1> DEFINE n == NumNodes(N)
           P == [row : Rows, nodes : SUBSET Nat]
           InRow(row) == row.left .. IF row.right >= n THEN n ELSE row.right
           stop == {walk \in P : ~(walk.row.left < n)}
           next == [walk \in P |-> [row |-> RowBelow(walk.row),
                                    nodes |-> walk.nodes \cup InRow(walk.row)]]
           base == [walk \in P |-> walk.nodes]
           IsEnter(f) == f = [walk \in P |->
             IF walk.row.left < n
             THEN f[[row |-> RowBelow(walk.row), nodes |-> walk.nodes \cup InRow(walk.row)]]
             ELSE walk.nodes]
           enter == CHOOSE f : IsEnter(f)
           first == [row |-> RowBelow([left |-> u, right |-> u]), nodes |-> {u}]
           Upto(s) == {w \in Below(u) : w <= 2 * s}
           Inv == {walk \in P : \E s, a, b :
                     /\ WholeRow(u, s, a, b) /\ b < n
                     /\ walk.row = [left |-> Left(a), right |-> Right(b)]
                     /\ walk.nodes = Upto(s)}
           variant == [walk \in Inv |-> 2 * n - walk.row.left]
<1>1. RegionNodes(u, n) = enter[first]
  BY DEF RegionNodes
<1>2. n \in Nat /\ n = 2 * N - 1 /\ u \in Nat /\ u < n /\ Below(u) \subseteq Nat
  BY BelowChildren DEF NumNodes
<1> HIDE DEF n
<1>3. \A f : IsEnter(f) <=> IsTail(f, P, stop, next, base)
  <2> SUFFICES ASSUME NEW f PROVE IsEnter(f) <=> IsTail(f, P, stop, next, base)
    OBVIOUS
  <2>1. \A walk \in P :
          (IF walk.row.left < n
           THEN f[[row |-> RowBelow(walk.row), nodes |-> walk.nodes \cup InRow(walk.row)]]
           ELSE walk.nodes) =
          (IF walk \in stop THEN base[walk] ELSE f[next[walk]])
    OBVIOUS
  <2> HIDE DEF P, stop, base, next, InRow
  <2> QED
    BY <2>1 DEF IsTail
<1>4. ASSUME NEW walk \in P \ stop
      PROVE  next[walk] \in P
  <2>1. walk.row \in Rows /\ walk.nodes \in SUBSET Nat /\ walk.row.left < n
    OBVIOUS
  <2>2. RowBelow(walk.row) \in Rows
    BY <2>1 DEF RowBelow, Rows, Left, Right
  <2>3. InRow(walk.row) \subseteq Nat
    BY <1>2, <2>1 DEF Rows
  <2> QED
    BY <2>1, <2>2, <2>3
<1>5. IsTail(enter, P, stop, next, base)
  <2>1. \E f : IsTail(f, P, stop, next, base)
    <3> HIDE DEF P, stop, next, base
    <3> QED
      BY <1>4, TailRecursion
  <2> HIDE DEF IsEnter, P, stop, next, base
  <2> QED
    BY <1>3, <2>1
<1>6. ASSUME NEW walk \in Inv
      PROVE  \E s, a, b :
               /\ WholeRow(u, s, a, b) /\ s \in LevelStarts /\ s \in Nat /\ a \in Nat /\ b \in Nat
               /\ s <= a /\ a <= b /\ b <= 2 * s /\ b < n
               /\ walk.row = [left |-> Left(a), right |-> Right(b)]
               /\ walk.row.left = 2 * a + 1 /\ walk.row.right = 2 * b + 2
               /\ walk.nodes = Upto(s)
  <2>1. PICK s, a, b : /\ WholeRow(u, s, a, b) /\ b < n
                       /\ walk.row = [left |-> Left(a), right |-> Right(b)]
                       /\ walk.nodes = Upto(s)
    OBVIOUS
  <2>2. /\ s \in LevelStarts /\ s \in Nat /\ a \in Nat /\ b \in Nat
        /\ s <= a /\ a <= b /\ b <= 2 * s
    BY <2>1, StartsAbove DEF WholeRow
  <2>3. walk.row.left = 2 * a + 1 /\ walk.row.right = 2 * b + 2
    BY <2>1 DEF Left, Right
  <2> HIDE DEF Inv, Upto
  <2> QED
    BY <2>1, <2>2, <2>3
<1>7. ASSUME NEW walk \in Inv, walk \notin stop
      PROVE  next[walk] \in Inv /\ variant[next[walk]] < variant[walk]
  <2>1. PICK s, a, b :
          /\ WholeRow(u, s, a, b) /\ s \in LevelStarts /\ s \in Nat /\ a \in Nat /\ b \in Nat
          /\ s <= a /\ a <= b /\ b <= 2 * s /\ b < n
          /\ walk.row = [left |-> Left(a), right |-> Right(b)]
          /\ walk.row.left = 2 * a + 1 /\ walk.row.right = 2 * b + 2
          /\ walk.nodes = Upto(s)
    <3> HIDE DEF Inv, Upto
    <3> QED
      BY <1>6
  <2>2. walk \in P /\ walk.row.left < n /\ next[walk] \in P
    BY <1>4, <1>7
  <2>4. WholeRow(u, 2 * s + 1, Left(a), Right(b))
    BY <1>2, <2>1, WholeRowBelow
  <2>5. next[walk].row = [left |-> Left(Left(a)), right |-> Right(Right(b))]
        /\ next[walk].nodes = walk.nodes \cup InRow(walk.row)
    BY <2>1, <2>2 DEF RowBelow
  <2>7. 2 * a + 1 .. 2 * b + 2 = {w \in Below(u) : 2 * s + 1 <= w /\ w <= 2 * (2 * s + 1)}
    BY <2>4 DEF WholeRow, Left, Right
  \* A row that ends past the array would have a leaf of the row above before it.
  <2>3. 2 * b + 2 < n
    <3>1. SUFFICES ASSUME 2 * b + 2 >= n PROVE FALSE
      BY <1>2, <2>1
    <3>2. N - 1 \in a .. b /\ 2 * a + 1 \in 2 * a + 1 .. 2 * b + 2 /\ 2 * a + 1 >= 2 * s + 1
      BY <1>2, <2>1, <2>2, <3>1
    <3>3. N - 1 \in Below(u) /\ s <= N - 1 /\ N - 1 <= 2 * s /\ 2 * a + 1 \in Below(u)
      BY <2>1, <2>7, <3>2 DEF WholeRow
    <3>4. N - 1 \in Leaves(N) /\ 2 * a + 1 \in Leaves(N)
      <4>1. N - 1 <= 2 * a + 1 /\ 2 * a + 1 <= n - 1 /\ N - 1 <= n - 1
        BY <1>2, <2>1, <2>2, <3>2, <3>3
      <4> QED
        BY <1>2, <2>1, <4>1 DEF Leaves, n
    <3>5. 2 * a + 1 <= 2 * s
      BY <2>1, <3>3, <3>4 DEF OnOneLevel
    <3> QED
      BY <2>1, <3>2, <3>5
  <2>6. InRow(walk.row) = 2 * a + 1 .. 2 * b + 2
    BY <1>2, <2>1, <2>3
  <2>8. next[walk].nodes = Upto(2 * s + 1)
    <3>1. \A w \in Nat : w <= 2 * (2 * s + 1) <=>
            w <= 2 * s \/ (2 * s + 1 <= w /\ w <= 2 * (2 * s + 1))
      BY <2>1
    <3> QED
      BY <1>2, <2>1, <2>5, <2>6, <2>7, <3>1
  <2> HIDE DEF P, stop, next, InRow, Upto
  <2>9. next[walk] \in Inv
    BY <2>2, <2>3, <2>4, <2>5, <2>8 DEF Right
  <2>10. next[walk].row.left = 2 * (2 * a + 1) + 1
    BY <2>5 DEF Left
  <2>11. variant[next[walk]] = 2 * n - next[walk].row.left /\ variant[walk] = 2 * n - walk.row.left
    BY <2>9
  <2> HIDE DEF Inv, variant
  <2> QED
    BY <1>2, <2>1, <2>9, <2>10, <2>11
<1>8. Inv \subseteq P /\ variant \in [Inv -> Nat]
  <2>1. ASSUME NEW walk \in Inv PROVE 2 * n - walk.row.left \in Nat
    <3>1. PICK a \in Nat, b \in Nat : a <= b /\ b < n /\ walk.row.left = 2 * a + 1
      <4> HIDE DEF Inv, Upto
      <4> QED
        BY <1>6
    <3> DEFINE l == walk.row.left
    <3>2. l = 2 * a + 1
      BY <3>1
    <3> HIDE DEF l
    <3>3. 2 * n - l \in Nat
      BY <1>2, <3>1, <3>2
    <3> QED
      BY <3>3 DEF l
  <2>2. Inv \subseteq P
    OBVIOUS
  <2> HIDE DEF Inv
  <2> QED
    BY <2>1, <2>2
<1>9. first \in Inv
  <2>1. PICK s \in LevelStarts : WholeRow(u, s, u, u) /\ s <= u
    BY <1>2, WholeRowFirst
  <2>2. /\ s \in Nat /\ u <= 2 * s
        /\ u .. u = {w \in Below(u) : s <= w /\ w <= 2 * s}
    BY <2>1, StartsAbove DEF WholeRow
  <2>4. \A w \in Below(u) : w \in Nat /\ s <= w
    <3> SUFFICES ASSUME NEW w \in Below(u) PROVE w \in Nat /\ s <= w
      OBVIOUS
    <3>1. w \in Nat /\ (w = u \/ w > u)
      BY <1>2, BelowAbove
    <3> QED
      BY <1>2, <2>1, <2>2, <3>1
  <2>5. {u} = Upto(s)
    <3>1. u .. u = {u}
      BY <1>2
    <3> QED
      BY <2>2, <2>4, <3>1
  <2>6. first.row = [left |-> Left(u), right |-> Right(u)] /\ first.nodes = {u}
    BY DEF RowBelow
  <2>7. first \in P
    BY <1>2 DEF RowBelow, Rows, Left, Right
  <2> HIDE DEF first, P, Upto
  <2> QED
    BY <1>2, <2>1, <2>5, <2>6, <2>7
<1>10. PICK walk \in Inv \cap stop : enter[first] = base[walk]
  <2> HIDE DEF P, stop, next, base, Inv, variant, enter, first
  <2> QED
    BY <1>5, <1>7, <1>8, <1>9, TailResult
<1>11. PICK s, a, b :
         /\ WholeRow(u, s, a, b) /\ s \in LevelStarts /\ s \in Nat /\ a \in Nat /\ b \in Nat
         /\ s <= a /\ a <= b /\ b <= 2 * s /\ b < n
         /\ walk.row.left = 2 * a + 1 /\ walk.nodes = Upto(s)
  <2> HIDE DEF Inv, Upto, stop
  <2> QED
    BY <1>6, <1>10
<1>12. ~(walk.row.left < n) /\ enter[first] = walk.nodes
  <2> HIDE DEF enter, first
  <2> QED
    BY <1>8, <1>10
<1>13. /\ a .. b = {w \in Below(u) : s <= w /\ w <= 2 * s}
       /\ a \in Leaves(N) \cap Below(u)
       /\ \A w : w \in Leaves(N) <=> w \in Nat /\ N - 1 <= w /\ w < n
  <2>1. a .. b = {w \in Below(u) : s <= w /\ w <= 2 * s}
    BY <1>11 DEF WholeRow
  <2>2. a \in a .. b
    BY <1>11
  <2>3. \A w : w \in Leaves(N) <=> w \in Nat /\ N - 1 <= w /\ w < n
    BY <1>2 DEF Leaves, n
  <2>4. N - 1 <= a /\ a < n
    BY <1>2, <1>11, <1>12
  <2> QED
    BY <1>11, <2>1, <2>2, <2>3, <2>4
<1>14. ASSUME NEW w \in Below(u) PROVE w <= 2 * s <=> w < n
  <2>1. w \in Nat
    BY <1>2
  <2>2. CASE w < s
    BY <1>2, <1>11, <2>1, <2>2
  <2>3. CASE w >= s /\ w <= 2 * s
    <3>1. w \in a .. b
      BY <1>13, <2>3
    <3> QED
      BY <1>2, <1>11, <2>3, <3>1
  <2>4. CASE w > 2 * s
    <3>1. w < n => w \in Leaves(N)
      BY <1>2, <1>11, <1>12, <1>13, <2>1, <2>4
    <3>2. w < n => w <= 2 * s
      BY <1>11, <1>13, <3>1 DEF OnOneLevel
    <3> QED
      BY <1>11, <2>1, <2>4, <3>2
  <2> QED
    BY <1>11, <2>1, <2>2, <2>3, <2>4
<1>15. Upto(s) = Below(u) \cap 0 .. n - 1
  BY <1>2, <1>14
<1> HIDE DEF Upto, enter, first
<1> QED
  BY <1>1, <1>11, <1>12, <1>15 DEF n
=============================================================================
