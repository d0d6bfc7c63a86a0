---------------------------- MODULE KernelProofs ----------------------------
(* What TLAPS proves about the formats, the conversions and the kernels, for *)
(* matrices of every size and with every pattern of values; before that, the *)
(* facts about numbers, sums and orders that the project's proofs share.     *)
EXTENDS Kernels, TLAPS, WellFoundedInduction, FiniteSetTheorems

-----------------------------------------------------------------------------
(* Natural numbers: the multiples of a step, and the least of a set.       *)

LEMMA DivMod ==
  ASSUME NEW x \in Nat, NEW b \in Nat \ {0}
  PROVE  /\ x \div b \in Nat
         /\ x % b \in 0 .. b - 1
         /\ x = (b * (x \div b)) + (x % b)
  OBVIOUS

\* Multiples of a step that differ lie a whole step apart.
LEMMA MultiplesApart ==
  ASSUME NEW b \in Nat \ {0}, NEW m \in Nat, NEW n \in Nat, b * m < b * n
  PROVE  b * m + b <= b * n
<1>1. m < n
  <2>1. CASE n <= m
    <3>1. b * n <= b * m
      BY <2>1
    <3>2. QED
      BY <3>1
  <2>2. QED
    BY <2>1
<1>2. m + 1 <= n
  BY <1>1
<1>3. b * (m + 1) <= b * n
  BY <1>2
<1>4. b * (m + 1) = b * m + b
  OBVIOUS
<1>5. QED
  BY <1>3, <1>4

\* The first blocks of two groups are a group apart, and so is the end from each of them.
LEMMA StartsApart ==
  ASSUME NEW b \in Nat \ {0}, NEW x \in Nat, NEW y \in Nat, x % b = 0, y % b = 0, x < y
  PROVE  x + b <= y
<1>1. /\ x \div b \in Nat /\ y \div b \in Nat
      /\ x = b * (x \div b) /\ y = b * (y \div b)
  BY DivMod
<1>2. b * (x \div b) < b * (y \div b)
  BY <1>1
<1>3. b * (x \div b) + b <= b * (y \div b)
  BY <1>1, <1>2, MultiplesApart
<1>4. QED
  BY <1>1, <1>3

\* Stepping by whole groups leads from multiple to multiple.
LEMMA NextMultiple ==
  ASSUME NEW b \in Nat \ {0}, NEW x \in Nat, x % b = 0
  PROVE  (x + b) % b = 0
<1>1. x \div b \in Nat /\ x = b * (x \div b)
  <2>1. x \div b \in Nat /\ x = (b * (x \div b)) + (x % b)
    BY DivMod
  <2>2. QED
    BY <2>1
<1>2. x + b = b * (x \div b + 1)
  BY <1>1
<1>3. ASSUME NEW q \in Nat PROVE (b * q) % b = 0
  OBVIOUS
<1>4. x \div b + 1 \in Nat
  BY <1>1
<1>5. QED
  BY <1>2, <1>3, <1>4

\* A set of numbers has a least one.
LEMMA LeastNumber ==
  ASSUME NEW S, S \subseteq Nat, S # {}
  PROVE  \E x \in S : \A y \in S : x <= y
<1>1. PICK x \in S : \A y \in S : ~ (<<y, x>> \in OpToRel(<, Nat))
  BY NatLessThanWellFounded, WFMin, Zenon
<1>2. ASSUME NEW y \in S PROVE x <= y
  <2>1. ~(y < x)
    BY <1>1 DEF OpToRel
  <2>2. QED
    BY <2>1
<1>3. QED
  BY <1>2

-----------------------------------------------------------------------------
(* Places in an order.                                                     *)

\* R as an order in which the elements of S come one after the other.
Orders(R, S) ==
  /\ \A x \in S : <<x, x>> \notin R
  /\ \A x, y \in S : x = y \/ <<x, y>> \in R \/ <<y, x>> \in R
  /\ \A x, y, z \in S : <<x, y>> \in R /\ <<y, z>> \in R => <<x, z>> \in R

Earlier(R, S, x) == {b \in S : <<b, x>> \in R}
Rank(R, S, x) == Cardinality(Earlier(R, S, x))

LEMMA RankBounds ==
  ASSUME NEW S, IsFiniteSet(S), NEW R, Orders(R, S), NEW x \in S
  PROVE  Rank(R, S, x) \in 0 .. Cardinality(S) - 1 /\ IsFiniteSet(Earlier(R, S, x))
<1>1. IsFiniteSet(Earlier(R, S, x)) /\ Cardinality(Earlier(R, S, x)) \in Nat /\ Cardinality(S) \in Nat
  BY FS_Subset, FS_CardinalityType DEF Earlier
<1>2. x \notin Earlier(R, S, x)
  BY DEF Orders, Earlier
<1>3. Cardinality(Earlier(R, S, x) \cup {x}) = Cardinality(Earlier(R, S, x)) + 1
  BY <1>1, <1>2, FS_AddElement
<1>4. Cardinality(Earlier(R, S, x) \cup {x}) <= Cardinality(S)
  BY FS_Subset DEF Earlier
<1>5. QED
  BY <1>1, <1>3, <1>4 DEF Rank

\* An initial part T of the order has the elements of the lowest ranks.
LEMMA InitialPart ==
  ASSUME NEW S, IsFiniteSet(S), NEW R, Orders(R, S), NEW T \in SUBSET S,
         \A t \in T, b \in S : <<b, t>> \in R => b \in T, NEW x \in S
  PROVE  x \in T <=> Rank(R, S, x) < Cardinality(T)
<1>1. IsFiniteSet(T) /\ Cardinality(T) \in Nat /\ Rank(R, S, x) \in Nat /\ IsFiniteSet(Earlier(R, S, x))
  BY FS_Subset, FS_CardinalityType, RankBounds
<1>2. ASSUME x \in T PROVE Rank(R, S, x) < Cardinality(T)
  <2>1. Earlier(R, S, x) \cup {x} \in SUBSET T /\ x \notin Earlier(R, S, x)
    BY <1>2 DEF Earlier, Orders
  <2>2. Cardinality(Earlier(R, S, x) \cup {x}) = Rank(R, S, x) + 1
    BY <1>1, <2>1, FS_AddElement DEF Rank
  <2>3. Cardinality(Earlier(R, S, x) \cup {x}) <= Cardinality(T)
    BY <1>1, <2>1, FS_Subset
  <2>4. QED
    BY <1>1, <2>2, <2>3
<1>3. ASSUME x \notin T PROVE Cardinality(T) <= Rank(R, S, x)
  <2>1. T \in SUBSET Earlier(R, S, x)
    BY <1>3 DEF Earlier, Orders
  <2>2. QED
    BY <1>1, <2>1, FS_Subset DEF Rank
<1>4. QED
  BY <1>1, <1>2, <1>3

LEMMA RankOrders ==
  ASSUME NEW S, IsFiniteSet(S), NEW R, Orders(R, S), NEW x \in S, NEW y \in S
  PROVE  <<x, y>> \in R <=> Rank(R, S, x) < Rank(R, S, y)
<1>1. Earlier(R, S, y) \in SUBSET S /\ \A t \in Earlier(R, S, y), b \in S : <<b, t>> \in R => b \in Earlier(R, S, y)
  BY DEF Earlier, Orders
<1>2. x \in Earlier(R, S, y) <=> Rank(R, S, x) < Cardinality(Earlier(R, S, y))
  BY <1>1, InitialPart
<1>3. QED
  BY <1>2 DEF Earlier, Rank

\* Every place of the order is taken, and by one element only.
LEMMA RankedElement ==
  ASSUME NEW S, IsFiniteSet(S), NEW R, Orders(R, S), NEW n \in 0 .. Cardinality(S) - 1
  PROVE  \E x \in S : Rank(R, S, x) = n /\ \A y \in S : Rank(R, S, y) = n => y = x
<1> DEFINE places == 0 .. Cardinality(S) - 1
           rank == [x \in S |-> Rank(R, S, x)]
<1>1. Cardinality(S) \in Nat
  BY FS_CardinalityType
<1>2. IsFiniteSet(places) /\ Cardinality(places) = Cardinality(S)
  BY <1>1, FS_Interval
<1>3. rank \in [S -> places]
  BY RankBounds
<1>4. \A x, y \in S : Rank(R, S, x) = Rank(R, S, y) => x = y
  <2> SUFFICES ASSUME NEW x \in S, NEW y \in S, Rank(R, S, x) = Rank(R, S, y), x # y PROVE FALSE
    OBVIOUS
  <2>1. <<x, y>> \in R \/ <<y, x>> \in R
    BY DEF Orders
  <2>2. Rank(R, S, x) < Rank(R, S, y) \/ Rank(R, S, y) < Rank(R, S, x)
    BY <2>1, RankOrders
  <2>3. Rank(R, S, x) \in Int /\ Rank(R, S, y) \in Int
    BY RankBounds
  <2>4. QED
    BY <2>2, <2>3
<1>5. rank \in Injection(S, places)
  BY <1>3, <1>4 DEF Injection, IsInjective
<1>6. rank \in Surjection(S, places)
  BY <1>2, <1>5, FS_Injection
<1>7. \E x \in S : rank[x] = n
  BY <1>6 DEF Surjection
<1>8. QED
  BY <1>4, <1>7

\* The elements of S in order.
InOrder(R, S) == [i \in 1 .. Cardinality(S) |-> CHOOSE x \in S : Rank(R, S, x) = i - 1]

LEMMA OrderedSequence ==
  ASSUME NEW S, IsFiniteSet(S), NEW R, Orders(R, S)
  PROVE  /\ Cardinality(S) \in Nat /\ InOrder(R, S) \in [1 .. Cardinality(S) -> S]
         /\ \A i \in 1 .. Cardinality(S) : Rank(R, S, InOrder(R, S)[i]) = i - 1
         /\ \A x \in S : Rank(R, S, x) + 1 \in 1 .. Cardinality(S) /\ InOrder(R, S)[Rank(R, S, x) + 1] = x
         /\ \A i, j \in 1 .. Cardinality(S) : <<InOrder(R, S)[i], InOrder(R, S)[j]>> \in R <=> i < j
<1> DEFINE n == Cardinality(S)
           s == InOrder(R, S)
<1>1. n \in Nat
  BY FS_CardinalityType
<1>2. \A i \in 1 .. n : s[i] \in S /\ Rank(R, S, s[i]) = i - 1
  <2> SUFFICES ASSUME NEW i \in 1 .. n PROVE s[i] \in S /\ Rank(R, S, s[i]) = i - 1
    OBVIOUS
  <2>1. i - 1 \in 0 .. Cardinality(S) - 1
    BY <1>1
  <2>2. \E x \in S : Rank(R, S, x) = i - 1
    BY <2>1, RankedElement
  <2>3. s[i] = CHOOSE x \in S : Rank(R, S, x) = i - 1
    BY DEF InOrder
  <2>4. QED
    BY <2>2, <2>3
<1>3. s \in [1 .. n -> S]
  BY <1>2 DEF InOrder
<1>4. \A x \in S : Rank(R, S, x) + 1 \in 1 .. n /\ s[Rank(R, S, x) + 1] = x
  <2> SUFFICES ASSUME NEW x \in S PROVE Rank(R, S, x) + 1 \in 1 .. n /\ s[Rank(R, S, x) + 1] = x
    OBVIOUS
  <2>1. Rank(R, S, x) \in 0 .. n - 1
    BY RankBounds
  <2>2. Rank(R, S, x) + 1 \in 1 .. n /\ (Rank(R, S, x) + 1) - 1 = Rank(R, S, x)
    BY <1>1, <2>1
  <2>3. s[Rank(R, S, x) + 1] \in S /\ Rank(R, S, s[Rank(R, S, x) + 1]) = Rank(R, S, x)
    BY <1>2, <2>2
  <2>4. QED
    BY <2>1, <2>2, <2>3, RankedElement
<1>5. \A i, j \in 1 .. n : <<s[i], s[j]>> \in R <=> i < j
  <2> SUFFICES ASSUME NEW i \in 1 .. n, NEW j \in 1 .. n PROVE <<s[i], s[j]>> \in R <=> i < j
    OBVIOUS
  <2>1. <<s[i], s[j]>> \in R <=> Rank(R, S, s[i]) < Rank(R, S, s[j])
    BY <1>2, RankOrders
  <2>2. QED
    BY <1>2, <2>1
<1>6. QED
  BY <1>1, <1>2, <1>3, <1>4, <1>5

\* Numbers in ascending order, and how many of them are below another.
Ascend(P) == [k \in 1 .. Cardinality(P) |-> CHOOSE p \in P : Cardinality({q \in P : q < p}) = k - 1]
Below(P, r) == Cardinality({p \in P : p < r})

LEMMA NumbersAscend ==
  ASSUME NEW P, P \subseteq Int, IsFiniteSet(P), NEW n, n = Cardinality(P), NEW s, s = Ascend(P)
  PROVE  /\ n \in Nat /\ s \in [1 .. n -> P]
         /\ \A i, j \in 1 .. n : s[i] < s[j] <=> i < j
         /\ \A p \in P : \E i \in 1 .. n : s[i] = p
         /\ \A r \in Int :
              /\ Below(P, r) \in 0 .. n
              /\ \A i \in 1 .. n : s[i] < r <=> i <= Below(P, r)
<1>1. PICK R : R = {pair \in P \X P : pair[1] < pair[2]}
  OBVIOUS
<1>2. \A x, y \in P : <<x, y>> \in R <=> x < y
  BY <1>1
<1>3. Orders(R, P)
  <2>1. \A x \in P : ~(x < x)
    OBVIOUS
  <2>2. \A x, y \in P : x = y \/ x < y \/ y < x
    OBVIOUS
  <2>3. \A x, y, z \in P : x < y /\ y < z => x < z
    OBVIOUS
  <2>4. QED
    BY <1>2, <2>1, <2>2, <2>3 DEF Orders
<1>4. \A x \in P : Earlier(R, P, x) = {q \in P : q < x}
  BY <1>2 DEF Earlier
<1>5. s = InOrder(R, P)
  <2> DEFINE a(k) == CHOOSE p \in P : Cardinality({q \in P : q < p}) = k - 1
             b(k) == CHOOSE p \in P : Rank(R, P, p) = k - 1
  <2>1. \A x \in P : Rank(R, P, x) = Cardinality({q \in P : q < x})
    BY <1>4 DEF Rank
  <2>2. ASSUME NEW k \in 1 .. n PROVE a(k) = b(k)
    <3>1. \A p : p \in P /\ Cardinality({q \in P : q < p}) = k - 1 <=> p \in P /\ Rank(R, P, p) = k - 1
      BY <2>1
    <3>2. QED
      BY <3>1, Zenon
  <2>3. s = [k \in 1 .. n |-> a(k)] /\ InOrder(R, P) = [k \in 1 .. n |-> b(k)]
    BY DEF Ascend, InOrder
  <2> HIDE DEF a, b
  <2>4. QED
    BY <2>2, <2>3
<1>6. /\ n \in Nat /\ s \in [1 .. n -> P]
      /\ \A i \in 1 .. n : Rank(R, P, s[i]) = i - 1
      /\ \A x \in P : Rank(R, P, x) + 1 \in 1 .. n /\ s[Rank(R, P, x) + 1] = x
      /\ \A i, j \in 1 .. n : <<s[i], s[j]>> \in R <=> i < j
  BY <1>3, <1>5, OrderedSequence
<1>7. \A i, j \in 1 .. n : s[i] < s[j] <=> i < j
  BY <1>2, <1>6
<1>8. \A p \in P : \E i \in 1 .. n : s[i] = p
  BY <1>6
<1>9. ASSUME NEW r \in Int
      PROVE  Below(P, r) \in 0 .. n /\ \A i \in 1 .. n : s[i] < r <=> i <= Below(P, r)
  <2>1. PICK T : T = {p \in P : p < r}
    OBVIOUS
  <2>2. T \in SUBSET P /\ \A t \in T, b \in P : <<b, t>> \in R => b \in T
    BY <1>2, <2>1
  <2>3. IsFiniteSet(T) /\ Cardinality(T) \in Nat /\ Cardinality(T) <= n
    BY <2>2, FS_Subset, FS_CardinalityType
  <2>4. ASSUME NEW i \in 1 .. n PROVE s[i] < r <=> i <= Cardinality(T)
    <3>1. s[i] \in P /\ Rank(R, P, s[i]) = i - 1
      BY <1>6
    <3>2. s[i] \in T <=> Rank(R, P, s[i]) < Cardinality(T)
      BY <1>3, <2>2, <3>1, InitialPart
    <3>3. QED
      BY <1>6, <2>1, <2>3, <3>1, <3>2
  <2>5. QED
    BY <1>6, <2>1, <2>3, <2>4 DEF Below
<1>10. QED
  BY <1>6, <1>7, <1>8, <1>9

-----------------------------------------------------------------------------
(* The cells of a matrix in the order of rows and of columns.              *)

RowOrder(S) == {pair \in S \X S : RowsFirst(pair[1], pair[2])}
ColOrder(S) == {pair \in S \X S : ColsFirst(pair[1], pair[2])}

LEMMA CellFacts ==
  ASSUME NEW d, IsDense(d)
  PROVE  /\ IsFiniteSet(Cells(d)) /\ IsFiniteSet(NonZero(d))
         /\ \A cell \in Cells(d) : cell = <<cell[1], cell[2]>> /\ cell[1] \in Rows(d) /\ cell[2] \in Cols(d)
         /\ \A cell \in Cells(d) : cell[1] \in Int /\ cell[2] \in Int /\ d.values[cell] \in Int
         /\ NonZero(d) \subseteq Cells(d)
<1>1. d.row_count \in Nat /\ d.col_count \in Nat /\ d.values \in [Cells(d) -> Int]
  BY DEF IsDense
<1>2. IsFiniteSet(Rows(d)) /\ IsFiniteSet(Cols(d))
  <2>1. d.row_count - 1 \in Int /\ d.col_count - 1 \in Int /\ 0 \in Int
    BY <1>1
  <2>2. IsFiniteSet(0 .. d.row_count - 1) /\ IsFiniteSet(0 .. d.col_count - 1)
    BY <2>1, FS_Interval
  <2>3. QED
    BY <2>2 DEF Rows, Cols
<1>3. IsFiniteSet(Cells(d))
  BY <1>2, FS_Product DEF Cells
<1>4. NonZero(d) \subseteq Cells(d) /\ IsFiniteSet(NonZero(d))
  BY <1>3, FS_Subset DEF NonZero
<1>5. QED
  BY <1>1, <1>3, <1>4 DEF Cells, Rows, Cols

LEMMA CellsOrdered ==
  ASSUME NEW d, IsDense(d)
  PROVE  Orders(RowOrder(NonZero(d)), NonZero(d)) /\ Orders(ColOrder(NonZero(d)), NonZero(d))
<1> DEFINE S == NonZero(d)
<1>1. \A cell \in S : cell = <<cell[1], cell[2]>> /\ cell[1] \in Int /\ cell[2] \in Int
  BY CellFacts
<1> HIDE DEF S
<1>2. /\ \A x \in S : ~RowsFirst(x, x)
      /\ \A x, y \in S : x = y \/ RowsFirst(x, y) \/ RowsFirst(y, x)
      /\ \A x, y, z \in S : RowsFirst(x, y) /\ RowsFirst(y, z) => RowsFirst(x, z)
  BY <1>1 DEF RowsFirst
<1>3. /\ \A x \in S : ~ColsFirst(x, x)
      /\ \A x, y \in S : x = y \/ ColsFirst(x, y) \/ ColsFirst(y, x)
      /\ \A x, y, z \in S : ColsFirst(x, y) /\ ColsFirst(y, z) => ColsFirst(x, z)
  BY <1>1 DEF ColsFirst
<1>4. \A x, y \in S : <<x, y>> \in RowOrder(S) <=> RowsFirst(x, y)
  BY DEF RowOrder
<1>5. \A x, y \in S : <<x, y>> \in ColOrder(S) <=> ColsFirst(x, y)
  BY DEF ColOrder
<1>6. Orders(RowOrder(S), S)
  BY <1>2, <1>4 DEF Orders
<1>7. Orders(ColOrder(S), S)
  BY <1>3, <1>5 DEF Orders
<1>8. QED
  BY <1>6, <1>7 DEF S

LEMMA Scans ==
  ASSUME NEW d, IsDense(d)
  PROVE  RowScan(d) = InOrder(RowOrder(NonZero(d)), NonZero(d)) /\ ColScan(d) = InOrder(ColOrder(NonZero(d)), NonZero(d))
<1> DEFINE S == NonZero(d)
           n == Cardinality(S)
<1>1. IsFiniteSet(S) /\ n \in Nat
  BY CellFacts, FS_CardinalityType
<1>2. \A x \in S : Rank(RowOrder(S), S, x) = Cardinality({b \in S : RowsFirst(b, x)})
  <2>1. \A x \in S : Earlier(RowOrder(S), S, x) = {b \in S : RowsFirst(b, x)}
    BY DEF Earlier, RowOrder
  <2>2. QED
    BY <2>1 DEF Rank
<1>3. \A x \in S : Rank(ColOrder(S), S, x) = Cardinality({b \in S : ColsFirst(b, x)})
  <2>1. \A x \in S : Earlier(ColOrder(S), S, x) = {b \in S : ColsFirst(b, x)}
    BY DEF Earlier, ColOrder
  <2>2. QED
    BY <2>1 DEF Rank
<1>4. RowScan(d) = [i \in 1 .. n |-> CHOOSE x \in S : Cardinality({b \in S : RowsFirst(b, x)}) = i - 1]
  BY DEF RowScan, Scan
<1>5. ColScan(d) = [i \in 1 .. n |-> CHOOSE x \in S : Cardinality({b \in S : ColsFirst(b, x)}) = i - 1]
  BY DEF ColScan, Scan
<1>6. ASSUME NEW i \in 1 .. n
      PROVE  (CHOOSE x \in S : Cardinality({b \in S : RowsFirst(b, x)}) = i - 1) = (CHOOSE x \in S : Rank(RowOrder(S), S, x) = i - 1)
  <2>1. i - 1 \in 0 .. Cardinality(S) - 1
    BY <1>1
  <2>2. PICK x \in S : Rank(RowOrder(S), S, x) = i - 1 /\ \A y \in S : Rank(RowOrder(S), S, y) = i - 1 => y = x
    BY <1>1, <2>1, CellsOrdered, RankedElement
  <2> HIDE DEF S
  <2>3. (CHOOSE y \in S : Rank(RowOrder(S), S, y) = i - 1) = x
    BY <2>2
  <2>4. (CHOOSE y \in S : Cardinality({b \in S : RowsFirst(b, y)}) = i - 1) = x
    BY <1>2, <2>2
  <2>5. QED
    BY <2>3, <2>4
<1>7. ASSUME NEW i \in 1 .. n
      PROVE  (CHOOSE x \in S : Cardinality({b \in S : ColsFirst(b, x)}) = i - 1) = (CHOOSE x \in S : Rank(ColOrder(S), S, x) = i - 1)
  <2>1. i - 1 \in 0 .. Cardinality(S) - 1
    BY <1>1
  <2>2. PICK x \in S : Rank(ColOrder(S), S, x) = i - 1 /\ \A y \in S : Rank(ColOrder(S), S, y) = i - 1 => y = x
    BY <1>1, <2>1, CellsOrdered, RankedElement
  <2> HIDE DEF S
  <2>3. (CHOOSE y \in S : Rank(ColOrder(S), S, y) = i - 1) = x
    BY <2>2
  <2>4. (CHOOSE y \in S : Cardinality({b \in S : ColsFirst(b, y)}) = i - 1) = x
    BY <1>3, <2>2
  <2>5. QED
    BY <2>3, <2>4
<1>8. QED
  BY <1>4, <1>5, <1>6, <1>7 DEF InOrder

\* How many cells with a value come before a row, and before a column.
RowsBefore(d, r) == Cardinality({c \in NonZero(d) : c[1] < r})
ColsBefore(d, r) == Cardinality({c \in NonZero(d) : c[2] < r})

\* The scan by rows: the cells of S with a value, once each, and where the rows begin.
LEMMA RowScanned ==
  ASSUME NEW d, IsDense(d), NEW n, n = Cardinality(NonZero(d)), NEW s, s = RowScan(d)
  PROVE  /\ n \in Nat /\ s \in [1 .. n -> NonZero(d)] /\ DOMAIN s = 1 .. n
         /\ \A i, j \in 1 .. n : RowsFirst(s[i], s[j]) <=> i < j
         /\ \A x \in NonZero(d) : \E i \in 1 .. n : s[i] = x
         /\ \A i, j \in 1 .. n : s[i] = s[j] => i = j
         /\ \A r \in Int :
              /\ RowsBefore(d, r) \in 0 .. n
              /\ \A i \in 1 .. n : s[i][1] < r <=> i <= RowsBefore(d, r)
<1> DEFINE S == NonZero(d)
           R == RowOrder(S)
<1>1. IsFiniteSet(S) /\ Orders(R, S) /\ s = InOrder(R, S) /\ n = Cardinality(S)
  BY CellFacts, CellsOrdered, Scans
<1>2. \A cell \in S : cell[1] \in Int /\ cell[2] \in Int
  BY CellFacts
<1> HIDE DEF S, R
<1>3. /\ n \in Nat /\ s \in [1 .. n -> S]
      /\ \A i \in 1 .. n : Rank(R, S, s[i]) = i - 1
      /\ \A x \in S : Rank(R, S, x) + 1 \in 1 .. n /\ s[Rank(R, S, x) + 1] = x
      /\ \A i, j \in 1 .. n : <<s[i], s[j]>> \in R <=> i < j
  BY <1>1, OrderedSequence
<1>4. \A x, y \in S : <<x, y>> \in R <=> RowsFirst(x, y)
  BY DEF R, RowOrder
<1>5. \A i, j \in 1 .. n : RowsFirst(s[i], s[j]) <=> i < j
  BY <1>3, <1>4
<1>6. \A x \in S : \E i \in 1 .. n : s[i] = x
  BY <1>3
<1>7. \A i, j \in 1 .. n : s[i] = s[j] => i = j
  <2> SUFFICES ASSUME NEW i \in 1 .. n, NEW j \in 1 .. n, s[i] = s[j] PROVE i = j
    OBVIOUS
  <2>1. i - 1 = j - 1
    BY <1>3
  <2>2. QED
    BY <1>3, <2>1
<1>8. ASSUME NEW r \in Int
      PROVE  /\ Cardinality({c \in S : c[1] < r}) \in 0 .. n
             /\ \A i \in 1 .. n : s[i][1] < r <=> i <= Cardinality({c \in S : c[1] < r})
  <2> DEFINE T == {c \in S : c[1] < r}
  <2>1. T \in SUBSET S /\ \A t \in T, b \in S : <<b, t>> \in R => b \in T
    BY <1>2, <1>4 DEF RowsFirst
  <2>2. \A x \in S : x \in T <=> x[1] < r
    OBVIOUS
  <2> HIDE DEF T
  <2>3. Cardinality(T) \in 0 .. n
    <3>1. IsFiniteSet(T) /\ Cardinality(T) <= n
      BY <1>1, <2>1, FS_Subset
    <3>2. Cardinality(T) \in Nat
      BY <3>1, FS_CardinalityType
    <3>3. QED
      BY <1>3, <3>1, <3>2
  <2>4. ASSUME NEW i \in 1 .. n PROVE s[i][1] < r <=> i <= Cardinality(T)
    <3>1. s[i] \in S /\ Rank(R, S, s[i]) = i - 1
      BY <1>3
    <3>2. s[i] \in T <=> Rank(R, S, s[i]) < Cardinality(T)
      BY <1>1, <2>1, <3>1, InitialPart
    <3>3. QED
      BY <1>3, <2>2, <2>3, <3>1, <3>2
  <2>5. QED
    BY <2>3, <2>4 DEF T
<1>9. DOMAIN s = 1 .. n
  BY <1>3
<1>10. QED
  BY <1>3, <1>5, <1>6, <1>7, <1>8, <1>9 DEF S, RowsBefore

\* The scan by columns, in the same way.
LEMMA ColScanned ==
  ASSUME NEW d, IsDense(d), NEW n, n = Cardinality(NonZero(d)), NEW s, s = ColScan(d)
  PROVE  /\ n \in Nat /\ s \in [1 .. n -> NonZero(d)] /\ DOMAIN s = 1 .. n
         /\ \A i, j \in 1 .. n : ColsFirst(s[i], s[j]) <=> i < j
         /\ \A x \in NonZero(d) : \E i \in 1 .. n : s[i] = x
         /\ \A i, j \in 1 .. n : s[i] = s[j] => i = j
         /\ \A r \in Int :
              /\ ColsBefore(d, r) \in 0 .. n
              /\ \A i \in 1 .. n : s[i][2] < r <=> i <= ColsBefore(d, r)
         /\ \A i \in 1 .. n : i = Cardinality({b \in NonZero(d) : ColsFirst(b, s[i])}) + 1
<1> DEFINE S == NonZero(d)
           R == ColOrder(S)
<1>1. IsFiniteSet(S) /\ Orders(R, S) /\ s = InOrder(R, S) /\ n = Cardinality(S)
  BY CellFacts, CellsOrdered, Scans
<1>2. \A cell \in S : cell[1] \in Int /\ cell[2] \in Int
  BY CellFacts
<1> HIDE DEF S, R
<1>3. /\ n \in Nat /\ s \in [1 .. n -> S]
      /\ \A i \in 1 .. n : Rank(R, S, s[i]) = i - 1
      /\ \A x \in S : Rank(R, S, x) + 1 \in 1 .. n /\ s[Rank(R, S, x) + 1] = x
      /\ \A i, j \in 1 .. n : <<s[i], s[j]>> \in R <=> i < j
  BY <1>1, OrderedSequence
<1>4. \A x, y \in S : <<x, y>> \in R <=> ColsFirst(x, y)
  BY DEF R, ColOrder
<1>5. \A i, j \in 1 .. n : ColsFirst(s[i], s[j]) <=> i < j
  BY <1>3, <1>4
<1>6. \A x \in S : \E i \in 1 .. n : s[i] = x
  BY <1>3
<1>7. \A i, j \in 1 .. n : s[i] = s[j] => i = j
  <2> SUFFICES ASSUME NEW i \in 1 .. n, NEW j \in 1 .. n, s[i] = s[j] PROVE i = j
    OBVIOUS
  <2>1. i - 1 = j - 1
    BY <1>3
  <2>2. QED
    BY <1>3, <2>1
<1>8. ASSUME NEW r \in Int
      PROVE  /\ Cardinality({c \in S : c[2] < r}) \in 0 .. n
             /\ \A i \in 1 .. n : s[i][2] < r <=> i <= Cardinality({c \in S : c[2] < r})
  <2> DEFINE T == {c \in S : c[2] < r}
  <2>1. T \in SUBSET S /\ \A t \in T, b \in S : <<b, t>> \in R => b \in T
    BY <1>2, <1>4 DEF ColsFirst
  <2>2. \A x \in S : x \in T <=> x[2] < r
    OBVIOUS
  <2> HIDE DEF T
  <2>3. Cardinality(T) \in 0 .. n
    <3>1. IsFiniteSet(T) /\ Cardinality(T) <= n
      BY <1>1, <2>1, FS_Subset
    <3>2. Cardinality(T) \in Nat
      BY <3>1, FS_CardinalityType
    <3>3. QED
      BY <1>3, <3>1, <3>2
  <2>4. ASSUME NEW i \in 1 .. n PROVE s[i][2] < r <=> i <= Cardinality(T)
    <3>1. s[i] \in S /\ Rank(R, S, s[i]) = i - 1
      BY <1>3
    <3>2. s[i] \in T <=> Rank(R, S, s[i]) < Cardinality(T)
      BY <1>1, <2>1, <3>1, InitialPart
    <3>3. QED
      BY <1>3, <2>2, <2>3, <3>1, <3>2
  <2>5. QED
    BY <2>3, <2>4 DEF T
<1>9. DOMAIN s = 1 .. n
  BY <1>3
<1>10. ASSUME NEW i \in 1 .. n PROVE i = Cardinality({b \in S : ColsFirst(b, s[i])}) + 1
  <2>1. Earlier(R, S, s[i]) = {b \in S : ColsFirst(b, s[i])}
    BY <1>3, <1>4 DEF Earlier
  <2>2. Cardinality({b \in S : ColsFirst(b, s[i])}) = i - 1
    BY <1>3, <2>1 DEF Rank
  <2>3. QED
    BY <2>2
<1>11. QED
  BY <1>3, <1>5, <1>6, <1>7, <1>8, <1>9, <1>10 DEF S, ColsBefore

-----------------------------------------------------------------------------
(* The value of a cell: a sum over the positions that have it.             *)

\* What Total is for the values at the positions P.
ValueSum(e, P) ==
  LET iter[s \in SUBSET P] ==
        IF s = {} THEN 0 ELSE LET x == CHOOSE x \in s : TRUE IN e[x].value + iter[s \ {x}]
  IN  iter[P]

LEMMA NoValue == ASSUME NEW e PROVE ValueSum(e, {}) = 0
<1> DEFINE Sums(iter) == iter = [s \in SUBSET {} |-> IF s = {} THEN 0 ELSE LET x == CHOOSE x \in s : TRUE
                                                                     IN  e[x].value + iter[s \ {x}]]
           iter == CHOOSE iter : Sums(iter)
<1>1. Sums([s \in SUBSET {} |-> 0])
  OBVIOUS
<1>2. Sums(iter)
  BY <1>1, Zenon
<1> HIDE DEF iter
<1>3. iter[{}] = 0
  BY <1>2
<1>4. QED
  BY <1>3, Zenon DEF ValueSum, iter

LEMMA OneValue == ASSUME NEW e, NEW p, e[p].value \in Int PROVE ValueSum(e, {p}) = e[p].value
<1> DEFINE Sums(iter) == iter = [s \in SUBSET {p} |-> IF s = {} THEN 0 ELSE LET x == CHOOSE x \in s : TRUE
                                                                      IN  e[x].value + iter[s \ {x}]]
           iter == CHOOSE iter : Sums(iter)
           v == e[p].value
           f == [s \in SUBSET {p} |-> IF s = {} THEN 0 ELSE v]
<1>1. (CHOOSE x \in {p} : TRUE) = p /\ {p} \ {p} = {} /\ {p} # {} /\ SUBSET {p} = {{}, {p}}
  OBVIOUS
<1>2. Sums(f)
  <2>1. f[{}] = 0 /\ v + 0 = v
    OBVIOUS
  <2>2. ASSUME NEW s \in SUBSET {p}, s # {} PROVE v = LET x == CHOOSE x \in s : TRUE IN e[x].value + f[s \ {x}]
    <3>1. s = {p}
      BY <2>2
    <3>2. QED
      BY <1>1, <2>1, <3>1
  <2>3. QED
    BY <2>2
<1>3. Sums(iter)
  BY <1>2, Zenon
<1> HIDE DEF iter
<1>4. iter[{}] = 0
  BY <1>3
<1>5. iter[{p}] = e[p].value + iter[{}]
  BY <1>1, <1>3
<1>6. iter[{p}] = v
  BY <1>4, <1>5
<1>7. QED
  BY <1>6, Zenon DEF ValueSum, iter

-----------------------------------------------------------------------------
(* Entries with the value zero. A format that is read from a list of       *)
(* coordinates may hold some, a conversion from a dense matrix makes none:  *)
(* p has a value in each cell that an entry is stored for, d the values.   *)

Stores(p, d) ==
  /\ IsDense(p) /\ IsDense(d) /\ p.row_count = d.row_count /\ p.col_count = d.col_count
  /\ NonZero(d) \subseteq NonZero(p)

StoredCsr(p, d) ==
  [row_count |-> d.row_count,
   row_pointers |-> [r \in 0 .. d.row_count |-> RowsBefore(p, r)],
   entries |-> [i \in DOMAIN RowScan(p) |-> [index |-> RowScan(p)[i][2], value |-> d.values[RowScan(p)[i]]]]]

StoredCsc(p, d) ==
  [col_count |-> d.col_count,
   col_pointers |-> [c \in 0 .. d.col_count |-> ColsBefore(p, c)],
   entries |-> [i \in DOMAIN ColScan(p) |-> [index |-> ColScan(p)[i][1], value |-> d.values[ColScan(p)[i]]]]]

StoredCoo(p, d) ==
  [i \in DOMAIN RowScan(p) |-> [row |-> RowScan(p)[i][1], col |-> RowScan(p)[i][2], value |-> d.values[RowScan(p)[i]]]]

LEMMA StoresFacts ==
  ASSUME NEW p, NEW d, Stores(p, d)
  PROVE  /\ IsDense(p) /\ IsDense(d) /\ p.row_count = d.row_count /\ p.col_count = d.col_count
         /\ Rows(p) = Rows(d) /\ Cols(p) = Cols(d) /\ Cells(p) = Cells(d) /\ NonZero(d) \subseteq NonZero(p)
<1>1. IsDense(p) /\ IsDense(d) /\ p.row_count = d.row_count /\ p.col_count = d.col_count /\ NonZero(d) \subseteq NonZero(p)
  BY DEF Stores
<1>2. Rows(p) = Rows(d) /\ Cols(p) = Cols(d)
  BY <1>1 DEF Rows, Cols
<1>3. Cells(p) = Cells(d)
  BY <1>2 DEF Cells
<1>4. QED
  BY <1>1, <1>2, <1>3

\* The conversions from a dense matrix store its own cells.
LEMMA OwnCells ==
  ASSUME NEW d, IsDense(d)
  PROVE  /\ Stores(d, d) /\ StoredCsr(d, d) = CsrFromDense(d)
         /\ StoredCsc(d, d) = CscFromDense(d) /\ StoredCoo(d, d) = CooFromDense(d)
<1>1. Stores(d, d)
  BY DEF Stores
<1>2. StoredCsr(d, d) = CsrFromDense(d)
  BY Zenon DEF StoredCsr, CsrFromDense, RowsBefore
<1>3. StoredCsc(d, d) = CscFromDense(d)
  BY Zenon DEF StoredCsc, CscFromDense, ColsBefore
<1>4. StoredCoo(d, d) = CooFromDense(d)
  BY Zenon DEF StoredCoo, CooFromDense
<1>5. QED
  BY <1>1, <1>2, <1>3, <1>4

-----------------------------------------------------------------------------
(* From a dense matrix.                                                    *)

LEMMA Between ==
  ASSUME NEW n \in Nat, NEW from \in 0 .. n, NEW to \in 0 .. n
  PROVE  from + 1 .. to = {i \in 1 .. n : ~(i <= from) /\ i <= to}
  OBVIOUS

LEMMA StoredCsrFacts ==
  ASSUME NEW p, NEW d, Stores(p, d), NEW m, m = StoredCsr(p, d), NEW n, n = Cardinality(NonZero(p)), NEW s, s = RowScan(p)
  PROVE  /\ m.row_count = d.row_count
         /\ DOMAIN m.entries = 1 .. n /\ Len(m.entries) = n
         /\ \A i \in 1 .. n : m.entries[i].index = s[i][2] /\ m.entries[i].value = d.values[s[i]]
         /\ \A r \in 0 .. d.row_count : m.row_pointers[r] = RowsBefore(p, r) /\ m.row_pointers[r] \in 0 .. n
         /\ \A r \in Rows(d) : RowSegment(m, r) = {i \in 1 .. n : s[i][1] = r}
<1>1. /\ m = [row_count |-> d.row_count,
              row_pointers |-> [r \in 0 .. d.row_count |-> RowsBefore(p, r)],
              entries |-> [i \in DOMAIN s |-> [index |-> s[i][2], value |-> d.values[s[i]]]]]
  BY DEF StoredCsr
<1>2. /\ n \in Nat /\ s \in [1 .. n -> NonZero(p)] /\ DOMAIN s = 1 .. n
      /\ \A r \in Int :
           /\ RowsBefore(p, r) \in 0 .. n
           /\ \A i \in 1 .. n : s[i][1] < r <=> i <= RowsBefore(p, r)
  <2>1. IsDense(p)
    BY StoresFacts
  <2>2. QED
    BY <2>1, RowScanned
<1>3. m.entries = [i \in 1 .. n |-> [index |-> s[i][2], value |-> d.values[s[i]]]]
  BY <1>1, <1>2
<1>4. DOMAIN m.entries = 1 .. n /\ Len(m.entries) = n
  BY <1>2, <1>3
<1>5. \A i \in 1 .. n : m.entries[i].index = s[i][2] /\ m.entries[i].value = d.values[s[i]]
  BY <1>3
<1>6. \A r \in 0 .. d.row_count : m.row_pointers[r] = RowsBefore(p, r)
  BY <1>1
<1>7. ASSUME NEW q \in 0 .. d.row_count
      PROVE  m.row_pointers[q] \in 0 .. n /\ \A i \in 1 .. n : s[i][1] < q <=> i <= m.row_pointers[q]
  <2>1. q \in Int
    BY StoresFacts DEF IsDense
  <2>2. m.row_pointers[q] = RowsBefore(p, q)
    BY <1>6
  <2>3. RowsBefore(p, q) \in 0 .. n /\ \A i \in 1 .. n : s[i][1] < q <=> i <= RowsBefore(p, q)
    BY <1>2, <2>1
  <2>4. QED
    BY <2>2, <2>3, Zenon
<1>8. ASSUME NEW r \in Rows(d) PROVE RowSegment(m, r) = {i \in 1 .. n : s[i][1] = r}
  <2>1. d.row_count \in Nat /\ r \in 0 .. d.row_count /\ r + 1 \in 0 .. d.row_count /\ r \in Int
    BY StoresFacts DEF IsDense, Rows
  <2>2. PICK from, to : from = m.row_pointers[r] /\ to = m.row_pointers[r + 1]
    OBVIOUS
  <2>3. from \in 0 .. n /\ \A i \in 1 .. n : s[i][1] < r <=> i <= from
    BY <1>7, <2>1, <2>2
  <2>4. to \in 0 .. n /\ \A i \in 1 .. n : s[i][1] < r + 1 <=> i <= to
    <3>1. PICK q : q = r + 1
      OBVIOUS
    <3>2. q \in 0 .. d.row_count /\ to = m.row_pointers[q]
      BY <2>1, <2>2, <3>1
    <3>3. to \in 0 .. n /\ \A i \in 1 .. n : s[i][1] < q <=> i <= to
      BY <1>7, <3>2
    <3>4. QED
      BY <3>1, <3>3
  <2>5. \A i \in 1 .. n : s[i][1] \in Int
    BY <1>2, StoresFacts, CellFacts
  <2>6. \A i \in 1 .. n : s[i][1] = r <=> ~(i <= from) /\ i <= to
    BY <2>1, <2>3, <2>4, <2>5
  <2>7. from + 1 .. to = {i \in 1 .. n : ~(i <= from) /\ i <= to}
    <3>1. n \in Nat /\ from \in 0 .. n /\ to \in 0 .. n
      BY <1>2, <2>3, <2>4
    <3>2. QED
      BY <3>1, Between, Zenon
  <2>8. RowSegment(m, r) = from + 1 .. to
    BY <2>2 DEF RowSegment
  <2>9. QED
    BY <2>6, <2>7, <2>8
<1>9. m.row_count = d.row_count
  BY <1>1
<1>10. QED
  BY <1>4, <1>5, <1>6, <1>7, <1>8, <1>9, Zenon

LEMMA CsrFacts ==
  ASSUME NEW d, IsDense(d), NEW m, m = CsrFromDense(d), NEW n, n = Cardinality(NonZero(d)), NEW s, s = RowScan(d)
  PROVE  /\ m.row_count = d.row_count
         /\ DOMAIN m.entries = 1 .. n /\ Len(m.entries) = n
         /\ \A i \in 1 .. n : m.entries[i].index = s[i][2] /\ m.entries[i].value = d.values[s[i]]
         /\ \A r \in 0 .. d.row_count : m.row_pointers[r] = RowsBefore(d, r) /\ m.row_pointers[r] \in 0 .. n
         /\ \A r \in Rows(d) : RowSegment(m, r) = {i \in 1 .. n : s[i][1] = r}
  BY OwnCells, StoredCsrFacts


LEMMA StoredCscFacts ==
  ASSUME NEW p, NEW d, Stores(p, d), NEW m, m = StoredCsc(p, d), NEW n, n = Cardinality(NonZero(p)), NEW s, s = ColScan(p)
  PROVE  /\ m.col_count = d.col_count
         /\ DOMAIN m.entries = 1 .. n /\ Len(m.entries) = n
         /\ \A i \in 1 .. n : m.entries[i].index = s[i][1] /\ m.entries[i].value = d.values[s[i]]
         /\ \A c \in 0 .. d.col_count : m.col_pointers[c] = ColsBefore(p, c) /\ m.col_pointers[c] \in 0 .. n
         /\ \A c \in Cols(d) : ColSegment(m, c) = {i \in 1 .. n : s[i][2] = c}
<1>1. /\ m = [col_count |-> d.col_count,
              col_pointers |-> [c \in 0 .. d.col_count |-> ColsBefore(p, c)],
              entries |-> [i \in DOMAIN s |-> [index |-> s[i][1], value |-> d.values[s[i]]]]]
  BY DEF StoredCsc
<1>2. /\ n \in Nat /\ s \in [1 .. n -> NonZero(p)] /\ DOMAIN s = 1 .. n
      /\ \A c \in Int :
           /\ ColsBefore(p, c) \in 0 .. n
           /\ \A i \in 1 .. n : s[i][2] < c <=> i <= ColsBefore(p, c)
  <2>1. IsDense(p)
    BY StoresFacts
  <2>2. QED
    BY <2>1, ColScanned
<1>3. m.entries = [i \in 1 .. n |-> [index |-> s[i][1], value |-> d.values[s[i]]]]
  BY <1>1, <1>2
<1>4. DOMAIN m.entries = 1 .. n /\ Len(m.entries) = n
  BY <1>2, <1>3
<1>5. \A i \in 1 .. n : m.entries[i].index = s[i][1] /\ m.entries[i].value = d.values[s[i]]
  BY <1>3
<1>6. \A c \in 0 .. d.col_count : m.col_pointers[c] = ColsBefore(p, c)
  BY <1>1
<1>7. ASSUME NEW q \in 0 .. d.col_count
      PROVE  m.col_pointers[q] \in 0 .. n /\ \A i \in 1 .. n : s[i][2] < q <=> i <= m.col_pointers[q]
  <2>1. q \in Int
    BY StoresFacts DEF IsDense
  <2>2. m.col_pointers[q] = ColsBefore(p, q)
    BY <1>6
  <2>3. ColsBefore(p, q) \in 0 .. n /\ \A i \in 1 .. n : s[i][2] < q <=> i <= ColsBefore(p, q)
    BY <1>2, <2>1
  <2>4. QED
    BY <2>2, <2>3, Zenon
<1>8. ASSUME NEW c \in Cols(d) PROVE ColSegment(m, c) = {i \in 1 .. n : s[i][2] = c}
  <2>1. d.col_count \in Nat /\ c \in 0 .. d.col_count /\ c + 1 \in 0 .. d.col_count /\ c \in Int
    BY StoresFacts DEF IsDense, Cols
  <2>2. PICK from, to : from = m.col_pointers[c] /\ to = m.col_pointers[c + 1]
    OBVIOUS
  <2>3. from \in 0 .. n /\ \A i \in 1 .. n : s[i][2] < c <=> i <= from
    BY <1>7, <2>1, <2>2
  <2>4. to \in 0 .. n /\ \A i \in 1 .. n : s[i][2] < c + 1 <=> i <= to
    <3>1. PICK q : q = c + 1
      OBVIOUS
    <3>2. q \in 0 .. d.col_count /\ to = m.col_pointers[q]
      BY <2>1, <2>2, <3>1
    <3>3. to \in 0 .. n /\ \A i \in 1 .. n : s[i][2] < q <=> i <= to
      BY <1>7, <3>2
    <3>4. QED
      BY <3>1, <3>3
  <2>5. \A i \in 1 .. n : s[i][2] \in Int
    BY <1>2, StoresFacts, CellFacts
  <2>6. \A i \in 1 .. n : s[i][2] = c <=> ~(i <= from) /\ i <= to
    BY <2>1, <2>3, <2>4, <2>5
  <2>7. from + 1 .. to = {i \in 1 .. n : ~(i <= from) /\ i <= to}
    <3>1. n \in Nat /\ from \in 0 .. n /\ to \in 0 .. n
      BY <1>2, <2>3, <2>4
    <3>2. QED
      BY <3>1, Between, Zenon
  <2>8. ColSegment(m, c) = from + 1 .. to
    BY <2>2 DEF ColSegment
  <2>9. QED
    BY <2>6, <2>7, <2>8
<1>9. m.col_count = d.col_count
  BY <1>1
<1>10. QED
  BY <1>4, <1>5, <1>6, <1>7, <1>8, <1>9, Zenon

LEMMA CscFacts ==
  ASSUME NEW d, IsDense(d), NEW m, m = CscFromDense(d), NEW n, n = Cardinality(NonZero(d)), NEW s, s = ColScan(d)
  PROVE  /\ m.col_count = d.col_count
         /\ DOMAIN m.entries = 1 .. n /\ Len(m.entries) = n
         /\ \A i \in 1 .. n : m.entries[i].index = s[i][1] /\ m.entries[i].value = d.values[s[i]]
         /\ \A c \in 0 .. d.col_count : m.col_pointers[c] = ColsBefore(d, c) /\ m.col_pointers[c] \in 0 .. n
         /\ \A c \in Cols(d) : ColSegment(m, c) = {i \in 1 .. n : s[i][2] = c}
  BY OwnCells, StoredCscFacts


\* The n entries e are those of the cells of a pattern, with the values of d, each at its place in s.
Placed(stored, d, n, s, e) ==
  /\ n \in Nat /\ s \in [1 .. n -> NonZero(stored)]
  /\ \A x \in NonZero(stored) : \E i \in 1 .. n : s[i] = x
  /\ \A i, j \in 1 .. n : s[i] = s[j] => i = j
  /\ \A i \in 1 .. n : e[i].value = d.values[s[i]]

\* The position of a cell is the only one, and a cell that is not stored has none.
LEMMA ValueOfCell ==
  ASSUME NEW stored, NEW d, Stores(stored, d), NEW n, NEW s, NEW e, Placed(stored, d, n, s, e), NEW cell \in Cells(d)
  PROVE  ValueSum(e, {i \in 1 .. n : s[i] = cell}) = d.values[cell]
<1> DEFINE P == {i \in 1 .. n : s[i] = cell}
<1>1. CASE cell \in NonZero(stored)
  <2>1. PICK i \in 1 .. n : s[i] = cell
    BY <1>1 DEF Placed
  <2>2. P = {i}
    BY <2>1 DEF Placed
  <2>3. e[i].value = d.values[cell] /\ d.values[cell] \in Int
    BY <2>1, StoresFacts, CellFacts DEF Placed
  <2>4. ValueSum(e, {i}) = d.values[cell]
    BY <2>3, OneValue
  <2>5. QED
    BY <2>2, <2>4, Zenon
<1>2. CASE cell \notin NonZero(stored)
  <2>1. P = {}
    BY <1>2 DEF Placed
  <2>2. d.values[cell] = 0
    BY <1>2, StoresFacts DEF NonZero
  <2>3. QED
    BY <2>1, <2>2, NoValue
<1>3. QED
  BY <1>1, <1>2

\* A matrix in a format, the cells that are stored those of a pattern.
StoredFormat(format, stored, d) ==
  [format |-> format,
   matrix |-> CASE format = "MAT_CSR" -> StoredCsr(stored, d)
                [] format = "MAT_CSC" -> StoredCsc(stored, d)
                [] format = "MAT_COO" -> StoredCoo(stored, d)]

LEMMA StoredCsrRepresents == ASSUME NEW stored, NEW d, Stores(stored, d) PROVE Represents(StoredFormat("MAT_CSR", stored, d), d)
<1> DEFINE u == StoredFormat("MAT_CSR", stored, d)
           m == StoredCsr(stored, d)
           n == Cardinality(NonZero(stored))
           s == RowScan(stored)
<1>1. u.format = "MAT_CSR" /\ u.matrix = m
  BY DEF StoredFormat
<1>2. /\ m.row_count = d.row_count
      /\ DOMAIN m.entries = 1 .. n /\ Len(m.entries) = n
      /\ \A i \in 1 .. n : m.entries[i].index = s[i][2] /\ m.entries[i].value = d.values[s[i]]
      /\ \A r \in 0 .. d.row_count : m.row_pointers[r] = RowsBefore(stored, r) /\ m.row_pointers[r] \in 0 .. n
      /\ \A r \in Rows(d) : RowSegment(m, r) = {i \in 1 .. n : s[i][1] = r}
  BY StoredCsrFacts
<1>3. /\ n \in Nat /\ s \in [1 .. n -> NonZero(stored)]
      /\ \A i, j \in 1 .. n : RowsFirst(s[i], s[j]) <=> i < j
      /\ \A x \in NonZero(stored) : \E i \in 1 .. n : s[i] = x
      /\ \A i, j \in 1 .. n : s[i] = s[j] => i = j
  <2>1. IsDense(stored)
    BY StoresFacts
  <2>2. QED
    BY <2>1, RowScanned
<1>4. /\ d.row_count \in Nat /\ Rows(d) = 0 .. d.row_count - 1
      /\ \A x \in NonZero(stored) : x = <<x[1], x[2]>> /\ x[1] \in Rows(d) /\ x[1] \in Int /\ x[2] \in Int
  BY StoresFacts, CellFacts DEF IsDense, Rows
<1> HIDE DEF u, m, n, s
<1>5. Ascending(u)
  <2>1. m.row_pointers[0] = 0
    <3>1. {c \in NonZero(stored) : c[1] < 0} = {}
      BY <1>4
    <3>2. QED
      BY <1>2, <1>4, <3>1, FS_EmptySet DEF RowsBefore
  <2>2. m.row_pointers[m.row_count] = Len(m.entries)
    <3>1. {c \in NonZero(stored) : c[1] < d.row_count} = NonZero(stored)
      BY <1>4
    <3>2. QED
      <4>1. d.row_count \in 0 .. d.row_count
        BY <1>4
      <4>2. m.row_pointers[d.row_count] = RowsBefore(stored, d.row_count)
        BY <1>2, <4>1
      <4>3. RowsBefore(stored, d.row_count) = n
        BY <3>1 DEF n, RowsBefore
      <4>4. QED
        BY <1>2, <4>2, <4>3
  <2>3. ASSUME NEW r \in 0 .. m.row_count - 1
        PROVE  m.row_pointers[r] <= m.row_pointers[r + 1] /\ Increasing(m.entries, RowSegment(m, r))
    <3>1. r \in Rows(d) /\ r \in 0 .. d.row_count /\ r + 1 \in 0 .. d.row_count
      BY <1>2, <1>4
    <3>2. RowsBefore(stored, r) <= RowsBefore(stored, r + 1)
      <4> DEFINE S == {c \in NonZero(stored) : c[1] < r}
                 T == {c \in NonZero(stored) : c[1] < r + 1}
      <4>1. S \in SUBSET T /\ T \in SUBSET NonZero(stored)
        BY <1>4, <3>1
      <4>2. IsFiniteSet(T)
        BY <4>1, StoresFacts, CellFacts, FS_Subset
      <4> HIDE DEF S, T
      <4>3. Cardinality(S) <= Cardinality(T)
        BY <4>1, <4>2, FS_Subset
      <4>4. QED
        BY <4>3 DEF S, T, RowsBefore
    <3>3. m.row_pointers[r] <= m.row_pointers[r + 1]
      BY <1>2, <3>1, <3>2
    <3>4. ASSUME NEW p \in RowSegment(m, r), p - 1 \in RowSegment(m, r)
          PROVE  m.entries[p - 1].index < m.entries[p].index
      <4>1. p \in 1 .. n /\ p - 1 \in 1 .. n /\ s[p][1] = r /\ s[p - 1][1] = r
        BY <1>2, <3>1, <3>4
      <4>2. RowsFirst(s[p - 1], s[p])
        BY <1>3, <4>1
      <4>3. QED
        BY <1>2, <1>4, <4>1, <4>2 DEF RowsFirst
    <3>5. QED
      BY <3>3, <3>4 DEF Increasing
  <2>4. QED
    BY <1>1, <2>1, <2>2, <2>3 DEF Ascending
<1>6. ASSUME NEW cell \in Cells(d) PROVE ValueAt(u, cell) = d.values[cell]
  <2> DEFINE P == {p \in RowSegment(m, cell[1]) : m.entries[p].index = cell[2]}
  <2>1. ValueAt(u, cell) = ValueSum(m.entries, P)
    BY <1>1 DEF ValueAt, Total, MapThenSumSet, MapThenFoldSet, ValueSum
  <2>2. cell = <<cell[1], cell[2]>> /\ cell[1] \in Rows(d)
    BY StoresFacts, CellFacts
  <2>3. P = {i \in 1 .. n : s[i] = cell}
    BY <1>2, <1>3, <1>4, <2>2
  <2>4. Placed(stored, d, n, s, m.entries)
    BY <1>2, <1>3 DEF Placed
  <2>5. ValueSum(m.entries, {i \in 1 .. n : s[i] = cell}) = d.values[cell]
    BY <2>4, ValueOfCell
  <2>6. QED
    BY <2>1, <2>3, <2>5, Zenon
<1>7. QED
  BY <1>5, <1>6 DEF Represents, u

LEMMA StoredCscRepresents == ASSUME NEW stored, NEW d, Stores(stored, d) PROVE Represents(StoredFormat("MAT_CSC", stored, d), d)
<1> DEFINE u == StoredFormat("MAT_CSC", stored, d)
           m == StoredCsc(stored, d)
           n == Cardinality(NonZero(stored))
           s == ColScan(stored)
<1>1. u.format = "MAT_CSC" /\ u.matrix = m
  BY DEF StoredFormat
<1>2. /\ m.col_count = d.col_count
      /\ DOMAIN m.entries = 1 .. n /\ Len(m.entries) = n
      /\ \A i \in 1 .. n : m.entries[i].index = s[i][1] /\ m.entries[i].value = d.values[s[i]]
      /\ \A r \in 0 .. d.col_count : m.col_pointers[r] = ColsBefore(stored, r) /\ m.col_pointers[r] \in 0 .. n
      /\ \A r \in Cols(d) : ColSegment(m, r) = {i \in 1 .. n : s[i][2] = r}
  BY StoredCscFacts
<1>3. /\ n \in Nat /\ s \in [1 .. n -> NonZero(stored)]
      /\ \A i, j \in 1 .. n : ColsFirst(s[i], s[j]) <=> i < j
      /\ \A x \in NonZero(stored) : \E i \in 1 .. n : s[i] = x
      /\ \A i, j \in 1 .. n : s[i] = s[j] => i = j
  <2>1. IsDense(stored)
    BY StoresFacts
  <2>2. QED
    BY <2>1, ColScanned
<1>4. /\ d.col_count \in Nat /\ Cols(d) = 0 .. d.col_count - 1
      /\ \A x \in NonZero(stored) : x = <<x[1], x[2]>> /\ x[2] \in Cols(d) /\ x[1] \in Int /\ x[2] \in Int
  BY StoresFacts, CellFacts DEF IsDense, Cols
<1> HIDE DEF u, m, n, s
<1>5. Ascending(u)
  <2>1. m.col_pointers[0] = 0
    <3>1. {c \in NonZero(stored) : c[2] < 0} = {}
      BY <1>4
    <3>2. m.col_pointers[0] = ColsBefore(stored, 0)
      <4>1. 0 \in 0 .. d.col_count
        BY <1>4
      <4>2. QED
        BY <1>2, <4>1
    <3>3. ColsBefore(stored, 0) = 0
      BY <3>1, FS_EmptySet DEF ColsBefore
    <3>4. QED
      BY <3>2, <3>3
  <2>2. m.col_pointers[m.col_count] = Len(m.entries)
    <3>1. {c \in NonZero(stored) : c[2] < d.col_count} = NonZero(stored)
      BY <1>4
    <3>2. QED
      <4>1. d.col_count \in 0 .. d.col_count
        BY <1>4
      <4>2. m.col_pointers[d.col_count] = ColsBefore(stored, d.col_count)
        BY <1>2, <4>1
      <4>3. ColsBefore(stored, d.col_count) = n
        BY <3>1 DEF n, ColsBefore
      <4>4. QED
        BY <1>2, <4>2, <4>3
  <2>3. ASSUME NEW r \in 0 .. m.col_count - 1
        PROVE  m.col_pointers[r] <= m.col_pointers[r + 1] /\ Increasing(m.entries, ColSegment(m, r))
    <3>1. r \in Cols(d) /\ r \in 0 .. d.col_count /\ r + 1 \in 0 .. d.col_count
      BY <1>2, <1>4
    <3>2. ColsBefore(stored, r) <= ColsBefore(stored, r + 1)
      <4> DEFINE S == {c \in NonZero(stored) : c[2] < r}
                 T == {c \in NonZero(stored) : c[2] < r + 1}
      <4>1. S \in SUBSET T /\ T \in SUBSET NonZero(stored)
        BY <1>4, <3>1
      <4>2. IsFiniteSet(T)
        BY <4>1, StoresFacts, CellFacts, FS_Subset
      <4> HIDE DEF S, T
      <4>3. Cardinality(S) <= Cardinality(T)
        BY <4>1, <4>2, FS_Subset
      <4>4. QED
        BY <4>3 DEF S, T, ColsBefore
    <3>3. m.col_pointers[r] <= m.col_pointers[r + 1]
      BY <1>2, <3>1, <3>2
    <3>4. ASSUME NEW p \in ColSegment(m, r), p - 1 \in ColSegment(m, r)
          PROVE  m.entries[p - 1].index < m.entries[p].index
      <4>1. p \in 1 .. n /\ p - 1 \in 1 .. n /\ s[p][2] = r /\ s[p - 1][2] = r
        BY <1>2, <3>1, <3>4
      <4>2. ColsFirst(s[p - 1], s[p])
        BY <1>3, <4>1
      <4>3. QED
        BY <1>2, <1>4, <4>1, <4>2 DEF ColsFirst
    <3>5. QED
      BY <3>3, <3>4 DEF Increasing
  <2>4. QED
    BY <1>1, <2>1, <2>2, <2>3 DEF Ascending
<1>6. ASSUME NEW cell \in Cells(d) PROVE ValueAt(u, cell) = d.values[cell]
  <2> DEFINE P == {p \in ColSegment(m, cell[2]) : m.entries[p].index = cell[1]}
  <2>1. ValueAt(u, cell) = ValueSum(m.entries, P)
    BY <1>1 DEF ValueAt, Total, MapThenSumSet, MapThenFoldSet, ValueSum
  <2>2. cell = <<cell[1], cell[2]>> /\ cell[2] \in Cols(d)
    BY StoresFacts, CellFacts
  <2>3. P = {i \in 1 .. n : s[i] = cell}
    BY <1>2, <1>3, <1>4, <2>2
  <2>4. Placed(stored, d, n, s, m.entries)
    BY <1>2, <1>3 DEF Placed
  <2>5. ValueSum(m.entries, {i \in 1 .. n : s[i] = cell}) = d.values[cell]
    BY <2>4, ValueOfCell
  <2>6. QED
    BY <2>1, <2>3, <2>5, Zenon
<1>7. QED
  BY <1>5, <1>6 DEF Represents, u

LEMMA StoredCooRepresents == ASSUME NEW stored, NEW d, Stores(stored, d) PROVE Represents(StoredFormat("MAT_COO", stored, d), d)
<1> DEFINE u == StoredFormat("MAT_COO", stored, d)
           m == StoredCoo(stored, d)
           n == Cardinality(NonZero(stored))
           s == RowScan(stored)
<1>1. u.format = "MAT_COO" /\ u.matrix = m
  BY DEF StoredFormat
<1>2. /\ n \in Nat /\ s \in [1 .. n -> NonZero(stored)] /\ DOMAIN s = 1 .. n
      /\ \A i, j \in 1 .. n : RowsFirst(s[i], s[j]) <=> i < j
      /\ \A x \in NonZero(stored) : \E i \in 1 .. n : s[i] = x
      /\ \A i, j \in 1 .. n : s[i] = s[j] => i = j
  <2>1. IsDense(stored)
    BY StoresFacts
  <2>2. QED
    BY <2>1, RowScanned
<1>3. m = [i \in 1 .. n |-> [row |-> s[i][1], col |-> s[i][2], value |-> d.values[s[i]]]]
  BY <1>2 DEF StoredCoo
<1>4. \A x \in NonZero(stored) : x = <<x[1], x[2]>>
  BY StoresFacts, CellFacts
<1> HIDE DEF u, m, n, s
<1>5. DOMAIN m = 1 .. n /\ Len(m) = n
  BY <1>2, <1>3
<1>6. \A i \in 1 .. n : <<m[i].row, m[i].col>> = s[i] /\ m[i].value = d.values[s[i]]
  BY <1>2, <1>3, <1>4
<1>7. Ascending(u)
  <2>1. \A p \in 2 .. n : p \in 1 .. n /\ p - 1 \in 1 .. n /\ p - 1 < p
    BY <1>2
  <2>2. \A p \in 2 .. n : RowsFirst(<<m[p - 1].row, m[p - 1].col>>, <<m[p].row, m[p].col>>)
    <3> SUFFICES ASSUME NEW p \in 2 .. n
                 PROVE  RowsFirst(<<m[p - 1].row, m[p - 1].col>>, <<m[p].row, m[p].col>>)
      OBVIOUS
    <3>1. PICK q : q = p - 1
      OBVIOUS
    <3>2. p \in 1 .. n /\ q \in 1 .. n /\ q < p
      BY <2>1, <3>1
    <3>3. RowsFirst(s[q], s[p])
      BY <1>2, <3>2
    <3>4. <<m[q].row, m[q].col>> = s[q] /\ <<m[p].row, m[p].col>> = s[p]
      BY <1>6, <3>2
    <3>5. QED
      BY <3>1, <3>3, <3>4
  <2>3. QED
    BY <1>1, <1>5, <2>2 DEF Ascending
<1>8. ASSUME NEW cell \in Cells(d) PROVE ValueAt(u, cell) = d.values[cell]
  <2> DEFINE P == {p \in DOMAIN m : <<m[p].row, m[p].col>> = cell}
  <2>1. ValueAt(u, cell) = ValueSum(m, P)
    BY <1>1 DEF ValueAt, Total, MapThenSumSet, MapThenFoldSet, ValueSum
  <2>2. P = {i \in 1 .. n : s[i] = cell}
    BY <1>5, <1>6
  <2>3. Placed(stored, d, n, s, m)
    BY <1>2, <1>6 DEF Placed
  <2>4. ValueSum(m, {i \in 1 .. n : s[i] = cell}) = d.values[cell]
    BY <2>3, ValueOfCell
  <2>5. QED
    BY <2>1, <2>2, <2>4, Zenon
<1>9. QED
  BY <1>7, <1>8 DEF Represents, u

\* The conversions of a matrix store the cells that have a value.
LEMMA OwnFormat ==
  ASSUME NEW d, IsDense(d), NEW format \in {"MAT_CSR", "MAT_CSC", "MAT_COO"}
  PROVE  DenseToFormat(d, format) = StoredFormat(format, d, d)
<1>1. StoredCsr(d, d) = CsrFromDense(d) /\ StoredCsc(d, d) = CscFromDense(d) /\ StoredCoo(d, d) = CooFromDense(d)
  BY OwnCells
<1>2. QED
  BY <1>1 DEF DenseToFormat, StoredFormat

\* A matrix stands for its values, whatever further cells it stores.
LEMMA StoredRepresents ==
  ASSUME NEW stored, NEW d, Stores(stored, d), NEW format \in {"MAT_CSR", "MAT_CSC", "MAT_COO"}
  PROVE  Represents(StoredFormat(format, stored, d), d)
  BY StoredCsrRepresents, StoredCscRepresents, StoredCooRepresents

\* csr_from_dense, csc_from_dense and coo_from_dense, for every matrix: the values are those of the
\* dense one, and pointers and indices are in the order that the kernels rely on.
THEOREM DenseConversions ==
  ASSUME NEW d, IsDense(d), NEW format \in Formats
  PROVE  Represents(DenseToFormat(d, format), d)
<1>1. Represents(DenseToFormat(d, "MAT_DENSE"), d)
  <2>1. DenseToFormat(d, "MAT_DENSE").format = "MAT_DENSE" /\ DenseToFormat(d, "MAT_DENSE").matrix = d
    BY DEF DenseToFormat
  <2>2. QED
    BY <2>1 DEF Represents, Ascending, ValueAt
<1>2. ASSUME format # "MAT_DENSE" PROVE Represents(DenseToFormat(d, format), d)
  <2>1. Stores(d, d)
    BY OwnCells
  <2>2. format \in {"MAT_CSR", "MAT_CSC", "MAT_COO"}
    BY <1>2 DEF Formats
  <2>3. Represents(StoredFormat(format, d, d), d)
    BY <2>1, <2>2, StoredRepresents
  <2>4. DenseToFormat(d, format) = StoredFormat(format, d, d)
    BY <2>2, OwnFormat
  <2>5. QED
    BY <2>3, <2>4
<1>3. QED
  BY <1>1, <1>2

-----------------------------------------------------------------------------
(* Sums over finite sets, as MapThenSumSet takes them: one element after   *)
(* the other, in the order in which CHOOSE picks them.                     *)

Picked(s) == CHOOSE x \in s : TRUE

\* g sums f over the subsets D.
SumsOn(f, D, g) == \A s \in D : g[s] = IF s = {} THEN 0 ELSE f[Picked(s)] + g[s \ {Picked(s)}]

\* f has a number for each element of the finite set S.
Summable(f, S) == IsFiniteSet(S) /\ \A x \in S : f[x] \in Int

SumOf(f, S) ==
  LET iter[s \in SUBSET S] == IF s = {} THEN 0 ELSE LET x == CHOOSE x \in s : TRUE IN f[x] + iter[s \ {x}]
  IN  iter[S]

LEMMA PickedRemoved ==
  ASSUME NEW s, IsFiniteSet(s), s # {}
  PROVE  /\ Picked(s) \in s /\ s \ {Picked(s)} \in SUBSET s /\ IsFiniteSet(s \ {Picked(s)})
         /\ Cardinality(s) \in Nat /\ Cardinality(s) > 0 /\ Cardinality(s \ {Picked(s)}) = Cardinality(s) - 1
<1>1. Picked(s) \in s
  BY DEF Picked
<1>2. IsFiniteSet(s \ {Picked(s)}) /\ Cardinality(s \ {Picked(s)}) = Cardinality(s) - 1
  BY <1>1, FS_RemoveElement
<1>3. Cardinality(s) \in Nat /\ Cardinality(s \ {Picked(s)}) \in Nat
  BY <1>2, FS_CardinalityType
<1>4. QED
  BY <1>1, <1>2, <1>3

LEMMA SumsExist ==
  ASSUME NEW S, NEW f, Summable(f, S)
  PROVE  \E g \in [SUBSET S -> Int] : SumsOn(f, SUBSET S, g)
<1> DEFINE Small(n) == {s \in SUBSET S : Cardinality(s) <= n}
           Good(n) == \E g \in [Small(n) -> Int] : SumsOn(f, Small(n), g)
           Bad == {n \in Nat : ~Good(n)}
<1>1. \A s \in SUBSET S : IsFiniteSet(s) /\ Cardinality(s) \in Nat /\ Cardinality(s) <= Cardinality(S)
  BY FS_Subset, FS_CardinalityType DEF Summable
<1>2. Good(0)
  <2>1. \A s \in Small(0) : s = {}
    <3> SUFFICES ASSUME NEW s \in Small(0) PROVE s = {}
      OBVIOUS
    <3>1. IsFiniteSet(s) /\ Cardinality(s) = 0
      BY <1>1
    <3>2. QED
      BY <3>1, FS_EmptySet
  <2>2. [s \in Small(0) |-> 0] \in [Small(0) -> Int]
    OBVIOUS
  <2>3. SumsOn(f, Small(0), [s \in Small(0) |-> 0])
    BY <2>1 DEF SumsOn
  <2>4. QED
    BY <2>2, <2>3
<1>3. ASSUME NEW n \in Nat, Good(n) PROVE Good(n + 1)
  <2>1. PICK g \in [Small(n) -> Int] : SumsOn(f, Small(n), g)
    BY <1>3
  <2> DEFINE h == [s \in Small(n + 1) |-> IF s = {} THEN 0 ELSE f[Picked(s)] + g[s \ {Picked(s)}]]
  <2>2. ASSUME NEW s \in Small(n + 1), s # {}
        PROVE  /\ Picked(s) \in S /\ s \ {Picked(s)} \in Small(n) /\ s \ {Picked(s)} \in Small(n + 1)
               /\ f[Picked(s)] \in Int /\ g[s \ {Picked(s)}] \in Int
    <3>1. IsFiniteSet(s) /\ s \in SUBSET S /\ Cardinality(s) <= n + 1
      BY <1>1
    <3>2. /\ Picked(s) \in s /\ s \ {Picked(s)} \in SUBSET s
          /\ Cardinality(s) \in Nat /\ Cardinality(s \ {Picked(s)}) = Cardinality(s) - 1
      BY <2>2, <3>1, PickedRemoved
    <3>3. Picked(s) \in S /\ s \ {Picked(s)} \in Small(n) /\ s \ {Picked(s)} \in Small(n + 1)
      BY <3>1, <3>2
    <3>4. QED
      BY <3>3 DEF Summable
  <2>3. h \in [Small(n + 1) -> Int]
    BY <2>2
  <2>4. ASSUME NEW s \in Small(n + 1), s # {} PROVE h[s \ {Picked(s)}] = g[s \ {Picked(s)}]
    <3> DEFINE t == s \ {Picked(s)}
    <3>1. t \in Small(n) /\ t \in Small(n + 1)
      BY <2>2, <2>4
    <3>2. g[t] = IF t = {} THEN 0 ELSE f[Picked(t)] + g[t \ {Picked(t)}]
      BY <2>1, <3>1 DEF SumsOn
    <3> HIDE DEF t
    <3>3. h[t] = IF t = {} THEN 0 ELSE f[Picked(t)] + g[t \ {Picked(t)}]
      BY <3>1
    <3>4. h[t] = g[t]
      BY <3>2, <3>3
    <3>5. QED
      BY <3>4 DEF t
  <2>5. SumsOn(f, Small(n + 1), h)
    <3> SUFFICES ASSUME NEW s \in Small(n + 1) PROVE h[s] = IF s = {} THEN 0 ELSE f[Picked(s)] + h[s \ {Picked(s)}]
      BY DEF SumsOn
    <3>1. h[s] = IF s = {} THEN 0 ELSE f[Picked(s)] + g[s \ {Picked(s)}]
      OBVIOUS
    <3> HIDE DEF h
    <3>2. QED
      BY <2>4, <3>1
  <2>6. QED
    BY <2>3, <2>5
<1>4. \A n \in Nat : Good(n)
  <2> SUFFICES ASSUME Bad # {} PROVE FALSE
    OBVIOUS
  <2>1. PICK n \in Bad : \A k \in Bad : n <= k
    <3>1. Bad \subseteq Nat
      OBVIOUS
    <3> HIDE DEF Bad
    <3>2. QED
      BY <3>1, LeastNumber
  <2>2. n \in Nat /\ ~Good(n) /\ \A k \in Nat : ~Good(k) => n <= k
    BY <2>1
  <2> HIDE DEF Good, Bad
  <2>3. n # 0
    BY <1>2, <2>2
  <2>4. n - 1 \in Nat /\ (n - 1) + 1 = n /\ ~(n <= n - 1)
    BY <2>2, <2>3
  <2>5. Good(n - 1)
    BY <2>2, <2>4
  <2>6. Good((n - 1) + 1)
    BY <1>3, <2>4, <2>5
  <2>7. QED
    BY <2>2, <2>4, <2>6
<1>5. Cardinality(S) \in Nat /\ Small(Cardinality(S)) = SUBSET S
  <2>1. Cardinality(S) \in Nat
    BY FS_CardinalityType DEF Summable
  <2>2. QED
    BY <1>1, <2>1
<1>6. Good(Cardinality(S))
  BY <1>4, <1>5
<1>7. QED
  BY <1>5, <1>6

\* There is one way to sum.
LEMMA SumsAgree ==
  ASSUME NEW S, IsFiniteSet(S), NEW f, NEW D, SUBSET S \subseteq D, NEW g, NEW h, SumsOn(f, D, g), SumsOn(f, SUBSET S, h)
  PROVE  g[S] = h[S]
<1> DEFINE Bad == {n \in Nat : \E s \in SUBSET S : Cardinality(s) = n /\ g[s] # h[s]}
<1>1. \A s \in SUBSET S : IsFiniteSet(s) /\ Cardinality(s) \in Nat
  BY FS_Subset, FS_CardinalityType
<1>2. Bad = {}
  <2> SUFFICES ASSUME Bad # {} PROVE FALSE
    OBVIOUS
  <2>1. PICK n \in Bad : \A k \in Bad : n <= k
    <3>1. Bad \subseteq Nat
      OBVIOUS
    <3> HIDE DEF Bad
    <3>2. QED
      BY <3>1, LeastNumber
  <2>2. PICK s \in SUBSET S : Cardinality(s) = n /\ g[s] # h[s]
    BY <2>1
  <2>3. /\ g[s] = IF s = {} THEN 0 ELSE f[Picked(s)] + g[s \ {Picked(s)}]
        /\ h[s] = IF s = {} THEN 0 ELSE f[Picked(s)] + h[s \ {Picked(s)}]
    BY DEF SumsOn
  <2>4. s # {}
    BY <2>2, <2>3
  <2>5. PICK t : t = s \ {Picked(s)}
    OBVIOUS
  <2>6. t \in SUBSET S /\ Cardinality(t) \in Nat /\ Cardinality(t) < n
    <3>1. t \in SUBSET s /\ Cardinality(s) \in Nat /\ Cardinality(t) = Cardinality(s) - 1
      BY <1>1, <2>4, <2>5, PickedRemoved
    <3>2. QED
      BY <1>1, <2>2, <3>1
  <2>7. g[t] = h[t]
    <3>1. Cardinality(t) \notin Bad
      BY <2>1, <2>6
    <3>2. QED
      BY <2>6, <3>1
  <2>8. QED
    BY <2>2, <2>3, <2>4, <2>5, <2>7
<1>3. QED
  BY <1>1, <1>2

LEMMA SumIs ==
  ASSUME NEW S, NEW f, Summable(f, S), NEW g \in [SUBSET S -> Int], SumsOn(f, SUBSET S, g)
  PROVE  SumOf(f, S) = g[S]
<1> DEFINE Recursive(iter) == iter = [s \in SUBSET S |-> IF s = {} THEN 0 ELSE LET x == CHOOSE x \in s : TRUE
                                                                             IN  f[x] + iter[s \ {x}]]
           iter == CHOOSE iter : Recursive(iter)
<1>1. Recursive(g)
  BY DEF SumsOn, Picked
<1>2. Recursive(iter)
  BY <1>1, Zenon
<1>3. SumOf(f, S) = iter[S]
  BY Zenon DEF SumOf
<1> HIDE DEF iter
<1>4. SumsOn(f, SUBSET S, iter)
  BY <1>2 DEF SumsOn, Picked
<1>5. QED
  BY <1>3, <1>4, SumsAgree DEF Summable

LEMMA SumStep ==
  ASSUME NEW S, NEW f, Summable(f, S)
  PROVE  /\ SumOf(f, S) \in Int
         /\ S = {} => SumOf(f, S) = 0
         /\ S # {} => SumOf(f, S) = f[Picked(S)] + SumOf(f, S \ {Picked(S)})
<1>1. PICK g \in [SUBSET S -> Int] : SumsOn(f, SUBSET S, g)
  BY SumsExist
<1>2. SumOf(f, S) = g[S]
  BY <1>1, SumIs
<1>3. SumOf(f, S) \in Int /\ (S = {} => SumOf(f, S) = 0)
  BY <1>1, <1>2 DEF SumsOn
<1>4. ASSUME S # {} PROVE SumOf(f, S) = f[Picked(S)] + SumOf(f, S \ {Picked(S)})
  <2>1. PICK T : T = S \ {Picked(S)}
    OBVIOUS
  <2>2. T \in SUBSET S /\ Summable(f, T)
    BY <1>4, <2>1, PickedRemoved DEF Summable
  <2>3. PICK h \in [SUBSET T -> Int] : SumsOn(f, SUBSET T, h)
    BY <2>2, SumsExist
  <2>4. SumOf(f, T) = h[T]
    BY <2>2, <2>3, SumIs
  <2>5. g[T] = h[T]
    <3>1. IsFiniteSet(T) /\ SUBSET T \subseteq SUBSET S
      BY <2>2 DEF Summable
    <3>2. QED
      BY <1>1, <2>3, <3>1, SumsAgree
  <2>6. g[S] = f[Picked(S)] + g[T]
    BY <1>1, <1>4, <2>1 DEF SumsOn
  <2>7. QED
    BY <1>2, <2>1, <2>4, <2>5, <2>6
<1>5. QED
  BY <1>3, <1>4


\* The order does not matter: any element may be the one that is added first.
LEMMA SumRemove ==
  ASSUME NEW S, NEW f, Summable(f, S), NEW x \in S
  PROVE  Summable(f, S \ {x}) /\ SumOf(f, S) = f[x] + SumOf(f, S \ {x})
<1> DEFINE Wrong(s) == \E z \in s : SumOf(f, s) # f[z] + SumOf(f, s \ {z})
           Bad == {n \in Nat : \E s \in SUBSET S : Cardinality(s) = n /\ Wrong(s)}
<1>1. \A s \in SUBSET S : Summable(f, s) /\ Cardinality(s) \in Nat
  BY FS_Subset, FS_CardinalityType DEF Summable
<1>2. Bad = {}
  <2> SUFFICES ASSUME Bad # {} PROVE FALSE
    OBVIOUS
  <2>1. PICK n \in Bad : \A k \in Bad : n <= k
    <3>1. Bad \subseteq Nat
      OBVIOUS
    <3> HIDE DEF Bad
    <3>2. QED
      BY <3>1, LeastNumber
  <2>2. PICK s \in SUBSET S : Cardinality(s) = n /\ Wrong(s)
    BY <2>1
  <2>3. PICK z \in s : SumOf(f, s) # f[z] + SumOf(f, s \ {z})
    BY <2>2
  <2>4. IsFiniteSet(s) /\ s # {}
    BY <1>1, <2>3 DEF Summable
  <2>5. ASSUME NEW t \in SUBSET s, Cardinality(t) < n, NEW y \in t PROVE SumOf(f, t) = f[y] + SumOf(f, t \ {y})
    <3>1. t \in SUBSET S /\ Cardinality(t) \in Nat /\ n \in Nat
      BY <1>1, <2>1
    <3>2. Cardinality(t) \notin Bad
      BY <2>1, <2>5, <3>1
    <3> HIDE DEF Wrong
    <3>3. ~Wrong(t)
      BY <3>1, <3>2
    <3>4. QED
      BY <3>3 DEF Wrong
  <2>6. PICK p : p = Picked(s)
    OBVIOUS
  <2>7. p \in s /\ SumOf(f, s) = f[p] + SumOf(f, s \ {p})
    BY <1>1, <2>4, <2>6, SumStep, PickedRemoved
  <2>8. p # z
    BY <2>3, <2>7
  <2>9. \A y \in s : /\ s \ {y} \in SUBSET s /\ Cardinality(s \ {y}) < n
                    /\ f[y] \in Int
    <3> SUFFICES ASSUME NEW y \in s PROVE s \ {y} \in SUBSET s /\ Cardinality(s \ {y}) < n /\ f[y] \in Int
      OBVIOUS
    <3>1. Cardinality(s \ {y}) = Cardinality(s) - 1 /\ Cardinality(s) \in Nat
      BY <1>1, <2>4, FS_RemoveElement
    <3>2. QED
      BY <2>2, <3>1 DEF Summable
  <2>10. SumOf(f, s \ {p}) = f[z] + SumOf(f, (s \ {p}) \ {z})
    BY <2>5, <2>7, <2>8, <2>9
  <2>11. SumOf(f, s \ {z}) = f[p] + SumOf(f, (s \ {z}) \ {p})
    BY <2>5, <2>7, <2>8, <2>9
  <2>12. (s \ {p}) \ {z} = (s \ {z}) \ {p}
    OBVIOUS
  <2>13. SumOf(f, (s \ {z}) \ {p}) \in Int
    <3>1. (s \ {z}) \ {p} \in SUBSET S
      OBVIOUS
    <3>2. QED
      BY <1>1, <3>1, SumStep
  <2>14. f[p] \in Int /\ f[z] \in Int
    BY <2>7, <2>9
  <2>15. PICK w : w = SumOf(f, (s \ {z}) \ {p})
    OBVIOUS
  <2>16. w \in Int /\ SumOf(f, s \ {p}) = f[z] + w /\ SumOf(f, s \ {z}) = f[p] + w
    BY <2>10, <2>11, <2>12, <2>13, <2>15, Zenon
  <2>17. f[p] + (f[z] + w) = f[z] + (f[p] + w)
    BY <2>14, <2>16
  <2>18. QED
    BY <2>3, <2>7, <2>16, <2>17, Zenon
<1>3. ~Wrong(S)
  <2>1. S \in SUBSET S /\ Cardinality(S) \in Nat
    BY <1>1
  <2> HIDE DEF Wrong
  <2>2. QED
    BY <1>2, <2>1
<1>4. SumOf(f, S) = f[x] + SumOf(f, S \ {x})
  BY <1>3
<1>5. QED
  BY <1>1, <1>4

\* Two sums with the same numbers: m takes each x of S to an element of T of its own
\* with the same number, and what it does not reach adds nothing.
Matches(m, f, S, g, T) ==
  /\ \A x \in S : m[x] \in T /\ f[x] = g[m[x]]
  /\ \A x, y \in S : m[x] = m[y] => x = y
  /\ \A z \in T : g[z] = 0 \/ \E x \in S : m[x] = z

LEMMA SumOfZeros ==
  ASSUME NEW T, NEW g, Summable(g, T), \A z \in T : g[z] = 0
  PROVE  SumOf(g, T) = 0
<1> DEFINE Bad == {n \in Nat : \E t \in SUBSET T : Cardinality(t) = n /\ SumOf(g, t) # 0}
<1>1. \A t \in SUBSET T : Summable(g, t) /\ Cardinality(t) \in Nat
  BY FS_Subset, FS_CardinalityType DEF Summable
<1>2. Bad = {}
  <2> SUFFICES ASSUME Bad # {} PROVE FALSE
    OBVIOUS
  <2>1. PICK n \in Bad : \A k \in Bad : n <= k
    <3>1. Bad \subseteq Nat
      OBVIOUS
    <3> HIDE DEF Bad
    <3>2. QED
      BY <3>1, LeastNumber
  <2>2. PICK t \in SUBSET T : Cardinality(t) = n /\ SumOf(g, t) # 0
    BY <2>1
  <2>3. t # {}
    BY <1>1, <2>2, SumStep
  <2>4. PICK p, u : p = Picked(t) /\ u = t \ {p}
    OBVIOUS
  <2>5. /\ p \in t /\ SumOf(g, t) = g[p] + SumOf(g, u) /\ g[p] = 0 /\ SumOf(g, u) \in Int
        /\ u \in SUBSET T /\ Cardinality(u) \in Nat /\ Cardinality(u) < n
    <3>1. p \in t /\ u \in SUBSET t /\ Cardinality(t) \in Nat /\ Cardinality(u) = Cardinality(t) - 1
      BY <1>1, <2>3, <2>4, PickedRemoved DEF Summable
    <3>2. SumOf(g, t) = g[p] + SumOf(g, u)
      BY <1>1, <2>3, <2>4, SumStep
    <3>3. u \in SUBSET T /\ g[p] = 0
      BY <3>1
    <3>4. SumOf(g, u) \in Int /\ Cardinality(u) \in Nat
      BY <1>1, <3>3, SumStep
    <3>5. QED
      BY <2>2, <3>1, <3>2, <3>3, <3>4
  <2>6. SumOf(g, u) # 0
    BY <2>2, <2>5
  <2>7. Cardinality(u) \in Bad
    BY <2>5, <2>6
  <2>8. QED
    BY <2>1, <2>5, <2>7
<1>3. T \in SUBSET T
  OBVIOUS
<1>4. QED
  BY <1>1, <1>2, <1>3


LEMMA SumMatched ==
  ASSUME NEW S, NEW f, Summable(f, S), NEW T, NEW g, Summable(g, T), NEW m, Matches(m, f, S, g, T)
  PROVE  SumOf(f, S) = SumOf(g, T)
<1> DEFINE Differ(s, t) == Matches(m, f, s, g, t) /\ SumOf(f, s) # SumOf(g, t)
           Bad == {n \in Nat : \E s \in SUBSET S, t \in SUBSET T : Cardinality(s) = n /\ Differ(s, t)}
<1>1. /\ \A s \in SUBSET S : Summable(f, s) /\ Cardinality(s) \in Nat
      /\ \A t \in SUBSET T : Summable(g, t)
  BY FS_Subset, FS_CardinalityType DEF Summable
<1>2. Bad = {}
  <2> SUFFICES ASSUME Bad # {} PROVE FALSE
    OBVIOUS
  <2>1. PICK n \in Bad : \A k \in Bad : n <= k
    <3>1. Bad \subseteq Nat
      OBVIOUS
    <3> HIDE DEF Bad
    <3>2. QED
      BY <3>1, LeastNumber
  <2>2. PICK s \in SUBSET S, t \in SUBSET T : Cardinality(s) = n /\ Differ(s, t)
    BY <2>1
  <2>3. s # {}
    <3> SUFFICES ASSUME s = {} PROVE FALSE
      OBVIOUS
    <3>1. \A z \in t : g[z] = 0
      BY <2>2 DEF Matches
    <3>2. SumOf(f, s) = 0 /\ SumOf(g, t) = 0
      BY <1>1, <3>1, SumStep, SumOfZeros
    <3>3. QED
      BY <2>2, <3>2
  <2>4. PICK x : x \in s
    BY <2>3
  <2>5. PICK u, v : u = s \ {x} /\ v = t \ {m[x]}
    OBVIOUS
  <2>6. m[x] \in t /\ f[x] = g[m[x]]
    BY <2>2, <2>4 DEF Matches
  <2>7. SumOf(f, s) = f[x] + SumOf(f, u) /\ SumOf(g, t) = g[m[x]] + SumOf(g, v)
    BY <1>1, <2>4, <2>5, <2>6, SumRemove
  <2>8. Matches(m, f, u, g, v)
    BY <2>2, <2>4, <2>5 DEF Matches
  <2>9. u \in SUBSET S /\ v \in SUBSET T /\ Cardinality(u) \in Nat /\ Cardinality(u) < n
    <3>1. IsFiniteSet(s) /\ Cardinality(s) \in Nat
      BY <1>1 DEF Summable
    <3>2. Cardinality(u) = Cardinality(s) - 1
      BY <2>4, <2>5, <3>1, FS_RemoveElement
    <3>3. u \in SUBSET S /\ v \in SUBSET T
      BY <2>5
    <3>4. QED
      BY <1>1, <2>2, <3>1, <3>2, <3>3
  <2>10. SumOf(f, u) = SumOf(g, v)
    <3> HIDE DEF Differ
    <3>1. ~Differ(u, v)
      BY <2>1, <2>9
    <3>2. QED
      BY <2>8, <3>1 DEF Differ
  <2>11. QED
    BY <2>2, <2>6, <2>7, <2>10
<1>3. ~Differ(S, T)
  <2> HIDE DEF Differ
  <2>1. S \in SUBSET S /\ T \in SUBSET T
    OBVIOUS
  <2>2. QED
    BY <1>1, <1>2, <2>1
<1>4. QED
  BY <1>3

\* f counts the elements of T by their keys, which are in K.
CountsKeys(f, K, T, key) ==
  /\ \A t \in T : key[t] \in K
  /\ \A k \in K : f[k] = Cardinality({t \in T : key[t] = k})

\* The elements of T, grouped by what key says of them.
LEMMA CountByKey ==
  ASSUME NEW K, IsFiniteSet(K), NEW T, IsFiniteSet(T), NEW key, NEW f, CountsKeys(f, K, T, key)
  PROVE  Summable(f, K) /\ Cardinality(T) = SumOf(f, K)
<1> DEFINE Of(s) == {t \in T : key[t] \in s}
           Differ(s) == Cardinality(Of(s)) # SumOf(f, s)
           Bad == {n \in Nat : \E s \in SUBSET K : Cardinality(s) = n /\ Differ(s)}
<1> USE DEF CountsKeys
<1>1. \A s \in SUBSET T : IsFiniteSet(s) /\ Cardinality(s) \in Nat
  BY FS_Subset, FS_CardinalityType
<1>2. \A s \in SUBSET K : Summable(f, s) /\ Cardinality(s) \in Nat
  <2>1. \A k \in K : f[k] \in Int
    <3> SUFFICES ASSUME NEW k \in K PROVE f[k] \in Int
      OBVIOUS
    <3>1. PICK s : s = {t \in T : key[t] = k}
      OBVIOUS
    <3>2. s \in SUBSET T /\ f[k] = Cardinality(s)
      BY <3>1
    <3>3. QED
      BY <1>1, <3>2
  <2>2. QED
    BY <2>1, FS_Subset, FS_CardinalityType DEF Summable
<1>3. Bad = {}
  <2> SUFFICES ASSUME Bad # {} PROVE FALSE
    OBVIOUS
  <2>1. PICK n \in Bad : \A k \in Bad : n <= k
    <3>1. Bad \subseteq Nat
      OBVIOUS
    <3> HIDE DEF Bad
    <3>2. QED
      BY <3>1, LeastNumber
  <2>2. PICK s \in SUBSET K : Cardinality(s) = n /\ Differ(s)
    BY <2>1
  <2>3. s # {}
    <3> SUFFICES ASSUME s = {} PROVE FALSE
      OBVIOUS
    <3>1. Of(s) = {}
      OBVIOUS
    <3>2. Cardinality(Of(s)) = 0
      BY <3>1, FS_EmptySet
    <3>3. SumOf(f, s) = 0
      BY <1>2, SumStep
    <3>4. QED
      BY <2>2, <3>2, <3>3
  <2>4. PICK x : x \in s
    BY <2>3
  <2>5. PICK u, A, B : u = s \ {x} /\ A = Of(u) /\ B = {t \in T : key[t] = x}
    OBVIOUS
  <2>6. A \in SUBSET T /\ B \in SUBSET T /\ A \cap B = {} /\ A \cup B = Of(s)
    BY <2>4, <2>5
  <2>7. Cardinality(A \cup B) = Cardinality(A) + Cardinality(B)
    <3>1. IsFiniteSet(A) /\ IsFiniteSet(B) /\ Cardinality(A) \in Nat /\ Cardinality(B) \in Nat
      BY <1>1, <2>6
    <3>2. Cardinality(A \cup B) = Cardinality(A) + Cardinality(B) - Cardinality(A \cap B)
      BY <3>1, FS_Union
    <3>3. Cardinality(A \cap B) = 0
      BY <2>6, FS_EmptySet
    <3>4. QED
      BY <3>1, <3>2, <3>3
  <2>8. SumOf(f, s) = f[x] + SumOf(f, u) /\ f[x] = Cardinality(B)
    BY <1>2, <2>4, <2>5, SumRemove
  <2>9. u \in SUBSET K /\ Cardinality(u) \in Nat /\ Cardinality(u) < n
    <3>1. IsFiniteSet(s) /\ Cardinality(s) \in Nat
      BY <1>2 DEF Summable
    <3>2. Cardinality(u) = Cardinality(s) - 1
      BY <2>4, <2>5, <3>1, FS_RemoveElement
    <3>3. u \in SUBSET K
      BY <2>5
    <3>4. QED
      BY <1>2, <2>2, <3>1, <3>2, <3>3
  <2>10. Cardinality(A) = SumOf(f, u)
    <3> HIDE DEF Differ
    <3>1. ~Differ(u)
      BY <2>1, <2>9
    <3>2. QED
      BY <2>5, <3>1 DEF Differ
  <2>11. Cardinality(A) \in Nat /\ Cardinality(B) \in Nat
    BY <1>1, <2>6
  <2>12. Cardinality(Of(s)) = SumOf(f, s)
    BY <2>6, <2>7, <2>8, <2>10, <2>11
  <2>13. QED
    BY <2>2, <2>12
<1>4. ~Differ(K)
  <2> HIDE DEF Differ
  <2>1. K \in SUBSET K
    OBVIOUS
  <2>2. QED
    BY <1>2, <1>3, <2>1
<1>5. Of(K) = T
  OBVIOUS
<1>6. QED
  BY <1>2, <1>4, <1>5


\* The sums that the kernels and the product are written with.
LEMMA TotalOfProducts ==
  ASSUME NEW V, NEW f, \A v \in V : f[v] = v.product
  PROVE  Total(V, LAMBDA v : v.product) = SumOf(f, V)
<1> DEFINE A(iter) == iter = [s \in SUBSET V |-> IF s = {} THEN 0 ELSE LET x == CHOOSE x \in s : TRUE
                                                                      IN  x.product + iter[s \ {x}]]
           B(iter) == iter = [s \in SUBSET V |-> IF s = {} THEN 0 ELSE LET x == CHOOSE x \in s : TRUE
                                                                      IN  f[x] + iter[s \ {x}]]
<1>1. \A s \in SUBSET V : s # {} => (CHOOSE x \in s : TRUE) \in V
  OBVIOUS
<1>2. \A iter : A(iter) <=> B(iter)
  BY <1>1
<1>3. (CHOOSE iter : A(iter)) = (CHOOSE iter : B(iter))
  BY <1>2, Zenon
<1>4. Total(V, LAMBDA v : v.product) = (CHOOSE iter : A(iter))[V]
  BY Zenon DEF Total, MapThenSumSet, MapThenFoldSet
<1>5. SumOf(f, V) = (CHOOSE iter : B(iter))[V]
  BY Zenon DEF SumOf
<1>6. QED
  BY <1>3, <1>4, <1>5, Zenon


LEMMA ProductOfCell ==
  ASSUME NEW L, NEW R, NEW cell \in Rows(L) \X Cols(R),
         NEW f, \A k \in Cols(L) : f[k] = L.values[<<cell[1], k>>] * R.values[<<k, cell[2]>>]
  PROVE  Product(L, R)[cell] = SumOf(f, Cols(L))
<1> DEFINE V == Cols(L)
           A(iter) == iter = [s \in SUBSET V |-> IF s = {} THEN 0 ELSE LET x == CHOOSE x \in s : TRUE
                                       IN  L.values[<<cell[1], x>>] * R.values[<<x, cell[2]>>] + iter[s \ {x}]]
           B(iter) == iter = [s \in SUBSET V |-> IF s = {} THEN 0 ELSE LET x == CHOOSE x \in s : TRUE
                                                                      IN  f[x] + iter[s \ {x}]]
<1>1. \A s \in SUBSET V : s # {} => (CHOOSE x \in s : TRUE) \in V
  OBVIOUS
<1>2. \A iter : A(iter) <=> B(iter)
  BY <1>1
<1>3. (CHOOSE iter : A(iter)) = (CHOOSE iter : B(iter))
  BY <1>2, Zenon
<1>4. Total(V, LAMBDA k : L.values[<<cell[1], k>>] * R.values[<<k, cell[2]>>]) = (CHOOSE iter : A(iter))[V]
  BY Zenon DEF Total, MapThenSumSet, MapThenFoldSet
<1>5. SumOf(f, V) = (CHOOSE iter : B(iter))[V]
  BY Zenon DEF SumOf
<1>6. Product(L, R)[cell] = Total(V, LAMBDA k : L.values[<<cell[1], k>>] * R.values[<<k, cell[2]>>])
  BY Zenon DEF Product
<1>7. QED
  BY <1>3, <1>4, <1>5, <1>6, Zenon

-----------------------------------------------------------------------------
(* The visits of a kernel: one for each pair of factors that both formats  *)
(* hold, whatever the positions at which they hold them.                   *)

\* The cells that a format has an entry for.
Held(format, d) == IF format = "MAT_DENSE" THEN Cells(d) ELSE NonZero(d)

\* Row, common index and column of each multiplication that two formats ask for.
Triples(l, L, r, R) ==
  {t \in Rows(L) \X Cols(L) \X Cols(R) : <<t[1], t[2]>> \in Held(l, L) /\ <<t[2], t[3]>> \in Held(r, R)}

VisitOf(t, p, q, L, R) == Visit(t[1], t[3], p[t], q[t], L.values[<<t[1], t[2]>>], R.values[<<t[2], t[3]>>])

\* V has one visit for each of the triples T, its factors at the positions p and q.
Visited(V, T, p, q, L, R) ==
  /\ V = {VisitOf(t, p, q, L, R) : t \in T}
  /\ \A t, u \in T : t[1] = u[1] /\ t[3] = u[3] /\ p[t] = p[u] /\ q[t] = q[u] => t = u

\* Operands of a product with the cells that their formats have entries for.
StoredOperands(P, L, Q, R) == Operands(L, R) /\ Stores(P, L) /\ Stores(Q, R)

LEMMA OwnOperands == ASSUME NEW L, NEW R, Operands(L, R) PROVE StoredOperands(L, L, R, R)
  BY OwnCells DEF StoredOperands, Operands

LEMMA StoredTriples ==
  ASSUME NEW P, NEW L, NEW Q, NEW R, StoredOperands(P, L, Q, R), NEW l, NEW r
  PROVE  /\ IsFiniteSet(Rows(L)) /\ IsFiniteSet(Cols(L)) /\ IsFiniteSet(Cols(R)) /\ Cols(L) = Rows(R)
         /\ IsFiniteSet(Triples(l, P, r, Q))
         /\ \A t \in Triples(l, P, r, Q) :
              /\ t[1] \in Rows(L) /\ t[2] \in Cols(L) /\ t[3] \in Cols(R) /\ t = <<t[1], t[2], t[3]>>
              /\ <<t[1], t[2]>> \in Held(l, P) /\ <<t[2], t[3]>> \in Held(r, Q)
         /\ \A row \in Rows(L), k \in Cols(L), col \in Cols(R) :
              /\ L.values[<<row, k>>] \in Int /\ R.values[<<k, col>>] \in Int
              /\ <<row, k, col>> \in Triples(l, P, r, Q) <=> <<row, k>> \in Held(l, P) /\ <<k, col>> \in Held(r, Q)
              /\ <<row, k>> \notin Held(l, P) => L.values[<<row, k>>] = 0
              /\ <<k, col>> \notin Held(r, Q) => R.values[<<k, col>>] = 0
<1>1. /\ L.row_count \in Nat /\ L.col_count \in Nat /\ R.col_count \in Nat /\ L.col_count = R.row_count
      /\ L.values \in [Cells(L) -> Int] /\ R.values \in [Cells(R) -> Int]
  BY DEF StoredOperands, Operands, IsDense
<1>2. IsFiniteSet(Rows(L)) /\ IsFiniteSet(Cols(L)) /\ IsFiniteSet(Cols(R))
  <2>1. L.row_count - 1 \in Int /\ L.col_count - 1 \in Int /\ R.col_count - 1 \in Int /\ 0 \in Int
    BY <1>1
  <2>2. IsFiniteSet(0 .. L.row_count - 1) /\ IsFiniteSet(0 .. L.col_count - 1) /\ IsFiniteSet(0 .. R.col_count - 1)
    BY <2>1, FS_Interval
  <2>3. QED
    BY <2>2 DEF Rows, Cols
<1>3. Cols(L) = Rows(R)
  BY <1>1 DEF Cols, Rows
<1>0. /\ Rows(P) = Rows(L) /\ Cols(P) = Cols(L) /\ Cells(P) = Cells(L) /\ Cols(Q) = Cols(R) /\ Cells(Q) = Cells(R)
      /\ NonZero(L) \subseteq NonZero(P) /\ NonZero(R) \subseteq NonZero(Q)
  BY StoresFacts DEF StoredOperands
<1>4. IsFiniteSet(Triples(l, P, r, Q))
  <2> DEFINE pair(t) == <<<<t[1], t[2]>>, t[3]>>
             A == (Rows(L) \X Cols(L)) \X Cols(R)
             m == [x \in A |-> <<x[1][1], x[1][2], x[2]>>]
  <2>1. IsFiniteSet(A)
    BY <1>2, FS_Product
  <2>2. m \in Surjection(A, Rows(L) \X Cols(L) \X Cols(R))
    <3>1. m \in [A -> Rows(L) \X Cols(L) \X Cols(R)]
      OBVIOUS
    <3>2. ASSUME NEW t \in Rows(L) \X Cols(L) \X Cols(R) PROVE \E x \in A : m[x] = t
      <4>1. pair(t) \in A /\ m[pair(t)] = t
        OBVIOUS
      <4>2. QED
        BY <4>1
    <3>3. QED
      BY <3>1, <3>2 DEF Surjection
  <2>3. IsFiniteSet(Rows(L) \X Cols(L) \X Cols(R))
    BY <2>1, <2>2, FS_Surjection
  <2>4. QED
    BY <1>0, <2>3, FS_Subset DEF Triples
<1>5. \A row \in Rows(L), k \in Cols(L), col \in Cols(R) :
              /\ L.values[<<row, k>>] \in Int /\ R.values[<<k, col>>] \in Int
              /\ <<row, k>> \notin Held(l, P) => L.values[<<row, k>>] = 0
              /\ <<k, col>> \notin Held(r, Q) => R.values[<<k, col>>] = 0
  BY <1>0, <1>1, <1>3 DEF Held, NonZero, Cells
<1>6. QED
  BY <1>0, <1>2, <1>3, <1>4, <1>5 DEF Triples

\* The factors at a row, a common index and a column: numbers, one of them zero where the formats hold no pair.
LEMMA StoredFactors ==
  ASSUME NEW P, NEW L, NEW Q, NEW R, StoredOperands(P, L, Q, R), NEW l, NEW r,
         NEW row \in Rows(L), NEW k \in Cols(L), NEW col \in Cols(R)
  PROVE  /\ L.values[<<row, k>>] \in Int /\ R.values[<<k, col>>] \in Int
         /\ <<row, k, col>> \notin Triples(l, P, r, Q) => L.values[<<row, k>>] = 0 \/ R.values[<<k, col>>] = 0
<1>1. /\ L.values \in [Cells(L) -> Int] /\ R.values \in [Cells(R) -> Int] /\ L.col_count = R.row_count
  BY DEF StoredOperands, Operands, IsDense
<1>2. /\ Rows(P) = Rows(L) /\ Cols(P) = Cols(L) /\ Cells(P) = Cells(L) /\ Cols(Q) = Cols(R) /\ Cells(Q) = Cells(R)
      /\ NonZero(L) \subseteq NonZero(P) /\ NonZero(R) \subseteq NonZero(Q)
  BY StoresFacts DEF StoredOperands
<1>3. <<row, k>> \in Cells(L) /\ <<k, col>> \in Cells(R)
  BY <1>1 DEF Cells, Rows, Cols
<1>4. L.values[<<row, k>>] \in Int /\ R.values[<<k, col>>] \in Int
  BY <1>1, <1>3
<1>5. /\ <<row, k>> \notin Held(l, P) => L.values[<<row, k>>] = 0
      /\ <<k, col>> \notin Held(r, Q) => R.values[<<k, col>>] = 0
  BY <1>2, <1>3 DEF Held, NonZero
<1>6. <<row, k>> \in Held(l, P) /\ <<k, col>> \in Held(r, Q) => <<row, k, col>> \in Triples(l, P, r, Q)
  BY <1>2 DEF Triples
<1>7. QED
  BY <1>4, <1>5, <1>6

LEMMA TripleFacts ==
  ASSUME NEW L, NEW R, Operands(L, R), NEW l, NEW r
  PROVE  /\ IsFiniteSet(Rows(L)) /\ IsFiniteSet(Cols(L)) /\ IsFiniteSet(Cols(R)) /\ Cols(L) = Rows(R)
         /\ IsFiniteSet(Triples(l, L, r, R))
         /\ \A t \in Triples(l, L, r, R) :
              /\ t[1] \in Rows(L) /\ t[2] \in Cols(L) /\ t[3] \in Cols(R) /\ t = <<t[1], t[2], t[3]>>
              /\ <<t[1], t[2]>> \in Held(l, L) /\ <<t[2], t[3]>> \in Held(r, R)
         /\ \A row \in Rows(L), k \in Cols(L), col \in Cols(R) :
              /\ L.values[<<row, k>>] \in Int /\ R.values[<<k, col>>] \in Int
              /\ <<row, k, col>> \in Triples(l, L, r, R) <=> <<row, k>> \in Held(l, L) /\ <<k, col>> \in Held(r, R)
              /\ <<row, k>> \notin Held(l, L) => L.values[<<row, k>>] = 0
              /\ <<k, col>> \notin Held(r, R) => R.values[<<k, col>>] = 0
<1>1. StoredOperands(L, L, R, R)
  BY OwnOperands
<1>2. QED
  BY <1>1, StoredTriples

LEMMA VisitsFinite ==
  ASSUME NEW T, IsFiniteSet(T), NEW V, NEW p, NEW q, NEW L, NEW R, Visited(V, T, p, q, L, R)
  PROVE  IsFiniteSet(V) /\ Cardinality(V) = Cardinality(T)
<1> DEFINE f == [t \in T |-> VisitOf(t, p, q, L, R)]
<1>1. f \in Surjection(T, V)
  <2>1. \A t \in T : f[t] \in V
    BY DEF Visited
  <2>2. \A v \in V : \E t \in T : f[t] = v
    BY DEF Visited
  <2>3. QED
    BY <2>1, <2>2 DEF Surjection
<1>2. f \in Injection(T, V)
  <2>1. ASSUME NEW t \in T, NEW u \in T, f[t] = f[u] PROVE t = u
    <3>1. VisitOf(t, p, q, L, R) = VisitOf(u, p, q, L, R)
      BY <2>1
    <3>2. /\ VisitOf(t, p, q, L, R).at = <<t[1], t[3]>> /\ VisitOf(t, p, q, L, R).from = <<p[t], q[t]>>
          /\ VisitOf(u, p, q, L, R).at = <<u[1], u[3]>> /\ VisitOf(u, p, q, L, R).from = <<p[u], q[u]>>
      BY DEF VisitOf, Visit
    <3>3. <<t[1], t[3]>> = <<u[1], u[3]>> /\ <<p[t], q[t]>> = <<p[u], q[u]>>
      BY <3>1, <3>2, Zenon
    <3>4. t[1] = u[1] /\ t[3] = u[3] /\ p[t] = p[u] /\ q[t] = q[u]
      BY <3>3
    <3>5. QED
      BY <3>4 DEF Visited
  <2>2. f \in [T -> V]
    BY <1>1 DEF Surjection
  <2> HIDE DEF f
  <2>3. QED
    BY <2>1, <2>2 DEF Injection, IsInjective
<1>3. QED
  BY <1>1, <1>2, FS_Surjection

\* What a list of visits adds to a cell.
AddedAt(V, cell) == Total({v \in V : v.at = cell}, LAMBDA v : v.product)

\* What the visits add to a cell is the element of the product.
LEMMA VisitsSum ==
  ASSUME NEW P, NEW L, NEW Q, NEW R, StoredOperands(P, L, Q, R), NEW l, NEW r, NEW T, T = Triples(l, P, r, Q),
         NEW V, NEW p, NEW q, Visited(V, T, p, q, L, R), NEW cell \in Rows(L) \X Cols(R)
  PROVE  AddedAt(V, cell) = Product(L, R)[cell]
<1> DEFINE triple(k) == <<cell[1], k, cell[2]>>
           W == {v \in V : v.at = cell}
           f == [v \in W |-> v.product]
           g == [k \in Cols(L) |-> L.values[<<cell[1], k>>] * R.values[<<k, cell[2]>>]]
           S == {k \in Cols(L) : triple(k) \in T}
           m == [k \in S |-> VisitOf(triple(k), p, q, L, R)]
<1>1. cell[1] \in Rows(L) /\ cell[2] \in Cols(R) /\ cell = <<cell[1], cell[2]>>
  OBVIOUS
<1>2. /\ IsFiniteSet(Cols(L)) /\ IsFiniteSet(T) /\ \A t \in T : t = <<t[1], t[2], t[3]>> /\ t[2] \in Cols(L)
      /\ \A row \in Rows(L), k \in Cols(L), col \in Cols(R) :
           /\ L.values[<<row, k>>] \in Int /\ R.values[<<k, col>>] \in Int
           /\ <<row, k, col>> \notin T => L.values[<<row, k>>] = 0 \/ R.values[<<k, col>>] = 0
  <2>1. IsFiniteSet(Cols(L)) /\ IsFiniteSet(T)
    BY StoredTriples, Zenon
  <2>0. Cols(P) = Cols(L)
    BY StoresFacts DEF StoredOperands
  <2>2. \A t \in T : t[2] \in Cols(L) /\ t = <<t[1], t[2], t[3]>>
    BY <2>0 DEF Triples
  <2>3. \A row \in Rows(L), k \in Cols(L), col \in Cols(R) :
           /\ L.values[<<row, k>>] \in Int /\ R.values[<<k, col>>] \in Int
           /\ <<row, k, col>> \notin T => L.values[<<row, k>>] = 0 \/ R.values[<<k, col>>] = 0
    <3> SUFFICES ASSUME NEW row \in Rows(L), NEW k \in Cols(L), NEW col \in Cols(R)
                 PROVE  /\ L.values[<<row, k>>] \in Int /\ R.values[<<k, col>>] \in Int
                        /\ <<row, k, col>> \notin T => L.values[<<row, k>>] = 0 \/ R.values[<<k, col>>] = 0
      OBVIOUS
    <3>1. /\ L.values[<<row, k>>] \in Int /\ R.values[<<k, col>>] \in Int
          /\ <<row, k, col>> \notin Triples(l, P, r, Q) => L.values[<<row, k>>] = 0 \/ R.values[<<k, col>>] = 0
      BY StoredFactors
    <3>2. QED
      BY <3>1
  <2>4. QED
    BY <2>1, <2>2, <2>3
<1>0. ASSUME NEW k \in Cols(L) PROVE g[k] \in Int /\ (k \notin S => g[k] = 0)
  <2>0. PICK a : a = L.values[<<cell[1], k>>]
    OBVIOUS
  <2>1. PICK b : b = R.values[<<k, cell[2]>>]
    OBVIOUS
  <2>2. a \in Int /\ b \in Int /\ (triple(k) \notin T => a = 0 \/ b = 0)
    BY <1>1, <1>2, <2>0, <2>1
  <2>3. g[k] = a * b
    BY <2>0, <2>1
  <2> HIDE DEF g
  <2>4. QED
    BY <2>2, <2>3
<1>20. Summable(g, Cols(L)) /\ Summable(g, S)
  <2>1. IsFiniteSet(Cols(L)) /\ IsFiniteSet(S) /\ S \in SUBSET Cols(L)
    BY <1>2, FS_Subset
  <2> HIDE DEF g, S
  <2>2. QED
    BY <1>0, <2>1 DEF Summable
<1>3. SumOf(g, S) = SumOf(g, Cols(L))
  <2> DEFINE id == [k \in S |-> k]
  <2>2. Matches(id, g, S, g, Cols(L))
    <3> HIDE DEF g
    <3>1. QED
      BY <1>0 DEF Matches
  <2> HIDE DEF id, g, S
  <2>3. QED
    BY <1>20, <2>2, SumMatched
<1>4. ASSUME NEW k \in S
      PROVE  /\ m[k] \in W /\ m[k].product = g[k] /\ m[k].at = cell /\ m[k].from = <<p[triple(k)], q[triple(k)]>>
  <2>1. triple(k) \in T /\ triple(k)[1] = cell[1] /\ triple(k)[2] = k /\ triple(k)[3] = cell[2]
    OBVIOUS
  <2>2. m[k] = [at |-> cell, from |-> <<p[triple(k)], q[triple(k)]>>, product |-> g[k]]
    BY <1>1, <2>1 DEF VisitOf, Visit
  <2>3. m[k] \in V
    BY <2>1 DEF Visited
  <2> HIDE DEF m, g
  <2>4. QED
    BY <2>2, <2>3
<1>5. ASSUME NEW v \in W PROVE \E k \in S : m[k] = v
  <2>1. PICK t \in T : v = VisitOf(t, p, q, L, R)
    BY DEF Visited
  <2>2. t = <<t[1], t[2], t[3]>> /\ t[2] \in Cols(L)
    BY <1>2, <2>1
  <2>3. <<t[1], t[3]>> = cell
    BY <2>1 DEF VisitOf, Visit
  <2>4. t = triple(t[2])
    BY <2>2, <2>3
  <2>5. t[2] \in S /\ m[t[2]] = v
    BY <2>1, <2>2, <2>4
  <2>6. QED
    BY <2>5
<1>6. \A j, k \in S : m[j] = m[k] => j = k
  <2> SUFFICES ASSUME NEW j \in S, NEW k \in S, m[j] = m[k] PROVE j = k
    OBVIOUS
  <2>1. p[triple(j)] = p[triple(k)] /\ q[triple(j)] = q[triple(k)]
    <3>1. m[j].from = <<p[triple(j)], q[triple(j)]>> /\ m[k].from = <<p[triple(k)], q[triple(k)]>>
      BY <1>4
    <3> HIDE DEF m
    <3>2. <<p[triple(j)], q[triple(j)]>> = <<p[triple(k)], q[triple(k)]>>
      BY <3>1
    <3>3. QED
      BY <3>2
  <2>2. triple(j) = triple(k)
    BY <2>1 DEF Visited
  <2>3. QED
    BY <2>2
<1>7. Summable(f, W)
  <2>1. IsFiniteSet(V)
    BY <1>2, VisitsFinite
  <2>2. IsFiniteSet(W)
    BY <2>1, FS_Subset
  <2>3. \A v \in W : f[v] \in Int
    <3> SUFFICES ASSUME NEW v \in W PROVE v.product \in Int
      OBVIOUS
    <3>1. PICK k \in S : m[k] = v
      BY <1>5
    <3>2. v.product = g[k]
      BY <1>4, <3>1
    <3>3. QED
      BY <1>20, <3>2 DEF Summable
  <2>4. QED
    BY <2>2, <2>3 DEF Summable
<1>8. SumOf(g, S) = SumOf(f, W)
  <2>1. \A k \in S : m[k] \in W /\ g[k] = f[m[k]]
    <3> HIDE DEF m, g
    <3>1. QED
      BY <1>4
  <2> HIDE DEF m, g, S, W, f
  <2>2. Matches(m, g, S, f, W)
    BY <1>5, <1>6, <2>1 DEF Matches
  <2>3. QED
    BY <1>20, <1>7, <2>2, SumMatched
<1>9. Product(L, R)[cell] = SumOf(g, Cols(L))
  <2>1. \A k \in Cols(L) : g[k] = L.values[<<cell[1], k>>] * R.values[<<k, cell[2]>>]
    OBVIOUS
  <2> HIDE DEF g
  <2>2. QED
    BY <2>1, ProductOfCell
<1>10. Total(W, LAMBDA v : v.product) = SumOf(f, W)
  <2>1. \A v \in W : f[v] = v.product
    OBVIOUS
  <2> HIDE DEF W, f
  <2>2. QED
    BY <2>1, TotalOfProducts
<1>11. AddedAt(V, cell) = Total(W, LAMBDA v : v.product)
  BY DEF AddedAt
<1>12. QED
  BY <1>3, <1>8, <1>9, <1>10, <1>11


\* f[k] is the number of pairs of the entries that the left matrix has in column k
\* and those that the right one has in row k.
CountsPairs(f, l, L, r, R) ==
  \A k \in Cols(L) : f[k] = Cardinality({row \in Rows(L) : <<row, k>> \in Held(l, L)})
                            * Cardinality({col \in Cols(R) : <<k, col>> \in Held(r, R)})

\* How many visits there are: as many as the factors of each index that meet.
LEMMA TriplesCount ==
  ASSUME NEW L, NEW R, Operands(L, R), NEW l, NEW r, NEW T, T = Triples(l, L, r, R),
         NEW f, CountsPairs(f, l, L, r, R)
  PROVE  Cardinality(T) = SumOf(f, Cols(L))
<1> DEFINE key == [t \in T |-> t[2]]
<1>1. IsFiniteSet(Rows(L)) /\ IsFiniteSet(Cols(L)) /\ IsFiniteSet(Cols(R)) /\ IsFiniteSet(T)
  BY TripleFacts, Zenon
<1>2. \A t \in T : key[t] \in Cols(L)
  BY DEF Triples
<1>3. ASSUME NEW k \in Cols(L) PROVE f[k] = Cardinality({t \in T : key[t] = k})
  <2> DEFINE A == {row \in Rows(L) : <<row, k>> \in Held(l, L)}
             B == {col \in Cols(R) : <<k, col>> \in Held(r, R)}
             C == {t \in T : key[t] = k}
             m == [x \in A \X B |-> <<x[1], k, x[2]>>]
  <2>1. IsFiniteSet(A) /\ IsFiniteSet(B)
    BY <1>1, FS_Subset
  <2>2. m \in Surjection(A \X B, C) /\ m \in Injection(A \X B, C)
    <3>1. \A x \in A \X B : x[1] \in A /\ x[2] \in B /\ x = <<x[1], x[2]>>
      OBVIOUS
    <3>2. \A row \in A, col \in B : <<row, k, col>> \in C
      BY DEF Triples
    <3>3. \A t \in C : t[1] \in A /\ t[3] \in B /\ t = <<t[1], k, t[3]>>
      BY DEF Triples
    <3> HIDE DEF A, B, C
    <3>4. m \in [A \X B -> C]
      BY <3>1, <3>2
    <3>5. ASSUME NEW t \in C PROVE \E x \in A \X B : m[x] = t
      <4>1. <<t[1], t[3]>> \in A \X B /\ m[<<t[1], t[3]>>] = t
        BY <3>3
      <4>2. QED
        BY <4>1
    <3>6. \A x, y \in A \X B : m[x] = m[y] => x = y
      BY <3>1
    <3>7. QED
      BY <3>4, <3>5, <3>6 DEF Surjection, Injection, IsInjective
  <2>3. IsFiniteSet(A \X B) /\ Cardinality(A \X B) = Cardinality(A) * Cardinality(B)
    BY <2>1, FS_Product
  <2> HIDE DEF A, B, C, m
  <2>4. Cardinality(C) = Cardinality(A \X B)
    BY <2>2, <2>3, FS_Surjection
  <2>5. f[k] = Cardinality(A) * Cardinality(B)
    BY DEF A, B, CountsPairs
  <2>6. QED
    BY <2>3, <2>4, <2>5 DEF C
<1> HIDE DEF key
<1>4. CountsKeys(f, Cols(L), T, key)
  BY <1>2, <1>3 DEF CountsKeys
<1>5. QED
  BY <1>1, <1>4, CountByKey

-----------------------------------------------------------------------------
(* Where a format has its entries: at[x] is the position of the cell x.    *)

\* Different cells are at different positions.
Apart(d, at) == \A x, y \in NonZero(d) : at[x] = at[y] => x = y

CsrHolds(m, p, d, at) ==
  /\ Apart(p, at)
  /\ m.row_count = d.row_count
  /\ \A r, c : <<r, c>> \in NonZero(p) =>
       /\ at[<<r, c>>] \in RowSegment(m, r)
       /\ m.entries[at[<<r, c>>]].index = c /\ m.entries[at[<<r, c>>]].value = d.values[<<r, c>>]
  /\ \A r \in Rows(d) : \A i \in RowSegment(m, r) :
       <<r, m.entries[i].index>> \in NonZero(p) /\ at[<<r, m.entries[i].index>>] = i

CscHolds(m, p, d, at) ==
  /\ Apart(p, at)
  /\ m.col_count = d.col_count
  /\ \A r, c : <<r, c>> \in NonZero(p) =>
       /\ at[<<r, c>>] \in ColSegment(m, c)
       /\ m.entries[at[<<r, c>>]].index = r /\ m.entries[at[<<r, c>>]].value = d.values[<<r, c>>]
  /\ \A c \in Cols(d) : \A i \in ColSegment(m, c) :
       <<m.entries[i].index, c>> \in NonZero(p) /\ at[<<m.entries[i].index, c>>] = i

\* The cells of row r start at first[r].
CooHolds(m, p, d, at, first) ==
  /\ Apart(p, at)
  /\ \A r, c : <<r, c>> \in NonZero(p) =>
       /\ at[<<r, c>>] \in DOMAIN m
       /\ m[at[<<r, c>>]].row = r /\ m[at[<<r, c>>]].col = c /\ m[at[<<r, c>>]].value = d.values[<<r, c>>]
       /\ first[r] \in SegmentStarts(m) /\ at[<<r, c>>] \in Segment(m, first[r]) /\ m[first[r]].row = r
  /\ \A i \in DOMAIN m : <<m[i].row, m[i].col>> \in NonZero(p) /\ at[<<m[i].row, m[i].col>>] = i
  /\ \A f \in SegmentStarts(m) : \A i \in Segment(m, f) : i \in DOMAIN m /\ m[i].row = m[f].row /\ f = first[m[f].row]

\* The n places of s have the elements of S, once each; at[x] is the place of x.
Enumerates(S, n, s) ==
  /\ n \in Nat /\ s \in [1 .. n -> S]
  /\ \A x \in S : \E i \in 1 .. n : s[i] = x
  /\ \A i, j \in 1 .. n : s[i] = s[j] => i = j

Places(S, n, s, at) == (\A x \in S : at[x] \in 1 .. n /\ s[at[x]] = x) /\ (\A i \in 1 .. n : at[s[i]] = i)

LEMMA PlaceIn == ASSUME NEW S, NEW n, NEW s, Enumerates(S, n, s) PROVE \E at : Places(S, n, s, at)
<1> DEFINE at == [x \in S |-> CHOOSE i \in 1 .. n : s[i] = x]
<1>1. \A x \in S : at[x] \in 1 .. n /\ s[at[x]] = x
  BY DEF Enumerates
<1> HIDE DEF at
<1>2. \A i \in 1 .. n : at[s[i]] = i
  BY <1>1 DEF Enumerates
<1>3. Places(S, n, s, at)
  BY <1>1, <1>2 DEF Places
<1>4. QED
  BY <1>3

\* Entries whose cells are those of s, in segments that are the rows.
LEMMA CsrPlaced ==
  ASSUME NEW p, NEW d, Stores(p, d), NEW n, NEW s, Enumerates(NonZero(p), n, s), NEW m, m.row_count = d.row_count,
         \A i \in 1 .. n : m.entries[i].index = s[i][2] /\ m.entries[i].value = d.values[s[i]],
         \A r \in Rows(d) : RowSegment(m, r) = {i \in 1 .. n : s[i][1] = r}
  PROVE  \E at : CsrHolds(m, p, d, at)
<1>1. s \in [1 .. n -> NonZero(p)]
  BY DEF Enumerates
<1>2. \A x \in NonZero(p) : x = <<x[1], x[2]>> /\ x[1] \in Rows(d)
  BY StoresFacts, CellFacts
<1>3. PICK at : Places(NonZero(p), n, s, at)
  BY PlaceIn
<1>4. /\ \A x \in NonZero(p) : at[x] \in 1 .. n /\ s[at[x]] = x
      /\ \A i \in 1 .. n : at[s[i]] = i
  BY <1>3 DEF Places
<1>5. ASSUME NEW x \in NonZero(p)
      PROVE  at[x] \in RowSegment(m, x[1]) /\ m.entries[at[x]].index = x[2] /\ m.entries[at[x]].value = d.values[x]
  BY <1>2, <1>4
<1>6. ASSUME NEW r \in Rows(d), NEW i \in RowSegment(m, r)
      PROVE  <<r, m.entries[i].index>> \in NonZero(p) /\ at[<<r, m.entries[i].index>>] = i
  <2>1. i \in 1 .. n /\ s[i][1] = r /\ m.entries[i].index = s[i][2] /\ s[i] \in NonZero(p)
    BY <1>1
  <2>2. s[i] = <<r, m.entries[i].index>>
    BY <1>2, <2>1
  <2>3. QED
    BY <1>4, <2>1, <2>2
<1>7. \A r, c : <<r, c>>[1] = r /\ <<r, c>>[2] = c
  OBVIOUS
<1>8. Apart(p, at)
  BY <1>4 DEF Apart
<1>9. CsrHolds(m, p, d, at)
  BY <1>5, <1>6, <1>7, <1>8 DEF CsrHolds
<1>10. QED
  BY <1>9

LEMMA CsrLayout == ASSUME NEW p, NEW d, Stores(p, d), NEW m, m = StoredCsr(p, d) PROVE \E at : CsrHolds(m, p, d, at)
<1>1. PICK n, s : n = Cardinality(NonZero(p)) /\ s = RowScan(p)
  OBVIOUS
<1>2. /\ m.row_count = d.row_count
      /\ \A i \in 1 .. n : m.entries[i].index = s[i][2] /\ m.entries[i].value = d.values[s[i]]
      /\ \A r \in Rows(d) : RowSegment(m, r) = {i \in 1 .. n : s[i][1] = r}
  BY <1>1, StoredCsrFacts
<1>3. IsDense(p)
  BY StoresFacts
<1>4. Enumerates(NonZero(p), n, s)
  BY <1>1, <1>3, RowScanned DEF Enumerates
<1>5. QED
  BY <1>2, <1>4, CsrPlaced

LEMMA CscLayout == ASSUME NEW p, NEW d, Stores(p, d), NEW m, m = StoredCsc(p, d) PROVE \E at : CscHolds(m, p, d, at)
<1> DEFINE n == Cardinality(NonZero(p))
           s == ColScan(p)
<1>1. /\ m.col_count = d.col_count
      /\ \A i \in 1 .. n : m.entries[i].index = s[i][1] /\ m.entries[i].value = d.values[s[i]]
      /\ \A c \in Cols(d) : ColSegment(m, c) = {i \in 1 .. n : s[i][2] = c}
  BY StoredCscFacts
<1>20. IsDense(p)
  BY StoresFacts
<1>2. Enumerates(NonZero(p), n, s) /\ s \in [1 .. n -> NonZero(p)]
  BY <1>20, ColScanned DEF Enumerates
<1>3. \A x \in NonZero(p) : x = <<x[1], x[2]>> /\ x[2] \in Cols(d)
  BY StoresFacts, CellFacts
<1> HIDE DEF n, s
<1>40. PICK at : Places(NonZero(p), n, s, at)
  BY <1>2, PlaceIn
<1>4. /\ \A x \in NonZero(p) : at[x] \in 1 .. n /\ s[at[x]] = x
      /\ \A i \in 1 .. n : at[s[i]] = i
  BY <1>40 DEF Places
<1>5. ASSUME NEW x \in NonZero(p)
      PROVE  at[x] \in ColSegment(m, x[2]) /\ m.entries[at[x]].index = x[1] /\ m.entries[at[x]].value = d.values[x]
  BY <1>1, <1>3, <1>4
<1>6. ASSUME NEW c \in Cols(d), NEW i \in ColSegment(m, c)
      PROVE  <<m.entries[i].index, c>> \in NonZero(p) /\ at[<<m.entries[i].index, c>>] = i
  <2>1. i \in 1 .. n /\ s[i][2] = c /\ m.entries[i].index = s[i][1] /\ s[i] \in NonZero(p)
    BY <1>1, <1>2
  <2>2. s[i] = <<m.entries[i].index, c>>
    BY <1>3, <2>1
  <2>3. QED
    BY <1>4, <2>1, <2>2
<1>7. \A r, c : <<r, c>>[1] = r /\ <<r, c>>[2] = c
  OBVIOUS
<1>8. Apart(p, at)
  BY <1>4 DEF Apart
<1>9. CscHolds(m, p, d, at)
  BY <1>1, <1>5, <1>6, <1>7, <1>8 DEF CscHolds
<1>10. QED
  BY <1>9


\* A coordinate list of n entries whose rows do not descend.
RowsAscend(m, n) ==
  /\ n \in Nat /\ DOMAIN m = 1 .. n /\ Len(m) = n
  /\ \A i \in 1 .. n : m[i].row \in Int
  /\ \A i, j \in 1 .. n : i <= j => m[i].row <= m[j].row

\* A segment ends where its row does.
LEMMA SegmentEndIs ==
  ASSUME NEW m, NEW n, RowsAscend(m, n), NEW p \in 1 .. n
  PROVE  SegmentEnd(m, p) \in p + 1 .. n + 1 /\ \A q \in p .. n : m[q].row = m[p].row <=> q < SegmentEnd(m, p)
<1> DEFINE others == {q \in p + 1 .. n : m[q].row # m[p].row}
<1>1. n \in Nat /\ p \in Nat /\ Len(m) = n
  BY DEF RowsAscend
<1>2. SegmentEnd(m, p) = IF others = {} THEN n + 1 ELSE Min(others)
  BY <1>1 DEF SegmentEnd
<1>3. CASE others = {}
  <2>1. SegmentEnd(m, p) = n + 1
    BY <1>2, <1>3
  <2>2. ASSUME NEW q \in p .. n PROVE m[q].row = m[p].row
    BY <1>1, <1>3
  <2>3. QED
    BY <1>1, <2>1, <2>2
<1>4. CASE others # {}
  <2>1. PICK e \in others : \A y \in others : e <= y
    <3>1. others \subseteq Nat
      BY <1>1
    <3> HIDE DEF others
    <3>2. QED
      BY <1>4, <3>1, LeastNumber
  <2>2. e \in p + 1 .. n /\ m[e].row # m[p].row
    BY <2>1
  <2>3. SegmentEnd(m, p) = e
    <3>1. Min(others) \in others /\ \A y \in others : Min(others) <= y
      <4>1. \E x \in others : \A y \in others : x =< y
        BY <2>1
      <4> HIDE DEF others
      <4>2. QED
        BY <4>1, Zenon DEF Min
    <3>2. Min(others) <= e /\ e <= Min(others) /\ Min(others) \in Int
      BY <1>1, <2>1, <3>1
    <3>3. Min(others) = e
      BY <1>1, <2>2, <3>2
    <3>4. QED
      BY <1>2, <1>4, <3>3
  <2>4. ASSUME NEW q \in p .. n PROVE m[q].row = m[p].row <=> q < e
    <3>1. q \in 1 .. n /\ e \in 1 .. n
      BY <1>1, <2>2
    <3>2. ASSUME q < e PROVE m[q].row = m[p].row
      <4>1. q = p \/ q \in p + 1 .. n
        BY <1>1
      <4>2. q \notin others
        BY <1>1, <2>1, <2>2, <3>2
      <4>3. QED
        BY <4>1, <4>2
    <3>3. ASSUME ~(q < e) PROVE m[q].row # m[p].row
      <4>1. m[p].row <= m[e].row /\ m[e].row <= m[q].row
        BY <1>1, <2>2, <3>1, <3>3 DEF RowsAscend
      <4>2. m[p].row \in Int /\ m[e].row \in Int /\ m[q].row \in Int
        BY <3>1 DEF RowsAscend
      <4>3. QED
        BY <2>2, <4>1, <4>2
    <3>4. QED
      BY <3>2, <3>3
  <2>5. QED
    BY <1>1, <2>2, <2>3, <2>4
<1>5. QED
  BY <1>3, <1>4

\* A segment is a row.
LEMMA SegmentIs ==
  ASSUME NEW m, NEW n, RowsAscend(m, n), NEW p \in SegmentStarts(m)
  PROVE  /\ p \in 1 .. n
         /\ Segment(m, p) = {i \in 1 .. n : m[i].row = m[p].row}
<1>1. n \in Nat /\ p \in 1 .. n /\ (p = 1 \/ m[p - 1].row # m[p].row)
  BY DEF RowsAscend, SegmentStarts
<1>2. PICK e : e = SegmentEnd(m, p)
  OBVIOUS
<1>3. e \in p + 1 .. n + 1 /\ \A q \in p .. n : m[q].row = m[p].row <=> q < e
  BY <1>1, <1>2, SegmentEndIs
<1>4. ASSUME NEW i \in 1 .. n, i < p PROVE m[i].row # m[p].row
  <2>1. p - 1 \in 1 .. n /\ m[p - 1].row # m[p].row /\ i <= p - 1 /\ p - 1 <= p
    BY <1>1, <1>4
  <2>2. m[i].row <= m[p - 1].row /\ m[p - 1].row <= m[p].row
    BY <1>1, <2>1 DEF RowsAscend
  <2>3. m[i].row \in Int /\ m[p - 1].row \in Int /\ m[p].row \in Int
    BY <1>1, <2>1 DEF RowsAscend
  <2>4. QED
    BY <2>1, <2>2, <2>3
<1>5. Segment(m, p) = p .. e - 1
  BY <1>2 DEF Segment
<1>6. \A i \in p .. e - 1 : i \in 1 .. n /\ m[i].row = m[p].row
  BY <1>1, <1>3
<1>7. \A i \in 1 .. n : m[i].row = m[p].row => i \in p .. e - 1
  <2> SUFFICES ASSUME NEW i \in 1 .. n, m[i].row = m[p].row PROVE i \in p .. e - 1
    OBVIOUS
  <2>1. p <= i
    BY <1>1, <1>4
  <2>2. i \in p .. n
    BY <1>1, <2>1
  <2>3. i < e
    BY <1>3, <2>2
  <2>4. QED
    BY <1>1, <1>3, <2>2, <2>3
<1>8. QED
  BY <1>1, <1>5, <1>6, <1>7

\* Every entry is in the segment of its row, and in no other.
LEMMA SegmentOf ==
  ASSUME NEW m, NEW n, RowsAscend(m, n), NEW i \in 1 .. n
  PROVE  \E p \in SegmentStarts(m) : /\ m[p].row = m[i].row
                                     /\ \A q \in SegmentStarts(m) : m[q].row = m[i].row => q = p
<1> DEFINE same == {j \in 1 .. n : m[j].row = m[i].row}
<1>1. n \in Nat /\ DOMAIN m = 1 .. n
  BY DEF RowsAscend
<1>2. PICK p \in same : \A j \in same : p <= j
  <2>1. same \subseteq Nat /\ same # {}
    BY <1>1
  <2> HIDE DEF same
  <2>2. QED
    BY <2>1, LeastNumber
<1>3. p \in SegmentStarts(m) /\ m[p].row = m[i].row
  <2>1. p \in 1 .. n /\ m[p].row = m[i].row
    BY <1>2
  <2>2. CASE p = 1
    BY <1>1, <2>1, <2>2 DEF SegmentStarts
  <2>3. CASE p # 1
    <3>1. p - 1 \in 1 .. n /\ ~(p <= p - 1)
      BY <1>1, <2>1, <2>3
    <3>2. p - 1 \notin same
      BY <1>2, <3>1
    <3>3. m[p - 1].row # m[p].row
      BY <2>1, <3>1, <3>2
    <3>4. QED
      BY <1>1, <2>1, <3>3 DEF SegmentStarts
  <2>4. QED
    BY <2>2, <2>3
<1>4. ASSUME NEW q \in SegmentStarts(m), m[q].row = m[i].row PROVE q = p
  <2>1. p \in 1 .. n /\ q \in 1 .. n /\ m[p].row = m[q].row
    BY <1>1, <1>2, <1>4 DEF SegmentStarts
  <2>2. p \in Segment(m, q) /\ q \in Segment(m, p)
    BY <1>3, <2>1, SegmentIs
  <2>3. QED
    BY <2>1, <2>2 DEF Segment
<1>5. QED
  BY <1>3, <1>4

LEMMA StoredCooFacts ==
  ASSUME NEW p, NEW d, Stores(p, d), NEW m, m = StoredCoo(p, d), NEW n, n = Cardinality(NonZero(p)), NEW s, s = RowScan(p)
  PROVE  /\ RowsAscend(m, n)
         /\ \A i \in 1 .. n : /\ s[i] \in NonZero(p) /\ m[i].row = s[i][1] /\ m[i].col = s[i][2]
                            /\ m[i].value = d.values[s[i]] /\ m[i].col \in Int
         /\ \A i, j \in 1 .. n : i < j /\ m[i].row = m[j].row => m[i].col < m[j].col
<1>1. /\ n \in Nat /\ s \in [1 .. n -> NonZero(p)] /\ DOMAIN s = 1 .. n
      /\ \A i, j \in 1 .. n : RowsFirst(s[i], s[j]) <=> i < j
  <2>1. IsDense(p)
    BY StoresFacts
  <2>2. QED
    BY <2>1, RowScanned
<1>2. m = [i \in 1 .. n |-> [row |-> s[i][1], col |-> s[i][2], value |-> d.values[s[i]]]]
  BY <1>1 DEF StoredCoo
<1>3. \A x \in NonZero(p) : x[1] \in Int /\ x[2] \in Int
  BY StoresFacts, CellFacts
<1>4. DOMAIN m = 1 .. n /\ Len(m) = n
  BY <1>1, <1>2
<1>5. \A i \in 1 .. n : /\ s[i] \in NonZero(p) /\ m[i].row = s[i][1] /\ m[i].col = s[i][2] /\ m[i].value = d.values[s[i]]
                       /\ m[i].row \in Int /\ m[i].col \in Int
  BY <1>1, <1>2, <1>3
<1>6. \A i, j \in 1 .. n : i < j => m[i].row < m[j].row \/ (m[i].row = m[j].row /\ m[i].col < m[j].col)
  BY <1>1, <1>5 DEF RowsFirst
<1>7. \A i, j \in 1 .. n : i <= j => m[i].row <= m[j].row
  <2> SUFFICES ASSUME NEW i \in 1 .. n, NEW j \in 1 .. n, i <= j PROVE m[i].row <= m[j].row
    OBVIOUS
  <2>1. i = j \/ i < j
    BY <1>1
  <2>2. QED
    BY <1>5, <1>6, <2>1
<1>8. RowsAscend(m, n)
  BY <1>1, <1>4, <1>5, <1>7 DEF RowsAscend
<1>9. \A i, j \in 1 .. n : i < j /\ m[i].row = m[j].row => m[i].col < m[j].col
  BY <1>5, <1>6
<1>10. QED
  BY <1>5, <1>8, <1>9

\* A list of entries by rows whose cells are those of s.
LEMMA CooPlaced ==
  ASSUME NEW p, NEW d, Stores(p, d), NEW n, NEW s, Enumerates(NonZero(p), n, s), NEW m, RowsAscend(m, n),
         \A i \in 1 .. n : m[i].row = s[i][1] /\ m[i].col = s[i][2] /\ m[i].value = d.values[s[i]]
  PROVE  \E at, first : CooHolds(m, p, d, at, first)
<1> DEFINE first == [r \in Rows(d) |-> CHOOSE f \in SegmentStarts(m) : m[f].row = r]
<1>1. \A i \in 1 .. n : s[i] \in NonZero(p) /\ m[i].row = s[i][1] /\ m[i].col = s[i][2] /\ m[i].value = d.values[s[i]]
  BY DEF Enumerates
<1>2. \A x \in NonZero(p) : x = <<x[1], x[2]>> /\ x[1] \in Rows(d)
  BY StoresFacts, CellFacts
<1>3. n \in Nat /\ DOMAIN m = 1 .. n
  BY DEF RowsAscend
<1>4. PICK at : Places(NonZero(p), n, s, at)
  BY PlaceIn
<1>5. /\ \A x \in NonZero(p) : at[x] \in 1 .. n /\ s[at[x]] = x
      /\ \A i \in 1 .. n : at[s[i]] = i
  BY <1>4 DEF Places
<1>6. ASSUME NEW i \in 1 .. n
      PROVE  first[m[i].row] \in SegmentStarts(m) /\ m[first[m[i].row]].row = m[i].row
  <2>1. PICK f \in SegmentStarts(m) : m[f].row = m[i].row
    BY <1>1, SegmentOf
  <2>2. m[i].row \in Rows(d)
    BY <1>1, <1>2
  <2>3. QED
    BY <2>1, <2>2
<1>7. ASSUME NEW f \in SegmentStarts(m), NEW i \in Segment(m, f)
      PROVE  i \in DOMAIN m /\ m[i].row = m[f].row /\ f = first[m[f].row]
  <2>1. f \in 1 .. n /\ i \in 1 .. n /\ m[i].row = m[f].row
    BY <1>1, SegmentIs
  <2>2. first[m[f].row] \in SegmentStarts(m) /\ m[first[m[f].row]].row = m[f].row
    BY <1>6, <2>1
  <2> HIDE DEF first
  <2>3. f = first[m[f].row]
    <3>1. PICK g : \A h \in SegmentStarts(m) : m[h].row = m[f].row => h = g
      BY <2>1, SegmentOf
    <3>2. QED
      BY <2>2, <3>1
  <2>4. QED
    BY <1>3, <2>1, <2>3
<1>8. ASSUME NEW x \in NonZero(p)
      PROVE  /\ at[x] \in DOMAIN m /\ m[at[x]].row = x[1] /\ m[at[x]].col = x[2] /\ m[at[x]].value = d.values[x]
             /\ first[x[1]] \in SegmentStarts(m) /\ at[x] \in Segment(m, first[x[1]]) /\ m[first[x[1]]].row = x[1]
  <2>1. at[x] \in 1 .. n /\ m[at[x]].row = x[1] /\ m[at[x]].col = x[2] /\ m[at[x]].value = d.values[x]
    BY <1>1, <1>5
  <2>2. first[x[1]] \in SegmentStarts(m) /\ m[first[x[1]]].row = x[1]
    BY <1>6, <2>1
  <2> HIDE DEF first
  <2>3. at[x] \in Segment(m, first[x[1]])
    BY <1>1, <2>1, <2>2, SegmentIs
  <2>4. QED
    BY <1>3, <2>1, <2>2, <2>3
<1>9. ASSUME NEW i \in DOMAIN m PROVE <<m[i].row, m[i].col>> \in NonZero(p) /\ at[<<m[i].row, m[i].col>>] = i
  <2>1. s[i] = <<m[i].row, m[i].col>> /\ s[i] \in NonZero(p) /\ at[s[i]] = i
    BY <1>1, <1>2, <1>3, <1>5
  <2>2. QED
    BY <2>1
<1>10. \A r, c : <<r, c>>[1] = r /\ <<r, c>>[2] = c
  OBVIOUS
<1> HIDE DEF first
<1>11. Apart(p, at)
  BY <1>5 DEF Apart
<1>12. CooHolds(m, p, d, at, first)
  BY <1>7, <1>8, <1>9, <1>10, <1>11 DEF CooHolds
<1>13. QED
  BY <1>12


LEMMA CooLayout == ASSUME NEW p, NEW d, Stores(p, d), NEW m, m = StoredCoo(p, d) PROVE \E at, first : CooHolds(m, p, d, at, first)
<1>1. PICK n, s : n = Cardinality(NonZero(p)) /\ s = RowScan(p)
  OBVIOUS
<1>2. /\ RowsAscend(m, n)
      /\ \A i \in 1 .. n : m[i].row = s[i][1] /\ m[i].col = s[i][2] /\ m[i].value = d.values[s[i]]
  BY <1>1, StoredCooFacts
<1>3. IsDense(p)
  BY StoresFacts
<1>4. Enumerates(NonZero(p), n, s)
  BY <1>1, <1>3, RowScanned DEF Enumerates
<1>5. QED
  BY <1>2, <1>4, CooPlaced


-----------------------------------------------------------------------------
(* Two cursors over ascending indices meet every pair of equal ones.       *)

LEMMA MinOfTwo == ASSUME NEW x \in Int, NEW y \in Int PROVE Min({x, y}) = IF x <= y THEN x ELSE y
<1> DEFINE least == IF x <= y THEN x ELSE y
<1>1. least \in {x, y} /\ \A z \in {x, y} : least =< z
  OBVIOUS
<1>2. \A u \in {x, y} : (\A z \in {x, y} : u =< z) => u = least
  OBVIOUS
<1> HIDE DEF least
<1>3. Min({x, y}) \in {x, y} /\ \A z \in {x, y} : Min({x, y}) =< z
  BY <1>1, Zenon DEF Min
<1>4. Min({x, y}) = least
  BY <1>2, <1>3
<1>5. QED
  BY <1>4 DEF least

\* What Merge is told: the left indices ascend, the right ones do not descend,
\* and run_end[j] is where the run of right[j] ends.
Climbs(left, a, a_end) ==
  /\ a \in Int /\ a_end \in Int /\ a <= a_end
  /\ \A i \in a .. a_end - 1 : left[i] \in Int
  /\ \A i, j \in a .. a_end - 1 : i < j => left[i] < left[j]

InRuns(right, b, b_end, run_end) ==
  /\ b \in Int /\ b_end \in Int /\ b <= b_end
  /\ \A i \in b .. b_end - 1 : right[i] \in Int
  /\ \A i, j \in b .. b_end - 1 : i <= j => right[i] <= right[j]
  /\ \A i \in b .. b_end - 1 : /\ run_end[i] \in i + 1 .. b_end
                              /\ \A j \in i .. b_end - 1 : right[j] = right[i] <=> j < run_end[i]

Mergeable(left, a, a_end, right, b, b_end, run_end) == Climbs(left, a, a_end) /\ InRuns(right, b, b_end, run_end)

\* The pairs of positions from i and from j on with the same index.
Meets(left, i, a_end, right, j, b_end) == {x \in (i .. a_end - 1) \X (j .. b_end - 1) : left[x[1]] = right[x[2]]}

LEMMA MeetsStep ==
  ASSUME NEW left, NEW a, NEW a_end, NEW right, NEW b, NEW b_end, NEW run_end,
         Mergeable(left, a, a_end, right, b, b_end, run_end), NEW i \in a .. a_end - 1, NEW j \in b .. b_end - 1
  PROVE  /\ left[i] < right[j] => Meets(left, i, a_end, right, j, b_end) = Meets(left, i + 1, a_end, right, j, b_end)
         /\ right[j] < left[i] => Meets(left, i, a_end, right, j, b_end) = Meets(left, i, a_end, right, run_end[j], b_end)
         /\ left[i] = right[j] => Meets(left, i, a_end, right, j, b_end) =
                                    ({i} \X (j .. run_end[j] - 1)) \cup Meets(left, i + 1, a_end, right, run_end[j], b_end)
<1>1. a \in Int /\ a_end \in Int /\ b \in Int /\ b_end \in Int
  BY DEF Mergeable, Climbs, InRuns
<1>2. PICK e : e = run_end[j]
  OBVIOUS
<1>3. e \in j + 1 .. b_end /\ \A y \in j .. b_end - 1 : right[y] = right[j] <=> y < e
  BY <1>2 DEF Mergeable, Climbs, InRuns
<1>4. /\ \A x \in i .. a_end - 1 : left[x] \in Int /\ left[i] <= left[x] /\ (x # i => left[i] < left[x])
      /\ \A y \in j .. b_end - 1 : right[y] \in Int /\ right[j] <= right[y]
  <2>1. ASSUME NEW x \in i .. a_end - 1 PROVE left[x] \in Int /\ left[i] <= left[x] /\ (x # i => left[i] < left[x])
    <3>1. x \in a .. a_end - 1 /\ (x = i \/ i < x)
      BY <1>1
    <3>2. QED
      BY <3>1 DEF Mergeable, Climbs, InRuns
  <2>2. ASSUME NEW y \in j .. b_end - 1 PROVE right[y] \in Int /\ right[j] <= right[y]
    <3>1. y \in b .. b_end - 1 /\ j <= y
      BY <1>1
    <3>2. QED
      BY <3>1 DEF Mergeable, Climbs, InRuns
  <2>3. QED
    BY <2>1, <2>2
<1>5. left[i] \in Int /\ right[j] \in Int
  BY DEF Mergeable, Climbs, InRuns
<1>6. ASSUME left[i] < right[j]
      PROVE  Meets(left, i, a_end, right, j, b_end) = Meets(left, i + 1, a_end, right, j, b_end)
  <2>1. \A y \in j .. b_end - 1 : right[y] # left[i]
    BY <1>4, <1>5, <1>6
  <2>2. \A x \in i .. a_end - 1 : x = i \/ x \in i + 1 .. a_end - 1
    BY <1>1
  <2>3. \A x \in i + 1 .. a_end - 1 : x \in i .. a_end - 1
    BY <1>1
  <2>4. QED
    BY <2>1, <2>2, <2>3 DEF Meets
<1>7. ASSUME right[j] < left[i]
      PROVE  Meets(left, i, a_end, right, j, b_end) = Meets(left, i, a_end, right, e, b_end)
  <2>1. \A x \in i .. a_end - 1 : left[x] # right[j]
    BY <1>4, <1>5, <1>7
  <2>2. \A y \in j .. b_end - 1 : right[y] = right[j] \/ y \in e .. b_end - 1
    BY <1>1, <1>3
  <2>3. \A y \in e .. b_end - 1 : y \in j .. b_end - 1
    BY <1>1, <1>3
  <2>4. \A x \in i .. a_end - 1, y \in j .. b_end - 1 : left[x] = right[y] => y \in e .. b_end - 1
    BY <2>1, <2>2
  <2>5. QED
    BY <2>3, <2>4 DEF Meets
<1>8. ASSUME left[i] = right[j]
      PROVE  Meets(left, i, a_end, right, j, b_end) = ({i} \X (j .. e - 1)) \cup Meets(left, i + 1, a_end, right, e, b_end)
  <2>1. \A x \in i .. a_end - 1 : x = i \/ (x \in i + 1 .. a_end - 1 /\ left[x] # right[j])
    BY <1>1, <1>4, <1>5, <1>8
  <2>2. \A y \in j .. b_end - 1 : IF right[y] = right[j] THEN y \in j .. e - 1 ELSE y \in e .. b_end - 1
    BY <1>1, <1>3
  <2>3. \A y \in j .. e - 1 : y \in j .. b_end - 1 /\ right[y] = right[j]
    BY <1>1, <1>3
  <2>4. \A y \in e .. b_end - 1 : y \in j .. b_end - 1
    BY <1>1, <1>3
  <2>5. \A x \in i + 1 .. a_end - 1 : x \in i .. a_end - 1
    BY <1>1
  <2>6. i \in i .. a_end - 1
    BY <1>1
  <2>7. QED
    BY <1>8, <2>1, <2>2, <2>3, <2>4, <2>5, <2>6 DEF Meets
<1>9. QED
  BY <1>2, <1>6, <1>7, <1>8


LEMMA MergeIs ==
  ASSUME NEW left, NEW a, NEW a_end, NEW right, NEW b, NEW b_end, NEW run_end,
         Mergeable(left, a, a_end, right, b, b_end, run_end)
  PROVE  Merge(left, a, a_end, right, b, b_end, run_end) = Meets(left, a, a_end, right, b, b_end)
<1> DEFINE D == (a .. a_end) \X (b .. b_end)
           Body(h, c) == LET i == c[1]  j == c[2]  k == Min({left[i], right[j]}) IN
             IF i = a_end \/ j = b_end THEN {}
             ELSE (IF left[i] = k /\ right[j] = k THEN {i} \X (j .. run_end[j] - 1) ELSE {})
                  \cup h[<<IF left[i] = k THEN i + 1 ELSE i, IF right[j] = k THEN run_end[j] ELSE j>>]
           Recursive(h) == h = [c \in D |-> Body(h, c)]
           hits == CHOOSE h : Recursive(h)
           meets == [c \in D |-> Meets(left, c[1], a_end, right, c[2], b_end)]
           next(c) == <<IF left[c[1]] <= right[c[2]] THEN c[1] + 1 ELSE c[1],
                        IF right[c[2]] <= left[c[1]] THEN run_end[c[2]] ELSE c[2]>>
           todo(c) == (a_end - c[1]) + (b_end - c[2])
<1>1. a \in Int /\ a_end \in Int /\ b \in Int /\ b_end \in Int /\ a <= a_end /\ b <= b_end
  BY DEF Mergeable, Climbs, InRuns
<1>2. \A c \in D : c = <<c[1], c[2]>> /\ c[1] \in a .. a_end /\ c[2] \in b .. b_end
  OBVIOUS
<1>3. ASSUME NEW c \in D, c[1] # a_end, c[2] # b_end
      PROVE  /\ c[1] \in a .. a_end - 1 /\ c[2] \in b .. b_end - 1
             /\ left[c[1]] \in Int /\ right[c[2]] \in Int
             /\ next(c) \in D /\ todo(next(c)) \in Nat /\ todo(c) \in Nat /\ todo(next(c)) < todo(c)
  <2>1. c[1] \in a .. a_end - 1 /\ c[2] \in b .. b_end - 1
    BY <1>1, <1>2, <1>3
  <2>2. left[c[1]] \in Int /\ right[c[2]] \in Int /\ run_end[c[2]] \in c[2] + 1 .. b_end
    BY <2>1 DEF Mergeable, Climbs, InRuns
  <2>3. PICK x, y : x = next(c)[1] /\ y = next(c)[2] /\ next(c) = <<x, y>>
    OBVIOUS
  <2>4. /\ x \in c[1] .. a_end /\ y \in c[2] .. b_end
        /\ x > c[1] \/ y > c[2]
    BY <1>1, <2>1, <2>2, <2>3
  <2> HIDE DEF next
  <2>5. next(c) \in D
    BY <1>1, <2>1, <2>3, <2>4
  <2>6. todo(next(c)) \in Nat /\ todo(c) \in Nat /\ todo(next(c)) < todo(c)
    BY <1>1, <2>1, <2>3, <2>4
  <2>7. QED
    BY <2>1, <2>2, <2>5, <2>6
<1>4. ASSUME NEW h, NEW c \in D
      PROVE  Body(h, c) = IF c[1] = a_end \/ c[2] = b_end THEN {}
                          ELSE (IF left[c[1]] = right[c[2]] THEN {c[1]} \X (c[2] .. run_end[c[2]] - 1) ELSE {}) \cup h[next(c)]
  <2>1. CASE c[1] = a_end \/ c[2] = b_end
    BY <2>1
  <2>2. CASE ~(c[1] = a_end \/ c[2] = b_end)
    <3>1. left[c[1]] \in Int /\ right[c[2]] \in Int
      BY <1>3, <2>2
    <3>2. PICK k : k = Min({left[c[1]], right[c[2]]})
      OBVIOUS
    <3>3. k = IF left[c[1]] <= right[c[2]] THEN left[c[1]] ELSE right[c[2]]
      BY <3>1, <3>2, MinOfTwo
    <3>4. /\ left[c[1]] = k <=> left[c[1]] <= right[c[2]]
          /\ right[c[2]] = k <=> right[c[2]] <= left[c[1]]
          /\ left[c[1]] = k /\ right[c[2]] = k <=> left[c[1]] = right[c[2]]
      BY <3>1, <3>3
    <3>5. <<IF left[c[1]] = k THEN c[1] + 1 ELSE c[1], IF right[c[2]] = k THEN run_end[c[2]] ELSE c[2]>> = next(c)
      BY <3>4
    <3>6. Body(h, c) = (IF left[c[1]] = k /\ right[c[2]] = k THEN {c[1]} \X (c[2] .. run_end[c[2]] - 1) ELSE {})
                  \cup h[<<IF left[c[1]] = k THEN c[1] + 1 ELSE c[1], IF right[c[2]] = k THEN run_end[c[2]] ELSE c[2]>>]
      BY <2>2, <3>2, Zenon
    <3> HIDE DEF next, Body
    <3>7. QED
      BY <2>2, <3>4, <3>5, <3>6
  <2>3. QED
    BY <2>1, <2>2
<1> HIDE DEF Body
<1>5. Recursive(meets)
  <2> SUFFICES ASSUME NEW c \in D PROVE Meets(left, c[1], a_end, right, c[2], b_end) = Body(meets, c)
    OBVIOUS
  <2>1. CASE c[1] = a_end \/ c[2] = b_end
    <3>1. c[1] .. a_end - 1 = {} \/ c[2] .. b_end - 1 = {}
      BY <1>1, <2>1
    <3>2. Meets(left, c[1], a_end, right, c[2], b_end) = {}
      BY <3>1 DEF Meets
    <3>3. Body(meets, c) = {}
      BY <1>4, <2>1
    <3>4. QED
      BY <3>2, <3>3
  <2>2. CASE ~(c[1] = a_end \/ c[2] = b_end)
    <3>1. /\ c[1] \in a .. a_end - 1 /\ c[2] \in b .. b_end - 1 /\ left[c[1]] \in Int /\ right[c[2]] \in Int
          /\ next(c) \in D
      BY <1>3, <2>2
    <3>2. meets[next(c)] = Meets(left, next(c)[1], a_end, right, next(c)[2], b_end)
      BY <3>1
    <3>3. Body(meets, c) = (IF left[c[1]] = right[c[2]] THEN {c[1]} \X (c[2] .. run_end[c[2]] - 1) ELSE {}) \cup meets[next(c)]
      BY <1>4, <2>2
    <3> HIDE DEF meets
    <3>4. CASE left[c[1]] < right[c[2]]
      <4>1. next(c)[1] = c[1] + 1 /\ next(c)[2] = c[2]
        BY <3>1, <3>4
      <4>2. left[c[1]] # right[c[2]]
        BY <3>1, <3>4
      <4>3. QED
        BY <3>1, <3>2, <3>3, <3>4, <4>1, <4>2, MeetsStep
    <3>5. CASE right[c[2]] < left[c[1]]
      <4>1. next(c)[1] = c[1] /\ next(c)[2] = run_end[c[2]]
        BY <3>1, <3>5
      <4>2. left[c[1]] # right[c[2]]
        BY <3>1, <3>5
      <4>3. QED
        BY <3>1, <3>2, <3>3, <3>5, <4>1, <4>2, MeetsStep
    <3>6. CASE left[c[1]] = right[c[2]]
      <4>1. next(c)[1] = c[1] + 1 /\ next(c)[2] = run_end[c[2]]
        BY <3>1, <3>6
      <4>2. QED
        BY <3>1, <3>2, <3>3, <3>6, <4>1, MeetsStep
    <3>7. QED
      BY <3>1, <3>4, <3>5, <3>6
  <2>3. QED
    BY <2>1, <2>2
<1>6. Recursive(hits)
  BY <1>5, Zenon
<1>7. Merge(left, a, a_end, right, b, b_end, run_end) = hits[<<a, b>>]
  BY Zenon DEF Merge, Body
<1> HIDE DEF hits, meets
<1>8. \A c \in D : hits[c] = Body(hits, c) /\ meets[c] = Body(meets, c)
  BY <1>5, <1>6
<1> DEFINE Bad == {n \in Nat : \E c \in D : todo(c) = n /\ hits[c] # meets[c]}
<1>9. Bad = {}
  <2> SUFFICES ASSUME Bad # {} PROVE FALSE
    OBVIOUS
  <2>1. PICK n \in Bad : \A k \in Bad : n <= k
    <3>1. Bad \subseteq Nat
      OBVIOUS
    <3> HIDE DEF Bad
    <3>2. QED
      BY <3>1, LeastNumber
  <2>2. PICK c \in D : todo(c) = n /\ hits[c] # meets[c]
    BY <2>1
  <2> HIDE DEF todo, next
  <2>3. ~(c[1] = a_end \/ c[2] = b_end)
    <3> SUFFICES ASSUME c[1] = a_end \/ c[2] = b_end PROVE FALSE
      OBVIOUS
    <3>1. Body(hits, c) = {}
      BY <1>4
    <3>2. Body(meets, c) = {}
      BY <1>4
    <3>3. QED
      BY <1>8, <2>2, <3>1, <3>2
  <2>4. next(c) \in D /\ todo(next(c)) \in Nat /\ todo(c) \in Nat /\ todo(next(c)) < todo(c)
    BY <1>3, <2>3
  <2>5. hits[next(c)] = meets[next(c)]
    BY <2>1, <2>2, <2>4
  <2>6. Body(hits, c) = Body(meets, c)
    BY <1>4, <2>3, <2>5, ZenonT(30)
  <2>7. QED
    BY <1>8, <2>2, <2>6
<1>10. <<a, b>> \in D /\ todo(<<a, b>>) \in Nat
  BY <1>1
<1>11. hits[<<a, b>>] = meets[<<a, b>>]
  <2> HIDE DEF todo
  <2>1. QED
    BY <1>9, <1>10
<1>12. meets[<<a, b>>] = Meets(left, a, a_end, right, b, b_end)
  BY <1>10 DEF meets
<1>13. QED
  BY <1>7, <1>11, <1>12

-----------------------------------------------------------------------------
(* The sixteen kernels, each by its own loops.                             *)

LEMMA CsrAt ==
  ASSUME NEW m, NEW p, NEW d, NEW at, CsrHolds(m, p, d, at), NEW r, NEW c, <<r, c>> \in NonZero(p)
  PROVE  /\ at[<<r, c>>] \in RowSegment(m, r) /\ m.entries[at[<<r, c>>]].index = c
         /\ m.entries[at[<<r, c>>]].value = d.values[<<r, c>>]
  BY DEF CsrHolds

LEMMA CscAt ==
  ASSUME NEW m, NEW p, NEW d, NEW at, CscHolds(m, p, d, at), NEW r, NEW c, <<r, c>> \in NonZero(p)
  PROVE  /\ at[<<r, c>>] \in ColSegment(m, c) /\ m.entries[at[<<r, c>>]].index = r
         /\ m.entries[at[<<r, c>>]].value = d.values[<<r, c>>]
  BY DEF CscHolds

LEMMA CooAt ==
  ASSUME NEW m, NEW p, NEW d, NEW at, NEW first, CooHolds(m, p, d, at, first), NEW r, NEW c, <<r, c>> \in NonZero(p)
  PROVE  /\ at[<<r, c>>] \in Segment(m, first[r]) /\ first[r] \in SegmentStarts(m)
         /\ at[<<r, c>>] \in DOMAIN m /\ m[first[r]].row = r
         /\ m[at[<<r, c>>]].row = r /\ m[at[<<r, c>>]].col = c /\ m[at[<<r, c>>]].value = d.values[<<r, c>>]
  BY DEF CooHolds

LEMMA CsrOf ==
  ASSUME NEW m, NEW p, NEW d, NEW at, CsrHolds(m, p, d, at), NEW r \in Rows(d), NEW i \in RowSegment(m, r),
         NEW c, c = m.entries[i].index
  PROVE  <<r, c>> \in NonZero(p) /\ at[<<r, c>>] = i /\ m.entries[i].value = d.values[<<r, c>>]
<1>1. <<r, c>> \in NonZero(p) /\ at[<<r, c>>] = i
  BY DEF CsrHolds
<1>2. QED
  BY <1>1, CsrAt

LEMMA CscOf ==
  ASSUME NEW m, NEW p, NEW d, NEW at, CscHolds(m, p, d, at), NEW c \in Cols(d), NEW i \in ColSegment(m, c),
         NEW r, r = m.entries[i].index
  PROVE  <<r, c>> \in NonZero(p) /\ at[<<r, c>>] = i /\ m.entries[i].value = d.values[<<r, c>>]
<1>1. <<r, c>> \in NonZero(p) /\ at[<<r, c>>] = i
  BY DEF CscHolds
<1>2. QED
  BY <1>1, CscAt

LEMMA CooIs ==
  ASSUME NEW m, NEW p, NEW d, NEW at, NEW first, CooHolds(m, p, d, at, first), NEW i \in DOMAIN m,
         NEW r, r = m[i].row, NEW c, c = m[i].col
  PROVE  <<r, c>> \in NonZero(p) /\ at[<<r, c>>] = i /\ m[i].value = d.values[<<r, c>>]
<1>1. <<r, c>> \in NonZero(p) /\ at[<<r, c>>] = i
  BY DEF CooHolds
<1>2. QED
  BY <1>1, CooAt

LEMMA CooOf ==
  ASSUME NEW m, NEW p, NEW d, NEW at, NEW first, CooHolds(m, p, d, at, first), NEW f \in SegmentStarts(m), NEW i \in Segment(m, f),
         NEW r, r = m[f].row, NEW c, c = m[i].col
  PROVE  /\ <<r, c>> \in NonZero(p) /\ at[<<r, c>>] = i /\ m[i].value = d.values[<<r, c>>]
         /\ i \in DOMAIN m /\ m[i].row = r /\ f = first[r]
<1>1. i \in DOMAIN m /\ m[i].row = r /\ f = first[r]
  BY DEF CooHolds
<1>2. QED
  BY <1>1, CooIs

LEMMA AtApart ==
  ASSUME NEW d, NEW at, Apart(d, at), NEW r, NEW c, NEW x, NEW y, <<r, c>> \in NonZero(d), <<x, y>> \in NonZero(d),
         at[<<r, c>>] = at[<<x, y>>]
  PROVE  r = x /\ c = y
<1>1. <<r, c>> = <<x, y>>
  BY DEF Apart
<1>2. QED
  BY <1>1

LEMMA HoldsApart ==
  /\ \A m, p, d, at : CsrHolds(m, p, d, at) => Apart(p, at)
  /\ \A m, p, d, at : CscHolds(m, p, d, at) => Apart(p, at)
  /\ \A m, p, d, at, first : CooHolds(m, p, d, at, first) => Apart(p, at)
  BY DEF CsrHolds, CscHolds, CooHolds

\* The places of the values are numbers.
Numbered(at, d) == \A r, c : <<r, c>> \in NonZero(d) => at[<<r, c>>] \in Int

LEMMA HoldsNumbers ==
  /\ \A m, p, d, at : CsrHolds(m, p, d, at) => Numbered(at, p)
  /\ \A m, p, d, at : CscHolds(m, p, d, at) => Numbered(at, p)
  /\ \A m, p, d, at, first : CooHolds(m, p, d, at, first) => Numbered(at, p)
<1>1. \A m, r : RowSegment(m, r) \subseteq Int /\ ColSegment(m, r) \subseteq Int /\ Segment(m, r) \subseteq Int
  BY DEF RowSegment, ColSegment, Segment
<1>2. QED
  BY <1>1 DEF CsrHolds, CscHolds, CooHolds, Numbered

LEMMA HeldIs ==
  ASSUME NEW d
  PROVE  /\ Held("MAT_DENSE", d) = Cells(d) /\ Held("MAT_CSR", d) = NonZero(d)
         /\ Held("MAT_CSC", d) = NonZero(d) /\ Held("MAT_COO", d) = NonZero(d)
  BY DEF Held

\* Which cells and triples there are.
LEMMA OperandCells ==
  ASSUME NEW L, NEW R, Operands(L, R)
  PROVE  /\ Rows(R) = Cols(L)
         /\ \A row, k : <<row, k>> \in Cells(L) <=> row \in Rows(L) /\ k \in Cols(L)
         /\ \A k, col : <<k, col>> \in Cells(R) <=> k \in Cols(L) /\ col \in Cols(R)
         /\ \A row, k : <<row, k>> \in NonZero(L) => row \in Rows(L) /\ k \in Cols(L)
         /\ \A k, col : <<k, col>> \in NonZero(R) => k \in Cols(L) /\ col \in Cols(R)
<1>1. Rows(R) = Cols(L)
  BY DEF Operands, Rows, Cols
<1>2. \A row, k : <<row, k>> \in Cells(L) <=> row \in Rows(L) /\ k \in Cols(L)
  BY DEF Cells
<1>3. \A k, col : <<k, col>> \in Cells(R) <=> k \in Cols(L) /\ col \in Cols(R)
  BY <1>1 DEF Cells
<1>4. \A row, k : <<row, k>> \in NonZero(L) => row \in Rows(L) /\ k \in Cols(L)
  BY <1>2 DEF NonZero
<1>5. \A k, col : <<k, col>> \in NonZero(R) => k \in Cols(L) /\ col \in Cols(R)
  BY <1>3 DEF NonZero
<1>6. QED
  BY <1>1, <1>2, <1>3, <1>4, <1>5

\* The same of the entries that two formats have.
LEMMA StoredCells ==
  ASSUME NEW P, NEW L, NEW Q, NEW R, StoredOperands(P, L, Q, R)
  PROVE  /\ Rows(R) = Cols(L)
         /\ Rows(P) = Rows(L) /\ Cols(P) = Cols(L) /\ Rows(Q) = Cols(L) /\ Cols(Q) = Cols(R)
         /\ \A row, k : <<row, k>> \in Cells(P) <=> row \in Rows(L) /\ k \in Cols(L)
         /\ \A k, col : <<k, col>> \in Cells(Q) <=> k \in Cols(L) /\ col \in Cols(R)
         /\ \A row, k : <<row, k>> \in NonZero(P) => row \in Rows(L) /\ k \in Cols(L)
         /\ \A k, col : <<k, col>> \in NonZero(Q) => k \in Cols(L) /\ col \in Cols(R)
<1>1. Operands(L, R)
  BY DEF StoredOperands
<1>2. /\ Rows(P) = Rows(L) /\ Cols(P) = Cols(L) /\ Rows(Q) = Rows(R) /\ Cols(Q) = Cols(R)
      /\ P.row_count = L.row_count /\ P.col_count = L.col_count /\ Q.row_count = R.row_count /\ Q.col_count = R.col_count
      /\ IsDense(P) /\ IsDense(Q)
  BY StoresFacts DEF StoredOperands
<1>3. Rows(R) = Cols(L) /\ Operands(P, Q)
  BY <1>1, <1>2, OperandCells DEF Operands
<1>4. /\ \A row, k : <<row, k>> \in Cells(P) <=> row \in Rows(P) /\ k \in Cols(P)
      /\ \A k, col : <<k, col>> \in Cells(Q) <=> k \in Cols(P) /\ col \in Cols(Q)
      /\ \A row, k : <<row, k>> \in NonZero(P) => row \in Rows(P) /\ k \in Cols(P)
      /\ \A k, col : <<k, col>> \in NonZero(Q) => k \in Cols(P) /\ col \in Cols(Q)
  BY <1>3, OperandCells
<1>5. QED
  BY <1>2, <1>3, <1>4

LEMMA TripleIn ==
  ASSUME NEW l, NEW L, NEW r, NEW R, NEW row, NEW k, NEW col
  PROVE  <<row, k, col>> \in Triples(l, L, r, R) <=> /\ row \in Rows(L) /\ k \in Cols(L) /\ col \in Cols(R)
                                                    /\ <<row, k>> \in Held(l, L) /\ <<k, col>> \in Held(r, R)
  BY DEF Triples

LEMMA StoredTriple ==
  ASSUME NEW P, NEW L, NEW Q, NEW R, StoredOperands(P, L, Q, R), NEW l, NEW r, NEW row, NEW k, NEW col
  PROVE  <<row, k, col>> \in Triples(l, P, r, Q) <=> /\ row \in Rows(L) /\ k \in Cols(L) /\ col \in Cols(R)
                                                    /\ <<row, k>> \in Held(l, P) /\ <<k, col>> \in Held(r, Q)
<1>1. Rows(P) = Rows(L) /\ Cols(P) = Cols(L) /\ Cols(Q) = Cols(R)
  BY StoredCells
<1>2. <<row, k, col>> \in Triples(l, P, r, Q) <=> /\ row \in Rows(P) /\ k \in Cols(P) /\ col \in Cols(Q)
                                                 /\ <<row, k>> \in Held(l, P) /\ <<k, col>> \in Held(r, Q)
  BY TripleIn
<1>3. QED
  BY <1>1, <1>2

\* The visit of the triple <<row, k, col>>.
PairAt(row, k, col, p, q, L, R) ==
  Visit(row, col, p[<<row, k, col>>], q[<<row, k, col>>], L.values[<<row, k>>], R.values[<<k, col>>])

\* One visit for each triple, and one triple for each visit.
LEMMA VisitedBy ==
  ASSUME NEW P, NEW L, NEW Q, NEW R, NEW l, NEW r, NEW T, T = Triples(l, P, r, Q), NEW V, NEW p, NEW q,
         \A row, k, col : <<row, k, col>> \in T => PairAt(row, k, col, p, q, L, R) \in V,
         \A v \in V : \E row, k, col : <<row, k, col>> \in T /\ v = PairAt(row, k, col, p, q, L, R),
         \A row, k, h, col : /\ <<row, k, col>> \in T /\ <<row, h, col>> \in T
                             /\ p[<<row, k, col>>] = p[<<row, h, col>>] /\ q[<<row, k, col>>] = q[<<row, h, col>>]
                             => k = h
  PROVE  \E x, y : Visited(V, T, x, y, L, R)
<1>1. \A t \in T : t = <<t[1], t[2], t[3]>>
  BY DEF Triples
<1>2. \A row, k, col : VisitOf(<<row, k, col>>, p, q, L, R) = PairAt(row, k, col, p, q, L, R)
  BY DEF VisitOf, PairAt
<1>3. ASSUME NEW t \in T PROVE VisitOf(t, p, q, L, R) \in V
  BY <1>1, <1>2
<1>4. ASSUME NEW v \in V PROVE \E t \in T : v = VisitOf(t, p, q, L, R)
  <2>1. PICK row, k, col : <<row, k, col>> \in T /\ v = PairAt(row, k, col, p, q, L, R)
    OBVIOUS
  <2>2. QED
    BY <1>2, <2>1
<1>5. ASSUME NEW t \in T, NEW u \in T, t[1] = u[1] /\ t[3] = u[3] /\ p[t] = p[u] /\ q[t] = q[u] PROVE t = u
  <2>1. PICK row, k, col : t = <<row, k, col>>
    BY <1>1
  <2>2. PICK h : u = <<row, h, col>>
    BY <1>1, <1>5, <2>1
  <2>3. QED
    BY <1>5, <2>1, <2>2
<1>6. V = {VisitOf(t, p, q, L, R) : t \in T}
  BY <1>3, <1>4
<1>7. Visited(V, T, p, q, L, R)
  BY <1>5, <1>6 DEF Visited
<1>8. QED
  BY <1>7

\* No two visits multiply the same entries.
OnePerPair(V) ==
  /\ \A v \in V : v.from[1] \in Int /\ v.from[2] \in Int /\ v.from = <<v.from[1], v.from[2]>>
  /\ \A v, w \in V : v.from = w.from => v = w

\* The visits of V multiply the entries of triples in T, at the places a and b.
Paired(V, T, p, q, a, b, P, L, Q, R) ==
  /\ \A row, k, col : <<row, k, col>> \in T =>
       /\ <<row, k>> \in NonZero(P) /\ <<k, col>> \in NonZero(Q)
       /\ p[<<row, k, col>>] = a[<<row, k>>] /\ q[<<row, k, col>>] = b[<<k, col>>]
  /\ \A v \in V : \E row, k, col : <<row, k, col>> \in T /\ v = PairAt(row, k, col, p, q, L, R)

LEMMA PairsApart ==
  ASSUME NEW P, NEW L, NEW Q, NEW R, NEW T, NEW V, NEW p, NEW q, NEW a, NEW b, Apart(P, a), Apart(Q, b), Numbered(a, P), Numbered(b, Q),
         Paired(V, T, p, q, a, b, P, L, Q, R)
  PROVE  OnePerPair(V)
<1> DEFINE From(row, k, col) == <<a[<<row, k>>], b[<<k, col>>]>>
<1>1. ASSUME NEW v \in V
      PROVE  \E row, k, col : /\ <<row, k>> \in NonZero(P) /\ <<k, col>> \in NonZero(Q)
                             /\ v.from = From(row, k, col) /\ v = PairAt(row, k, col, p, q, L, R)
  <2>1. PICK row, k, col : <<row, k, col>> \in T /\ v = PairAt(row, k, col, p, q, L, R)
    BY Zenon DEF Paired
  <2>2. p[<<row, k, col>>] = a[<<row, k>>] /\ q[<<row, k, col>>] = b[<<k, col>>]
    BY <2>1 DEF Paired
  <2>3. v.from = <<a[<<row, k>>], b[<<k, col>>]>>
    BY <2>1, <2>2 DEF PairAt, Visit
  <2>4. <<row, k>> \in NonZero(P) /\ <<k, col>> \in NonZero(Q)
    BY <2>1 DEF Paired
  <2>5. QED
    BY <2>1, <2>3, <2>4
<1>2. ASSUME NEW row, NEW k, NEW col, <<row, k>> \in NonZero(P), <<k, col>> \in NonZero(Q)
      PROVE  From(row, k, col)[1] \in Int /\ From(row, k, col)[2] \in Int /\ From(row, k, col) = <<From(row, k, col)[1], From(row, k, col)[2]>>
  <2>1. a[<<row, k>>] \in Int /\ b[<<k, col>>] \in Int
    BY <1>2 DEF Numbered
  <2>2. QED
    BY <2>1
<1> HIDE DEF From
<1>3. ASSUME NEW v \in V PROVE v.from[1] \in Int /\ v.from[2] \in Int /\ v.from = <<v.from[1], v.from[2]>>
  <2>1. PICK row, k, col : <<row, k>> \in NonZero(P) /\ <<k, col>> \in NonZero(Q) /\ v.from = From(row, k, col)
    BY <1>1
  <2>2. QED
    BY <1>2, <2>1
<1>4. ASSUME NEW v \in V, NEW w \in V, v.from = w.from PROVE v = w
  <2>1. PICK row, k, col : /\ <<row, k>> \in NonZero(P) /\ <<k, col>> \in NonZero(Q)
                           /\ v.from = From(row, k, col) /\ v = PairAt(row, k, col, p, q, L, R)
    BY <1>1
  <2>2. PICK r, h, c : /\ <<r, h>> \in NonZero(P) /\ <<h, c>> \in NonZero(Q)
                       /\ w.from = From(r, h, c) /\ w = PairAt(r, h, c, p, q, L, R)
    BY <1>1
  <2>3. From(row, k, col) = From(r, h, c)
    BY <1>4, <2>1, <2>2, Zenon
  <2>4. <<row, k>> \in NonZero(P) /\ <<k, col>> \in NonZero(Q) /\ <<r, h>> \in NonZero(P) /\ <<h, c>> \in NonZero(Q)
    BY <2>1, <2>2, Zenon
  <2>5. a[<<row, k>>] = a[<<r, h>>] /\ b[<<k, col>>] = b[<<h, c>>]
    BY <2>3 DEF From
  <2>6. row = r /\ k = h
    BY <2>4, <2>5, AtApart
  <2>7. k = h /\ col = c
    BY <2>4, <2>5, AtApart
  <2>8. QED
    BY <2>1, <2>2, <2>6, <2>7
<1>5. QED
  BY <1>3, <1>4 DEF OnePerPair

LEMMA DenseDense ==
  ASSUME NEW L, NEW R, Operands(L, R),
         NEW T, T = Triples("MAT_DENSE", L, "MAT_DENSE", R)
  PROVE  \E p, q : Visited(dense_x_dense(L, R), T, p, q, L, R)
<1> DEFINE V == dense_x_dense(L, R)
           F(row, col, k) == Visit(row, col, k, k, L.values[<<row, k>>], R.values[<<k, col>>])
           p == [t \in T |-> t[2]]
           q == [t \in T |-> t[2]]
<1>1. V = UNION {UNION {{F(row, col, k) : k \in Cols(L)} : col \in Cols(R)} : row \in Rows(L)}
  BY DEF dense_x_dense
<1> HIDE DEF V, F, p, q
<1>2. \A v : v \in V <=> \E row \in Rows(L) : \E col \in Cols(R) : \E k \in Cols(L) : v = F(row, col, k)
  BY <1>1
<1>3. ASSUME NEW row, NEW k, NEW col PROVE <<row, k, col>> \in T <=> row \in Rows(L) /\ k \in Cols(L) /\ col \in Cols(R)
  <2>1. Held("MAT_DENSE", L) = Cells(L) /\ Held("MAT_DENSE", R) = Cells(R)
    BY HeldIs
  <2>2. <<row, k, col>> \in Triples("MAT_DENSE", L, "MAT_DENSE", R) <=>
          /\ row \in Rows(L) /\ k \in Cols(L) /\ col \in Cols(R)
          /\ <<row, k>> \in Held("MAT_DENSE", L) /\ <<k, col>> \in Held("MAT_DENSE", R)
    BY TripleIn
  <2>3. QED
    BY <2>1, <2>2, OperandCells
<1>4. /\ Rows(R) = Cols(L)
  BY OperandCells
<1>5. \A row, k, col : <<row, k, col>> \in T => p[<<row, k, col>>] = k
  BY DEF p
<1>6. \A row, k, col : <<row, k, col>> \in T => q[<<row, k, col>>] = k
  BY DEF q
<1>7. ASSUME NEW row, NEW k, NEW col, <<row, k, col>> \in T PROVE PairAt(row, k, col, p, q, L, R) \in V
  <2>1. row \in Rows(L) /\ k \in Cols(L) /\ k \in Rows(R) /\ col \in Cols(R)
    BY <1>7, <1>3, <1>4
  <2>2. PairAt(row, k, col, p, q, L, R) = Visit(row, col, k, k, L.values[<<row, k>>], R.values[<<k, col>>])
    BY <1>7, <1>5, <1>6 DEF PairAt
  <2>3. PairAt(row, k, col, p, q, L, R) = F(row, col, k)
    BY <2>1, <2>2 DEF F
  <2>4. QED
    BY <1>2, <2>1, <2>2, <2>3
<1>8. ASSUME NEW v \in V PROVE \E row, k, col : <<row, k, col>> \in T /\ v = PairAt(row, k, col, p, q, L, R)
  <2>1. PICK row \in Rows(L) : \E col \in Cols(R) : \E k \in Cols(L) : v = F(row, col, k)
    BY <1>2
  <2>2. PICK col \in Cols(R) : \E k \in Cols(L) : v = F(row, col, k)
    BY <2>1
  <2>3. PICK k \in Cols(L) : v = F(row, col, k)
    BY <2>2
  <2>4. <<row, k, col>> \in T
    BY <1>3, <1>4
  <2>5. v = PairAt(row, k, col, p, q, L, R)
    <3>1. v = Visit(row, col, k, k, L.values[<<row, k>>], R.values[<<k, col>>])
      BY <2>3 DEF F
    <3>2. QED
      BY <1>5, <1>6, <2>4, <3>1 DEF PairAt
  <2>6. QED
    BY <2>4, <2>5
<1>9. ASSUME NEW row, NEW k, NEW h, NEW col, <<row, k, col>> \in T, <<row, h, col>> \in T,
             p[<<row, k, col>>] = p[<<row, h, col>>], q[<<row, k, col>>] = q[<<row, h, col>>]
      PROVE  k = h
  <2>1. p[<<row, k, col>>] = k
    BY <1>9, <1>5
  <2>2. p[<<row, h, col>>] = h
    BY <1>9, <1>5
  <2>3. QED
    BY <1>9, <2>1, <2>2
<1>10. \E x, y : Visited(V, T, x, y, L, R)
  BY <1>7, <1>8, <1>9, VisitedBy
<1>11. QED
  BY <1>10 DEF V

LEMMA DenseCsr ==
  ASSUME NEW P, NEW L, NEW Q, NEW R, StoredOperands(P, L, Q, R), NEW right, right = StoredCsr(Q, R),
         NEW T, T = Triples("MAT_DENSE", P, "MAT_CSR", Q)
  PROVE  \E p, q : Visited(dense_x_csr(L, right), T, p, q, L, R)
<1>1. PICK b : CsrHolds(right, Q, R, b)
  BY CsrLayout DEF StoredOperands
<1> DEFINE V == dense_x_csr(L, right)
           F(row, k, j) == Visit(row, right.entries[j].index, k, j, L.values[<<row, k>>], right.entries[j].value)
           p == [t \in T |-> t[2]]
           q == [t \in T |-> b[<<t[2], t[3]>>]]
<1>2. \A x : x \in 0 .. right.row_count - 1 <=> x \in Rows(R)
  BY <1>1 DEF CsrHolds, Rows
<1>3. V = UNION {UNION {{F(row, k, j) : j \in RowSegment(right, k)} : k \in 0 .. right.row_count - 1} : row \in Rows(L)}
  BY DEF dense_x_csr
<1> HIDE DEF V, F, p, q
<1>4. \A v : v \in V <=> \E row \in Rows(L) : \E k \in 0 .. right.row_count - 1 : \E j \in RowSegment(right, k) : v = F(row, k, j)
  BY <1>3
<1>5. \A v : v \in V <=> \E row \in Rows(L) : \E k \in Rows(R) : \E j \in RowSegment(right, k) : v = F(row, k, j)
  BY <1>4, <1>2
<1>6. ASSUME NEW row, NEW k, NEW col PROVE <<row, k, col>> \in T <=> row \in Rows(L) /\ k \in Cols(L) /\ col \in Cols(R) /\ <<k, col>> \in NonZero(Q)
  <2>1. Held("MAT_DENSE", P) = Cells(P) /\ Held("MAT_CSR", Q) = NonZero(Q)
    BY HeldIs
  <2>2. <<row, k, col>> \in Triples("MAT_DENSE", P, "MAT_CSR", Q) <=>
          /\ row \in Rows(L) /\ k \in Cols(L) /\ col \in Cols(R)
          /\ <<row, k>> \in Held("MAT_DENSE", P) /\ <<k, col>> \in Held("MAT_CSR", Q)
    BY StoredTriple
  <2>3. QED
    BY <2>1, <2>2, StoredCells
<1>7. /\ \A k, col : <<k, col>> \in NonZero(Q) => k \in Cols(L) /\ col \in Cols(R)
      /\ Rows(R) = Cols(L)
  BY StoredCells
<1>8. \A row, k, col : <<row, k, col>> \in T => p[<<row, k, col>>] = k
  BY DEF p
<1>9. \A row, k, col : <<row, k, col>> \in T => q[<<row, k, col>>] = b[<<k, col>>]
  BY DEF q
<1>10. ASSUME NEW row, NEW k, NEW col, <<row, k, col>> \in T PROVE PairAt(row, k, col, p, q, L, R) \in V
  <2>1. row \in Rows(L) /\ k \in Cols(L) /\ k \in Rows(R) /\ col \in Cols(R) /\ <<k, col>> \in NonZero(Q)
    BY <1>10, <1>6, <1>7
  <2>2. /\ b[<<k, col>>] \in RowSegment(right, k) /\ right.entries[b[<<k, col>>]].index = col
        /\ right.entries[b[<<k, col>>]].value = R.values[<<k, col>>]
    BY <1>1, <2>1, CsrAt
  <2>3. PairAt(row, k, col, p, q, L, R) = Visit(row, col, k, b[<<k, col>>], L.values[<<row, k>>], R.values[<<k, col>>])
    BY <1>10, <1>8, <1>9 DEF PairAt
  <2>4. PairAt(row, k, col, p, q, L, R) = F(row, k, b[<<k, col>>])
    BY <2>1, <2>2, <2>3 DEF F
  <2>5. QED
    BY <1>5, <2>1, <2>2, <2>3, <2>4
<1>11. ASSUME NEW v \in V PROVE \E row, k, col : <<row, k, col>> \in T /\ v = PairAt(row, k, col, p, q, L, R)
  <2>1. PICK row \in Rows(L) : \E k \in Rows(R) : \E j \in RowSegment(right, k) : v = F(row, k, j)
    BY <1>5
  <2>2. PICK k \in Rows(R) : \E j \in RowSegment(right, k) : v = F(row, k, j)
    BY <2>1
  <2>3. PICK j \in RowSegment(right, k) : v = F(row, k, j)
    BY <2>2
  <2>4. PICK col : col = right.entries[j].index
    OBVIOUS
  <2>5. <<k, col>> \in NonZero(Q) /\ b[<<k, col>>] = j /\ right.entries[j].value = R.values[<<k, col>>]
    BY <1>1, <1>7, <2>4, CsrOf
  <2>6. <<row, k, col>> \in T
    BY <1>6, <1>7, <2>4, <2>5
  <2>7. v = PairAt(row, k, col, p, q, L, R)
    <3>1. v = Visit(row, col, k, b[<<k, col>>], L.values[<<row, k>>], R.values[<<k, col>>])
      BY <2>3, <2>4, <2>5 DEF F
    <3>2. QED
      BY <1>8, <1>9, <2>6, <3>1 DEF PairAt
  <2>8. QED
    BY <2>6, <2>7
<1>12. ASSUME NEW row, NEW k, NEW h, NEW col, <<row, k, col>> \in T, <<row, h, col>> \in T,
             p[<<row, k, col>>] = p[<<row, h, col>>], q[<<row, k, col>>] = q[<<row, h, col>>]
      PROVE  k = h
  <2>1. p[<<row, k, col>>] = k
    BY <1>12, <1>8
  <2>2. p[<<row, h, col>>] = h
    BY <1>12, <1>8
  <2>3. QED
    BY <1>12, <2>1, <2>2
<1>13. \E x, y : Visited(V, T, x, y, L, R)
  BY <1>10, <1>11, <1>12, VisitedBy
<1>14. QED
  BY <1>13 DEF V

LEMMA DenseCsc ==
  ASSUME NEW P, NEW L, NEW Q, NEW R, StoredOperands(P, L, Q, R), NEW right, right = StoredCsc(Q, R),
         NEW T, T = Triples("MAT_DENSE", P, "MAT_CSC", Q)
  PROVE  \E p, q : Visited(dense_x_csc(L, right), T, p, q, L, R)
<1>1. PICK b : CscHolds(right, Q, R, b)
  BY CscLayout DEF StoredOperands
<1> DEFINE V == dense_x_csc(L, right)
           F(row, col, j) == Visit(row, col, right.entries[j].index, j, L.values[<<row, right.entries[j].index>>], right.entries[j].value)
           p == [t \in T |-> t[2]]
           q == [t \in T |-> b[<<t[2], t[3]>>]]
<1>2. \A x : x \in 0 .. right.col_count - 1 <=> x \in Cols(R)
  BY <1>1 DEF CscHolds, Cols
<1>3. V = UNION {UNION {{F(row, col, j) : j \in ColSegment(right, col)} : col \in 0 .. right.col_count - 1} : row \in Rows(L)}
  BY DEF dense_x_csc
<1> HIDE DEF V, F, p, q
<1>4. \A v : v \in V <=> \E row \in Rows(L) : \E col \in 0 .. right.col_count - 1 : \E j \in ColSegment(right, col) : v = F(row, col, j)
  BY <1>3
<1>5. \A v : v \in V <=> \E row \in Rows(L) : \E col \in Cols(R) : \E j \in ColSegment(right, col) : v = F(row, col, j)
  BY <1>4, <1>2
<1>6. ASSUME NEW row, NEW k, NEW col PROVE <<row, k, col>> \in T <=> row \in Rows(L) /\ k \in Cols(L) /\ col \in Cols(R) /\ <<k, col>> \in NonZero(Q)
  <2>1. Held("MAT_DENSE", P) = Cells(P) /\ Held("MAT_CSC", Q) = NonZero(Q)
    BY HeldIs
  <2>2. <<row, k, col>> \in Triples("MAT_DENSE", P, "MAT_CSC", Q) <=>
          /\ row \in Rows(L) /\ k \in Cols(L) /\ col \in Cols(R)
          /\ <<row, k>> \in Held("MAT_DENSE", P) /\ <<k, col>> \in Held("MAT_CSC", Q)
    BY StoredTriple
  <2>3. QED
    BY <2>1, <2>2, StoredCells
<1>7. /\ \A k, col : <<k, col>> \in NonZero(Q) => k \in Cols(L) /\ col \in Cols(R)
      /\ Rows(R) = Cols(L)
  BY StoredCells
<1>8. \A row, k, col : <<row, k, col>> \in T => p[<<row, k, col>>] = k
  BY DEF p
<1>9. \A row, k, col : <<row, k, col>> \in T => q[<<row, k, col>>] = b[<<k, col>>]
  BY DEF q
<1>10. ASSUME NEW row, NEW k, NEW col, <<row, k, col>> \in T PROVE PairAt(row, k, col, p, q, L, R) \in V
  <2>1. row \in Rows(L) /\ k \in Cols(L) /\ k \in Rows(R) /\ col \in Cols(R) /\ <<k, col>> \in NonZero(Q)
    BY <1>10, <1>6, <1>7
  <2>2. /\ b[<<k, col>>] \in ColSegment(right, col) /\ right.entries[b[<<k, col>>]].index = k
        /\ right.entries[b[<<k, col>>]].value = R.values[<<k, col>>]
    BY <1>1, <2>1, CscAt
  <2>3. PairAt(row, k, col, p, q, L, R) = Visit(row, col, k, b[<<k, col>>], L.values[<<row, k>>], R.values[<<k, col>>])
    BY <1>10, <1>8, <1>9 DEF PairAt
  <2>4. PairAt(row, k, col, p, q, L, R) = F(row, col, b[<<k, col>>])
    BY <2>1, <2>2, <2>3 DEF F
  <2>5. QED
    BY <1>5, <2>1, <2>2, <2>3, <2>4
<1>11. ASSUME NEW v \in V PROVE \E row, k, col : <<row, k, col>> \in T /\ v = PairAt(row, k, col, p, q, L, R)
  <2>1. PICK row \in Rows(L) : \E col \in Cols(R) : \E j \in ColSegment(right, col) : v = F(row, col, j)
    BY <1>5
  <2>2. PICK col \in Cols(R) : \E j \in ColSegment(right, col) : v = F(row, col, j)
    BY <2>1
  <2>3. PICK j \in ColSegment(right, col) : v = F(row, col, j)
    BY <2>2
  <2>4. PICK k : k = right.entries[j].index
    OBVIOUS
  <2>5. <<k, col>> \in NonZero(Q) /\ b[<<k, col>>] = j /\ right.entries[j].value = R.values[<<k, col>>]
    BY <1>1, <1>7, <2>4, CscOf
  <2>6. <<row, k, col>> \in T
    BY <1>6, <1>7, <2>4, <2>5
  <2>7. v = PairAt(row, k, col, p, q, L, R)
    <3>1. v = Visit(row, col, k, b[<<k, col>>], L.values[<<row, k>>], R.values[<<k, col>>])
      BY <2>3, <2>4, <2>5 DEF F
    <3>2. QED
      BY <1>8, <1>9, <2>6, <3>1 DEF PairAt
  <2>8. QED
    BY <2>6, <2>7
<1>12. ASSUME NEW row, NEW k, NEW h, NEW col, <<row, k, col>> \in T, <<row, h, col>> \in T,
             p[<<row, k, col>>] = p[<<row, h, col>>], q[<<row, k, col>>] = q[<<row, h, col>>]
      PROVE  k = h
  <2>1. p[<<row, k, col>>] = k
    BY <1>12, <1>8
  <2>2. p[<<row, h, col>>] = h
    BY <1>12, <1>8
  <2>3. QED
    BY <1>12, <2>1, <2>2
<1>13. \E x, y : Visited(V, T, x, y, L, R)
  BY <1>10, <1>11, <1>12, VisitedBy
<1>14. QED
  BY <1>13 DEF V

LEMMA DenseCoo ==
  ASSUME NEW P, NEW L, NEW Q, NEW R, StoredOperands(P, L, Q, R), NEW right, right = StoredCoo(Q, R),
         NEW T, T = Triples("MAT_DENSE", P, "MAT_COO", Q)
  PROVE  \E p, q : Visited(dense_x_coo(L, right), T, p, q, L, R)
<1>1. PICK b, f : CooHolds(right, Q, R, b, f)
  BY CooLayout DEF StoredOperands
<1> DEFINE V == dense_x_coo(L, right)
           F(row, kB, j) == Visit(row, right[j].col, kB, j, L.values[<<row, right[kB].row>>], right[j].value)
           p == [t \in T |-> f[t[2]]]
           q == [t \in T |-> b[<<t[2], t[3]>>]]
<1>2. V = UNION {UNION {{F(row, kB, j) : j \in Segment(right, kB)} : kB \in SegmentStarts(right)} : row \in Rows(L)}
  BY DEF dense_x_coo
<1> HIDE DEF V, F, p, q
<1>3. \A v : v \in V <=> \E row \in Rows(L) : \E kB \in SegmentStarts(right) : \E j \in Segment(right, kB) : v = F(row, kB, j)
  BY <1>2
<1>4. ASSUME NEW row, NEW k, NEW col PROVE <<row, k, col>> \in T <=> row \in Rows(L) /\ k \in Cols(L) /\ col \in Cols(R) /\ <<k, col>> \in NonZero(Q)
  <2>1. Held("MAT_DENSE", P) = Cells(P) /\ Held("MAT_COO", Q) = NonZero(Q)
    BY HeldIs
  <2>2. <<row, k, col>> \in Triples("MAT_DENSE", P, "MAT_COO", Q) <=>
          /\ row \in Rows(L) /\ k \in Cols(L) /\ col \in Cols(R)
          /\ <<row, k>> \in Held("MAT_DENSE", P) /\ <<k, col>> \in Held("MAT_COO", Q)
    BY StoredTriple
  <2>3. QED
    BY <2>1, <2>2, StoredCells
<1>5. /\ \A k, col : <<k, col>> \in NonZero(Q) => k \in Cols(L) /\ col \in Cols(R)
      /\ Rows(R) = Cols(L)
  BY StoredCells
<1>6. \A row, k, col : <<row, k, col>> \in T => p[<<row, k, col>>] = f[k]
  BY DEF p
<1>7. \A row, k, col : <<row, k, col>> \in T => q[<<row, k, col>>] = b[<<k, col>>]
  BY DEF q
<1>8. ASSUME NEW row, NEW k, NEW col, <<row, k, col>> \in T PROVE PairAt(row, k, col, p, q, L, R) \in V
  <2>1. row \in Rows(L) /\ k \in Cols(L) /\ k \in Rows(R) /\ col \in Cols(R) /\ <<k, col>> \in NonZero(Q)
    BY <1>8, <1>4, <1>5
  <2>2. /\ b[<<k, col>>] \in Segment(right, f[k]) /\ f[k] \in SegmentStarts(right) /\ right[f[k]].row = k
        /\ right[b[<<k, col>>]].col = col /\ right[b[<<k, col>>]].value = R.values[<<k, col>>]
    BY <1>1, <2>1, CooAt
  <2>3. PairAt(row, k, col, p, q, L, R) = Visit(row, col, f[k], b[<<k, col>>], L.values[<<row, k>>], R.values[<<k, col>>])
    BY <1>8, <1>6, <1>7 DEF PairAt
  <2>4. PairAt(row, k, col, p, q, L, R) = F(row, f[k], b[<<k, col>>])
    BY <2>1, <2>2, <2>3 DEF F
  <2>5. QED
    BY <1>3, <2>1, <2>2, <2>3, <2>4
<1>9. ASSUME NEW v \in V PROVE \E row, k, col : <<row, k, col>> \in T /\ v = PairAt(row, k, col, p, q, L, R)
  <2>1. PICK row \in Rows(L) : \E kB \in SegmentStarts(right) : \E j \in Segment(right, kB) : v = F(row, kB, j)
    BY <1>3
  <2>2. PICK kB \in SegmentStarts(right) : \E j \in Segment(right, kB) : v = F(row, kB, j)
    BY <2>1
  <2>3. PICK j \in Segment(right, kB) : v = F(row, kB, j)
    BY <2>2
  <2>4. PICK k : k = right[kB].row
    OBVIOUS
  <2>5. PICK col : col = right[j].col
    OBVIOUS
  <2>6. <<k, col>> \in NonZero(Q) /\ b[<<k, col>>] = j /\ right[j].value = R.values[<<k, col>>] /\ right[j].row = k /\ kB = f[k]
    BY <1>1, <1>5, <2>4, <2>5, CooOf
  <2>7. <<row, k, col>> \in T
    BY <1>4, <1>5, <2>4, <2>5, <2>6
  <2>8. v = PairAt(row, k, col, p, q, L, R)
    <3>1. v = Visit(row, col, f[k], b[<<k, col>>], L.values[<<row, k>>], R.values[<<k, col>>])
      BY <2>3, <2>4, <2>5, <2>6 DEF F
    <3>2. QED
      BY <1>6, <1>7, <2>7, <3>1 DEF PairAt
  <2>9. QED
    BY <2>7, <2>8
<1>10. ASSUME NEW row, NEW k, NEW h, NEW col, <<row, k, col>> \in T, <<row, h, col>> \in T,
             p[<<row, k, col>>] = p[<<row, h, col>>], q[<<row, k, col>>] = q[<<row, h, col>>]
      PROVE  k = h
  <2>1. Apart(Q, b)
    BY <1>1, HoldsApart
  <2>2. <<k, col>> \in NonZero(Q) /\ <<h, col>> \in NonZero(Q)
    BY <1>10, <1>4
  <2>3. b[<<k, col>>] = q[<<row, k, col>>]
    BY <1>10, <1>7
  <2>4. b[<<h, col>>] = q[<<row, h, col>>]
    BY <1>10, <1>7
  <2>5. b[<<k, col>>] = b[<<h, col>>]
    BY <1>10, <2>3, <2>4
  <2>6. QED
    BY <2>1, <2>2, <2>5, AtApart
<1>11. \E x, y : Visited(V, T, x, y, L, R)
  BY <1>8, <1>9, <1>10, VisitedBy
<1>12. QED
  BY <1>11 DEF V

LEMMA CsrDense ==
  ASSUME NEW P, NEW L, NEW Q, NEW R, StoredOperands(P, L, Q, R), NEW left, left = StoredCsr(P, L),
         NEW T, T = Triples("MAT_CSR", P, "MAT_DENSE", Q)
  PROVE  \E p, q : Visited(csr_x_dense(left, R), T, p, q, L, R)
<1>1. PICK a : CsrHolds(left, P, L, a)
  BY CsrLayout DEF StoredOperands
<1> DEFINE V == csr_x_dense(left, R)
           F(row, col, i) == Visit(row, col, i, col, left.entries[i].value, R.values[<<left.entries[i].index, col>>])
           p == [t \in T |-> a[<<t[1], t[2]>>]]
           q == [t \in T |-> t[3]]
<1>2. \A x : x \in 0 .. left.row_count - 1 <=> x \in Rows(L)
  BY <1>1 DEF CsrHolds, Rows
<1>3. V = UNION {UNION {{F(row, col, i) : i \in RowSegment(left, row)} : col \in Cols(R)} : row \in 0 .. left.row_count - 1}
  BY DEF csr_x_dense
<1> HIDE DEF V, F, p, q
<1>4. \A v : v \in V <=> \E row \in 0 .. left.row_count - 1 : \E col \in Cols(R) : \E i \in RowSegment(left, row) : v = F(row, col, i)
  BY <1>3
<1>5. \A v : v \in V <=> \E row \in Rows(L) : \E col \in Cols(R) : \E i \in RowSegment(left, row) : v = F(row, col, i)
  BY <1>4, <1>2
<1>6. ASSUME NEW row, NEW k, NEW col PROVE <<row, k, col>> \in T <=> row \in Rows(L) /\ k \in Cols(L) /\ col \in Cols(R) /\ <<row, k>> \in NonZero(P)
  <2>1. Held("MAT_CSR", P) = NonZero(P) /\ Held("MAT_DENSE", Q) = Cells(Q)
    BY HeldIs
  <2>2. <<row, k, col>> \in Triples("MAT_CSR", P, "MAT_DENSE", Q) <=>
          /\ row \in Rows(L) /\ k \in Cols(L) /\ col \in Cols(R)
          /\ <<row, k>> \in Held("MAT_CSR", P) /\ <<k, col>> \in Held("MAT_DENSE", Q)
    BY StoredTriple
  <2>3. QED
    BY <2>1, <2>2, StoredCells
<1>7. /\ \A row, k : <<row, k>> \in NonZero(P) => row \in Rows(L) /\ k \in Cols(L)
      /\ Rows(R) = Cols(L)
  BY StoredCells
<1>8. \A row, k, col : <<row, k, col>> \in T => p[<<row, k, col>>] = a[<<row, k>>]
  BY DEF p
<1>9. \A row, k, col : <<row, k, col>> \in T => q[<<row, k, col>>] = col
  BY DEF q
<1>10. ASSUME NEW row, NEW k, NEW col, <<row, k, col>> \in T PROVE PairAt(row, k, col, p, q, L, R) \in V
  <2>1. row \in Rows(L) /\ k \in Cols(L) /\ k \in Rows(R) /\ col \in Cols(R) /\ <<row, k>> \in NonZero(P)
    BY <1>10, <1>6, <1>7
  <2>2. /\ a[<<row, k>>] \in RowSegment(left, row) /\ left.entries[a[<<row, k>>]].index = k
        /\ left.entries[a[<<row, k>>]].value = L.values[<<row, k>>]
    BY <1>1, <2>1, CsrAt
  <2>3. PairAt(row, k, col, p, q, L, R) = Visit(row, col, a[<<row, k>>], col, L.values[<<row, k>>], R.values[<<k, col>>])
    BY <1>10, <1>8, <1>9 DEF PairAt
  <2>4. PairAt(row, k, col, p, q, L, R) = F(row, col, a[<<row, k>>])
    BY <2>1, <2>2, <2>3 DEF F
  <2>5. QED
    BY <1>5, <2>1, <2>2, <2>3, <2>4
<1>11. ASSUME NEW v \in V PROVE \E row, k, col : <<row, k, col>> \in T /\ v = PairAt(row, k, col, p, q, L, R)
  <2>1. PICK row \in Rows(L) : \E col \in Cols(R) : \E i \in RowSegment(left, row) : v = F(row, col, i)
    BY <1>5
  <2>2. PICK col \in Cols(R) : \E i \in RowSegment(left, row) : v = F(row, col, i)
    BY <2>1
  <2>3. PICK i \in RowSegment(left, row) : v = F(row, col, i)
    BY <2>2
  <2>4. PICK k : k = left.entries[i].index
    OBVIOUS
  <2>5. <<row, k>> \in NonZero(P) /\ a[<<row, k>>] = i /\ left.entries[i].value = L.values[<<row, k>>]
    BY <1>1, <1>7, <2>4, CsrOf
  <2>6. <<row, k, col>> \in T
    BY <1>6, <1>7, <2>4, <2>5
  <2>7. v = PairAt(row, k, col, p, q, L, R)
    <3>1. v = Visit(row, col, a[<<row, k>>], col, L.values[<<row, k>>], R.values[<<k, col>>])
      BY <2>3, <2>4, <2>5 DEF F
    <3>2. QED
      BY <1>8, <1>9, <2>6, <3>1 DEF PairAt
  <2>8. QED
    BY <2>6, <2>7
<1>12. ASSUME NEW row, NEW k, NEW h, NEW col, <<row, k, col>> \in T, <<row, h, col>> \in T,
             p[<<row, k, col>>] = p[<<row, h, col>>], q[<<row, k, col>>] = q[<<row, h, col>>]
      PROVE  k = h
  <2>1. Apart(P, a)
    BY <1>1, HoldsApart
  <2>2. <<row, k>> \in NonZero(P) /\ <<row, h>> \in NonZero(P)
    BY <1>12, <1>6
  <2>3. a[<<row, k>>] = p[<<row, k, col>>]
    BY <1>12, <1>8
  <2>4. a[<<row, h>>] = p[<<row, h, col>>]
    BY <1>12, <1>8
  <2>5. a[<<row, k>>] = a[<<row, h>>]
    BY <1>12, <2>3, <2>4
  <2>6. QED
    BY <2>1, <2>2, <2>5, AtApart
<1>13. \E x, y : Visited(V, T, x, y, L, R)
  BY <1>10, <1>11, <1>12, VisitedBy
<1>14. QED
  BY <1>13 DEF V

\* Entries in any order within their rows, ...
LEMMA HeldCsrCsr ==
  ASSUME NEW P, NEW L, NEW Q, NEW R, StoredOperands(P, L, Q, R),
         NEW left, NEW a, CsrHolds(left, P, L, a), NEW right, NEW b, CsrHolds(right, Q, R, b),
         NEW T, T = Triples("MAT_CSR", P, "MAT_CSR", Q)
  PROVE  (\E p, q : Visited(csr_x_csr(left, right), T, p, q, L, R)) /\ OnePerPair(csr_x_csr(left, right))
<1>1. CsrHolds(left, P, L, a)
  OBVIOUS
<1>2. CsrHolds(right, Q, R, b)
  OBVIOUS
<1> DEFINE V == csr_x_csr(left, right)
           F(row, i, j) == Visit(row, right.entries[j].index, i, j, left.entries[i].value, right.entries[j].value)
           p == [t \in T |-> a[<<t[1], t[2]>>]]
           q == [t \in T |-> b[<<t[2], t[3]>>]]
<1>3. \A x : x \in 0 .. left.row_count - 1 <=> x \in Rows(L)
  BY <1>1 DEF CsrHolds, Rows
<1>4. V = UNION {UNION {{F(row, i, j) : j \in RowSegment(right, left.entries[i].index)} : i \in RowSegment(left, row)} : row \in 0 .. left.row_count - 1}
  BY DEF csr_x_csr
<1> HIDE DEF V, F, p, q
<1>5. \A v : v \in V <=> \E row \in 0 .. left.row_count - 1 : \E i \in RowSegment(left, row) : \E j \in RowSegment(right, left.entries[i].index) : v = F(row, i, j)
  BY <1>4
<1>6. \A v : v \in V <=> \E row \in Rows(L) : \E i \in RowSegment(left, row) : \E j \in RowSegment(right, left.entries[i].index) : v = F(row, i, j)
  BY <1>5, <1>3
<1>7. ASSUME NEW row, NEW k, NEW col PROVE <<row, k, col>> \in T <=> row \in Rows(L) /\ k \in Cols(L) /\ col \in Cols(R) /\ <<row, k>> \in NonZero(P) /\ <<k, col>> \in NonZero(Q)
  <2>1. Held("MAT_CSR", P) = NonZero(P) /\ Held("MAT_CSR", Q) = NonZero(Q)
    BY HeldIs
  <2>2. <<row, k, col>> \in Triples("MAT_CSR", P, "MAT_CSR", Q) <=>
          /\ row \in Rows(L) /\ k \in Cols(L) /\ col \in Cols(R)
          /\ <<row, k>> \in Held("MAT_CSR", P) /\ <<k, col>> \in Held("MAT_CSR", Q)
    BY StoredTriple
  <2>3. QED
    BY <2>1, <2>2, StoredCells
<1>8. /\ \A row, k : <<row, k>> \in NonZero(P) => row \in Rows(L) /\ k \in Cols(L)
      /\ \A k, col : <<k, col>> \in NonZero(Q) => k \in Cols(L) /\ col \in Cols(R)
      /\ Rows(R) = Cols(L)
  BY StoredCells
<1>9. \A row, k, col : <<row, k, col>> \in T => p[<<row, k, col>>] = a[<<row, k>>]
  BY DEF p
<1>10. \A row, k, col : <<row, k, col>> \in T => q[<<row, k, col>>] = b[<<k, col>>]
  BY DEF q
<1>11. ASSUME NEW row, NEW k, NEW col, <<row, k, col>> \in T PROVE PairAt(row, k, col, p, q, L, R) \in V
  <2>1. row \in Rows(L) /\ k \in Cols(L) /\ k \in Rows(R) /\ col \in Cols(R) /\ <<row, k>> \in NonZero(P) /\ <<k, col>> \in NonZero(Q)
    BY <1>11, <1>7, <1>8
  <2>2. /\ a[<<row, k>>] \in RowSegment(left, row) /\ left.entries[a[<<row, k>>]].index = k
        /\ left.entries[a[<<row, k>>]].value = L.values[<<row, k>>]
    BY <1>1, <2>1, CsrAt
  <2>3. /\ b[<<k, col>>] \in RowSegment(right, k) /\ right.entries[b[<<k, col>>]].index = col
        /\ right.entries[b[<<k, col>>]].value = R.values[<<k, col>>]
    BY <1>2, <2>1, CsrAt
  <2>4. PairAt(row, k, col, p, q, L, R) = Visit(row, col, a[<<row, k>>], b[<<k, col>>], L.values[<<row, k>>], R.values[<<k, col>>])
    BY <1>11, <1>9, <1>10 DEF PairAt
  <2>5. PairAt(row, k, col, p, q, L, R) = F(row, a[<<row, k>>], b[<<k, col>>])
    BY <2>1, <2>2, <2>3, <2>4 DEF F
  <2>6. QED
    BY <1>6, <2>1, <2>2, <2>3, <2>4, <2>5
<1>12. ASSUME NEW v \in V PROVE \E row, k, col : <<row, k, col>> \in T /\ v = PairAt(row, k, col, p, q, L, R)
  <2>1. PICK row \in Rows(L) : \E i \in RowSegment(left, row) : \E j \in RowSegment(right, left.entries[i].index) : v = F(row, i, j)
    BY <1>6
  <2>2. PICK i \in RowSegment(left, row) : \E j \in RowSegment(right, left.entries[i].index) : v = F(row, i, j)
    BY <2>1
  <2>3. PICK j \in RowSegment(right, left.entries[i].index) : v = F(row, i, j)
    BY <2>2
  <2>4. PICK k : k = left.entries[i].index
    OBVIOUS
  <2>5. PICK col : col = right.entries[j].index
    OBVIOUS
  <2>6. <<row, k>> \in NonZero(P) /\ a[<<row, k>>] = i /\ left.entries[i].value = L.values[<<row, k>>]
    BY <1>1, <1>8, <2>4, <2>5, CsrOf
  <2>7. <<k, col>> \in NonZero(Q) /\ b[<<k, col>>] = j /\ right.entries[j].value = R.values[<<k, col>>]
    BY <1>2, <1>8, <2>4, <2>5, <2>6, CsrOf
  <2>8. <<row, k, col>> \in T
    BY <1>7, <1>8, <2>4, <2>5, <2>6, <2>7
  <2>9. v = PairAt(row, k, col, p, q, L, R)
    <3>1. v = Visit(row, col, a[<<row, k>>], b[<<k, col>>], L.values[<<row, k>>], R.values[<<k, col>>])
      BY <2>3, <2>4, <2>5, <2>6, <2>7 DEF F
    <3>2. QED
      BY <1>9, <1>10, <2>8, <3>1 DEF PairAt
  <2>10. QED
    BY <2>8, <2>9
<1>13. ASSUME NEW row, NEW k, NEW h, NEW col, <<row, k, col>> \in T, <<row, h, col>> \in T,
             p[<<row, k, col>>] = p[<<row, h, col>>], q[<<row, k, col>>] = q[<<row, h, col>>]
      PROVE  k = h
  <2>1. Apart(P, a)
    BY <1>1, HoldsApart
  <2>2. <<row, k>> \in NonZero(P) /\ <<row, h>> \in NonZero(P)
    BY <1>13, <1>7
  <2>3. a[<<row, k>>] = p[<<row, k, col>>]
    BY <1>13, <1>9
  <2>4. a[<<row, h>>] = p[<<row, h, col>>]
    BY <1>13, <1>9
  <2>5. a[<<row, k>>] = a[<<row, h>>]
    BY <1>13, <2>3, <2>4
  <2>6. QED
    BY <2>1, <2>2, <2>5, AtApart
<1>14. \E x, y : Visited(V, T, x, y, L, R)
  BY <1>11, <1>12, <1>13, VisitedBy
<1>15. OnePerPair(V)
  <2>1. Apart(P, a) /\ Apart(Q, b)
    BY <1>1, <1>2, HoldsApart
  <2>2. Numbered(a, P)
    BY <1>1, HoldsNumbers
  <2>3. Numbered(b, Q)
    BY <1>2, HoldsNumbers
  <2>4. \A row, k, col : <<row, k, col>> \in T => <<row, k>> \in NonZero(P) /\ <<k, col>> \in NonZero(Q)
    BY <1>7
  <2>5. Paired(V, T, p, q, a, b, P, L, Q, R)
    BY <1>9, <1>10, <1>12, <2>4 DEF Paired
  <2>6. QED
    BY <2>1, <2>2, <2>3, <2>5, PairsApart
<1>16. QED
  BY <1>14, <1>15 DEF V

\* ... and those of a conversion.
LEMMA CsrCsr ==
  ASSUME NEW P, NEW L, NEW Q, NEW R, StoredOperands(P, L, Q, R), NEW left, left = StoredCsr(P, L), NEW right, right = StoredCsr(Q, R),
         NEW T, T = Triples("MAT_CSR", P, "MAT_CSR", Q)
  PROVE  (\E p, q : Visited(csr_x_csr(left, right), T, p, q, L, R)) /\ OnePerPair(csr_x_csr(left, right))
<1>1. PICK a : CsrHolds(left, P, L, a)
  BY CsrLayout DEF StoredOperands
<1>2. PICK b : CsrHolds(right, Q, R, b)
  BY CsrLayout DEF StoredOperands
<1>3. QED
  BY <1>1, <1>2, HeldCsrCsr

LEMMA CscDense ==
  ASSUME NEW P, NEW L, NEW Q, NEW R, StoredOperands(P, L, Q, R), NEW left, left = StoredCsc(P, L),
         NEW T, T = Triples("MAT_CSC", P, "MAT_DENSE", Q)
  PROVE  \E p, q : Visited(csc_x_dense(left, R), T, p, q, L, R)
<1>1. PICK a : CscHolds(left, P, L, a)
  BY CscLayout DEF StoredOperands
<1> DEFINE V == csc_x_dense(left, R)
           F(k, col, i) == Visit(left.entries[i].index, col, i, k, left.entries[i].value, R.values[<<k, col>>])
           p == [t \in T |-> a[<<t[1], t[2]>>]]
           q == [t \in T |-> t[2]]
<1>2. \A x : x \in 0 .. left.col_count - 1 <=> x \in Cols(L)
  BY <1>1 DEF CscHolds, Cols
<1>3. V = UNION {UNION {{F(k, col, i) : i \in ColSegment(left, k)} : col \in Cols(R)} : k \in 0 .. left.col_count - 1}
  BY DEF csc_x_dense
<1> HIDE DEF V, F, p, q
<1>4. \A v : v \in V <=> \E k \in 0 .. left.col_count - 1 : \E col \in Cols(R) : \E i \in ColSegment(left, k) : v = F(k, col, i)
  BY <1>3
<1>5. \A v : v \in V <=> \E k \in Cols(L) : \E col \in Cols(R) : \E i \in ColSegment(left, k) : v = F(k, col, i)
  BY <1>4, <1>2
<1>6. ASSUME NEW row, NEW k, NEW col PROVE <<row, k, col>> \in T <=> row \in Rows(L) /\ k \in Cols(L) /\ col \in Cols(R) /\ <<row, k>> \in NonZero(P)
  <2>1. Held("MAT_CSC", P) = NonZero(P) /\ Held("MAT_DENSE", Q) = Cells(Q)
    BY HeldIs
  <2>2. <<row, k, col>> \in Triples("MAT_CSC", P, "MAT_DENSE", Q) <=>
          /\ row \in Rows(L) /\ k \in Cols(L) /\ col \in Cols(R)
          /\ <<row, k>> \in Held("MAT_CSC", P) /\ <<k, col>> \in Held("MAT_DENSE", Q)
    BY StoredTriple
  <2>3. QED
    BY <2>1, <2>2, StoredCells
<1>7. /\ \A row, k : <<row, k>> \in NonZero(P) => row \in Rows(L) /\ k \in Cols(L)
      /\ Rows(R) = Cols(L)
  BY StoredCells
<1>8. \A row, k, col : <<row, k, col>> \in T => p[<<row, k, col>>] = a[<<row, k>>]
  BY DEF p
<1>9. \A row, k, col : <<row, k, col>> \in T => q[<<row, k, col>>] = k
  BY DEF q
<1>10. ASSUME NEW row, NEW k, NEW col, <<row, k, col>> \in T PROVE PairAt(row, k, col, p, q, L, R) \in V
  <2>1. row \in Rows(L) /\ k \in Cols(L) /\ k \in Rows(R) /\ col \in Cols(R) /\ <<row, k>> \in NonZero(P)
    BY <1>10, <1>6, <1>7
  <2>2. /\ a[<<row, k>>] \in ColSegment(left, k) /\ left.entries[a[<<row, k>>]].index = row
        /\ left.entries[a[<<row, k>>]].value = L.values[<<row, k>>]
    BY <1>1, <2>1, CscAt
  <2>3. PairAt(row, k, col, p, q, L, R) = Visit(row, col, a[<<row, k>>], k, L.values[<<row, k>>], R.values[<<k, col>>])
    BY <1>10, <1>8, <1>9 DEF PairAt
  <2>4. PairAt(row, k, col, p, q, L, R) = F(k, col, a[<<row, k>>])
    BY <2>1, <2>2, <2>3 DEF F
  <2>5. QED
    BY <1>5, <2>1, <2>2, <2>3, <2>4
<1>11. ASSUME NEW v \in V PROVE \E row, k, col : <<row, k, col>> \in T /\ v = PairAt(row, k, col, p, q, L, R)
  <2>1. PICK k \in Cols(L) : \E col \in Cols(R) : \E i \in ColSegment(left, k) : v = F(k, col, i)
    BY <1>5
  <2>2. PICK col \in Cols(R) : \E i \in ColSegment(left, k) : v = F(k, col, i)
    BY <2>1
  <2>3. PICK i \in ColSegment(left, k) : v = F(k, col, i)
    BY <2>2
  <2>4. PICK row : row = left.entries[i].index
    OBVIOUS
  <2>5. <<row, k>> \in NonZero(P) /\ a[<<row, k>>] = i /\ left.entries[i].value = L.values[<<row, k>>]
    BY <1>1, <1>7, <2>4, CscOf
  <2>6. <<row, k, col>> \in T
    BY <1>6, <1>7, <2>4, <2>5
  <2>7. v = PairAt(row, k, col, p, q, L, R)
    <3>1. v = Visit(row, col, a[<<row, k>>], k, L.values[<<row, k>>], R.values[<<k, col>>])
      BY <2>3, <2>4, <2>5 DEF F
    <3>2. QED
      BY <1>8, <1>9, <2>6, <3>1 DEF PairAt
  <2>8. QED
    BY <2>6, <2>7
<1>12. ASSUME NEW row, NEW k, NEW h, NEW col, <<row, k, col>> \in T, <<row, h, col>> \in T,
             p[<<row, k, col>>] = p[<<row, h, col>>], q[<<row, k, col>>] = q[<<row, h, col>>]
      PROVE  k = h
  <2>1. Apart(P, a)
    BY <1>1, HoldsApart
  <2>2. <<row, k>> \in NonZero(P) /\ <<row, h>> \in NonZero(P)
    BY <1>12, <1>6
  <2>3. a[<<row, k>>] = p[<<row, k, col>>]
    BY <1>12, <1>8
  <2>4. a[<<row, h>>] = p[<<row, h, col>>]
    BY <1>12, <1>8
  <2>5. a[<<row, k>>] = a[<<row, h>>]
    BY <1>12, <2>3, <2>4
  <2>6. QED
    BY <2>1, <2>2, <2>5, AtApart
<1>13. \E x, y : Visited(V, T, x, y, L, R)
  BY <1>10, <1>11, <1>12, VisitedBy
<1>14. QED
  BY <1>13 DEF V

LEMMA CscCsr ==
  ASSUME NEW P, NEW L, NEW Q, NEW R, StoredOperands(P, L, Q, R), NEW left, left = StoredCsc(P, L), NEW right, right = StoredCsr(Q, R),
         NEW T, T = Triples("MAT_CSC", P, "MAT_CSR", Q)
  PROVE  (\E p, q : Visited(csc_x_csr(left, right), T, p, q, L, R)) /\ OnePerPair(csc_x_csr(left, right))
<1>1. PICK a : CscHolds(left, P, L, a)
  BY CscLayout DEF StoredOperands
<1>2. PICK b : CsrHolds(right, Q, R, b)
  BY CsrLayout DEF StoredOperands
<1> DEFINE V == csc_x_csr(left, right)
           F(k, i, j) == Visit(left.entries[i].index, right.entries[j].index, i, j, left.entries[i].value, right.entries[j].value)
           p == [t \in T |-> a[<<t[1], t[2]>>]]
           q == [t \in T |-> b[<<t[2], t[3]>>]]
<1>3. \A x : x \in 0 .. right.row_count - 1 <=> x \in Rows(R)
  BY <1>2 DEF CsrHolds, Rows
<1>4. V = UNION {UNION {{F(k, i, j) : j \in RowSegment(right, k)} : i \in ColSegment(left, k)} : k \in 0 .. right.row_count - 1}
  BY DEF csc_x_csr
<1> HIDE DEF V, F, p, q
<1>5. \A v : v \in V <=> \E k \in 0 .. right.row_count - 1 : \E i \in ColSegment(left, k) : \E j \in RowSegment(right, k) : v = F(k, i, j)
  BY <1>4
<1>6. \A v : v \in V <=> \E k \in Rows(R) : \E i \in ColSegment(left, k) : \E j \in RowSegment(right, k) : v = F(k, i, j)
  BY <1>5, <1>3
<1>7. ASSUME NEW row, NEW k, NEW col PROVE <<row, k, col>> \in T <=> row \in Rows(L) /\ k \in Cols(L) /\ col \in Cols(R) /\ <<row, k>> \in NonZero(P) /\ <<k, col>> \in NonZero(Q)
  <2>1. Held("MAT_CSC", P) = NonZero(P) /\ Held("MAT_CSR", Q) = NonZero(Q)
    BY HeldIs
  <2>2. <<row, k, col>> \in Triples("MAT_CSC", P, "MAT_CSR", Q) <=>
          /\ row \in Rows(L) /\ k \in Cols(L) /\ col \in Cols(R)
          /\ <<row, k>> \in Held("MAT_CSC", P) /\ <<k, col>> \in Held("MAT_CSR", Q)
    BY StoredTriple
  <2>3. QED
    BY <2>1, <2>2, StoredCells
<1>8. /\ \A row, k : <<row, k>> \in NonZero(P) => row \in Rows(L) /\ k \in Cols(L)
      /\ \A k, col : <<k, col>> \in NonZero(Q) => k \in Cols(L) /\ col \in Cols(R)
      /\ Rows(R) = Cols(L)
  BY StoredCells
<1>9. \A row, k, col : <<row, k, col>> \in T => p[<<row, k, col>>] = a[<<row, k>>]
  BY DEF p
<1>10. \A row, k, col : <<row, k, col>> \in T => q[<<row, k, col>>] = b[<<k, col>>]
  BY DEF q
<1>11. ASSUME NEW row, NEW k, NEW col, <<row, k, col>> \in T PROVE PairAt(row, k, col, p, q, L, R) \in V
  <2>1. row \in Rows(L) /\ k \in Cols(L) /\ k \in Rows(R) /\ col \in Cols(R) /\ <<row, k>> \in NonZero(P) /\ <<k, col>> \in NonZero(Q)
    BY <1>11, <1>7, <1>8
  <2>2. /\ a[<<row, k>>] \in ColSegment(left, k) /\ left.entries[a[<<row, k>>]].index = row
        /\ left.entries[a[<<row, k>>]].value = L.values[<<row, k>>]
    BY <1>1, <2>1, CscAt
  <2>3. /\ b[<<k, col>>] \in RowSegment(right, k) /\ right.entries[b[<<k, col>>]].index = col
        /\ right.entries[b[<<k, col>>]].value = R.values[<<k, col>>]
    BY <1>2, <2>1, CsrAt
  <2>4. PairAt(row, k, col, p, q, L, R) = Visit(row, col, a[<<row, k>>], b[<<k, col>>], L.values[<<row, k>>], R.values[<<k, col>>])
    BY <1>11, <1>9, <1>10 DEF PairAt
  <2>5. PairAt(row, k, col, p, q, L, R) = F(k, a[<<row, k>>], b[<<k, col>>])
    BY <2>1, <2>2, <2>3, <2>4 DEF F
  <2>6. QED
    BY <1>6, <2>1, <2>2, <2>3, <2>4, <2>5
<1>12. ASSUME NEW v \in V PROVE \E row, k, col : <<row, k, col>> \in T /\ v = PairAt(row, k, col, p, q, L, R)
  <2>1. PICK k \in Rows(R) : \E i \in ColSegment(left, k) : \E j \in RowSegment(right, k) : v = F(k, i, j)
    BY <1>6
  <2>2. PICK i \in ColSegment(left, k) : \E j \in RowSegment(right, k) : v = F(k, i, j)
    BY <2>1
  <2>3. PICK j \in RowSegment(right, k) : v = F(k, i, j)
    BY <2>2
  <2>4. PICK row : row = left.entries[i].index
    OBVIOUS
  <2>5. PICK col : col = right.entries[j].index
    OBVIOUS
  <2>6. <<row, k>> \in NonZero(P) /\ a[<<row, k>>] = i /\ left.entries[i].value = L.values[<<row, k>>]
    BY <1>1, <1>8, <2>4, <2>5, CscOf
  <2>7. <<k, col>> \in NonZero(Q) /\ b[<<k, col>>] = j /\ right.entries[j].value = R.values[<<k, col>>]
    BY <1>2, <1>8, <2>4, <2>5, <2>6, CsrOf
  <2>8. <<row, k, col>> \in T
    BY <1>7, <1>8, <2>4, <2>5, <2>6, <2>7
  <2>9. v = PairAt(row, k, col, p, q, L, R)
    <3>1. v = Visit(row, col, a[<<row, k>>], b[<<k, col>>], L.values[<<row, k>>], R.values[<<k, col>>])
      BY <2>3, <2>4, <2>5, <2>6, <2>7 DEF F
    <3>2. QED
      BY <1>9, <1>10, <2>8, <3>1 DEF PairAt
  <2>10. QED
    BY <2>8, <2>9
<1>13. ASSUME NEW row, NEW k, NEW h, NEW col, <<row, k, col>> \in T, <<row, h, col>> \in T,
             p[<<row, k, col>>] = p[<<row, h, col>>], q[<<row, k, col>>] = q[<<row, h, col>>]
      PROVE  k = h
  <2>1. Apart(P, a)
    BY <1>1, HoldsApart
  <2>2. <<row, k>> \in NonZero(P) /\ <<row, h>> \in NonZero(P)
    BY <1>13, <1>7
  <2>3. a[<<row, k>>] = p[<<row, k, col>>]
    BY <1>13, <1>9
  <2>4. a[<<row, h>>] = p[<<row, h, col>>]
    BY <1>13, <1>9
  <2>5. a[<<row, k>>] = a[<<row, h>>]
    BY <1>13, <2>3, <2>4
  <2>6. QED
    BY <2>1, <2>2, <2>5, AtApart
<1>14. \E x, y : Visited(V, T, x, y, L, R)
  BY <1>11, <1>12, <1>13, VisitedBy
<1>15. OnePerPair(V)
  <2>1. Apart(P, a) /\ Apart(Q, b)
    BY <1>1, <1>2, HoldsApart
  <2>2. Numbered(a, P)
    BY <1>1, HoldsNumbers
  <2>3. Numbered(b, Q)
    BY <1>2, HoldsNumbers
  <2>4. \A row, k, col : <<row, k, col>> \in T => <<row, k>> \in NonZero(P) /\ <<k, col>> \in NonZero(Q)
    BY <1>7
  <2>5. Paired(V, T, p, q, a, b, P, L, Q, R)
    BY <1>9, <1>10, <1>12, <2>4 DEF Paired
  <2>6. QED
    BY <2>1, <2>2, <2>3, <2>5, PairsApart
<1>16. QED
  BY <1>14, <1>15 DEF V

LEMMA CscCsc ==
  ASSUME NEW P, NEW L, NEW Q, NEW R, StoredOperands(P, L, Q, R), NEW left, left = StoredCsc(P, L), NEW right, right = StoredCsc(Q, R),
         NEW T, T = Triples("MAT_CSC", P, "MAT_CSC", Q)
  PROVE  \E p, q : Visited(csc_x_csc(left, right), T, p, q, L, R)
<1>1. PICK a : CscHolds(left, P, L, a)
  BY CscLayout DEF StoredOperands
<1>2. PICK b : CscHolds(right, Q, R, b)
  BY CscLayout DEF StoredOperands
<1> DEFINE V == csc_x_csc(left, right)
           F(col, j, i) == Visit(left.entries[i].index, col, i, j, left.entries[i].value, right.entries[j].value)
           p == [t \in T |-> a[<<t[1], t[2]>>]]
           q == [t \in T |-> b[<<t[2], t[3]>>]]
<1>3. \A x : x \in 0 .. right.col_count - 1 <=> x \in Cols(R)
  BY <1>2 DEF CscHolds, Cols
<1>4. V = UNION {UNION {{F(col, j, i) : i \in ColSegment(left, right.entries[j].index)} : j \in ColSegment(right, col)} : col \in 0 .. right.col_count - 1}
  BY DEF csc_x_csc
<1> HIDE DEF V, F, p, q
<1>5. \A v : v \in V <=> \E col \in 0 .. right.col_count - 1 : \E j \in ColSegment(right, col) : \E i \in ColSegment(left, right.entries[j].index) : v = F(col, j, i)
  BY <1>4
<1>6. \A v : v \in V <=> \E col \in Cols(R) : \E j \in ColSegment(right, col) : \E i \in ColSegment(left, right.entries[j].index) : v = F(col, j, i)
  BY <1>5, <1>3
<1>7. ASSUME NEW row, NEW k, NEW col PROVE <<row, k, col>> \in T <=> row \in Rows(L) /\ k \in Cols(L) /\ col \in Cols(R) /\ <<row, k>> \in NonZero(P) /\ <<k, col>> \in NonZero(Q)
  <2>1. Held("MAT_CSC", P) = NonZero(P) /\ Held("MAT_CSC", Q) = NonZero(Q)
    BY HeldIs
  <2>2. <<row, k, col>> \in Triples("MAT_CSC", P, "MAT_CSC", Q) <=>
          /\ row \in Rows(L) /\ k \in Cols(L) /\ col \in Cols(R)
          /\ <<row, k>> \in Held("MAT_CSC", P) /\ <<k, col>> \in Held("MAT_CSC", Q)
    BY StoredTriple
  <2>3. QED
    BY <2>1, <2>2, StoredCells
<1>8. /\ \A row, k : <<row, k>> \in NonZero(P) => row \in Rows(L) /\ k \in Cols(L)
      /\ \A k, col : <<k, col>> \in NonZero(Q) => k \in Cols(L) /\ col \in Cols(R)
      /\ Rows(R) = Cols(L)
  BY StoredCells
<1>9. \A row, k, col : <<row, k, col>> \in T => p[<<row, k, col>>] = a[<<row, k>>]
  BY DEF p
<1>10. \A row, k, col : <<row, k, col>> \in T => q[<<row, k, col>>] = b[<<k, col>>]
  BY DEF q
<1>11. ASSUME NEW row, NEW k, NEW col, <<row, k, col>> \in T PROVE PairAt(row, k, col, p, q, L, R) \in V
  <2>1. row \in Rows(L) /\ k \in Cols(L) /\ k \in Rows(R) /\ col \in Cols(R) /\ <<row, k>> \in NonZero(P) /\ <<k, col>> \in NonZero(Q)
    BY <1>11, <1>7, <1>8
  <2>2. /\ a[<<row, k>>] \in ColSegment(left, k) /\ left.entries[a[<<row, k>>]].index = row
        /\ left.entries[a[<<row, k>>]].value = L.values[<<row, k>>]
    BY <1>1, <2>1, CscAt
  <2>3. /\ b[<<k, col>>] \in ColSegment(right, col) /\ right.entries[b[<<k, col>>]].index = k
        /\ right.entries[b[<<k, col>>]].value = R.values[<<k, col>>]
    BY <1>2, <2>1, CscAt
  <2>4. PairAt(row, k, col, p, q, L, R) = Visit(row, col, a[<<row, k>>], b[<<k, col>>], L.values[<<row, k>>], R.values[<<k, col>>])
    BY <1>11, <1>9, <1>10 DEF PairAt
  <2>5. PairAt(row, k, col, p, q, L, R) = F(col, b[<<k, col>>], a[<<row, k>>])
    BY <2>1, <2>2, <2>3, <2>4 DEF F
  <2>6. QED
    BY <1>6, <2>1, <2>2, <2>3, <2>4, <2>5
<1>12. ASSUME NEW v \in V PROVE \E row, k, col : <<row, k, col>> \in T /\ v = PairAt(row, k, col, p, q, L, R)
  <2>1. PICK col \in Cols(R) : \E j \in ColSegment(right, col) : \E i \in ColSegment(left, right.entries[j].index) : v = F(col, j, i)
    BY <1>6
  <2>2. PICK j \in ColSegment(right, col) : \E i \in ColSegment(left, right.entries[j].index) : v = F(col, j, i)
    BY <2>1
  <2>3. PICK i \in ColSegment(left, right.entries[j].index) : v = F(col, j, i)
    BY <2>2
  <2>4. PICK row : row = left.entries[i].index
    OBVIOUS
  <2>5. PICK k : k = right.entries[j].index
    OBVIOUS
  <2>6. <<k, col>> \in NonZero(Q) /\ b[<<k, col>>] = j /\ right.entries[j].value = R.values[<<k, col>>]
    BY <1>2, <1>8, <2>4, <2>5, CscOf
  <2>7. <<row, k>> \in NonZero(P) /\ a[<<row, k>>] = i /\ left.entries[i].value = L.values[<<row, k>>]
    BY <1>1, <1>8, <2>4, <2>5, <2>6, CscOf
  <2>8. <<row, k, col>> \in T
    BY <1>7, <1>8, <2>4, <2>5, <2>6, <2>7
  <2>9. v = PairAt(row, k, col, p, q, L, R)
    <3>1. v = Visit(row, col, a[<<row, k>>], b[<<k, col>>], L.values[<<row, k>>], R.values[<<k, col>>])
      BY <2>3, <2>4, <2>5, <2>6, <2>7 DEF F
    <3>2. QED
      BY <1>9, <1>10, <2>8, <3>1 DEF PairAt
  <2>10. QED
    BY <2>8, <2>9
<1>13. ASSUME NEW row, NEW k, NEW h, NEW col, <<row, k, col>> \in T, <<row, h, col>> \in T,
             p[<<row, k, col>>] = p[<<row, h, col>>], q[<<row, k, col>>] = q[<<row, h, col>>]
      PROVE  k = h
  <2>1. Apart(P, a)
    BY <1>1, HoldsApart
  <2>2. <<row, k>> \in NonZero(P) /\ <<row, h>> \in NonZero(P)
    BY <1>13, <1>7
  <2>3. a[<<row, k>>] = p[<<row, k, col>>]
    BY <1>13, <1>9
  <2>4. a[<<row, h>>] = p[<<row, h, col>>]
    BY <1>13, <1>9
  <2>5. a[<<row, k>>] = a[<<row, h>>]
    BY <1>13, <2>3, <2>4
  <2>6. QED
    BY <2>1, <2>2, <2>5, AtApart
<1>14. \E x, y : Visited(V, T, x, y, L, R)
  BY <1>11, <1>12, <1>13, VisitedBy
<1>15. QED
  BY <1>14 DEF V

LEMMA CscCoo ==
  ASSUME NEW P, NEW L, NEW Q, NEW R, StoredOperands(P, L, Q, R), NEW left, left = StoredCsc(P, L), NEW right, right = StoredCoo(Q, R),
         NEW T, T = Triples("MAT_CSC", P, "MAT_COO", Q)
  PROVE  (\E p, q : Visited(csc_x_coo(left, right), T, p, q, L, R)) /\ OnePerPair(csc_x_coo(left, right))
<1>1. PICK a : CscHolds(left, P, L, a)
  BY CscLayout DEF StoredOperands
<1>2. PICK b, f : CooHolds(right, Q, R, b, f)
  BY CooLayout DEF StoredOperands
<1> DEFINE V == csc_x_coo(left, right)
           F(kB, i, j) == Visit(left.entries[i].index, right[j].col, i, j, left.entries[i].value, right[j].value)
           p == [t \in T |-> a[<<t[1], t[2]>>]]
           q == [t \in T |-> b[<<t[2], t[3]>>]]
<1>3. V = UNION {UNION {{F(kB, i, j) : j \in Segment(right, kB)} : i \in ColSegment(left, right[kB].row)} : kB \in SegmentStarts(right)}
  BY DEF csc_x_coo
<1> HIDE DEF V, F, p, q
<1>4. \A v : v \in V <=> \E kB \in SegmentStarts(right) : \E i \in ColSegment(left, right[kB].row) : \E j \in Segment(right, kB) : v = F(kB, i, j)
  BY <1>3
<1>5. ASSUME NEW row, NEW k, NEW col PROVE <<row, k, col>> \in T <=> row \in Rows(L) /\ k \in Cols(L) /\ col \in Cols(R) /\ <<row, k>> \in NonZero(P) /\ <<k, col>> \in NonZero(Q)
  <2>1. Held("MAT_CSC", P) = NonZero(P) /\ Held("MAT_COO", Q) = NonZero(Q)
    BY HeldIs
  <2>2. <<row, k, col>> \in Triples("MAT_CSC", P, "MAT_COO", Q) <=>
          /\ row \in Rows(L) /\ k \in Cols(L) /\ col \in Cols(R)
          /\ <<row, k>> \in Held("MAT_CSC", P) /\ <<k, col>> \in Held("MAT_COO", Q)
    BY StoredTriple
  <2>3. QED
    BY <2>1, <2>2, StoredCells
<1>6. /\ \A row, k : <<row, k>> \in NonZero(P) => row \in Rows(L) /\ k \in Cols(L)
      /\ \A k, col : <<k, col>> \in NonZero(Q) => k \in Cols(L) /\ col \in Cols(R)
      /\ Rows(R) = Cols(L)
  BY StoredCells
<1>7. \A row, k, col : <<row, k, col>> \in T => p[<<row, k, col>>] = a[<<row, k>>]
  BY DEF p
<1>8. \A row, k, col : <<row, k, col>> \in T => q[<<row, k, col>>] = b[<<k, col>>]
  BY DEF q
<1>9. ASSUME NEW row, NEW k, NEW col, <<row, k, col>> \in T PROVE PairAt(row, k, col, p, q, L, R) \in V
  <2>1. row \in Rows(L) /\ k \in Cols(L) /\ k \in Rows(R) /\ col \in Cols(R) /\ <<row, k>> \in NonZero(P) /\ <<k, col>> \in NonZero(Q)
    BY <1>9, <1>5, <1>6
  <2>2. /\ a[<<row, k>>] \in ColSegment(left, k) /\ left.entries[a[<<row, k>>]].index = row
        /\ left.entries[a[<<row, k>>]].value = L.values[<<row, k>>]
    BY <1>1, <2>1, CscAt
  <2>3. /\ b[<<k, col>>] \in Segment(right, f[k]) /\ f[k] \in SegmentStarts(right) /\ right[f[k]].row = k
        /\ right[b[<<k, col>>]].col = col /\ right[b[<<k, col>>]].value = R.values[<<k, col>>]
    BY <1>2, <2>1, CooAt
  <2>4. PairAt(row, k, col, p, q, L, R) = Visit(row, col, a[<<row, k>>], b[<<k, col>>], L.values[<<row, k>>], R.values[<<k, col>>])
    BY <1>9, <1>7, <1>8 DEF PairAt
  <2>5. PairAt(row, k, col, p, q, L, R) = F(f[k], a[<<row, k>>], b[<<k, col>>])
    BY <2>1, <2>2, <2>3, <2>4 DEF F
  <2>6. QED
    BY <1>4, <2>1, <2>2, <2>3, <2>4, <2>5
<1>10. ASSUME NEW v \in V PROVE \E row, k, col : <<row, k, col>> \in T /\ v = PairAt(row, k, col, p, q, L, R)
  <2>1. PICK kB \in SegmentStarts(right) : \E i \in ColSegment(left, right[kB].row) : \E j \in Segment(right, kB) : v = F(kB, i, j)
    BY <1>4
  <2>2. PICK i \in ColSegment(left, right[kB].row) : \E j \in Segment(right, kB) : v = F(kB, i, j)
    BY <2>1
  <2>3. PICK j \in Segment(right, kB) : v = F(kB, i, j)
    BY <2>2
  <2>4. PICK row : row = left.entries[i].index
    OBVIOUS
  <2>5. PICK k : k = right[kB].row
    OBVIOUS
  <2>6. PICK col : col = right[j].col
    OBVIOUS
  <2>7. <<k, col>> \in NonZero(Q) /\ b[<<k, col>>] = j /\ right[j].value = R.values[<<k, col>>] /\ right[j].row = k /\ kB = f[k]
    BY <1>2, <1>6, <2>4, <2>5, <2>6, CooOf
  <2>8. <<row, k>> \in NonZero(P) /\ a[<<row, k>>] = i /\ left.entries[i].value = L.values[<<row, k>>]
    BY <1>1, <1>6, <2>4, <2>5, <2>6, <2>7, CscOf
  <2>9. <<row, k, col>> \in T
    BY <1>5, <1>6, <2>4, <2>5, <2>6, <2>7, <2>8
  <2>10. v = PairAt(row, k, col, p, q, L, R)
    <3>1. v = Visit(row, col, a[<<row, k>>], b[<<k, col>>], L.values[<<row, k>>], R.values[<<k, col>>])
      BY <2>3, <2>4, <2>5, <2>6, <2>7, <2>8 DEF F
    <3>2. QED
      BY <1>7, <1>8, <2>9, <3>1 DEF PairAt
  <2>11. QED
    BY <2>9, <2>10
<1>11. ASSUME NEW row, NEW k, NEW h, NEW col, <<row, k, col>> \in T, <<row, h, col>> \in T,
             p[<<row, k, col>>] = p[<<row, h, col>>], q[<<row, k, col>>] = q[<<row, h, col>>]
      PROVE  k = h
  <2>1. Apart(P, a)
    BY <1>1, HoldsApart
  <2>2. <<row, k>> \in NonZero(P) /\ <<row, h>> \in NonZero(P)
    BY <1>11, <1>5
  <2>3. a[<<row, k>>] = p[<<row, k, col>>]
    BY <1>11, <1>7
  <2>4. a[<<row, h>>] = p[<<row, h, col>>]
    BY <1>11, <1>7
  <2>5. a[<<row, k>>] = a[<<row, h>>]
    BY <1>11, <2>3, <2>4
  <2>6. QED
    BY <2>1, <2>2, <2>5, AtApart
<1>12. \E x, y : Visited(V, T, x, y, L, R)
  BY <1>9, <1>10, <1>11, VisitedBy
<1>13. OnePerPair(V)
  <2>1. Apart(P, a) /\ Apart(Q, b)
    BY <1>1, <1>2, HoldsApart
  <2>2. Numbered(a, P)
    BY <1>1, HoldsNumbers
  <2>3. Numbered(b, Q)
    BY <1>2, HoldsNumbers
  <2>4. \A row, k, col : <<row, k, col>> \in T => <<row, k>> \in NonZero(P) /\ <<k, col>> \in NonZero(Q)
    BY <1>5
  <2>5. Paired(V, T, p, q, a, b, P, L, Q, R)
    BY <1>7, <1>8, <1>10, <2>4 DEF Paired
  <2>6. QED
    BY <2>1, <2>2, <2>3, <2>5, PairsApart
<1>14. QED
  BY <1>12, <1>13 DEF V

LEMMA CooDense ==
  ASSUME NEW P, NEW L, NEW Q, NEW R, StoredOperands(P, L, Q, R), NEW left, left = StoredCoo(P, L),
         NEW T, T = Triples("MAT_COO", P, "MAT_DENSE", Q)
  PROVE  \E p, q : Visited(coo_x_dense(left, R), T, p, q, L, R)
<1>1. PICK a, e : CooHolds(left, P, L, a, e)
  BY CooLayout DEF StoredOperands
<1> DEFINE V == coo_x_dense(left, R)
           F(kA, i, col) == Visit(left[kA].row, col, i, col, left[i].value, R.values[<<left[i].col, col>>])
           p == [t \in T |-> a[<<t[1], t[2]>>]]
           q == [t \in T |-> t[3]]
<1>2. V = UNION {UNION {{F(kA, i, col) : col \in Cols(R)} : i \in Segment(left, kA)} : kA \in SegmentStarts(left)}
  BY DEF coo_x_dense
<1> HIDE DEF V, F, p, q
<1>3. \A v : v \in V <=> \E kA \in SegmentStarts(left) : \E i \in Segment(left, kA) : \E col \in Cols(R) : v = F(kA, i, col)
  BY <1>2
<1>4. ASSUME NEW row, NEW k, NEW col PROVE <<row, k, col>> \in T <=> row \in Rows(L) /\ k \in Cols(L) /\ col \in Cols(R) /\ <<row, k>> \in NonZero(P)
  <2>1. Held("MAT_COO", P) = NonZero(P) /\ Held("MAT_DENSE", Q) = Cells(Q)
    BY HeldIs
  <2>2. <<row, k, col>> \in Triples("MAT_COO", P, "MAT_DENSE", Q) <=>
          /\ row \in Rows(L) /\ k \in Cols(L) /\ col \in Cols(R)
          /\ <<row, k>> \in Held("MAT_COO", P) /\ <<k, col>> \in Held("MAT_DENSE", Q)
    BY StoredTriple
  <2>3. QED
    BY <2>1, <2>2, StoredCells
<1>5. /\ \A row, k : <<row, k>> \in NonZero(P) => row \in Rows(L) /\ k \in Cols(L)
      /\ Rows(R) = Cols(L)
  BY StoredCells
<1>6. \A row, k, col : <<row, k, col>> \in T => p[<<row, k, col>>] = a[<<row, k>>]
  BY DEF p
<1>7. \A row, k, col : <<row, k, col>> \in T => q[<<row, k, col>>] = col
  BY DEF q
<1>8. ASSUME NEW row, NEW k, NEW col, <<row, k, col>> \in T PROVE PairAt(row, k, col, p, q, L, R) \in V
  <2>1. row \in Rows(L) /\ k \in Cols(L) /\ k \in Rows(R) /\ col \in Cols(R) /\ <<row, k>> \in NonZero(P)
    BY <1>8, <1>4, <1>5
  <2>2. /\ a[<<row, k>>] \in Segment(left, e[row]) /\ e[row] \in SegmentStarts(left) /\ left[e[row]].row = row
        /\ left[a[<<row, k>>]].col = k /\ left[a[<<row, k>>]].value = L.values[<<row, k>>]
    BY <1>1, <2>1, CooAt
  <2>3. PairAt(row, k, col, p, q, L, R) = Visit(row, col, a[<<row, k>>], col, L.values[<<row, k>>], R.values[<<k, col>>])
    BY <1>8, <1>6, <1>7 DEF PairAt
  <2>4. PairAt(row, k, col, p, q, L, R) = F(e[row], a[<<row, k>>], col)
    BY <2>1, <2>2, <2>3 DEF F
  <2>5. QED
    BY <1>3, <2>1, <2>2, <2>3, <2>4
<1>9. ASSUME NEW v \in V PROVE \E row, k, col : <<row, k, col>> \in T /\ v = PairAt(row, k, col, p, q, L, R)
  <2>1. PICK kA \in SegmentStarts(left) : \E i \in Segment(left, kA) : \E col \in Cols(R) : v = F(kA, i, col)
    BY <1>3
  <2>2. PICK i \in Segment(left, kA) : \E col \in Cols(R) : v = F(kA, i, col)
    BY <2>1
  <2>3. PICK col \in Cols(R) : v = F(kA, i, col)
    BY <2>2
  <2>4. PICK row : row = left[kA].row
    OBVIOUS
  <2>5. PICK k : k = left[i].col
    OBVIOUS
  <2>6. <<row, k>> \in NonZero(P) /\ a[<<row, k>>] = i /\ left[i].value = L.values[<<row, k>>] /\ left[i].row = row /\ kA = e[row]
    BY <1>1, <1>5, <2>4, <2>5, CooOf
  <2>7. <<row, k, col>> \in T
    BY <1>4, <1>5, <2>4, <2>5, <2>6
  <2>8. v = PairAt(row, k, col, p, q, L, R)
    <3>1. v = Visit(row, col, a[<<row, k>>], col, L.values[<<row, k>>], R.values[<<k, col>>])
      BY <2>3, <2>4, <2>5, <2>6 DEF F
    <3>2. QED
      BY <1>6, <1>7, <2>7, <3>1 DEF PairAt
  <2>9. QED
    BY <2>7, <2>8
<1>10. ASSUME NEW row, NEW k, NEW h, NEW col, <<row, k, col>> \in T, <<row, h, col>> \in T,
             p[<<row, k, col>>] = p[<<row, h, col>>], q[<<row, k, col>>] = q[<<row, h, col>>]
      PROVE  k = h
  <2>1. Apart(P, a)
    BY <1>1, HoldsApart
  <2>2. <<row, k>> \in NonZero(P) /\ <<row, h>> \in NonZero(P)
    BY <1>10, <1>4
  <2>3. a[<<row, k>>] = p[<<row, k, col>>]
    BY <1>10, <1>6
  <2>4. a[<<row, h>>] = p[<<row, h, col>>]
    BY <1>10, <1>6
  <2>5. a[<<row, k>>] = a[<<row, h>>]
    BY <1>10, <2>3, <2>4
  <2>6. QED
    BY <2>1, <2>2, <2>5, AtApart
<1>11. \E x, y : Visited(V, T, x, y, L, R)
  BY <1>8, <1>9, <1>10, VisitedBy
<1>12. QED
  BY <1>11 DEF V

LEMMA CooCsr ==
  ASSUME NEW P, NEW L, NEW Q, NEW R, StoredOperands(P, L, Q, R), NEW left, left = StoredCoo(P, L), NEW right, right = StoredCsr(Q, R),
         NEW T, T = Triples("MAT_COO", P, "MAT_CSR", Q)
  PROVE  (\E p, q : Visited(coo_x_csr(left, right), T, p, q, L, R)) /\ OnePerPair(coo_x_csr(left, right))
<1>1. PICK a, e : CooHolds(left, P, L, a, e)
  BY CooLayout DEF StoredOperands
<1>2. PICK b : CsrHolds(right, Q, R, b)
  BY CsrLayout DEF StoredOperands
<1> DEFINE V == coo_x_csr(left, right)
           F(kA, i, j) == Visit(left[kA].row, right.entries[j].index, i, j, left[i].value, right.entries[j].value)
           p == [t \in T |-> a[<<t[1], t[2]>>]]
           q == [t \in T |-> b[<<t[2], t[3]>>]]
<1>3. V = UNION {UNION {{F(kA, i, j) : j \in RowSegment(right, left[i].col)} : i \in Segment(left, kA)} : kA \in SegmentStarts(left)}
  BY DEF coo_x_csr
<1> HIDE DEF V, F, p, q
<1>4. \A v : v \in V <=> \E kA \in SegmentStarts(left) : \E i \in Segment(left, kA) : \E j \in RowSegment(right, left[i].col) : v = F(kA, i, j)
  BY <1>3
<1>5. ASSUME NEW row, NEW k, NEW col PROVE <<row, k, col>> \in T <=> row \in Rows(L) /\ k \in Cols(L) /\ col \in Cols(R) /\ <<row, k>> \in NonZero(P) /\ <<k, col>> \in NonZero(Q)
  <2>1. Held("MAT_COO", P) = NonZero(P) /\ Held("MAT_CSR", Q) = NonZero(Q)
    BY HeldIs
  <2>2. <<row, k, col>> \in Triples("MAT_COO", P, "MAT_CSR", Q) <=>
          /\ row \in Rows(L) /\ k \in Cols(L) /\ col \in Cols(R)
          /\ <<row, k>> \in Held("MAT_COO", P) /\ <<k, col>> \in Held("MAT_CSR", Q)
    BY StoredTriple
  <2>3. QED
    BY <2>1, <2>2, StoredCells
<1>6. /\ \A row, k : <<row, k>> \in NonZero(P) => row \in Rows(L) /\ k \in Cols(L)
      /\ \A k, col : <<k, col>> \in NonZero(Q) => k \in Cols(L) /\ col \in Cols(R)
      /\ Rows(R) = Cols(L)
  BY StoredCells
<1>7. \A row, k, col : <<row, k, col>> \in T => p[<<row, k, col>>] = a[<<row, k>>]
  BY DEF p
<1>8. \A row, k, col : <<row, k, col>> \in T => q[<<row, k, col>>] = b[<<k, col>>]
  BY DEF q
<1>9. ASSUME NEW row, NEW k, NEW col, <<row, k, col>> \in T PROVE PairAt(row, k, col, p, q, L, R) \in V
  <2>1. row \in Rows(L) /\ k \in Cols(L) /\ k \in Rows(R) /\ col \in Cols(R) /\ <<row, k>> \in NonZero(P) /\ <<k, col>> \in NonZero(Q)
    BY <1>9, <1>5, <1>6
  <2>2. /\ a[<<row, k>>] \in Segment(left, e[row]) /\ e[row] \in SegmentStarts(left) /\ left[e[row]].row = row
        /\ left[a[<<row, k>>]].col = k /\ left[a[<<row, k>>]].value = L.values[<<row, k>>]
    BY <1>1, <2>1, CooAt
  <2>3. /\ b[<<k, col>>] \in RowSegment(right, k) /\ right.entries[b[<<k, col>>]].index = col
        /\ right.entries[b[<<k, col>>]].value = R.values[<<k, col>>]
    BY <1>2, <2>1, CsrAt
  <2>4. PairAt(row, k, col, p, q, L, R) = Visit(row, col, a[<<row, k>>], b[<<k, col>>], L.values[<<row, k>>], R.values[<<k, col>>])
    BY <1>9, <1>7, <1>8 DEF PairAt
  <2>5. PairAt(row, k, col, p, q, L, R) = F(e[row], a[<<row, k>>], b[<<k, col>>])
    BY <2>1, <2>2, <2>3, <2>4 DEF F
  <2>6. QED
    BY <1>4, <2>1, <2>2, <2>3, <2>4, <2>5
<1>10. ASSUME NEW v \in V PROVE \E row, k, col : <<row, k, col>> \in T /\ v = PairAt(row, k, col, p, q, L, R)
  <2>1. PICK kA \in SegmentStarts(left) : \E i \in Segment(left, kA) : \E j \in RowSegment(right, left[i].col) : v = F(kA, i, j)
    BY <1>4
  <2>2. PICK i \in Segment(left, kA) : \E j \in RowSegment(right, left[i].col) : v = F(kA, i, j)
    BY <2>1
  <2>3. PICK j \in RowSegment(right, left[i].col) : v = F(kA, i, j)
    BY <2>2
  <2>4. PICK row : row = left[kA].row
    OBVIOUS
  <2>5. PICK k : k = left[i].col
    OBVIOUS
  <2>6. PICK col : col = right.entries[j].index
    OBVIOUS
  <2>7. <<row, k>> \in NonZero(P) /\ a[<<row, k>>] = i /\ left[i].value = L.values[<<row, k>>] /\ left[i].row = row /\ kA = e[row]
    BY <1>1, <1>6, <2>4, <2>5, <2>6, CooOf
  <2>8. <<k, col>> \in NonZero(Q) /\ b[<<k, col>>] = j /\ right.entries[j].value = R.values[<<k, col>>]
    BY <1>2, <1>6, <2>4, <2>5, <2>6, <2>7, CsrOf
  <2>9. <<row, k, col>> \in T
    BY <1>5, <1>6, <2>4, <2>5, <2>6, <2>7, <2>8
  <2>10. v = PairAt(row, k, col, p, q, L, R)
    <3>1. v = Visit(row, col, a[<<row, k>>], b[<<k, col>>], L.values[<<row, k>>], R.values[<<k, col>>])
      BY <2>3, <2>4, <2>5, <2>6, <2>7, <2>8 DEF F
    <3>2. QED
      BY <1>7, <1>8, <2>9, <3>1 DEF PairAt
  <2>11. QED
    BY <2>9, <2>10
<1>11. ASSUME NEW row, NEW k, NEW h, NEW col, <<row, k, col>> \in T, <<row, h, col>> \in T,
             p[<<row, k, col>>] = p[<<row, h, col>>], q[<<row, k, col>>] = q[<<row, h, col>>]
      PROVE  k = h
  <2>1. Apart(P, a)
    BY <1>1, HoldsApart
  <2>2. <<row, k>> \in NonZero(P) /\ <<row, h>> \in NonZero(P)
    BY <1>11, <1>5
  <2>3. a[<<row, k>>] = p[<<row, k, col>>]
    BY <1>11, <1>7
  <2>4. a[<<row, h>>] = p[<<row, h, col>>]
    BY <1>11, <1>7
  <2>5. a[<<row, k>>] = a[<<row, h>>]
    BY <1>11, <2>3, <2>4
  <2>6. QED
    BY <2>1, <2>2, <2>5, AtApart
<1>12. \E x, y : Visited(V, T, x, y, L, R)
  BY <1>9, <1>10, <1>11, VisitedBy
<1>13. OnePerPair(V)
  <2>1. Apart(P, a) /\ Apart(Q, b)
    BY <1>1, <1>2, HoldsApart
  <2>2. Numbered(a, P)
    BY <1>1, HoldsNumbers
  <2>3. Numbered(b, Q)
    BY <1>2, HoldsNumbers
  <2>4. \A row, k, col : <<row, k, col>> \in T => <<row, k>> \in NonZero(P) /\ <<k, col>> \in NonZero(Q)
    BY <1>5
  <2>5. Paired(V, T, p, q, a, b, P, L, Q, R)
    BY <1>7, <1>8, <1>10, <2>4 DEF Paired
  <2>6. QED
    BY <2>1, <2>2, <2>3, <2>5, PairsApart
<1>14. QED
  BY <1>12, <1>13 DEF V

-----------------------------------------------------------------------------
(* Two cursors over the rows and columns that a merge kernel walks.         *)

\* Where the segments of the formats start, and the positions behind their ends.
Span(a, a_end) == a .. a_end - 1
RowStart(m, r) == m.row_pointers[r] + 1
RowEnd(m, r) == m.row_pointers[r + 1] + 1
ColStart(m, c) == m.col_pointers[c] + 1
ColEnd(m, c) == m.col_pointers[c + 1] + 1
ListEnd(m) == Len(m) + 1

\* What a merge finds.
LEMMA HitsAre ==
  ASSUME NEW left, NEW a, NEW a_end, NEW right, NEW b, NEW b_end, NEW run_end,
         Climbs(left, a, a_end), InRuns(right, b, b_end, run_end), NEW i, NEW j
  PROVE  <<i, j>> \in Merge(left, a, a_end, right, b, b_end, run_end)
           <=> i \in Span(a, a_end) /\ j \in Span(b, b_end) /\ left[i] = right[j]
<1>1. Mergeable(left, a, a_end, right, b, b_end, run_end)
  BY DEF Mergeable
<1>2. PICK H : H = Merge(left, a, a_end, right, b, b_end, run_end)
  OBVIOUS
<1>3. H = Meets(left, a, a_end, right, b, b_end)
  BY <1>1, <1>2, MergeIs
<1>4. QED
  BY <1>2, <1>3 DEF Meets, Span

LEMMA HitsArePairs ==
  ASSUME NEW left, NEW a, NEW a_end, NEW right, NEW b, NEW b_end, NEW run_end,
         Climbs(left, a, a_end), InRuns(right, b, b_end, run_end),
         NEW hit \in Merge(left, a, a_end, right, b, b_end, run_end)
  PROVE  hit = <<hit[1], hit[2]>>
<1>1. Mergeable(left, a, a_end, right, b, b_end, run_end)
  BY DEF Mergeable
<1>2. hit \in Meets(left, a, a_end, right, b, b_end)
  BY <1>1, MergeIs
<1>3. QED
  BY <1>2 DEF Meets

\* The rows, and the columns, begin in their order.
LEMMA RowsBeforeGrow == ASSUME NEW p, IsDense(p), NEW r \in Int PROVE RowsBefore(p, r) <= RowsBefore(p, r + 1)
<1> DEFINE S == {c \in NonZero(p) : c[1] < r}
           T == {c \in NonZero(p) : c[1] < r + 1}
<1>1. \A x \in NonZero(p) : x[1] \in Int
  BY CellFacts
<1>2. S \in SUBSET T /\ T \in SUBSET NonZero(p)
  BY <1>1
<1>3. IsFiniteSet(T)
  BY <1>2, CellFacts, FS_Subset
<1> HIDE DEF S, T
<1>4. Cardinality(S) <= Cardinality(T)
  BY <1>2, <1>3, FS_Subset
<1>5. QED
  BY <1>4 DEF S, T, RowsBefore

LEMMA ColsBeforeGrow == ASSUME NEW p, IsDense(p), NEW r \in Int PROVE ColsBefore(p, r) <= ColsBefore(p, r + 1)
<1> DEFINE S == {c \in NonZero(p) : c[2] < r}
           T == {c \in NonZero(p) : c[2] < r + 1}
<1>1. \A x \in NonZero(p) : x[2] \in Int
  BY CellFacts
<1>2. S \in SUBSET T /\ T \in SUBSET NonZero(p)
  BY <1>1
<1>3. IsFiniteSet(T)
  BY <1>2, CellFacts, FS_Subset
<1> HIDE DEF S, T
<1>4. Cardinality(S) <= Cardinality(T)
  BY <1>2, <1>3, FS_Subset
<1>5. QED
  BY <1>4 DEF S, T, ColsBefore

LEMMA CsrClimbs ==
  ASSUME NEW p, NEW d, Stores(p, d), NEW m, m = StoredCsr(p, d), NEW r \in Rows(d)
  PROVE  /\ Climbs(Index(m), RowStart(m, r), RowEnd(m, r))
         /\ RowSegment(m, r) = Span(RowStart(m, r), RowEnd(m, r))
         /\ \A i \in RowSegment(m, r) : Index(m)[i] = m.entries[i].index
<1> DEFINE n == Cardinality(NonZero(p))
           s == RowScan(p)
           from == m.row_pointers[r]
           to == m.row_pointers[r + 1]
<1>1. /\ DOMAIN m.entries = 1 .. n /\ m.row_count = d.row_count
      /\ \A i \in 1 .. n : m.entries[i].index = s[i][2]
      /\ \A q \in 0 .. d.row_count : m.row_pointers[q] \in 0 .. n /\ m.row_pointers[q] = RowsBefore(p, q)
      /\ RowSegment(m, r) = {i \in 1 .. n : s[i][1] = r}
  BY StoredCsrFacts
<1>2. /\ n \in Nat /\ s \in [1 .. n -> NonZero(p)]
      /\ \A i, j \in 1 .. n : RowsFirst(s[i], s[j]) <=> i < j
  <2>1. IsDense(p)
    BY StoresFacts
  <2>2. QED
    BY <2>1, RowScanned
<1>3. \A x \in NonZero(p) : x[1] \in Int /\ x[2] \in Int
  BY StoresFacts, CellFacts
<1> HIDE DEF n, s
<1>4. d.row_count \in Nat /\ r \in 0 .. d.row_count - 1
  BY StoresFacts DEF IsDense, Rows
<1>5. from \in Int /\ to \in Int
  BY <1>1, <1>2, <1>4
<1>6. from <= to
  <2>1. r \in 0 .. d.row_count /\ r + 1 \in 0 .. d.row_count
    BY <1>4
  <2>2. from = RowsBefore(p, r) /\ to = RowsBefore(p, r + 1)
    BY <1>1, <2>1
  <2>3. RowsBefore(p, r) <= RowsBefore(p, r + 1)
    BY <1>4, StoresFacts, RowsBeforeGrow
  <2> HIDE DEF from, to
  <2>4. QED
    BY <2>2, <2>3
<1>7. RowSegment(m, r) = from + 1 .. to
  BY DEF RowSegment
<1> HIDE DEF from, to
<1>8. to + 1 - 1 = to /\ from + 1 <= to + 1
  BY <1>5, <1>6
<1>9. \A i \in from + 1 .. to : i \in 1 .. n /\ s[i][1] = r
  BY <1>1, <1>7
<1>10. \A i \in from + 1 .. to : Index(m)[i] = s[i][2] /\ Index(m)[i] \in Int /\ Index(m)[i] = m.entries[i].index
  BY <1>1, <1>2, <1>3, <1>9 DEF Index
<1>11. \A i, j \in from + 1 .. to : i < j => Index(m)[i] < Index(m)[j]
  BY <1>2, <1>3, <1>4, <1>9, <1>10 DEF RowsFirst
<1>12. Climbs(Index(m), from + 1, to + 1)
  BY <1>5, <1>8, <1>10, <1>11 DEF Climbs
<1>13. RowStart(m, r) = from + 1 /\ RowEnd(m, r) = to + 1
  BY DEF from, to, RowStart, RowEnd
<1>14. Span(from + 1, to + 1) = from + 1 .. to
  BY <1>5, <1>8 DEF Span
<1>15. QED
  BY <1>7, <1>10, <1>12, <1>13, <1>14

LEMMA CscRuns ==
  ASSUME NEW p, NEW d, Stores(p, d), NEW m, m = StoredCsc(p, d), NEW c \in Cols(d)
  PROVE  /\ InRuns(Index(m), ColStart(m, c), ColEnd(m, c), OneEntry(m))
         /\ ColSegment(m, c) = Span(ColStart(m, c), ColEnd(m, c))
         /\ \A i \in ColSegment(m, c) : Index(m)[i] = m.entries[i].index
<1> DEFINE n == Cardinality(NonZero(p))
           s == ColScan(p)
           from == m.col_pointers[c]
           to == m.col_pointers[c + 1]
<1>1. /\ DOMAIN m.entries = 1 .. n /\ m.col_count = d.col_count
      /\ \A i \in 1 .. n : m.entries[i].index = s[i][1]
      /\ \A q \in 0 .. d.col_count : m.col_pointers[q] \in 0 .. n /\ m.col_pointers[q] = ColsBefore(p, q)
      /\ ColSegment(m, c) = {i \in 1 .. n : s[i][2] = c}
  BY StoredCscFacts
<1>2. /\ n \in Nat /\ s \in [1 .. n -> NonZero(p)]
      /\ \A i, j \in 1 .. n : ColsFirst(s[i], s[j]) <=> i < j
  <2>1. IsDense(p)
    BY StoresFacts
  <2>2. QED
    BY <2>1, ColScanned
<1>3. \A x \in NonZero(p) : x[1] \in Int /\ x[2] \in Int
  BY StoresFacts, CellFacts
<1> HIDE DEF n, s
<1>4. d.col_count \in Nat /\ c \in 0 .. d.col_count - 1
  BY StoresFacts DEF IsDense, Cols
<1>5. from \in Int /\ to \in Int
  BY <1>1, <1>2, <1>4
<1>6. from <= to
  <2>1. c \in 0 .. d.col_count /\ c + 1 \in 0 .. d.col_count
    BY <1>4
  <2>2. from = ColsBefore(p, c) /\ to = ColsBefore(p, c + 1)
    BY <1>1, <2>1
  <2>3. ColsBefore(p, c) <= ColsBefore(p, c + 1)
    BY <1>4, StoresFacts, ColsBeforeGrow
  <2> HIDE DEF from, to
  <2>4. QED
    BY <2>2, <2>3
<1>7. ColSegment(m, c) = from + 1 .. to
  BY DEF ColSegment
<1> HIDE DEF from, to
<1>8. to + 1 - 1 = to /\ from + 1 <= to + 1
  BY <1>5, <1>6
<1>9. \A i \in from + 1 .. to : i \in 1 .. n /\ s[i][2] = c
  BY <1>1, <1>7
<1>10. \A i \in from + 1 .. to : Index(m)[i] = s[i][1] /\ Index(m)[i] \in Int /\ Index(m)[i] = m.entries[i].index
  BY <1>1, <1>2, <1>3, <1>9 DEF Index
<1>11. \A i, j \in from + 1 .. to : i < j => Index(m)[i] < Index(m)[j]
  BY <1>2, <1>3, <1>4, <1>9, <1>10 DEF ColsFirst
<1>12. \A i \in from + 1 .. to : OneEntry(m)[i] = i + 1
  BY <1>1, <1>9 DEF OneEntry
<1>13. \A i, j \in from + 1 .. to : i <= j => Index(m)[i] <= Index(m)[j]
  <2> SUFFICES ASSUME NEW i \in from + 1 .. to, NEW j \in from + 1 .. to, i <= j PROVE Index(m)[i] <= Index(m)[j]
    OBVIOUS
  <2>1. i = j \/ i < j
    BY <1>5
  <2>2. QED
    BY <1>10, <1>11, <2>1
<1>14. ASSUME NEW i \in from + 1 .. to, NEW j \in i .. to PROVE Index(m)[j] = Index(m)[i] <=> j < i + 1
  <2>1. j \in from + 1 .. to /\ (i = j \/ i < j)
    BY <1>5, <1>14
  <2>2. QED
    BY <1>5, <1>10, <1>11, <2>1
<1>15. InRuns(Index(m), from + 1, to + 1, OneEntry(m))
  BY <1>5, <1>8, <1>10, <1>12, <1>13, <1>14 DEF InRuns
<1>16. ColStart(m, c) = from + 1 /\ ColEnd(m, c) = to + 1
  BY DEF from, to, ColStart, ColEnd
<1>17. Span(from + 1, to + 1) = from + 1 .. to
  BY <1>5, <1>8 DEF Span
<1>18. QED
  BY <1>7, <1>10, <1>15, <1>16, <1>17

\* A row of a list whose columns ascend.
LEMMA ListClimbs ==
  ASSUME NEW m, NEW n, RowsAscend(m, n), \A i \in 1 .. n : m[i].col \in Int,
         \A i, j \in 1 .. n : i < j /\ m[i].row = m[j].row => m[i].col < m[j].col,
         NEW f \in SegmentStarts(m)
  PROVE  /\ Climbs(CooCol(m), f, SegmentEnd(m, f))
         /\ Segment(m, f) = Span(f, SegmentEnd(m, f))
         /\ \A i \in Segment(m, f) : CooCol(m)[i] = m[i].col
<1>1. n \in Nat /\ DOMAIN m = 1 .. n
  BY DEF RowsAscend
<1>2. f \in 1 .. n /\ Segment(m, f) = {i \in 1 .. n : m[i].row = m[f].row}
  BY SegmentIs
<1>3. PICK e : e = SegmentEnd(m, f)
  OBVIOUS
<1>4. e \in f + 1 .. n + 1
  BY <1>2, <1>3, SegmentEndIs
<1>5. Segment(m, f) = f .. e - 1
  BY <1>3 DEF Segment
<1>6. \A i \in f .. e - 1 : i \in 1 .. n /\ m[i].row = m[f].row
  BY <1>2, <1>5
<1>7. \A i \in f .. e - 1 : CooCol(m)[i] = m[i].col /\ CooCol(m)[i] \in Int
  BY <1>1, <1>6 DEF CooCol
<1>8. \A i, j \in f .. e - 1 : i < j => CooCol(m)[i] < CooCol(m)[j]
  BY <1>6, <1>7
<1>9. Climbs(CooCol(m), f, e)
  BY <1>1, <1>2, <1>4, <1>7, <1>8 DEF Climbs
<1>10. QED
  BY <1>3, <1>5, <1>7, <1>9 DEF Span

LEMMA CooClimbs ==
  ASSUME NEW p, NEW d, Stores(p, d), NEW m, m = StoredCoo(p, d), NEW f \in SegmentStarts(m)
  PROVE  /\ Climbs(CooCol(m), f, SegmentEnd(m, f))
         /\ Segment(m, f) = Span(f, SegmentEnd(m, f))
         /\ \A i \in Segment(m, f) : CooCol(m)[i] = m[i].col
<1>1. PICK n, s : n = Cardinality(NonZero(p)) /\ s = RowScan(p)
  OBVIOUS
<1>2. /\ RowsAscend(m, n)
      /\ \A i \in 1 .. n : m[i].col \in Int
      /\ \A i, j \in 1 .. n : i < j /\ m[i].row = m[j].row => m[i].col < m[j].col
  BY <1>1, StoredCooFacts
<1>3. QED
  BY <1>2, ListClimbs

\* The rows of a list as runs.
LEMMA ListRuns ==
  ASSUME NEW m, NEW n, RowsAscend(m, n)
  PROVE  /\ InRuns(CooRow(m), 1, ListEnd(m), SegmentEnds(m))
         /\ DOMAIN m = Span(1, ListEnd(m))
         /\ \A j \in DOMAIN m : CooRow(m)[j] = m[j].row
<1>1. /\ n \in Nat /\ DOMAIN m = 1 .. n /\ Len(m) = n /\ n + 1 - 1 = n
      /\ \A i \in 1 .. n : m[i].row \in Int
      /\ \A i, j \in 1 .. n : i <= j => m[i].row <= m[j].row
  BY DEF RowsAscend
<1>2. \A i \in 1 .. n : CooRow(m)[i] = m[i].row /\ SegmentEnds(m)[i] = SegmentEnd(m, i)
  BY <1>1 DEF CooRow, SegmentEnds
<1>3. ASSUME NEW i \in 1 .. n
      PROVE  /\ SegmentEnds(m)[i] \in i + 1 .. n + 1
             /\ \A j \in i .. n : CooRow(m)[j] = CooRow(m)[i] <=> j < SegmentEnds(m)[i]
  <2>1. SegmentEnd(m, i) \in i + 1 .. n + 1 /\ \A j \in i .. n : m[j].row = m[i].row <=> j < SegmentEnd(m, i)
    BY SegmentEndIs
  <2>2. \A j \in i .. n : j \in 1 .. n
    BY <1>1
  <2>3. QED
    BY <1>2, <2>1, <2>2
<1>4. InRuns(CooRow(m), 1, n + 1, SegmentEnds(m))
  BY <1>1, <1>2, <1>3 DEF InRuns
<1>5. QED
  BY <1>1, <1>2, <1>4 DEF Span, ListEnd

LEMMA CooRuns ==
  ASSUME NEW p, NEW d, Stores(p, d), NEW m, m = StoredCoo(p, d)
  PROVE  /\ InRuns(CooRow(m), 1, ListEnd(m), SegmentEnds(m))
         /\ DOMAIN m = Span(1, ListEnd(m))
         /\ \A j \in DOMAIN m : CooRow(m)[j] = m[j].row
<1>1. PICK n, s : n = Cardinality(NonZero(p)) /\ s = RowScan(p)
  OBVIOUS
<1>2. RowsAscend(m, n)
  BY <1>1, StoredCooFacts
<1>3. QED
  BY <1>2, ListRuns

LEMMA CsrCsc ==
  ASSUME NEW P, NEW L, NEW Q, NEW R, StoredOperands(P, L, Q, R), NEW left, left = StoredCsr(P, L), NEW right, right = StoredCsc(Q, R),
         NEW T, T = Triples("MAT_CSR", P, "MAT_CSC", Q)
  PROVE  \E p, q : Visited(csr_x_csc(left, right), T, p, q, L, R)
<1>1. PICK a : CsrHolds(left, P, L, a)
  BY CsrLayout DEF StoredOperands
<1>2. PICK b : CscHolds(right, Q, R, b)
  BY CscLayout DEF StoredOperands
<1> DEFINE V == csr_x_csc(left, right)
           H(row, col) == Merge(Index(left), RowStart(left, row), RowEnd(left, row), Index(right), ColStart(right, col), ColEnd(right, col), OneEntry(right))
           F(row, col, hit) == Visit(row, col, hit[1], hit[2], left.entries[hit[1]].value, right.entries[hit[2]].value)
           p == [t \in T |-> a[<<t[1], t[2]>>]]
           q == [t \in T |-> b[<<t[2], t[3]>>]]
<1>3. \A x : x \in 0 .. left.row_count - 1 <=> x \in Rows(L)
  BY <1>1 DEF CsrHolds, Rows
<1>4. \A x : x \in 0 .. right.col_count - 1 <=> x \in Cols(R)
  BY <1>2 DEF CscHolds, Cols
<1>5. V = UNION {UNION {{F(row, col, hit) : hit \in H(row, col)} : col \in 0 .. right.col_count - 1} : row \in 0 .. left.row_count - 1}
  BY DEF csr_x_csc, RowStart, RowEnd, ColStart, ColEnd
<1>6. ASSUME NEW row \in Rows(L), NEW col \in Cols(R)
      PROVE  /\ \A i, j : <<i, j>> \in H(row, col) <=> i \in RowSegment(left, row) /\ j \in ColSegment(right, col) /\ left.entries[i].index = right.entries[j].index
             /\ \A hit \in H(row, col) : hit = <<hit[1], hit[2]>>
  <2>1. /\ Climbs(Index(left), RowStart(left, row), RowEnd(left, row)) /\ RowSegment(left, row) = Span(RowStart(left, row), RowEnd(left, row))
        /\ \A i \in RowSegment(left, row) : Index(left)[i] = left.entries[i].index
    BY CsrClimbs DEF StoredOperands
  <2>2. /\ InRuns(Index(right), ColStart(right, col), ColEnd(right, col), OneEntry(right)) /\ ColSegment(right, col) = Span(ColStart(right, col), ColEnd(right, col))
        /\ \A j \in ColSegment(right, col) : Index(right)[j] = right.entries[j].index
    BY CscRuns DEF StoredOperands
  <2>3. ASSUME NEW i, NEW j PROVE <<i, j>> \in H(row, col) <=> i \in Span(RowStart(left, row), RowEnd(left, row)) /\ j \in Span(ColStart(right, col), ColEnd(right, col)) /\ Index(left)[i] = Index(right)[j]
    BY <2>1, <2>2, HitsAre
  <2>4. ASSUME NEW hit \in H(row, col) PROVE hit = <<hit[1], hit[2]>>
    BY <2>1, <2>2, HitsArePairs
  <2> HIDE DEF H
  <2>5. ASSUME NEW i, NEW j PROVE <<i, j>> \in H(row, col) <=> i \in RowSegment(left, row) /\ j \in ColSegment(right, col) /\ left.entries[i].index = right.entries[j].index
    BY <2>1, <2>2, <2>3
  <2>6. QED
    BY <2>4, <2>5
<1> HIDE DEF V, H, F, p, q
<1>7. \A v : v \in V <=> \E row \in 0 .. left.row_count - 1 : \E col \in 0 .. right.col_count - 1 : \E hit \in H(row, col) : v = F(row, col, hit)
  BY <1>5
<1>8. \A v : v \in V <=> \E row \in Rows(L) : \E col \in Cols(R) : \E hit \in H(row, col) : v = F(row, col, hit)
  BY <1>7, <1>3, <1>4
<1>9. ASSUME NEW row, NEW k, NEW col PROVE <<row, k, col>> \in T <=> row \in Rows(L) /\ k \in Cols(L) /\ col \in Cols(R) /\ <<row, k>> \in NonZero(P) /\ <<k, col>> \in NonZero(Q)
  <2>1. Held("MAT_CSR", P) = NonZero(P) /\ Held("MAT_CSC", Q) = NonZero(Q)
    BY HeldIs
  <2>2. <<row, k, col>> \in Triples("MAT_CSR", P, "MAT_CSC", Q) <=>
          /\ row \in Rows(L) /\ k \in Cols(L) /\ col \in Cols(R)
          /\ <<row, k>> \in Held("MAT_CSR", P) /\ <<k, col>> \in Held("MAT_CSC", Q)
    BY StoredTriple
  <2>3. QED
    BY <2>1, <2>2, StoredCells
<1>10. /\ \A row, k : <<row, k>> \in NonZero(P) => row \in Rows(L) /\ k \in Cols(L)
      /\ \A k, col : <<k, col>> \in NonZero(Q) => k \in Cols(L) /\ col \in Cols(R)
      /\ Rows(R) = Cols(L)
  BY StoredCells
<1>11. \A row, k, col : <<row, k, col>> \in T => p[<<row, k, col>>] = a[<<row, k>>]
  BY DEF p
<1>12. \A row, k, col : <<row, k, col>> \in T => q[<<row, k, col>>] = b[<<k, col>>]
  BY DEF q
<1>13. ASSUME NEW row, NEW k, NEW col, <<row, k, col>> \in T PROVE PairAt(row, k, col, p, q, L, R) \in V
  <2>1. row \in Rows(L) /\ k \in Cols(L) /\ k \in Rows(R) /\ col \in Cols(R) /\ <<row, k>> \in NonZero(P) /\ <<k, col>> \in NonZero(Q)
    BY <1>13, <1>9, <1>10
  <2>2. PICK i : i = a[<<row, k>>]
    OBVIOUS
  <2>3. PICK j : j = b[<<k, col>>]
    OBVIOUS
  <2>4. /\ i \in RowSegment(left, row) /\ left.entries[i].index = k /\ left.entries[i].value = L.values[<<row, k>>]
    BY <1>1, <2>1, <2>2, CsrAt
  <2>5. /\ j \in ColSegment(right, col) /\ right.entries[j].index = k /\ right.entries[j].value = R.values[<<k, col>>]
    BY <1>2, <2>1, <2>3, CscAt
  <2>6. <<i, j>> \in H(row, col)
    BY <2>1, <2>4, <2>5, <1>6
  <2>7. PairAt(row, k, col, p, q, L, R) = Visit(row, col, i, j, L.values[<<row, k>>], R.values[<<k, col>>])
    BY <1>13, <1>11, <1>12, <2>2, <2>3 DEF PairAt
  <2>8. PairAt(row, k, col, p, q, L, R) = F(row, col, <<i, j>>)
    BY <2>4, <2>5, <2>7 DEF F
  <2>9. QED
    BY <1>8, <2>1, <2>4, <2>6, <2>8
<1>14. ASSUME NEW v \in V PROVE \E row, k, col : <<row, k, col>> \in T /\ v = PairAt(row, k, col, p, q, L, R)
  <2>1. PICK row \in Rows(L) : \E col \in Cols(R) : \E hit \in H(row, col) : v = F(row, col, hit)
    BY <1>8
  <2>2. PICK col \in Cols(R) : \E hit \in H(row, col) : v = F(row, col, hit)
    BY <2>1
  <2>3. PICK hit \in H(row, col) : v = F(row, col, hit)
    BY <2>2
  <2>4. PICK i : i = hit[1]
    OBVIOUS
  <2>5. PICK j : j = hit[2]
    OBVIOUS
  <2>6. <<i, j>> \in H(row, col)
    BY <1>6, <2>4, <2>5
  <2>7. i \in RowSegment(left, row) /\ j \in ColSegment(right, col) /\ left.entries[i].index = right.entries[j].index
    BY <1>6, <2>6
  <2>8. PICK k : k = left.entries[i].index
    OBVIOUS
  <2>9. <<row, k>> \in NonZero(P) /\ a[<<row, k>>] = i /\ left.entries[i].value = L.values[<<row, k>>]
    BY <1>1, <2>7, <2>8, CsrOf
  <2>10. <<k, col>> \in NonZero(Q) /\ b[<<k, col>>] = j /\ right.entries[j].value = R.values[<<k, col>>]
    BY <1>2, <2>7, <2>8, CscOf
  <2>11. <<row, k, col>> \in T
    BY <1>9, <1>10, <2>9, <2>10
  <2>12. v = Visit(row, col, a[<<row, k>>], b[<<k, col>>], L.values[<<row, k>>], R.values[<<k, col>>])
    BY <2>3, <2>4, <2>5, <2>8, <2>9, <2>10 DEF F
  <2>13. v = PairAt(row, k, col, p, q, L, R)
    BY <1>11, <1>12, <2>11, <2>12 DEF PairAt
  <2>14. QED
    BY <2>11, <2>13
<1>15. ASSUME NEW row, NEW k, NEW h, NEW col, <<row, k, col>> \in T, <<row, h, col>> \in T,
             p[<<row, k, col>>] = p[<<row, h, col>>], q[<<row, k, col>>] = q[<<row, h, col>>]
      PROVE  k = h
  <2>1. Apart(P, a)
    BY <1>1, HoldsApart
  <2>2. <<row, k>> \in NonZero(P) /\ <<row, h>> \in NonZero(P)
    BY <1>15, <1>9
  <2>3. a[<<row, k>>] = p[<<row, k, col>>]
    BY <1>15, <1>11
  <2>4. a[<<row, h>>] = p[<<row, h, col>>]
    BY <1>15, <1>11
  <2>5. a[<<row, k>>] = a[<<row, h>>]
    BY <1>15, <2>3, <2>4
  <2>6. QED
    BY <2>1, <2>2, <2>5, AtApart
<1>16. \E x, y : Visited(V, T, x, y, L, R)
  BY <1>13, <1>14, <1>15, VisitedBy
<1>17. QED
  BY <1>16 DEF V

LEMMA CsrCoo ==
  ASSUME NEW P, NEW L, NEW Q, NEW R, StoredOperands(P, L, Q, R), NEW left, left = StoredCsr(P, L), NEW right, right = StoredCoo(Q, R),
         NEW T, T = Triples("MAT_CSR", P, "MAT_COO", Q)
  PROVE  (\E p, q : Visited(csr_x_coo(left, right), T, p, q, L, R)) /\ OnePerPair(csr_x_coo(left, right))
<1>1. PICK a : CsrHolds(left, P, L, a)
  BY CsrLayout DEF StoredOperands
<1>2. PICK b, f : CooHolds(right, Q, R, b, f)
  BY CooLayout DEF StoredOperands
<1> DEFINE V == csr_x_coo(left, right)
           H(row) == Merge(Index(left), RowStart(left, row), RowEnd(left, row), CooRow(right), 1, ListEnd(right), SegmentEnds(right))
           F(row, hit) == Visit(row, right[hit[2]].col, hit[1], hit[2], left.entries[hit[1]].value, right[hit[2]].value)
           p == [t \in T |-> a[<<t[1], t[2]>>]]
           q == [t \in T |-> b[<<t[2], t[3]>>]]
<1>3. \A x : x \in 0 .. left.row_count - 1 <=> x \in Rows(L)
  BY <1>1 DEF CsrHolds, Rows
<1>4. V = UNION {{F(row, hit) : hit \in H(row)} : row \in 0 .. left.row_count - 1}
  BY DEF csr_x_coo, RowStart, RowEnd, ListEnd
<1>5. ASSUME NEW row \in Rows(L)
      PROVE  /\ \A i, j : <<i, j>> \in H(row) <=> i \in RowSegment(left, row) /\ j \in DOMAIN right /\ left.entries[i].index = right[j].row
             /\ \A hit \in H(row) : hit = <<hit[1], hit[2]>>
  <2>1. /\ Climbs(Index(left), RowStart(left, row), RowEnd(left, row)) /\ RowSegment(left, row) = Span(RowStart(left, row), RowEnd(left, row))
        /\ \A i \in RowSegment(left, row) : Index(left)[i] = left.entries[i].index
    BY CsrClimbs DEF StoredOperands
  <2>2. /\ InRuns(CooRow(right), 1, ListEnd(right), SegmentEnds(right)) /\ DOMAIN right = Span(1, ListEnd(right))
        /\ \A j \in DOMAIN right : CooRow(right)[j] = right[j].row
    BY CooRuns DEF StoredOperands
  <2>3. ASSUME NEW i, NEW j PROVE <<i, j>> \in H(row) <=> i \in Span(RowStart(left, row), RowEnd(left, row)) /\ j \in Span(1, ListEnd(right)) /\ Index(left)[i] = CooRow(right)[j]
    BY <2>1, <2>2, HitsAre
  <2>4. ASSUME NEW hit \in H(row) PROVE hit = <<hit[1], hit[2]>>
    BY <2>1, <2>2, HitsArePairs
  <2> HIDE DEF H
  <2>5. ASSUME NEW i, NEW j PROVE <<i, j>> \in H(row) <=> i \in RowSegment(left, row) /\ j \in DOMAIN right /\ left.entries[i].index = right[j].row
    BY <2>1, <2>2, <2>3
  <2>6. QED
    BY <2>4, <2>5
<1> HIDE DEF V, H, F, p, q
<1>6. \A v : v \in V <=> \E row \in 0 .. left.row_count - 1 : \E hit \in H(row) : v = F(row, hit)
  BY <1>4
<1>7. \A v : v \in V <=> \E row \in Rows(L) : \E hit \in H(row) : v = F(row, hit)
  BY <1>6, <1>3
<1>8. ASSUME NEW row, NEW k, NEW col PROVE <<row, k, col>> \in T <=> row \in Rows(L) /\ k \in Cols(L) /\ col \in Cols(R) /\ <<row, k>> \in NonZero(P) /\ <<k, col>> \in NonZero(Q)
  <2>1. Held("MAT_CSR", P) = NonZero(P) /\ Held("MAT_COO", Q) = NonZero(Q)
    BY HeldIs
  <2>2. <<row, k, col>> \in Triples("MAT_CSR", P, "MAT_COO", Q) <=>
          /\ row \in Rows(L) /\ k \in Cols(L) /\ col \in Cols(R)
          /\ <<row, k>> \in Held("MAT_CSR", P) /\ <<k, col>> \in Held("MAT_COO", Q)
    BY StoredTriple
  <2>3. QED
    BY <2>1, <2>2, StoredCells
<1>9. /\ \A row, k : <<row, k>> \in NonZero(P) => row \in Rows(L) /\ k \in Cols(L)
      /\ \A k, col : <<k, col>> \in NonZero(Q) => k \in Cols(L) /\ col \in Cols(R)
      /\ Rows(R) = Cols(L)
  BY StoredCells
<1>10. \A row, k, col : <<row, k, col>> \in T => p[<<row, k, col>>] = a[<<row, k>>]
  BY DEF p
<1>11. \A row, k, col : <<row, k, col>> \in T => q[<<row, k, col>>] = b[<<k, col>>]
  BY DEF q
<1>12. ASSUME NEW row, NEW k, NEW col, <<row, k, col>> \in T PROVE PairAt(row, k, col, p, q, L, R) \in V
  <2>1. row \in Rows(L) /\ k \in Cols(L) /\ k \in Rows(R) /\ col \in Cols(R) /\ <<row, k>> \in NonZero(P) /\ <<k, col>> \in NonZero(Q)
    BY <1>12, <1>8, <1>9
  <2>2. PICK i : i = a[<<row, k>>]
    OBVIOUS
  <2>3. PICK j : j = b[<<k, col>>]
    OBVIOUS
  <2>4. /\ i \in RowSegment(left, row) /\ left.entries[i].index = k /\ left.entries[i].value = L.values[<<row, k>>]
    BY <1>1, <2>1, <2>2, CsrAt
  <2>5. /\ j \in DOMAIN right /\ right[j].row = k /\ right[j].col = col /\ right[j].value = R.values[<<k, col>>]
    BY <1>2, <2>1, <2>3, CooAt
  <2>6. <<i, j>> \in H(row)
    BY <2>1, <2>4, <2>5, <1>5
  <2>7. PairAt(row, k, col, p, q, L, R) = Visit(row, col, i, j, L.values[<<row, k>>], R.values[<<k, col>>])
    BY <1>12, <1>10, <1>11, <2>2, <2>3 DEF PairAt
  <2>8. PairAt(row, k, col, p, q, L, R) = F(row, <<i, j>>)
    BY <2>4, <2>5, <2>7 DEF F
  <2>9. QED
    BY <1>7, <2>1, <2>4, <2>6, <2>8
<1>13. ASSUME NEW v \in V PROVE \E row, k, col : <<row, k, col>> \in T /\ v = PairAt(row, k, col, p, q, L, R)
  <2>1. PICK row \in Rows(L) : \E hit \in H(row) : v = F(row, hit)
    BY <1>7
  <2>2. PICK hit \in H(row) : v = F(row, hit)
    BY <2>1
  <2>3. PICK i : i = hit[1]
    OBVIOUS
  <2>4. PICK j : j = hit[2]
    OBVIOUS
  <2>5. <<i, j>> \in H(row)
    BY <1>5, <2>3, <2>4
  <2>6. i \in RowSegment(left, row) /\ j \in DOMAIN right /\ left.entries[i].index = right[j].row
    BY <1>5, <2>5
  <2>7. PICK k : k = left.entries[i].index
    OBVIOUS
  <2>8. PICK col : col = right[j].col
    OBVIOUS
  <2>9. <<row, k>> \in NonZero(P) /\ a[<<row, k>>] = i /\ left.entries[i].value = L.values[<<row, k>>]
    BY <1>1, <2>6, <2>7, <2>8, CsrOf
  <2>10. <<k, col>> \in NonZero(Q) /\ b[<<k, col>>] = j /\ right[j].value = R.values[<<k, col>>]
    BY <1>2, <2>6, <2>7, <2>8, CooIs
  <2>11. <<row, k, col>> \in T
    BY <1>8, <1>9, <2>9, <2>10
  <2>12. v = Visit(row, col, a[<<row, k>>], b[<<k, col>>], L.values[<<row, k>>], R.values[<<k, col>>])
    BY <2>2, <2>3, <2>4, <2>7, <2>8, <2>9, <2>10 DEF F
  <2>13. v = PairAt(row, k, col, p, q, L, R)
    BY <1>10, <1>11, <2>11, <2>12 DEF PairAt
  <2>14. QED
    BY <2>11, <2>13
<1>14. ASSUME NEW row, NEW k, NEW h, NEW col, <<row, k, col>> \in T, <<row, h, col>> \in T,
             p[<<row, k, col>>] = p[<<row, h, col>>], q[<<row, k, col>>] = q[<<row, h, col>>]
      PROVE  k = h
  <2>1. Apart(P, a)
    BY <1>1, HoldsApart
  <2>2. <<row, k>> \in NonZero(P) /\ <<row, h>> \in NonZero(P)
    BY <1>14, <1>8
  <2>3. a[<<row, k>>] = p[<<row, k, col>>]
    BY <1>14, <1>10
  <2>4. a[<<row, h>>] = p[<<row, h, col>>]
    BY <1>14, <1>10
  <2>5. a[<<row, k>>] = a[<<row, h>>]
    BY <1>14, <2>3, <2>4
  <2>6. QED
    BY <2>1, <2>2, <2>5, AtApart
<1>15. \E x, y : Visited(V, T, x, y, L, R)
  BY <1>12, <1>13, <1>14, VisitedBy
<1>16. OnePerPair(V)
  <2>1. Apart(P, a) /\ Apart(Q, b)
    BY <1>1, <1>2, HoldsApart
  <2>2. Numbered(a, P)
    BY <1>1, HoldsNumbers
  <2>3. Numbered(b, Q)
    BY <1>2, HoldsNumbers
  <2>4. \A row, k, col : <<row, k, col>> \in T => <<row, k>> \in NonZero(P) /\ <<k, col>> \in NonZero(Q)
    BY <1>8
  <2>5. Paired(V, T, p, q, a, b, P, L, Q, R)
    BY <1>10, <1>11, <1>13, <2>4 DEF Paired
  <2>6. QED
    BY <2>1, <2>2, <2>3, <2>5, PairsApart
<1>17. QED
  BY <1>15, <1>16 DEF V

LEMMA CooCsc ==
  ASSUME NEW P, NEW L, NEW Q, NEW R, StoredOperands(P, L, Q, R), NEW left, left = StoredCoo(P, L), NEW right, right = StoredCsc(Q, R),
         NEW T, T = Triples("MAT_COO", P, "MAT_CSC", Q)
  PROVE  \E p, q : Visited(coo_x_csc(left, right), T, p, q, L, R)
<1>1. PICK a, e : CooHolds(left, P, L, a, e)
  BY CooLayout DEF StoredOperands
<1>2. PICK b : CscHolds(right, Q, R, b)
  BY CscLayout DEF StoredOperands
<1> DEFINE V == coo_x_csc(left, right)
           H(kA, col) == Merge(CooCol(left), kA, SegmentEnd(left, kA), Index(right), ColStart(right, col), ColEnd(right, col), OneEntry(right))
           F(kA, col, hit) == Visit(left[kA].row, col, hit[1], hit[2], left[hit[1]].value, right.entries[hit[2]].value)
           p == [t \in T |-> a[<<t[1], t[2]>>]]
           q == [t \in T |-> b[<<t[2], t[3]>>]]
<1>3. \A x : x \in 0 .. right.col_count - 1 <=> x \in Cols(R)
  BY <1>2 DEF CscHolds, Cols
<1>4. V = UNION {UNION {{F(kA, col, hit) : hit \in H(kA, col)} : col \in 0 .. right.col_count - 1} : kA \in SegmentStarts(left)}
  BY DEF coo_x_csc, ColStart, ColEnd
<1>5. ASSUME NEW kA \in SegmentStarts(left), NEW col \in Cols(R)
      PROVE  /\ \A i, j : <<i, j>> \in H(kA, col) <=> i \in Segment(left, kA) /\ j \in ColSegment(right, col) /\ left[i].col = right.entries[j].index
             /\ \A hit \in H(kA, col) : hit = <<hit[1], hit[2]>>
  <2>1. /\ Climbs(CooCol(left), kA, SegmentEnd(left, kA)) /\ Segment(left, kA) = Span(kA, SegmentEnd(left, kA))
        /\ \A i \in Segment(left, kA) : CooCol(left)[i] = left[i].col
    BY CooClimbs DEF StoredOperands
  <2>2. /\ InRuns(Index(right), ColStart(right, col), ColEnd(right, col), OneEntry(right)) /\ ColSegment(right, col) = Span(ColStart(right, col), ColEnd(right, col))
        /\ \A j \in ColSegment(right, col) : Index(right)[j] = right.entries[j].index
    BY CscRuns DEF StoredOperands
  <2>3. ASSUME NEW i, NEW j PROVE <<i, j>> \in H(kA, col) <=> i \in Span(kA, SegmentEnd(left, kA)) /\ j \in Span(ColStart(right, col), ColEnd(right, col)) /\ CooCol(left)[i] = Index(right)[j]
    BY <2>1, <2>2, HitsAre
  <2>4. ASSUME NEW hit \in H(kA, col) PROVE hit = <<hit[1], hit[2]>>
    BY <2>1, <2>2, HitsArePairs
  <2> HIDE DEF H
  <2>5. ASSUME NEW i, NEW j PROVE <<i, j>> \in H(kA, col) <=> i \in Segment(left, kA) /\ j \in ColSegment(right, col) /\ left[i].col = right.entries[j].index
    BY <2>1, <2>2, <2>3
  <2>6. QED
    BY <2>4, <2>5
<1> HIDE DEF V, H, F, p, q
<1>6. \A v : v \in V <=> \E kA \in SegmentStarts(left) : \E col \in 0 .. right.col_count - 1 : \E hit \in H(kA, col) : v = F(kA, col, hit)
  BY <1>4
<1>7. \A v : v \in V <=> \E kA \in SegmentStarts(left) : \E col \in Cols(R) : \E hit \in H(kA, col) : v = F(kA, col, hit)
  BY <1>6, <1>3
<1>8. ASSUME NEW row, NEW k, NEW col PROVE <<row, k, col>> \in T <=> row \in Rows(L) /\ k \in Cols(L) /\ col \in Cols(R) /\ <<row, k>> \in NonZero(P) /\ <<k, col>> \in NonZero(Q)
  <2>1. Held("MAT_COO", P) = NonZero(P) /\ Held("MAT_CSC", Q) = NonZero(Q)
    BY HeldIs
  <2>2. <<row, k, col>> \in Triples("MAT_COO", P, "MAT_CSC", Q) <=>
          /\ row \in Rows(L) /\ k \in Cols(L) /\ col \in Cols(R)
          /\ <<row, k>> \in Held("MAT_COO", P) /\ <<k, col>> \in Held("MAT_CSC", Q)
    BY StoredTriple
  <2>3. QED
    BY <2>1, <2>2, StoredCells
<1>9. /\ \A row, k : <<row, k>> \in NonZero(P) => row \in Rows(L) /\ k \in Cols(L)
      /\ \A k, col : <<k, col>> \in NonZero(Q) => k \in Cols(L) /\ col \in Cols(R)
      /\ Rows(R) = Cols(L)
  BY StoredCells
<1>10. \A row, k, col : <<row, k, col>> \in T => p[<<row, k, col>>] = a[<<row, k>>]
  BY DEF p
<1>11. \A row, k, col : <<row, k, col>> \in T => q[<<row, k, col>>] = b[<<k, col>>]
  BY DEF q
<1>12. ASSUME NEW row, NEW k, NEW col, <<row, k, col>> \in T PROVE PairAt(row, k, col, p, q, L, R) \in V
  <2>1. row \in Rows(L) /\ k \in Cols(L) /\ k \in Rows(R) /\ col \in Cols(R) /\ <<row, k>> \in NonZero(P) /\ <<k, col>> \in NonZero(Q)
    BY <1>12, <1>8, <1>9
  <2>2. PICK i : i = a[<<row, k>>]
    OBVIOUS
  <2>3. PICK j : j = b[<<k, col>>]
    OBVIOUS
  <2>4. /\ i \in Segment(left, e[row]) /\ e[row] \in SegmentStarts(left) /\ left[e[row]].row = row
        /\ left[i].col = k /\ left[i].value = L.values[<<row, k>>]
    BY <1>1, <2>1, <2>2, CooAt
  <2>5. /\ j \in ColSegment(right, col) /\ right.entries[j].index = k /\ right.entries[j].value = R.values[<<k, col>>]
    BY <1>2, <2>1, <2>3, CscAt
  <2>6. <<i, j>> \in H(e[row], col)
    BY <2>1, <2>4, <2>5, <1>5
  <2>7. PairAt(row, k, col, p, q, L, R) = Visit(row, col, i, j, L.values[<<row, k>>], R.values[<<k, col>>])
    BY <1>12, <1>10, <1>11, <2>2, <2>3 DEF PairAt
  <2>8. PairAt(row, k, col, p, q, L, R) = F(e[row], col, <<i, j>>)
    BY <2>4, <2>5, <2>7 DEF F
  <2>9. QED
    BY <1>7, <2>1, <2>4, <2>6, <2>8
<1>13. ASSUME NEW v \in V PROVE \E row, k, col : <<row, k, col>> \in T /\ v = PairAt(row, k, col, p, q, L, R)
  <2>1. PICK kA \in SegmentStarts(left) : \E col \in Cols(R) : \E hit \in H(kA, col) : v = F(kA, col, hit)
    BY <1>7
  <2>2. PICK col \in Cols(R) : \E hit \in H(kA, col) : v = F(kA, col, hit)
    BY <2>1
  <2>3. PICK hit \in H(kA, col) : v = F(kA, col, hit)
    BY <2>2
  <2>4. PICK i : i = hit[1]
    OBVIOUS
  <2>5. PICK j : j = hit[2]
    OBVIOUS
  <2>6. <<i, j>> \in H(kA, col)
    BY <1>5, <2>4, <2>5
  <2>7. i \in Segment(left, kA) /\ j \in ColSegment(right, col) /\ left[i].col = right.entries[j].index
    BY <1>5, <2>6
  <2>8. PICK k : k = left[i].col
    OBVIOUS
  <2>9. PICK row : row = left[kA].row
    OBVIOUS
  <2>10. <<row, k>> \in NonZero(P) /\ a[<<row, k>>] = i /\ left[i].value = L.values[<<row, k>>]
    BY <1>1, <2>7, <2>8, <2>9, CooOf
  <2>11. <<k, col>> \in NonZero(Q) /\ b[<<k, col>>] = j /\ right.entries[j].value = R.values[<<k, col>>]
    BY <1>2, <2>7, <2>8, <2>9, CscOf
  <2>12. <<row, k, col>> \in T
    BY <1>8, <1>9, <2>10, <2>11
  <2>13. v = Visit(row, col, a[<<row, k>>], b[<<k, col>>], L.values[<<row, k>>], R.values[<<k, col>>])
    BY <2>3, <2>4, <2>5, <2>8, <2>9, <2>10, <2>11 DEF F
  <2>14. v = PairAt(row, k, col, p, q, L, R)
    BY <1>10, <1>11, <2>12, <2>13 DEF PairAt
  <2>15. QED
    BY <2>12, <2>14
<1>14. ASSUME NEW row, NEW k, NEW h, NEW col, <<row, k, col>> \in T, <<row, h, col>> \in T,
             p[<<row, k, col>>] = p[<<row, h, col>>], q[<<row, k, col>>] = q[<<row, h, col>>]
      PROVE  k = h
  <2>1. Apart(P, a)
    BY <1>1, HoldsApart
  <2>2. <<row, k>> \in NonZero(P) /\ <<row, h>> \in NonZero(P)
    BY <1>14, <1>8
  <2>3. a[<<row, k>>] = p[<<row, k, col>>]
    BY <1>14, <1>10
  <2>4. a[<<row, h>>] = p[<<row, h, col>>]
    BY <1>14, <1>10
  <2>5. a[<<row, k>>] = a[<<row, h>>]
    BY <1>14, <2>3, <2>4
  <2>6. QED
    BY <2>1, <2>2, <2>5, AtApart
<1>15. \E x, y : Visited(V, T, x, y, L, R)
  BY <1>12, <1>13, <1>14, VisitedBy
<1>16. QED
  BY <1>15 DEF V

\* Two lists by rows, the left one by columns within them: ...
LEMMA HeldCooCoo ==
  ASSUME NEW P, NEW L, NEW Q, NEW R, StoredOperands(P, L, Q, R),
         NEW left, NEW a, NEW e, CooHolds(left, P, L, a, e), NEW right, NEW b, NEW f, CooHolds(right, Q, R, b, f),
         \A g \in SegmentStarts(left) :
           /\ Climbs(CooCol(left), g, SegmentEnd(left, g)) /\ Segment(left, g) = Span(g, SegmentEnd(left, g))
           /\ \A i \in Segment(left, g) : CooCol(left)[i] = left[i].col,
         InRuns(CooRow(right), 1, ListEnd(right), SegmentEnds(right)), DOMAIN right = Span(1, ListEnd(right)),
         \A j \in DOMAIN right : CooRow(right)[j] = right[j].row,
         NEW T, T = Triples("MAT_COO", P, "MAT_COO", Q)
  PROVE  (\E p, q : Visited(coo_x_coo(left, right), T, p, q, L, R)) /\ OnePerPair(coo_x_coo(left, right))
<1>1. CooHolds(left, P, L, a, e)
  OBVIOUS
<1>2. CooHolds(right, Q, R, b, f)
  OBVIOUS
<1> DEFINE V == coo_x_coo(left, right)
           H(kA) == Merge(CooCol(left), kA, SegmentEnd(left, kA), CooRow(right), 1, ListEnd(right), SegmentEnds(right))
           F(kA, hit) == Visit(left[kA].row, right[hit[2]].col, hit[1], hit[2], left[hit[1]].value, right[hit[2]].value)
           p == [t \in T |-> a[<<t[1], t[2]>>]]
           q == [t \in T |-> b[<<t[2], t[3]>>]]
<1>3. V = UNION {{F(kA, hit) : hit \in H(kA)} : kA \in SegmentStarts(left)}
  BY DEF coo_x_coo, ListEnd
<1>4. ASSUME NEW kA \in SegmentStarts(left)
      PROVE  /\ \A i, j : <<i, j>> \in H(kA) <=> i \in Segment(left, kA) /\ j \in DOMAIN right /\ left[i].col = right[j].row
             /\ \A hit \in H(kA) : hit = <<hit[1], hit[2]>>
  <2>1. /\ Climbs(CooCol(left), kA, SegmentEnd(left, kA)) /\ Segment(left, kA) = Span(kA, SegmentEnd(left, kA))
        /\ \A i \in Segment(left, kA) : CooCol(left)[i] = left[i].col
    OBVIOUS
  <2>2. /\ InRuns(CooRow(right), 1, ListEnd(right), SegmentEnds(right)) /\ DOMAIN right = Span(1, ListEnd(right))
        /\ \A j \in DOMAIN right : CooRow(right)[j] = right[j].row
    OBVIOUS
  <2>3. ASSUME NEW i, NEW j PROVE <<i, j>> \in H(kA) <=> i \in Span(kA, SegmentEnd(left, kA)) /\ j \in Span(1, ListEnd(right)) /\ CooCol(left)[i] = CooRow(right)[j]
    BY <2>1, <2>2, HitsAre
  <2>4. ASSUME NEW hit \in H(kA) PROVE hit = <<hit[1], hit[2]>>
    BY <2>1, <2>2, HitsArePairs
  <2> HIDE DEF H
  <2>5. ASSUME NEW i, NEW j PROVE <<i, j>> \in H(kA) <=> i \in Segment(left, kA) /\ j \in DOMAIN right /\ left[i].col = right[j].row
    BY <2>1, <2>2, <2>3
  <2>6. QED
    BY <2>4, <2>5
<1> HIDE DEF V, H, F, p, q
<1>5. \A v : v \in V <=> \E kA \in SegmentStarts(left) : \E hit \in H(kA) : v = F(kA, hit)
  BY <1>3
<1>6. ASSUME NEW row, NEW k, NEW col PROVE <<row, k, col>> \in T <=> row \in Rows(L) /\ k \in Cols(L) /\ col \in Cols(R) /\ <<row, k>> \in NonZero(P) /\ <<k, col>> \in NonZero(Q)
  <2>1. Held("MAT_COO", P) = NonZero(P) /\ Held("MAT_COO", Q) = NonZero(Q)
    BY HeldIs
  <2>2. <<row, k, col>> \in Triples("MAT_COO", P, "MAT_COO", Q) <=>
          /\ row \in Rows(L) /\ k \in Cols(L) /\ col \in Cols(R)
          /\ <<row, k>> \in Held("MAT_COO", P) /\ <<k, col>> \in Held("MAT_COO", Q)
    BY StoredTriple
  <2>3. QED
    BY <2>1, <2>2, StoredCells
<1>7. /\ \A row, k : <<row, k>> \in NonZero(P) => row \in Rows(L) /\ k \in Cols(L)
      /\ \A k, col : <<k, col>> \in NonZero(Q) => k \in Cols(L) /\ col \in Cols(R)
      /\ Rows(R) = Cols(L)
  BY StoredCells
<1>8. \A row, k, col : <<row, k, col>> \in T => p[<<row, k, col>>] = a[<<row, k>>]
  BY DEF p
<1>9. \A row, k, col : <<row, k, col>> \in T => q[<<row, k, col>>] = b[<<k, col>>]
  BY DEF q
<1>10. ASSUME NEW row, NEW k, NEW col, <<row, k, col>> \in T PROVE PairAt(row, k, col, p, q, L, R) \in V
  <2>1. row \in Rows(L) /\ k \in Cols(L) /\ k \in Rows(R) /\ col \in Cols(R) /\ <<row, k>> \in NonZero(P) /\ <<k, col>> \in NonZero(Q)
    BY <1>10, <1>6, <1>7
  <2>2. PICK i : i = a[<<row, k>>]
    OBVIOUS
  <2>3. PICK j : j = b[<<k, col>>]
    OBVIOUS
  <2>4. /\ i \in Segment(left, e[row]) /\ e[row] \in SegmentStarts(left) /\ left[e[row]].row = row
        /\ left[i].col = k /\ left[i].value = L.values[<<row, k>>]
    BY <1>1, <2>1, <2>2, CooAt
  <2>5. /\ j \in DOMAIN right /\ right[j].row = k /\ right[j].col = col /\ right[j].value = R.values[<<k, col>>]
    BY <1>2, <2>1, <2>3, CooAt
  <2>6. <<i, j>> \in H(e[row])
    BY <2>1, <2>4, <2>5, <1>4
  <2>7. PairAt(row, k, col, p, q, L, R) = Visit(row, col, i, j, L.values[<<row, k>>], R.values[<<k, col>>])
    BY <1>10, <1>8, <1>9, <2>2, <2>3 DEF PairAt
  <2>8. PairAt(row, k, col, p, q, L, R) = F(e[row], <<i, j>>)
    BY <2>4, <2>5, <2>7 DEF F
  <2>9. QED
    BY <1>5, <2>1, <2>4, <2>6, <2>8
<1>11. ASSUME NEW v \in V PROVE \E row, k, col : <<row, k, col>> \in T /\ v = PairAt(row, k, col, p, q, L, R)
  <2>1. PICK kA \in SegmentStarts(left) : \E hit \in H(kA) : v = F(kA, hit)
    BY <1>5
  <2>2. PICK hit \in H(kA) : v = F(kA, hit)
    BY <2>1
  <2>3. PICK i : i = hit[1]
    OBVIOUS
  <2>4. PICK j : j = hit[2]
    OBVIOUS
  <2>5. <<i, j>> \in H(kA)
    BY <1>4, <2>3, <2>4
  <2>6. i \in Segment(left, kA) /\ j \in DOMAIN right /\ left[i].col = right[j].row
    BY <1>4, <2>5
  <2>7. PICK k : k = left[i].col
    OBVIOUS
  <2>8. PICK row : row = left[kA].row
    OBVIOUS
  <2>9. PICK col : col = right[j].col
    OBVIOUS
  <2>10. <<row, k>> \in NonZero(P) /\ a[<<row, k>>] = i /\ left[i].value = L.values[<<row, k>>]
    BY <1>1, <2>6, <2>7, <2>8, <2>9, CooOf
  <2>11. <<k, col>> \in NonZero(Q) /\ b[<<k, col>>] = j /\ right[j].value = R.values[<<k, col>>]
    BY <1>2, <2>6, <2>7, <2>8, <2>9, CooIs
  <2>12. <<row, k, col>> \in T
    BY <1>6, <1>7, <2>10, <2>11
  <2>13. v = Visit(row, col, a[<<row, k>>], b[<<k, col>>], L.values[<<row, k>>], R.values[<<k, col>>])
    BY <2>2, <2>3, <2>4, <2>7, <2>8, <2>9, <2>10, <2>11 DEF F
  <2>14. v = PairAt(row, k, col, p, q, L, R)
    BY <1>8, <1>9, <2>12, <2>13 DEF PairAt
  <2>15. QED
    BY <2>12, <2>14
<1>12. ASSUME NEW row, NEW k, NEW h, NEW col, <<row, k, col>> \in T, <<row, h, col>> \in T,
             p[<<row, k, col>>] = p[<<row, h, col>>], q[<<row, k, col>>] = q[<<row, h, col>>]
      PROVE  k = h
  <2>1. Apart(P, a)
    BY <1>1, HoldsApart
  <2>2. <<row, k>> \in NonZero(P) /\ <<row, h>> \in NonZero(P)
    BY <1>12, <1>6
  <2>3. a[<<row, k>>] = p[<<row, k, col>>]
    BY <1>12, <1>8
  <2>4. a[<<row, h>>] = p[<<row, h, col>>]
    BY <1>12, <1>8
  <2>5. a[<<row, k>>] = a[<<row, h>>]
    BY <1>12, <2>3, <2>4
  <2>6. QED
    BY <2>1, <2>2, <2>5, AtApart
<1>13. \E x, y : Visited(V, T, x, y, L, R)
  BY <1>10, <1>11, <1>12, VisitedBy
<1>14. OnePerPair(V)
  <2>1. Apart(P, a) /\ Apart(Q, b)
    BY <1>1, <1>2, HoldsApart
  <2>2. Numbered(a, P)
    BY <1>1, HoldsNumbers
  <2>3. Numbered(b, Q)
    BY <1>2, HoldsNumbers
  <2>4. \A row, k, col : <<row, k, col>> \in T => <<row, k>> \in NonZero(P) /\ <<k, col>> \in NonZero(Q)
    BY <1>6
  <2>5. Paired(V, T, p, q, a, b, P, L, Q, R)
    BY <1>8, <1>9, <1>11, <2>4 DEF Paired
  <2>6. QED
    BY <2>1, <2>2, <2>3, <2>5, PairsApart
<1>15. QED
  BY <1>13, <1>14 DEF V

\* ... those of a conversion are.
LEMMA CooCoo ==
  ASSUME NEW P, NEW L, NEW Q, NEW R, StoredOperands(P, L, Q, R), NEW left, left = StoredCoo(P, L), NEW right, right = StoredCoo(Q, R),
         NEW T, T = Triples("MAT_COO", P, "MAT_COO", Q)
  PROVE  (\E p, q : Visited(coo_x_coo(left, right), T, p, q, L, R)) /\ OnePerPair(coo_x_coo(left, right))
<1>1. PICK a, e : CooHolds(left, P, L, a, e)
  BY CooLayout DEF StoredOperands
<1>2. PICK b, f : CooHolds(right, Q, R, b, f)
  BY CooLayout DEF StoredOperands
<1>3. ASSUME NEW g \in SegmentStarts(left)
      PROVE  /\ Climbs(CooCol(left), g, SegmentEnd(left, g)) /\ Segment(left, g) = Span(g, SegmentEnd(left, g))
             /\ \A i \in Segment(left, g) : CooCol(left)[i] = left[i].col
  BY CooClimbs DEF StoredOperands
<1>4. /\ InRuns(CooRow(right), 1, ListEnd(right), SegmentEnds(right)) /\ DOMAIN right = Span(1, ListEnd(right))
      /\ \A j \in DOMAIN right : CooRow(right)[j] = right[j].row
  BY CooRuns DEF StoredOperands
<1>5. QED
  BY <1>1, <1>2, <1>3, <1>4, HeldCooCoo

LEMMA FormatsOf ==
  ASSUME NEW d
  PROVE  /\ DenseToFormat(d, "MAT_DENSE") = [format |-> "MAT_DENSE", matrix |-> d]
         /\ DenseToFormat(d, "MAT_CSR") = [format |-> "MAT_CSR", matrix |-> CsrFromDense(d)]
         /\ DenseToFormat(d, "MAT_CSC") = [format |-> "MAT_CSC", matrix |-> CscFromDense(d)]
         /\ DenseToFormat(d, "MAT_COO") = [format |-> "MAT_COO", matrix |-> CooFromDense(d)]
  BY DEF DenseToFormat

\* The kernel that two formats choose.
LEMMA VisitsAre ==
  ASSUME NEW L, NEW R
  PROVE  /\ Visits(DenseToFormat(L, "MAT_DENSE"), DenseToFormat(R, "MAT_DENSE")) = dense_x_dense(L, R)
         /\ Visits(DenseToFormat(L, "MAT_DENSE"), DenseToFormat(R, "MAT_CSR")) = dense_x_csr(L, CsrFromDense(R))
         /\ Visits(DenseToFormat(L, "MAT_DENSE"), DenseToFormat(R, "MAT_CSC")) = dense_x_csc(L, CscFromDense(R))
         /\ Visits(DenseToFormat(L, "MAT_DENSE"), DenseToFormat(R, "MAT_COO")) = dense_x_coo(L, CooFromDense(R))
         /\ Visits(DenseToFormat(L, "MAT_CSR"), DenseToFormat(R, "MAT_DENSE")) = csr_x_dense(CsrFromDense(L), R)
         /\ Visits(DenseToFormat(L, "MAT_CSR"), DenseToFormat(R, "MAT_CSR")) = csr_x_csr(CsrFromDense(L), CsrFromDense(R))
         /\ Visits(DenseToFormat(L, "MAT_CSR"), DenseToFormat(R, "MAT_CSC")) = csr_x_csc(CsrFromDense(L), CscFromDense(R))
         /\ Visits(DenseToFormat(L, "MAT_CSR"), DenseToFormat(R, "MAT_COO")) = csr_x_coo(CsrFromDense(L), CooFromDense(R))
         /\ Visits(DenseToFormat(L, "MAT_CSC"), DenseToFormat(R, "MAT_DENSE")) = csc_x_dense(CscFromDense(L), R)
         /\ Visits(DenseToFormat(L, "MAT_CSC"), DenseToFormat(R, "MAT_CSR")) = csc_x_csr(CscFromDense(L), CsrFromDense(R))
         /\ Visits(DenseToFormat(L, "MAT_CSC"), DenseToFormat(R, "MAT_CSC")) = csc_x_csc(CscFromDense(L), CscFromDense(R))
         /\ Visits(DenseToFormat(L, "MAT_CSC"), DenseToFormat(R, "MAT_COO")) = csc_x_coo(CscFromDense(L), CooFromDense(R))
         /\ Visits(DenseToFormat(L, "MAT_COO"), DenseToFormat(R, "MAT_DENSE")) = coo_x_dense(CooFromDense(L), R)
         /\ Visits(DenseToFormat(L, "MAT_COO"), DenseToFormat(R, "MAT_CSR")) = coo_x_csr(CooFromDense(L), CsrFromDense(R))
         /\ Visits(DenseToFormat(L, "MAT_COO"), DenseToFormat(R, "MAT_CSC")) = coo_x_csc(CooFromDense(L), CscFromDense(R))
         /\ Visits(DenseToFormat(L, "MAT_COO"), DenseToFormat(R, "MAT_COO")) = coo_x_coo(CooFromDense(L), CooFromDense(R))
  BY FormatsOf DEF Visits

\* One visit for each pair of factors that the formats hold.
LEMMA KernelVisits ==
  ASSUME NEW L, NEW R, Operands(L, R), NEW l \in Formats, NEW r \in Formats
  PROVE  \E p, q : Visited(Visits(DenseToFormat(L, l), DenseToFormat(R, r)), Triples(l, L, r, R), p, q, L, R)
<1>0. /\ StoredOperands(L, L, R, R)
      /\ StoredCsr(L, L) = CsrFromDense(L) /\ StoredCsc(L, L) = CscFromDense(L) /\ StoredCoo(L, L) = CooFromDense(L)
      /\ StoredCsr(R, R) = CsrFromDense(R) /\ StoredCsc(R, R) = CscFromDense(R) /\ StoredCoo(R, R) = CooFromDense(R)
  BY OwnOperands, OwnCells DEF Operands
<1>1. CASE l = "MAT_DENSE" /\ r = "MAT_DENSE"
  BY <1>1, VisitsAre, DenseDense
<1>2. CASE l = "MAT_DENSE" /\ r = "MAT_CSR"
  BY <1>0, <1>2, VisitsAre, DenseCsr
<1>3. CASE l = "MAT_DENSE" /\ r = "MAT_CSC"
  BY <1>0, <1>3, VisitsAre, DenseCsc
<1>4. CASE l = "MAT_DENSE" /\ r = "MAT_COO"
  BY <1>0, <1>4, VisitsAre, DenseCoo
<1>5. CASE l = "MAT_CSR" /\ r = "MAT_DENSE"
  BY <1>0, <1>5, VisitsAre, CsrDense
<1>6. CASE l = "MAT_CSR" /\ r = "MAT_CSR"
  BY <1>0, <1>6, VisitsAre, CsrCsr
<1>7. CASE l = "MAT_CSR" /\ r = "MAT_CSC"
  BY <1>0, <1>7, VisitsAre, CsrCsc
<1>8. CASE l = "MAT_CSR" /\ r = "MAT_COO"
  BY <1>0, <1>8, VisitsAre, CsrCoo
<1>9. CASE l = "MAT_CSC" /\ r = "MAT_DENSE"
  BY <1>0, <1>9, VisitsAre, CscDense
<1>10. CASE l = "MAT_CSC" /\ r = "MAT_CSR"
  BY <1>0, <1>10, VisitsAre, CscCsr
<1>11. CASE l = "MAT_CSC" /\ r = "MAT_CSC"
  BY <1>0, <1>11, VisitsAre, CscCsc
<1>12. CASE l = "MAT_CSC" /\ r = "MAT_COO"
  BY <1>0, <1>12, VisitsAre, CscCoo
<1>13. CASE l = "MAT_COO" /\ r = "MAT_DENSE"
  BY <1>0, <1>13, VisitsAre, CooDense
<1>14. CASE l = "MAT_COO" /\ r = "MAT_CSR"
  BY <1>0, <1>14, VisitsAre, CooCsr
<1>15. CASE l = "MAT_COO" /\ r = "MAT_CSC"
  BY <1>0, <1>15, VisitsAre, CooCsc
<1>16. CASE l = "MAT_COO" /\ r = "MAT_COO"
  BY <1>0, <1>16, VisitsAre, CooCoo
<1>17. QED
  BY <1>1, <1>2, <1>3, <1>4, <1>5, <1>6, <1>7, <1>8, <1>9, <1>10, <1>11, <1>12, <1>13, <1>14, <1>15, <1>16 DEF Formats

-----------------------------------------------------------------------------
(* What a kernel leaves in the output, and how many products it computes.   *)

\* An output for the product of two matrices.
IsOutput(output, L, R) ==
  /\ output.values \in [Rows(L) \X Cols(R) -> Int]
  /\ output = [row_count |-> L.row_count, col_count |-> R.col_count, values |-> output.values]

LEMMA OperandValues ==
  ASSUME NEW L, NEW R, Operands(L, R), NEW row \in Rows(L), NEW k \in Cols(L), NEW col \in Cols(R)
  PROVE  /\ L.values[<<row, k>>] \in Int /\ R.values[<<k, col>>] \in Int
         /\ <<row, k>> \notin NonZero(L) => L.values[<<row, k>>] = 0
<1>1. <<row, k>> \in Cells(L) /\ <<k, col>> \in Cells(R)
  BY OperandCells
<1>2. L.values \in [Cells(L) -> Int] /\ R.values \in [Cells(R) -> Int]
  BY DEF Operands, IsDense
<1>3. QED
  BY <1>1, <1>2 DEF NonZero

LEMMA ProductType ==
  ASSUME NEW L, NEW R, Operands(L, R)
  PROVE  Product(L, R) \in [Rows(L) \X Cols(R) -> Int]
<1>1. ASSUME NEW cell \in Rows(L) \X Cols(R) PROVE Product(L, R)[cell] \in Int
  <2>1. PICK f : f = [k \in Cols(L) |-> L.values[<<cell[1], k>>] * R.values[<<k, cell[2]>>]]
    OBVIOUS
  <2>2. cell[1] \in Rows(L) /\ cell[2] \in Cols(R)
    OBVIOUS
  <2>3. \A k \in Cols(L) : L.values[<<cell[1], k>>] \in Int /\ R.values[<<k, cell[2]>>] \in Int
    BY <2>2, OperandValues
  <2>4. \A k \in Cols(L) : f[k] \in Int
    BY <2>1, <2>3
  <2>5. Summable(f, Cols(L))
    BY <2>4, TripleFacts DEF Summable
  <2>6. SumOf(f, Cols(L)) \in Int
    BY <2>5, SumStep
  <2>7. Product(L, R)[cell] = SumOf(f, Cols(L))
    BY <2>1, ProductOfCell
  <2>8. QED
    BY <2>6, <2>7
<1>2. DOMAIN Product(L, R) = Rows(L) \X Cols(R) /\ Product(L, R) = [cell \in DOMAIN Product(L, R) |-> Product(L, R)[cell]]
  BY DEF Product
<1>3. QED
  BY <1>1, <1>2

\* A row that the left matrix has no value in has a row of zeros in the product.
LEMMA EmptyRow ==
  ASSUME NEW L, NEW R, Operands(L, R), NEW cell \in Rows(L) \X Cols(R),
         \A k \in Cols(L) : <<cell[1], k>> \notin NonZero(L)
  PROVE  Product(L, R)[cell] = 0
<1>1. PICK f : f = [k \in Cols(L) |-> L.values[<<cell[1], k>>] * R.values[<<k, cell[2]>>]]
  OBVIOUS
<1>2. cell[1] \in Rows(L) /\ cell[2] \in Cols(R)
  OBVIOUS
<1>3. \A k \in Cols(L) : L.values[<<cell[1], k>>] = 0 /\ R.values[<<k, cell[2]>>] \in Int
  BY <1>2, OperandValues
<1>4. \A k \in Cols(L) : f[k] = 0
  BY <1>1, <1>3
<1>5. IsFiniteSet(Cols(L))
  BY TripleFacts
<1>6. SumOf(f, Cols(L)) = 0
  BY <1>4, <1>5, SumOfZeros DEF Summable
<1>7. QED
  BY <1>1, <1>6, ProductOfCell

\* What the visits of a kernel add to a cell is the element of the product, in every pair of formats.
THEOREM KernelsMultiply ==
  ASSUME NEW L, NEW R, Operands(L, R), NEW l \in Formats, NEW r \in Formats,
         NEW V, V = Visits(DenseToFormat(L, l), DenseToFormat(R, r)), NEW cell \in Rows(L) \X Cols(R)
  PROVE  AddedAt(V, cell) = Product(L, R)[cell]
<1>1. PICK T : T = Triples(l, L, r, R)
  OBVIOUS
<1>2. PICK p, q : Visited(V, T, p, q, L, R)
  BY <1>1, KernelVisits
<1>3. StoredOperands(L, L, R, R)
  BY OwnOperands
<1>4. QED
  BY <1>1, <1>2, <1>3, VisitsSum

\* Visits that add the product to each cell add it to the output.
LEMMA AddsProduct ==
  ASSUME NEW L, NEW R, Operands(L, R), NEW V, \A cell \in Rows(L) \X Cols(R) : AddedAt(V, cell) = Product(L, R)[cell],
         NEW output, IsOutput(output, L, R), NEW result, result = Accumulate(output, V)
  PROVE  /\ IsOutput(result, L, R)
         /\ \A cell \in Rows(L) \X Cols(R) : result.values[cell] = output.values[cell] + Product(L, R)[cell]
<1>1. ASSUME NEW cell \in Rows(L) \X Cols(R) PROVE AddedAt(V, cell) = Product(L, R)[cell]
  OBVIOUS
<1>2. DOMAIN output.values = Rows(L) \X Cols(R)
  BY DEF IsOutput
<1>3. result = [output EXCEPT !.values = [cell \in DOMAIN output.values |-> output.values[cell] + AddedAt(V, cell)]]
  BY DEF Accumulate, AddedAt
<1>4. result = [output EXCEPT !.values = [cell \in Rows(L) \X Cols(R) |-> output.values[cell] + AddedAt(V, cell)]]
  BY <1>2, <1>3
<1>5. \E values : output = [row_count |-> L.row_count, col_count |-> R.col_count, values |-> values]
  BY DEF IsOutput
<1>6. result = [row_count |-> L.row_count, col_count |-> R.col_count,
                values |-> [cell \in Rows(L) \X Cols(R) |-> output.values[cell] + AddedAt(V, cell)]]
  BY <1>4, <1>5
<1>7. result.values = [cell \in Rows(L) \X Cols(R) |-> output.values[cell] + AddedAt(V, cell)]
  BY <1>6
<1>8. \A cell \in Rows(L) \X Cols(R) : result.values[cell] = output.values[cell] + Product(L, R)[cell]
  BY <1>1, <1>7
<1>9. \A cell \in Rows(L) \X Cols(R) : output.values[cell] + AddedAt(V, cell) \in Int
  <2>1. \A cell \in Rows(L) \X Cols(R) : output.values[cell] \in Int
    BY DEF IsOutput
  <2>2. ASSUME NEW cell \in Rows(L) \X Cols(R) PROVE AddedAt(V, cell) \in Int
    <3>1. Product(L, R)[cell] \in Int
      BY ProductType
    <3>2. QED
      BY <1>1, <3>1
  <2>3. QED
    BY <2>1, <2>2
<1>10. result.values \in [Rows(L) \X Cols(R) -> Int]
  BY <1>7, <1>9
<1>11. IsOutput(result, L, R)
  BY <1>6, <1>7, <1>10 DEF IsOutput
<1>12. QED
  BY <1>8, <1>11

LEMMA AccumulateAdds ==
  ASSUME NEW L, NEW R, Operands(L, R), NEW l \in Formats, NEW r \in Formats,
         NEW V, V = Visits(DenseToFormat(L, l), DenseToFormat(R, r)),
         NEW output, IsOutput(output, L, R), NEW result, result = Accumulate(output, V)
  PROVE  /\ IsOutput(result, L, R)
         /\ \A cell \in Rows(L) \X Cols(R) : result.values[cell] = output.values[cell] + Product(L, R)[cell]
<1>1. \A cell \in Rows(L) \X Cols(R) : AddedAt(V, cell) = Product(L, R)[cell]
  BY KernelsMultiply
<1>2. QED
  BY <1>1, AddsProduct

\* A kernel that adds to the output.
LEMMA KernelAdds ==
  ASSUME NEW L, NEW R, Operands(L, R), NEW l \in Formats, NEW r \in Formats, <<l, r>> # <<"MAT_COO", "MAT_CSC">>,
         NEW output, IsOutput(output, L, R),
         NEW result, result = Kernel(output, DenseToFormat(L, l), DenseToFormat(R, r))
  PROVE  /\ IsOutput(result, L, R)
         /\ \A cell \in Rows(L) \X Cols(R) : result.values[cell] = output.values[cell] + Product(L, R)[cell]
<1>1. DenseToFormat(L, l).format = l /\ DenseToFormat(R, r).format = r
  BY DEF DenseToFormat
<1>2. Stored(output, DenseToFormat(L, l), DenseToFormat(R, r)) = output
  BY <1>1 DEF Stored
<1>3. result = Accumulate(output, Visits(DenseToFormat(L, l), DenseToFormat(R, r)))
  BY <1>2 DEF Kernel
<1>4. QED
  BY <1>3, AccumulateAdds

\* coo_x_csc stores its sum: where it visits no cell of a row, the product has a row of zeros.
LEMMA KernelStores ==
  ASSUME NEW L, NEW R, Operands(L, R), NEW output, IsOutput(output, L, R),
         NEW result, result = Kernel(output, DenseToFormat(L, "MAT_COO"), DenseToFormat(R, "MAT_CSC"))
  PROVE  /\ IsOutput(result, L, R)
         /\ \A cell \in Rows(L) \X Cols(R) :
              result.values[cell] # Product(L, R)[cell] => Product(L, R)[cell] = 0 /\ result.values[cell] = output.values[cell]
<1> DEFINE m == CooFromDense(L)
           u == DenseToFormat(L, "MAT_COO")
           w == DenseToFormat(R, "MAT_CSC")
           stored == Stored(output, u, w)
           touched(cell) == \E p \in DOMAIN m : m[p].row = cell[1]
<1>1. u.format = "MAT_COO" /\ u.matrix = m /\ w.format = "MAT_CSC"
  BY DEF DenseToFormat
<1>2. DOMAIN output.values = Rows(L) \X Cols(R)
  BY DEF IsOutput
<1>3. stored = [output EXCEPT !.values = [cell \in DOMAIN output.values |-> IF touched(cell) THEN 0 ELSE output.values[cell]]]
  BY <1>1 DEF Stored
<1>4. result = Accumulate(stored, Visits(u, w))
  BY DEF Kernel
<1> HIDE DEF u, w, stored, touched, m
<1>5. \E values : output = [row_count |-> L.row_count, col_count |-> R.col_count, values |-> values]
  BY DEF IsOutput
<1>6. stored = [row_count |-> L.row_count, col_count |-> R.col_count,
                values |-> [cell \in Rows(L) \X Cols(R) |-> IF touched(cell) THEN 0 ELSE output.values[cell]]]
  BY <1>2, <1>3, <1>5
<1>7. stored.values = [cell \in Rows(L) \X Cols(R) |-> IF touched(cell) THEN 0 ELSE output.values[cell]]
  BY <1>6
<1>8. \A cell \in Rows(L) \X Cols(R) : output.values[cell] \in Int
  BY DEF IsOutput
<1>9. IsOutput(stored, L, R)
  BY <1>6, <1>7, <1>8 DEF IsOutput
<1>10. /\ IsOutput(result, L, R)
       /\ \A cell \in Rows(L) \X Cols(R) : result.values[cell] = stored.values[cell] + Product(L, R)[cell]
  <2>1. "MAT_COO" \in Formats /\ "MAT_CSC" \in Formats
    BY DEF Formats
  <2>2. QED
    BY <1>4, <1>9, <2>1, AccumulateAdds DEF u, w
<1>11. ASSUME NEW cell \in Rows(L) \X Cols(R)
       PROVE  result.values[cell] # Product(L, R)[cell] => Product(L, R)[cell] = 0 /\ result.values[cell] = output.values[cell]
  <2>1. Product(L, R)[cell] \in Int
    BY ProductType
  <2>2. CASE touched(cell)
    BY <1>7, <1>10, <2>1, <2>2
  <2>3. CASE ~touched(cell)
    <3>1. PICK at, first : CooHolds(m, L, L, at, first)
      BY CooLayout, OwnCells DEF Operands, m
    <3>2. \A k \in Cols(L) : <<cell[1], k>> \notin NonZero(L)
      <4> SUFFICES ASSUME NEW k \in Cols(L), <<cell[1], k>> \in NonZero(L) PROVE FALSE
        OBVIOUS
      <4>1. PICK i : i = at[<<cell[1], k>>]
        OBVIOUS
      <4>2. i \in DOMAIN m /\ m[i].row = cell[1]
        BY <3>1, <4>1, CooAt
      <4>3. QED
        BY <2>3, <4>2 DEF touched
    <3>3. Product(L, R)[cell] = 0
      BY <3>2, EmptyRow
    <3>4. QED
      BY <1>7, <1>8, <1>10, <2>3, <3>3
  <2>4. QED
    BY <2>2, <2>3
<1>12. QED
  BY <1>10, <1>11

\* How many visits there are.
LEMMA KernelCount ==
  ASSUME NEW L, NEW R, Operands(L, R), NEW l \in Formats, NEW r \in Formats,
         NEW f, CountsPairs(f, l, L, r, R)
  PROVE  Cardinality(Visits(DenseToFormat(L, l), DenseToFormat(R, r))) = SumOf(f, Cols(L))
<1>1. PICK T : T = Triples(l, L, r, R)
  OBVIOUS
<1>2. PICK V : V = Visits(DenseToFormat(L, l), DenseToFormat(R, r))
  OBVIOUS
<1>3. PICK p, q : Visited(V, T, p, q, L, R)
  BY <1>1, <1>2, KernelVisits
<1>4. IsFiniteSet(T)
  BY <1>1, TripleFacts, Zenon
<1>5. Cardinality(V) = Cardinality(T)
  BY <1>3, <1>4, VisitsFinite
<1>6. Cardinality(T) = SumOf(f, Cols(L))
  BY <1>1, TriplesCount
<1>7. QED
  BY <1>2, <1>5, <1>6

-----------------------------------------------------------------------------
(* From a coordinate list: the conversions that read the list that          *)
(* coo_from_dense made come out where those from the dense matrix do.       *)

LEMMA CountOfPlaces ==
  ASSUME NEW S, NEW n, NEW s, Enumerates(S, n, s), NEW A \in SUBSET S
  PROVE  Cardinality({j \in 1 .. n : s[j] \in A}) = Cardinality(A)
<1> DEFINE B == {j \in 1 .. n : s[j] \in A}
           f == [j \in B |-> s[j]]
<1>1. n \in Nat /\ (\A x \in S : \E j \in 1 .. n : s[j] = x) /\ (\A j, k \in 1 .. n : s[j] = s[k] => j = k)
  BY DEF Enumerates
<1>2. IsFiniteSet(B)
  <2>1. IsFiniteSet(1 .. n)
    BY <1>1, FS_Interval
  <2>2. B \in SUBSET (1 .. n)
    OBVIOUS
  <2>3. QED
    BY <2>1, <2>2, FS_Subset
<1>3. f \in Surjection(B, A) /\ f \in Injection(B, A)
  <2>1. f \in [B -> A]
    OBVIOUS
  <2>2. \A x \in A : \E j \in B : f[j] = x
    BY <1>1
  <2>3. \A j, k \in B : f[j] = f[k] => j = k
    BY <1>1
  <2> HIDE DEF f, B
  <2>4. QED
    BY <2>1, <2>2, <2>3 DEF Surjection, Injection, IsInjective
<1> HIDE DEF f, B
<1>4. Cardinality(A) = Cardinality(B)
  BY <1>2, <1>3, FS_Surjection
<1>5. QED
  BY <1>4 DEF B

LEMMA MaxOfOne == ASSUME NEW i \in Int PROVE Max({i}) = i
<1>1. i >= i
  OBVIOUS
<1>2. \A x \in {i} : (\A y \in {i} : x >= y) <=> x = i
  BY <1>1
<1>3. (CHOOSE x \in {i} : \A y \in {i} : x >= y) \in {i}
  BY <1>2
<1>4. QED
  BY <1>3 DEF Max

\* A list that has the cells of a dense matrix in the order of the rows.
Lists(coo, d, n, s) ==
  /\ coo = [i \in 1 .. n |-> [row |-> s[i][1], col |-> s[i][2], value |-> d.values[s[i]]]]
  /\ DOMAIN coo = 1 .. n /\ Len(coo) = n
  /\ Enumerates(NonZero(d), n, s)
  /\ \A i, j \in 1 .. n : RowsFirst(s[i], s[j]) <=> i < j

LEMMA CooLists ==
  ASSUME NEW d, IsDense(d), NEW coo, coo = CooFromDense(d)
  PROVE  Lists(coo, d, Cardinality(NonZero(d)), RowScan(d))
<1>1. PICK n, s : n = Cardinality(NonZero(d)) /\ s = RowScan(d)
  OBVIOUS
<1>2. /\ n \in Nat /\ s \in [1 .. n -> NonZero(d)] /\ DOMAIN s = 1 .. n
      /\ \A i, j \in 1 .. n : RowsFirst(s[i], s[j]) <=> i < j
  BY <1>1, RowScanned
<1>3. Enumerates(NonZero(d), n, s)
  BY <1>1, RowScanned, SMTT(30) DEF Enumerates
<1>4. coo = [i \in 1 .. n |-> [row |-> s[i][1], col |-> s[i][2], value |-> d.values[s[i]]]]
  BY <1>1, <1>2 DEF CooFromDense
<1>5. DOMAIN coo = 1 .. n /\ Len(coo) = n
  BY <1>2, <1>4
<1>6. Lists(coo, d, n, s)
  BY <1>2, <1>3, <1>4, <1>5 DEF Lists
<1>7. QED
  BY <1>1, <1>6

LEMMA ListedEntry ==
  ASSUME NEW d, NEW coo, NEW n, NEW s, Lists(coo, d, n, s), NEW i \in 1 .. n
  PROVE  coo[i].row = s[i][1] /\ coo[i].col = s[i][2] /\ coo[i].value = d.values[s[i]] /\ s[i] \in NonZero(d)
<1>1. coo[i] = [row |-> s[i][1], col |-> s[i][2], value |-> d.values[s[i]]]
  BY DEF Lists
<1>2. s[i] \in NonZero(d)
  BY DEF Lists, Enumerates
<1>3. QED
  BY <1>1, <1>2

\* dense_from_coo finds each cell at most once.
LEMMA DenseFromList ==
  ASSUME NEW d, IsDense(d), NEW coo, NEW n, NEW s, Lists(coo, d, n, s)
  PROVE  DenseFromCoo(coo, d.row_count, d.col_count) = d
<1> DEFINE at(cell) == {i \in DOMAIN coo : <<coo[i].row, coo[i].col>> = cell}
           found(cell) == IF at(cell) = {} THEN 0 ELSE coo[Max(at(cell))].value
<1>1. ASSUME NEW cell \in Cells(d) PROVE found(cell) = d.values[cell]
  <2>1. at(cell) = {i \in 1 .. n : s[i] = cell}
    <3>1. \A x \in NonZero(d) : x = <<x[1], x[2]>>
      BY CellFacts
    <3>2. \A i \in 1 .. n : <<coo[i].row, coo[i].col>> = s[i]
      BY <3>1, ListedEntry
    <3>3. DOMAIN coo = 1 .. n
      BY DEF Lists
    <3>4. QED
      BY <3>2, <3>3
  <2>2. CASE cell \in NonZero(d)
    <3>1. PICK i \in 1 .. n : s[i] = cell
      BY <2>2 DEF Lists, Enumerates
    <3>2. at(cell) = {i}
      BY <2>1, <3>1 DEF Lists, Enumerates
    <3>3. Max({i}) = i
      BY MaxOfOne
    <3>4. coo[i].value = d.values[cell]
      BY <3>1, ListedEntry
    <3> HIDE DEF at
    <3>5. QED
      BY <3>2, <3>3, <3>4
  <2>3. CASE cell \notin NonZero(d)
    <3>1. at(cell) = {}
      BY <2>1, <2>3, ListedEntry
    <3>2. d.values[cell] = 0
      BY <2>3 DEF NonZero
    <3> HIDE DEF at
    <3>3. QED
      BY <3>1, <3>2
  <2>4. QED
    BY <2>2, <2>3
<1>2. DenseFromCoo(coo, d.row_count, d.col_count) =
        [row_count |-> d.row_count, col_count |-> d.col_count, values |-> [cell \in Cells(d) |-> found(cell)]]
  BY DEF DenseFromCoo, Cells, Rows, Cols
<1> HIDE DEF found
<1>3. d.values = [cell \in Cells(d) |-> d.values[cell]]
  BY DEF IsDense
<1>4. [cell \in Cells(d) |-> found(cell)] = d.values
  BY <1>1, <1>3
<1>5. d = [row_count |-> d.row_count, col_count |-> d.col_count, values |-> d.values]
  BY DEF IsDense
<1>6. QED
  BY <1>2, <1>4, <1>5

\* The entries of a list before a row, before a column: the pointers of csr_from_coo and csc_from_coo.
ListRowsBefore(coo, r) == Before(coo, Len(coo) + 1, LAMBDA e : e.row < r)
ListColsBefore(coo, c) == Before(coo, Len(coo) + 1, LAMBDA e : e.col < c)

LEMMA ListPointers ==
  ASSUME NEW d, IsDense(d), NEW coo, NEW n, NEW s, Lists(coo, d, n, s), NEW r \in Int
  PROVE  ListRowsBefore(coo, r) = RowsBefore(d, r) /\ ListColsBefore(coo, r) = ColsBefore(d, r)
<1>1. PICK A : A = {x \in NonZero(d) : x[1] < r}
  OBVIOUS
<1>2. PICK B : B = {x \in NonZero(d) : x[2] < r}
  OBVIOUS
<1>3. {j \in 1 .. n : coo[j].row < r} = {j \in 1 .. n : s[j] \in A}
  BY <1>1, ListedEntry
<1>4. {j \in 1 .. n : coo[j].col < r} = {j \in 1 .. n : s[j] \in B}
  BY <1>2, ListedEntry
<1>5. Enumerates(NonZero(d), n, s)
  BY DEF Lists
<1>6. Cardinality({j \in 1 .. n : s[j] \in A}) = Cardinality(A)
  BY <1>1, <1>5, CountOfPlaces
<1>7. Cardinality({j \in 1 .. n : s[j] \in B}) = Cardinality(B)
  BY <1>2, <1>5, CountOfPlaces
<1>8. Len(coo) = n /\ Len(coo) + 1 - 1 = n
  BY <1>5 DEF Lists, Enumerates
<1>9. ListRowsBefore(coo, r) = Cardinality({j \in 1 .. Len(coo) + 1 - 1 : coo[j].row < r})
  BY DEF ListRowsBefore, Before
<1>10. ListColsBefore(coo, r) = Cardinality({j \in 1 .. Len(coo) + 1 - 1 : coo[j].col < r})
  BY DEF ListColsBefore, Before
<1>11. ListRowsBefore(coo, r) = Cardinality({j \in 1 .. n : coo[j].row < r})
  BY <1>8, <1>9
<1>12. ListColsBefore(coo, r) = Cardinality({j \in 1 .. n : coo[j].col < r})
  BY <1>8, <1>10
<1>13. QED
  BY <1>1, <1>2, <1>3, <1>4, <1>6, <1>7, <1>11, <1>12 DEF RowsBefore, ColsBefore

\* csr_from_coo copies the entries, which are in order already.
LEMMA CsrShape ==
  ASSUME NEW coo, NEW row_count
  PROVE  CsrFromCoo(coo, row_count) =
           [row_count |-> row_count, row_pointers |-> [r \in 0 .. row_count |-> ListRowsBefore(coo, r)],
            entries |-> [i \in DOMAIN coo |-> [index |-> coo[i].col, value |-> coo[i].value]]]
  BY DEF CsrFromCoo, ListRowsBefore, Before

LEMMA CsrFromList ==
  ASSUME NEW d, IsDense(d), NEW coo, coo = CooFromDense(d)
  PROVE  CsrFromCoo(coo, d.row_count) = CsrFromDense(d)
<1> DEFINE entry(i) == [index |-> coo[i].col, value |-> coo[i].value]
<1>1. PICK n, s : n = Cardinality(NonZero(d)) /\ s = RowScan(d)
  OBVIOUS
<1>2. Lists(coo, d, n, s) /\ DOMAIN coo = 1 .. n /\ Len(coo) = n
  BY <1>1, CooLists DEF Lists
<1>3. n \in Nat /\ DOMAIN s = 1 .. n
  BY <1>1, RowScanned
<1>4. CsrFromCoo(coo, d.row_count) =
        [row_count |-> d.row_count, row_pointers |-> [r \in 0 .. d.row_count |-> ListRowsBefore(coo, r)],
         entries |-> [i \in DOMAIN coo |-> entry(i)]]
  BY CsrShape
<1>5. CsrFromDense(d) =
        [row_count |-> d.row_count, row_pointers |-> [r \in 0 .. d.row_count |-> RowsBefore(d, r)],
         entries |-> [i \in DOMAIN s |-> [index |-> s[i][2], value |-> d.values[s[i]]]]]
  BY <1>1, Zenon DEF CsrFromDense, RowsBefore
<1>6. ASSUME NEW r \in 0 .. d.row_count PROVE ListRowsBefore(coo, r) = RowsBefore(d, r)
  BY <1>2, ListPointers
<1>7. ASSUME NEW i \in 1 .. n PROVE entry(i) = [index |-> s[i][2], value |-> d.values[s[i]]]
  BY <1>2, ListedEntry
<1> HIDE DEF entry
<1>8. [r \in 0 .. d.row_count |-> ListRowsBefore(coo, r)] = [r \in 0 .. d.row_count |-> RowsBefore(d, r)]
  BY <1>6
<1>9. [i \in DOMAIN coo |-> entry(i)] = [i \in DOMAIN s |-> [index |-> s[i][2], value |-> d.values[s[i]]]]
  BY <1>2, <1>3, <1>7
<1>10. QED
  BY <1>4, <1>5, <1>8, <1>9

\* Where csc_from_coo puts an entry: behind those of the columns before its own, and behind those
\* of its own that came before it. That is the place of its cell in the order of the columns.
LEMMA CursorIs ==
  ASSUME NEW d, IsDense(d), NEW coo, NEW n, NEW s, Lists(coo, d, n, s), NEW i \in 1 .. n
  PROVE  ColsBefore(d, coo[i].col) + Cursor(coo, i) = Cardinality({b \in NonZero(d) : ColsFirst(b, s[i])})
<1>1. PICK c : c = coo[i].col
  OBVIOUS
<1>2. PICK A : A = {b \in NonZero(d) : b[2] < c}
  OBVIOUS
<1>3. PICK B : B = {b \in NonZero(d) : b[2] = c /\ b[1] < s[i][1]}
  OBVIOUS
<1>4. s[i] \in NonZero(d) /\ c = s[i][2] /\ n \in Nat
  BY <1>1, ListedEntry DEF Lists, Enumerates
<1>5. \A b \in NonZero(d) : b[1] \in Int /\ b[2] \in Int
  BY CellFacts
<1>6. {b \in NonZero(d) : ColsFirst(b, s[i])} = A \cup B
  BY <1>2, <1>3, <1>4 DEF ColsFirst
<1>7. IsFiniteSet(A) /\ IsFiniteSet(B) /\ A \cap B = {}
  <2>1. IsFiniteSet(NonZero(d))
    BY CellFacts
  <2>2. IsFiniteSet(A) /\ IsFiniteSet(B)
    BY <1>2, <1>3, <2>1, FS_Subset
  <2>3. A \cap B = {}
    BY <1>2, <1>3, <1>4, <1>5
  <2>4. QED
    BY <2>2, <2>3
<1>8. Cardinality(A \cup B) = Cardinality(A) + Cardinality(B)
  <2>1. Cardinality(A \cup B) = Cardinality(A) + Cardinality(B) - Cardinality(A \cap B)
    BY <1>7, FS_Union
  <2>2. Cardinality(A \cap B) = 0 /\ Cardinality(A) \in Nat /\ Cardinality(B) \in Nat
    BY <1>7, FS_EmptySet, FS_CardinalityType
  <2>3. QED
    BY <2>1, <2>2
<1>9. Cardinality(A) = ColsBefore(d, c)
  BY <1>2 DEF ColsBefore
<1>10. Cursor(coo, i) = Cardinality({j \in 1 .. i - 1 : coo[j].col = c})
  BY <1>1 DEF Cursor, Before
<1>11. {j \in 1 .. i - 1 : coo[j].col = c} = {j \in 1 .. n : s[j] \in B}
  <2>1. ASSUME NEW j \in 1 .. n PROVE j < i /\ coo[j].col = c <=> s[j] \in B
    <3>1. s[j] \in NonZero(d) /\ coo[j].col = s[j][2]
      BY ListedEntry
    <3>2. RowsFirst(s[j], s[i]) <=> j < i
      BY DEF Lists
    <3>3. s[j] # s[i] \/ j = i
      BY DEF Lists, Enumerates
    <3>4. s[j] = <<s[j][1], s[j][2]>> /\ s[i] = <<s[i][1], s[i][2]>>
      BY <1>4, <3>1, CellFacts
    <3>5. ASSUME j < i, coo[j].col = c PROVE s[j][1] < s[i][1]
      <4>1. s[j][1] < s[i][1] \/ (s[j][1] = s[i][1] /\ s[j][2] < s[i][2])
        BY <3>2, <3>5 DEF RowsFirst
      <4>2. s[j][2] = s[i][2]
        BY <1>4, <3>1, <3>5
      <4>3. s[j][2] \in Int
        BY <1>5, <3>1
      <4>4. QED
        BY <4>1, <4>2, <4>3
    <3>6. s[j][1] < s[i][1] => j < i
      BY <3>2 DEF RowsFirst
    <3>7. s[j] \in B <=> s[j][2] = c /\ s[j][1] < s[i][1]
      BY <1>3, <3>1
    <3>8. QED
      BY <3>1, <3>5, <3>6, <3>7
  <2>2. \A j : j \in 1 .. i - 1 <=> j \in 1 .. n /\ j < i
    BY <1>4
  <2>3. QED
    BY <2>1, <2>2
<1>12. Cardinality({j \in 1 .. n : s[j] \in B}) = Cardinality(B)
  <2>1. Enumerates(NonZero(d), n, s) /\ B \in SUBSET NonZero(d)
    BY <1>3 DEF Lists
  <2>2. QED
    BY <2>1, CountOfPlaces
<1>13. QED
  BY <1>1, <1>6, <1>8, <1>9, <1>10, <1>11, <1>12

\* The places where csc_from_coo puts the entries, and what it leaves at each.
ListPlace(coo, col_count, i) == [c \in 0 .. col_count |-> ListColsBefore(coo, c)][coo[i].col] + Cursor(coo, i) + 1
ListPlaced(coo, col_count, p) == {i \in DOMAIN coo : ListPlace(coo, col_count, i) = p}

LEMMA CscShape ==
  ASSUME NEW coo, NEW col_count
  PROVE  CscFromCoo(coo, col_count) =
           [col_count |-> col_count, col_pointers |-> [c \in 0 .. col_count |-> ListColsBefore(coo, c)],
            entries |-> [p \in DOMAIN coo |->
                           IF ListPlaced(coo, col_count, p) = {} THEN [index |-> 0, value |-> 0]
                           ELSE [index |-> coo[Max(ListPlaced(coo, col_count, p))].row,
                                 value |-> coo[Max(ListPlaced(coo, col_count, p))].value]]]
  BY DEF CscFromCoo, ListPlaced, ListPlace, ListColsBefore, Before

LEMMA CscFromList ==
  ASSUME NEW d, IsDense(d), NEW coo, coo = CooFromDense(d)
  PROVE  CscFromCoo(coo, d.col_count) = CscFromDense(d)
<1> DEFINE from(p) == ListPlaced(coo, d.col_count, p)
           entry(p) == IF from(p) = {} THEN [index |-> 0, value |-> 0]
                       ELSE [index |-> coo[Max(from(p))].row, value |-> coo[Max(from(p))].value]
<1>1. PICK n, s, t : n = Cardinality(NonZero(d)) /\ s = RowScan(d) /\ t = ColScan(d)
  OBVIOUS
<1>2. Lists(coo, d, n, s) /\ DOMAIN coo = 1 .. n /\ Len(coo) = n
  BY <1>1, CooLists DEF Lists
<1>3. n \in Nat /\ t \in [1 .. n -> NonZero(d)] /\ DOMAIN t = 1 .. n
  BY <1>1, ColScanned
<1>4. \A i \in 1 .. n : i = Cardinality({b \in NonZero(d) : ColsFirst(b, t[i])}) + 1
  BY <1>1, ColScanned
<1>5. \A x \in NonZero(d) : \E i \in 1 .. n : t[i] = x
  BY <1>1, ColScanned
<1>6. CscFromCoo(coo, d.col_count) =
        [col_count |-> d.col_count, col_pointers |-> [c \in 0 .. d.col_count |-> ListColsBefore(coo, c)],
         entries |-> [p \in DOMAIN coo |-> entry(p)]]
  BY CscShape
<1>7. CscFromDense(d) =
        [col_count |-> d.col_count, col_pointers |-> [c \in 0 .. d.col_count |-> ColsBefore(d, c)],
         entries |-> [i \in DOMAIN t |-> [index |-> t[i][1], value |-> d.values[t[i]]]]]
  BY <1>1, Zenon DEF CscFromDense, ColsBefore
<1>8. ASSUME NEW c \in 0 .. d.col_count PROVE ListColsBefore(coo, c) = ColsBefore(d, c)
  BY <1>2, ListPointers
<1>9. ASSUME NEW i \in 1 .. n
      PROVE  ListPlace(coo, d.col_count, i) = Cardinality({b \in NonZero(d) : ColsFirst(b, s[i])}) + 1
  <2>1. s[i] \in NonZero(d) /\ coo[i].col = s[i][2]
    BY <1>2, ListedEntry
  <2>2. coo[i].col \in 0 .. d.col_count
    <3>1. s[i][2] \in Cols(d)
      BY <2>1, CellFacts
    <3>2. QED
      BY <2>1, <3>1 DEF Cols, IsDense
  <2>3. [c \in 0 .. d.col_count |-> ListColsBefore(coo, c)][coo[i].col] = ListColsBefore(coo, coo[i].col)
    BY <2>2
  <2>4. ListColsBefore(coo, coo[i].col) = ColsBefore(d, coo[i].col)
    BY <1>8, <2>2
  <2>5. ListPlace(coo, d.col_count, i) = ColsBefore(d, coo[i].col) + Cursor(coo, i) + 1
    BY <2>3, <2>4 DEF ListPlace
  <2>6. ColsBefore(d, coo[i].col) + Cursor(coo, i) = Cardinality({b \in NonZero(d) : ColsFirst(b, s[i])})
    BY <1>2, CursorIs
  <2>7. QED
    BY <2>5, <2>6
<1>10. ASSUME NEW p \in 1 .. n PROVE entry(p) = [index |-> t[p][1], value |-> d.values[t[p]]]
  <2>1. t[p] \in NonZero(d) /\ p = Cardinality({b \in NonZero(d) : ColsFirst(b, t[p])}) + 1
    BY <1>3, <1>4
  <2>2. PICK i \in 1 .. n : s[i] = t[p]
    BY <1>2, <2>1 DEF Lists, Enumerates
  <2>3. ListPlace(coo, d.col_count, i) = p
    BY <1>9, <2>1, <2>2
  <2>4. ASSUME NEW j \in 1 .. n, ListPlace(coo, d.col_count, j) = p PROVE j = i
    <3>1. s[j] \in NonZero(d)
      BY <1>2, ListedEntry
    <3>2. PICK q \in 1 .. n : t[q] = s[j]
      BY <1>5, <3>1
    <3>3. q = Cardinality({b \in NonZero(d) : ColsFirst(b, s[j])}) + 1
      BY <1>4, <3>2
    <3>4. q = p
      BY <1>9, <2>4, <3>3
    <3>5. s[j] = s[i]
      BY <2>2, <3>2, <3>4
    <3>6. QED
      BY <1>2, <3>5 DEF Lists, Enumerates
  <2>5. from(p) = {i}
    BY <1>2, <2>3, <2>4 DEF ListPlaced
  <2>6. Max({i}) = i
    BY MaxOfOne
  <2>7. coo[i].row = s[i][1] /\ coo[i].value = d.values[s[i]]
    BY <1>2, ListedEntry
  <2> HIDE DEF from
  <2>8. QED
    BY <2>2, <2>5, <2>6, <2>7
<1> HIDE DEF entry
<1>11. [c \in 0 .. d.col_count |-> ListColsBefore(coo, c)] = [c \in 0 .. d.col_count |-> ColsBefore(d, c)]
  BY <1>8
<1>12. [p \in DOMAIN coo |-> entry(p)] = [i \in DOMAIN t |-> [index |-> t[i][1], value |-> d.values[t[i]]]]
  BY <1>2, <1>3, <1>10
<1>13. QED
  BY <1>6, <1>7, <1>11, <1>12

\* The conversions from a coordinate list agree with those from the dense matrix that the list
\* was made from, for every matrix: coo_to_format(coo_from_dense(d), f) is dense_to_format(d, f).
\* csr_from_coo relies on the order of the list; csc_from_coo sorts it by counting.
THEOREM CooConversions ==
  ASSUME NEW d, IsDense(d), NEW format \in Formats
  PROVE  CooToFormat(CooFromDense(d), d.row_count, d.col_count, format) = DenseToFormat(d, format)
<1>1. PICK coo, n, s : coo = CooFromDense(d) /\ n = Cardinality(NonZero(d)) /\ s = RowScan(d)
  OBVIOUS
<1>2. DenseFromCoo(coo, d.row_count, d.col_count) = d
  BY <1>1, CooLists, DenseFromList
<1>3. CsrFromCoo(coo, d.row_count) = CsrFromDense(d)
  BY <1>1, CsrFromList
<1>4. CscFromCoo(coo, d.col_count) = CscFromDense(d)
  BY <1>1, CscFromList
<1>5. CASE format = "MAT_DENSE"
  BY <1>1, <1>2, <1>5 DEF CooToFormat, DenseToFormat
<1>6. CASE format = "MAT_CSR"
  BY <1>1, <1>3, <1>6 DEF CooToFormat, DenseToFormat
<1>7. CASE format = "MAT_CSC"
  BY <1>1, <1>4, <1>7 DEF CooToFormat, DenseToFormat
<1>8. CASE format = "MAT_COO"
  BY <1>1, <1>8 DEF CooToFormat, DenseToFormat
<1>9. QED
  BY <1>5, <1>6, <1>7, <1>8 DEF Formats

-----------------------------------------------------------------------------
(* Parts of the numbers, and sums over them.                               *)

\* A number is known from its quotient and its remainder.
LEMMA QuotientAndRest ==
  ASSUME NEW b \in Nat \ {0}, NEW q \in Nat, NEW r \in 0 .. b - 1
  PROVE  b * q + r \in Nat /\ (b * q + r) \div b = q /\ (b * q + r) % b = r
<1>1. PICK x \in Nat : x = b * q + r
  <2>1. b * q + r \in Nat
    OBVIOUS
  <2>2. QED
    BY <2>1
<1>2. /\ x \div b \in Nat /\ x % b \in 0 .. b - 1
      /\ x = (b * (x \div b)) + (x % b)
  BY DivMod
<1>3. PICK p \in Nat : p = x \div b
  BY <1>2
<1>4. b * p \in Nat /\ b * q \in Nat
  OBVIOUS
<1>5. ~(b * p < b * q) /\ ~(b * q < b * p)
  <2>1. CASE b * p < b * q
    <3>1. b * p + b <= b * q
      BY <2>1, MultiplesApart
    <3>2. QED
      BY <1>1, <1>2, <1>3, <1>4, <3>1
  <2>2. CASE b * q < b * p
    <3>1. b * q + b <= b * p
      BY <2>2, MultiplesApart
    <3>2. QED
      BY <1>1, <1>2, <1>3, <1>4, <3>1
  <2>3. QED
    BY <2>1, <2>2
<1>6. p = q
  <2>1. CASE p < q
    <3>1. b * p < b * q
      BY <2>1
    <3>2. QED
      BY <1>5, <3>1
  <2>2. CASE q < p
    <3>1. b * q < b * p
      BY <2>2
    <3>2. QED
      BY <1>5, <3>1
  <2>3. QED
    BY <2>1, <2>2
<1>7. x % b = r
  BY <1>1, <1>2, <1>3, <1>4, <1>6
<1>8. QED
  BY <1>1, <1>3, <1>6, <1>7

\* The block of a row, and the row in it.
LEMMA RowOfBlock ==
  ASSUME NEW b \in Nat \ {0}, NEW n \in Nat, n % b = 0, NEW x \in 0 .. n - 1
  PROVE  x \div b \in 0 .. (n \div b) - 1 /\ x % b \in 0 .. b - 1 /\ (x \div b) * b + (x % b) = x
<1>1. x \in Nat /\ x < n
  OBVIOUS
<1>2. x \div b \in Nat /\ x % b \in 0 .. b - 1 /\ x = (b * (x \div b)) + (x % b)
  BY <1>1, DivMod
<1>3. n \div b \in Nat /\ n = (b * (n \div b)) + (n % b)
  BY DivMod
<1>4. PICK q \in Nat, r \in 0 .. b - 1, c \in Nat : q = x \div b /\ r = x % b /\ c = n \div b
  BY <1>2, <1>3
<1>5. x = b * q + r /\ n = b * c /\ b * q \in Nat /\ b * c \in Nat /\ b * q = q * b
  <2>1. b * q \in Nat /\ b * c \in Nat /\ b * q = q * b
    OBVIOUS
  <2>2. n = (b * c) + 0 /\ x = (b * q) + r
    BY <1>2, <1>3, <1>4
  <2>3. QED
    BY <2>1, <2>2
<1>6. q < c
  <2>1. CASE c <= q
    <3>1. b * c <= b * q
      BY <2>1
    <3>2. QED
      BY <1>1, <1>5, <3>1
  <2>2. QED
    BY <2>1
<1>7. q * b + r = x
  BY <1>5
<1>8. QED
  BY <1>4, <1>6, <1>7

\* A block of a matrix that blocks divide lies inside of it.
LEMMA BlockFits ==
  ASSUME NEW b \in Nat \ {0}, NEW n \in Nat, n % b = 0, NEW k \in 0 .. (n \div b) - 1
  PROVE  k * b \in Nat /\ k * b + b <= n
<1>1. PICK q \in Nat : q = n \div b /\ n = b * q
  <2>1. n \div b \in Nat /\ n = (b * (n \div b)) + (n % b)
    BY DivMod
  <2>2. n = b * (n \div b)
    BY <2>1
  <2>3. QED
    BY <2>1, <2>2
<1>2. k \in Nat /\ k + 1 <= q
  BY <1>1
<1>3. (k + 1) * b <= q * b
  BY <1>1, <1>2
<1>4. (k + 1) * b = k * b + b /\ q * b = b * q /\ k * b \in Nat
  BY <1>1, <1>2
<1>5. QED
  BY <1>1, <1>3, <1>4

\* The index of a block is below the count and tells its row and column of blocks.
LEMMA BlockIndex ==
  ASSUME NEW rows \in Nat, NEW cols \in Nat, NEW row \in 0 .. rows - 1, NEW col \in 0 .. cols - 1,
         NEW n, n = row * cols + col
  PROVE  n \in 0 .. rows * cols - 1 /\ n \div cols = row /\ n % cols = col
<1>1. cols \in Nat \ {0} /\ row \in Nat /\ row + 1 <= rows
  OBVIOUS
<1>2. row * cols = cols * row
  BY <1>1
<1>3. n \in Nat /\ n \div cols = row /\ n % cols = col
  BY <1>1, <1>2, QuotientAndRest
<1>4. row * cols + cols <= rows * cols
  <2>1. (row + 1) * cols <= rows * cols
    BY <1>1
  <2>2. (row + 1) * cols = row * cols + cols
    BY <1>1
  <2>3. QED
    BY <2>1, <2>2
<1>5. rows * cols \in Nat /\ row * cols \in Nat
  BY <1>1
<1>6. QED
  BY <1>3, <1>4, <1>5

\* Every index below the count is that of a block.
LEMMA IndexBlock ==
  ASSUME NEW rows \in Nat, NEW cols \in Nat, NEW n \in 0 .. rows * cols - 1
  PROVE  \E row \in 0 .. rows - 1, col \in 0 .. cols - 1 : n = row * cols + col
<1>1. n \in Nat /\ n < rows * cols
  <2>1. rows * cols \in Nat
    OBVIOUS
  <2>2. QED
    BY <2>1
<1>2. cols \in Nat \ {0}
  <2>1. CASE cols = 0
    BY <1>1, <2>1
  <2>2. QED
    BY <2>1
<1>3. PICK q \in Nat, r \in 0 .. cols - 1 : n = cols * q + r
  BY <1>1, <1>2, DivMod
<1>4. q < rows
  <2>1. CASE rows <= q
    <3>1. rows * cols <= q * cols
      BY <1>2, <2>1
    <3>2. q * cols = cols * q /\ cols * q \in Nat
      BY <1>2
    <3>3. QED
      BY <1>1, <1>3, <3>1, <3>2
  <2>2. QED
    BY <2>1
<1>5. n = q * cols + r
  <2>1. q * cols = cols * q
    BY <1>2
  <2>2. QED
    BY <1>3, <2>1
<1>6. QED
  BY <1>3, <1>4, <1>5

\* Once more, once and not at all.
LEMMA OneMore ==
  ASSUME NEW a \in Nat, NEW r \in Int
  PROVE  a * r + r = (a + 1) * r /\ 1 * r = r /\ 0 * r = 0
  OBVIOUS

\* A set of numbers with a bound has a greatest one.
LEMMA GreatestNumber ==
  ASSUME NEW n \in Nat, NEW S \in SUBSET (1 .. n), S # {}
  PROVE  Max(S) \in S /\ \A y \in S : Max(S) >= y
<1> DEFINE D == {n - x : x \in S}
<1>1. D \subseteq Nat /\ D # {}
  <2>1. \A x \in S : n - x \in Nat
    OBVIOUS
  <2>2. QED
    BY <2>1
<1>2. PICK d \in D : \A y \in D : d <= y
  BY <1>1, LeastNumber
<1>3. PICK m \in S : d = n - m
  BY <1>2
<1>4. \A y \in S : m >= y
  <2> SUFFICES ASSUME NEW y \in S PROVE m >= y
    OBVIOUS
  <2>1. n - y \in D
    OBVIOUS
  <2>2. d <= n - y
    BY <1>2, <2>1
  <2>3. QED
    BY <1>3, <2>2
<1>5. QED
  BY <1>3, <1>4 DEF Max

\* A sum over two sets without a common element.
LEMMA SumUnion ==
  ASSUME NEW A, NEW B, NEW f, Summable(f, A \cup B), A \cap B = {}
  PROVE  SumOf(f, A \cup B) = SumOf(f, A) + SumOf(f, B)
<1> DEFINE Wrong(s) == SumOf(f, s \cup B) # SumOf(f, s) + SumOf(f, B)
           Bad == {n \in Nat : \E s \in SUBSET A : Cardinality(s) = n /\ Wrong(s)}
<1>1. /\ \A s \in SUBSET A : Summable(f, s) /\ Cardinality(s) \in Nat /\ Summable(f, s \cup B)
      /\ Summable(f, B)
  BY FS_Subset, FS_CardinalityType, FS_Union DEF Summable
<1>2. Bad = {}
  <2> SUFFICES ASSUME Bad # {} PROVE FALSE
    OBVIOUS
  <2>1. PICK n \in Bad : \A k \in Bad : n <= k
    <3>1. Bad \subseteq Nat
      OBVIOUS
    <3> HIDE DEF Bad
    <3>2. QED
      BY <3>1, LeastNumber
  <2>2. PICK s \in SUBSET A : Cardinality(s) = n /\ Wrong(s)
    BY <2>1
  <2>3. CASE s = {}
    <3>1. SumOf(f, {}) = 0 /\ SumOf(f, B) \in Int
      BY <1>1, <2>3, SumStep
    <3>2. s \cup B = B
      BY <2>3
    <3>3. QED
      BY <2>2, <2>3, <3>1, <3>2
  <2>4. CASE s # {}
    <3>1. PICK x \in s : TRUE
      BY <2>4
    <3>2. PICK t : t = s \ {x}
      OBVIOUS
    <3>3. t \in SUBSET A /\ x \in s \cup B /\ (s \cup B) \ {x} = t \cup B
      BY <3>2
    <3>4. /\ SumOf(f, s) = f[x] + SumOf(f, t) /\ SumOf(f, s \cup B) = f[x] + SumOf(f, t \cup B)
      BY <1>1, <3>2, <3>3, SumRemove
    <3>5. Cardinality(t) = n - 1 /\ Cardinality(t) \in Nat /\ n \in Nat
      <4>1. IsFiniteSet(s) /\ Cardinality(s \ {x}) = Cardinality(s) - 1
        BY <1>1, FS_RemoveElement DEF Summable
      <4>2. QED
        BY <1>1, <2>2, <3>2, <3>3, <4>1
    <3>6. ~Wrong(t)
      <4> SUFFICES ASSUME Wrong(t) PROVE FALSE
        OBVIOUS
      <4>1. n - 1 \in Bad
        BY <3>3, <3>5
      <4> HIDE DEF Bad, Wrong
      <4>2. QED
        BY <2>1, <3>5, <4>1
    <3>7. /\ SumOf(f, t) \in Int /\ SumOf(f, B) \in Int /\ SumOf(f, t \cup B) \in Int /\ f[x] \in Int
      BY <1>1, <3>3, SumStep DEF Summable
    <3>8. QED
      BY <2>2, <3>4, <3>6, <3>7
  <2>5. QED
    BY <2>3, <2>4
<1>3. A \in SUBSET A /\ Cardinality(A) \in Nat
  BY <1>1
<1>4. ~Wrong(A)
  BY <1>2, <1>3
<1>5. QED
  BY <1>4

\* f has the sum of g over the elements of T with a key.
SumsKeys(f, K, g, T, key) ==
  /\ \A t \in T : key[t] \in K
  /\ \A k \in K : f[k] = SumOf(g, {t \in T : key[t] = k})

\* A sum over T, grouped by what key says of its elements.
LEMMA SumByKey ==
  ASSUME NEW K, IsFiniteSet(K), NEW T, NEW g, Summable(g, T), NEW key, NEW f, SumsKeys(f, K, g, T, key)
  PROVE  Summable(f, K) /\ SumOf(f, K) = SumOf(g, T)
<1> DEFINE Of(s) == {t \in T : key[t] \in s}
           Wrong(s) == SumOf(f, s) # SumOf(g, Of(s))
           Bad == {n \in Nat : \E s \in SUBSET K : Cardinality(s) = n /\ Wrong(s)}
<1>1. \A S \in SUBSET T : Summable(g, S) /\ SumOf(g, S) \in Int
  BY FS_Subset, SumStep DEF Summable
<1>2. \A s \in SUBSET K : Summable(f, s) /\ Cardinality(s) \in Nat
  <2>1. \A k \in K : f[k] \in Int
    <3> SUFFICES ASSUME NEW k \in K PROVE f[k] \in Int
      OBVIOUS
    <3>1. PICK S : S = {t \in T : key[t] = k}
      OBVIOUS
    <3>2. S \in SUBSET T /\ f[k] = SumOf(g, S)
      BY <3>1 DEF SumsKeys
    <3>3. QED
      BY <1>1, <3>2
  <2>2. QED
    BY <2>1, FS_Subset, FS_CardinalityType DEF Summable
<1>3. Bad = {}
  <2> SUFFICES ASSUME Bad # {} PROVE FALSE
    OBVIOUS
  <2>1. PICK n \in Bad : \A k \in Bad : n <= k
    <3>1. Bad \subseteq Nat
      OBVIOUS
    <3> HIDE DEF Bad
    <3>2. QED
      BY <3>1, LeastNumber
  <2>2. PICK s \in SUBSET K : Cardinality(s) = n /\ Wrong(s)
    BY <2>1
  <2>3. CASE s = {}
    <3>1. Of(s) = {}
      BY <2>3
    <3>2. SumOf(f, {}) = 0 /\ SumOf(g, {}) = 0
      BY <1>1, <1>2, SumStep
    <3>3. QED
      BY <2>2, <2>3, <3>1, <3>2
  <2>4. CASE s # {}
    <3>1. PICK x \in s : TRUE
      BY <2>4
    <3>2. PICK r : r = s \ {x}
      OBVIOUS
    <3>3. PICK S : S = {t \in T : key[t] = x}
      OBVIOUS
    <3>4. Of(s) = S \cup Of(r) /\ S \cap Of(r) = {} /\ S \in SUBSET T /\ Of(r) \in SUBSET T /\ r \in SUBSET K
      BY <3>1, <3>2, <3>3
    <3>5. f[x] = SumOf(g, S)
      BY <3>1, <3>3 DEF SumsKeys
    <3>6. SumOf(f, s) = f[x] + SumOf(f, r)
      BY <1>2, <3>1, <3>2, SumRemove
    <3>7. Cardinality(r) = n - 1 /\ Cardinality(r) \in Nat /\ n \in Nat
      <4>1. IsFiniteSet(s) /\ Cardinality(s \ {x}) = Cardinality(s) - 1
        BY <1>2, <3>1, FS_RemoveElement DEF Summable
      <4>2. QED
        BY <1>2, <2>2, <3>2, <3>4, <4>1
    <3>8. ~Wrong(r)
      <4> SUFFICES ASSUME Wrong(r) PROVE FALSE
        OBVIOUS
      <4>1. n - 1 \in Bad
        BY <3>4, <3>7
      <4> HIDE DEF Bad, Wrong
      <4>2. QED
        BY <2>1, <3>7, <4>1
    <3> HIDE DEF Of
    <3>9. Summable(g, S \cup Of(r))
      BY <1>1, <3>4
    <3>10. SumOf(g, Of(s)) = SumOf(g, S) + SumOf(g, Of(r))
      BY <3>4, <3>9, SumUnion
    <3>11. QED
      BY <2>2, <3>5, <3>6, <3>8, <3>10
  <2>5. QED
    BY <2>3, <2>4
<1>4. ~Wrong(K)
  BY <1>2, <1>3
<1>5. Of(K) = T
  BY DEF SumsKeys
<1>6. QED
  BY <1>2, <1>4, <1>5

\* The numbers of a part of b that starts at a multiple of b.
LEMMA PartByStart ==
  ASSUME NEW b \in Nat \ {0}, NEW s \in Nat, s % b = 0, NEW x \in Nat
  PROVE  x - (x % b) = s <=> s <= x /\ x < s + b
<1>1. /\ x % b \in 0 .. b - 1 /\ x \div b \in Nat /\ x = (b * (x \div b)) + (x % b)
      /\ s \div b \in Nat /\ s = (b * (s \div b)) + (s % b)
  BY DivMod
<1>2. PICK q \in Nat, r \in 0 .. b - 1, k \in Nat : q = x \div b /\ r = x % b /\ k = s \div b
  BY <1>1
<1>3. x = b * q + r /\ s = b * k /\ b * q \in Nat /\ b * k \in Nat
  <2>1. x = (b * q) + r /\ s = (b * k) + 0
    BY <1>1, <1>2
  <2>2. b * q \in Nat /\ b * k \in Nat
    OBVIOUS
  <2>3. QED
    BY <2>1, <2>2
<1>4. ~(b * q < b * k /\ b * k < b * q + b)
  <2> SUFFICES ASSUME b * q < b * k PROVE ~(b * k < b * q + b)
    OBVIOUS
  <2>1. b * q + b <= b * k
    BY MultiplesApart
  <2>2. QED
    BY <1>3, <2>1
<1>5. ~(b * k < b * q /\ b * q < b * k + b)
  <2> SUFFICES ASSUME b * k < b * q PROVE ~(b * q < b * k + b)
    OBVIOUS
  <2>1. b * k + b <= b * q
    BY MultiplesApart
  <2>2. QED
    BY <1>3, <2>1
<1>6. PICK y \in Nat, z \in Nat : y = b * q /\ z = b * k
  BY <1>3
<1>7. y = z <=> z <= y + r /\ y + r < z + b
  BY <1>4, <1>5, <1>6
<1>8. QED
  BY <1>2, <1>3, <1>6, <1>7

\* The numbers of a part of b that has a given quotient.
LEMMA PartByQuotient ==
  ASSUME NEW b \in Nat \ {0}, NEW q \in Nat, NEW x \in Nat
  PROVE  b * q \in Nat /\ (x \div b = q <=> b * q <= x /\ x < b * q + b)
<1>1. x % b \in 0 .. b - 1 /\ x \div b \in Nat /\ x = (b * (x \div b)) + (x % b)
  BY DivMod
<1>2. b * q \in Nat /\ b * q + 0 \in Nat
  OBVIOUS
<1>3. ASSUME x \div b = q PROVE b * q <= x /\ x < b * q + b
  BY <1>1, <1>2, <1>3
<1>4. ASSUME b * q <= x, x < b * q + b PROVE x \div b = q
  <2>1. PICK r : r = x - b * q
    OBVIOUS
  <2>2. r \in 0 .. b - 1 /\ x = b * q + r
    BY <1>2, <1>4, <2>1
  <2>3. (b * q + r) \div b = q
    BY <2>2, QuotientAndRest
  <2>4. QED
    BY <2>2, <2>3
<1>5. QED
  BY <1>2, <1>3, <1>4

\* The b numbers below n from s on.
From(n, s, b) == {x \in 0 .. n - 1 : s <= x /\ x < s + b}

\* The value v is the sum of f over the b numbers from s on, which g counts from zero.
SumsPart(f, s, b, v) == \E g : (\A k \in 0 .. b - 1 : g[k] = f[s + k]) /\ v = SumOf(g, 0 .. b - 1)

\* A sum over a part of the numbers, counted from its start.
LEMMA SumFrom ==
  ASSUME NEW n \in Nat, NEW s \in Nat, NEW b \in Nat, s + b <= n,
         NEW f, Summable(f, 0 .. n - 1), NEW g, \A k \in 0 .. b - 1 : g[k] = f[s + k]
  PROVE  Summable(g, 0 .. b - 1) /\ SumOf(g, 0 .. b - 1) = SumOf(f, From(n, s, b))
<1>0. PICK T : T = From(n, s, b) /\ T = {x \in 0 .. n - 1 : s <= x /\ x < s + b}
  BY DEF From
<1>1. \A k \in 0 .. b - 1 : s + k \in 0 .. n - 1 /\ s + k \in T
  BY <1>0
<1>2. Summable(g, 0 .. b - 1)
  <2>1. \A k \in 0 .. b - 1 : g[k] \in Int
    BY <1>1 DEF Summable
  <2>2. QED
    BY <2>1, FS_Interval DEF Summable
<1>3. Summable(f, T)
  <2>1. T \subseteq 0 .. n - 1
    BY <1>0
  <2>2. IsFiniteSet(T)
    BY <2>1, FS_Subset DEF Summable
  <2>3. QED
    BY <2>1, <2>2 DEF Summable
<1>4. PICK m : m = [k \in 0 .. b - 1 |-> s + k]
  OBVIOUS
<1>5. Matches(m, g, 0 .. b - 1, f, T)
  <2>1. \A k \in 0 .. b - 1 : m[k] = s + k /\ m[k] \in T /\ g[k] = f[m[k]]
    BY <1>1, <1>4
  <2>2. \A x, y \in 0 .. b - 1 : m[x] = m[y] => x = y
    BY <2>1
  <2>3. ASSUME NEW z \in T PROVE \E k \in 0 .. b - 1 : m[k] = z
    <3>1. z - s \in 0 .. b - 1 /\ s + (z - s) = z
      BY <1>0
    <3>2. QED
      BY <2>1, <3>1
  <2>4. QED
    BY <2>1, <2>2, <2>3 DEF Matches
<1>6. QED
  BY <1>0, <1>2, <1>3, <1>5, SumMatched

\* A sum over all numbers, part by part: f over those of the quotient q.
LEMMA SumByQuotient ==
  ASSUME NEW b \in Nat \ {0}, NEW c \in Nat, NEW f, Summable(f, 0 .. b * c - 1),
         NEW h, \A q \in 0 .. c - 1 : SumsPart(f, b * q, b, h[q])
  PROVE  Summable(h, 0 .. c - 1) /\ SumOf(h, 0 .. c - 1) = SumOf(f, 0 .. b * c - 1)
<1>1. PICK n \in Nat : n = b * c
  <2>1. b * c \in Nat
    OBVIOUS
  <2>2. QED
    BY <2>1
<1>2. PICK key : key = [x \in 0 .. n - 1 |-> x \div b]
  OBVIOUS
<1>3. ASSUME NEW x \in 0 .. n - 1 PROVE key[x] \in 0 .. c - 1
  <2>1. x \in Nat /\ x < n
    OBVIOUS
  <2>2. PICK q \in Nat : q = x \div b
    BY <2>1, DivMod
  <2>3. b * q \in Nat /\ b * q <= x
    BY <2>1, <2>2, PartByQuotient
  <2>4. q < c
    <3>1. CASE c <= q
      <4>1. b * c <= b * q
        BY <3>1
      <4>2. QED
        BY <1>1, <2>1, <2>3, <4>1
    <3>2. QED
      BY <3>1
  <2>5. key[x] = q
    BY <1>2, <2>2
  <2>6. QED
    BY <2>4, <2>5
<1>4. ASSUME NEW q \in 0 .. c - 1 PROVE h[q] = SumOf(f, {x \in 0 .. n - 1 : key[x] = q})
  <2>1. PICK g : (\A k \in 0 .. b - 1 : g[k] = f[b * q + k]) /\ h[q] = SumOf(g, 0 .. b - 1)
    BY DEF SumsPart
  <2>2. q \in Nat /\ q < c
    OBVIOUS
  <2>3. PICK s \in Nat : s = b * q
    BY <2>2, PartByQuotient
  <2>4. s + b <= n
    <3>1. q + 1 <= c
      BY <2>2
    <3>2. b * (q + 1) <= b * c
      BY <2>2, <3>1
    <3>3. b * (q + 1) = b * q + b
      BY <2>2
    <3>4. QED
      BY <1>1, <2>3, <3>2, <3>3
  <2>5. From(n, s, b) = {x \in 0 .. n - 1 : s <= x /\ x < s + b}
    BY DEF From
  <2>6. SumOf(g, 0 .. b - 1) = SumOf(f, From(n, s, b))
    <3>1. \A k \in 0 .. b - 1 : g[k] = f[s + k]
      BY <2>1, <2>3
    <3>2. b \in Nat /\ Summable(f, 0 .. n - 1)
      BY <1>1
    <3>3. QED
      BY <2>4, <3>1, <3>2, SumFrom
  <2>7. \A x \in 0 .. n - 1 : key[x] = q <=> s <= x /\ x < s + b
    <3> SUFFICES ASSUME NEW x \in 0 .. n - 1 PROVE key[x] = q <=> s <= x /\ x < s + b
      OBVIOUS
    <3>1. key[x] = x \div b /\ x \in Nat
      BY <1>2
    <3>2. x \div b = q <=> b * q <= x /\ x < b * q + b
      BY <2>2, <3>1, PartByQuotient
    <3>3. QED
      BY <2>3, <3>1, <3>2
  <2>8. QED
    BY <2>1, <2>5, <2>6, <2>7
<1>5. SumsKeys(h, 0 .. c - 1, f, 0 .. n - 1, key)
  BY <1>3, <1>4 DEF SumsKeys
<1>6. IsFiniteSet(0 .. c - 1) /\ Summable(f, 0 .. n - 1)
  BY <1>1, FS_Interval
<1>7. QED
  BY <1>1, <1>5, <1>6, SumByKey

-----------------------------------------------------------------------------
(* Lists of coordinates as they come.                                      *)

\* The value of the entries that fit.
LastValue(coo, at) == IF at = {} THEN 0 ELSE coo[Max(at)].value

\* It is an integer.
LEMMA LastValueIsInt ==
  ASSUME NEW E, NEW coo \in Seq(E), \A e \in E : e.value \in Int, NEW at \in SUBSET (DOMAIN coo)
  PROVE  LastValue(coo, at) \in Int
<1>1. Len(coo) \in Nat /\ DOMAIN coo = 1 .. Len(coo) /\ \A i \in DOMAIN coo : coo[i] \in E
  OBVIOUS
<1>2. CASE at # {}
  <2>1. Max(at) \in at
    BY <1>1, <1>2, GreatestNumber
  <2>2. QED
    BY <1>1, <2>1 DEF LastValue
<1>3. QED
  BY <1>2 DEF LastValue

\* The entries of a coordinate list of a matrix.
CooEntries(rows, cols) == [row : 0 .. rows - 1, col : 0 .. cols - 1, value : Int]

\* A coordinate list in range is a dense matrix.
LEMMA DenseFromCooIsDense ==
  ASSUME NEW rows \in Nat, NEW cols \in Nat, NEW coo \in Seq(CooEntries(rows, cols)),
         NEW d, d = DenseFromCoo(coo, rows, cols)
  PROVE  /\ IsDense(d) /\ d.row_count = rows /\ d.col_count = cols
         /\ \A cell \in Cells(d) : d.values[cell] = LastValue(coo, {i \in DOMAIN coo : <<coo[i].row, coo[i].col>> = cell})
<1> DEFINE at(cell) == {i \in DOMAIN coo : <<coo[i].row, coo[i].col>> = cell}
           f == [cell \in (0 .. rows - 1) \X (0 .. cols - 1) |-> LastValue(coo, at(cell))]
<1>1. d = [row_count |-> rows, col_count |-> cols, values |-> f]
  BY DEF DenseFromCoo, LastValue
<1>2. ASSUME NEW cell PROVE LastValue(coo, at(cell)) \in Int
  <2>1. at(cell) \in SUBSET (DOMAIN coo) /\ \A e \in CooEntries(rows, cols) : e.value \in Int
    BY DEF CooEntries
  <2>2. QED
    BY <2>1, LastValueIsInt
<1> HIDE DEF at
<1>3. f \in [(0 .. rows - 1) \X (0 .. cols - 1) -> Int]
  BY <1>2
<1>4. \A cell \in (0 .. rows - 1) \X (0 .. cols - 1) : f[cell] = LastValue(coo, at(cell))
  OBVIOUS
<1> HIDE DEF f
<1>5. d.row_count = rows /\ d.col_count = cols /\ d.values = f
  BY <1>1
<1>6. Cells(d) = (0 .. rows - 1) \X (0 .. cols - 1)
  BY <1>5 DEF Cells, Rows, Cols
<1>7. IsDense(d)
  BY <1>1, <1>3, <1>5, <1>6 DEF IsDense
<1>8. QED
  BY <1>4, <1>5, <1>6, <1>7 DEF at

\* Cells in the order of the rows, and of the columns.
RowSequence(S) == Scan(S, RowsFirst)
ColSequence(S) == Scan(S, ColsFirst)

\* The matrix with a one at each cell of S.
OnesAt(S, rows, cols) ==
  [row_count |-> rows, col_count |-> cols,
   values |-> [cell \in (0 .. rows - 1) \X (0 .. cols - 1) |-> IF cell \in S THEN 1 ELSE 0]]

\* Its cells with a value are the cells of S.
LEMMA OnesAtIs ==
  ASSUME NEW rows \in Nat, NEW cols \in Nat, NEW S, S \subseteq (0 .. rows - 1) \X (0 .. cols - 1),
         NEW d, d = OnesAt(S, rows, cols)
  PROVE  /\ IsDense(d) /\ d.row_count = rows /\ d.col_count = cols /\ NonZero(d) = S
         /\ RowScan(d) = RowSequence(S) /\ ColScan(d) = ColSequence(S)
<1>1. /\ d.row_count = rows /\ d.col_count = cols
      /\ d.values = [cell \in (0 .. rows - 1) \X (0 .. cols - 1) |-> IF cell \in S THEN 1 ELSE 0]
      /\ d = [row_count |-> d.row_count, col_count |-> d.col_count, values |-> d.values]
  BY DEF OnesAt
<1>2. Cells(d) = (0 .. rows - 1) \X (0 .. cols - 1)
  BY <1>1 DEF Cells, Rows, Cols
<1>3. d.values \in [Cells(d) -> Int]
  BY <1>1, <1>2
<1>4. IsDense(d)
  BY <1>1, <1>3 DEF IsDense
<1>5. \A cell \in Cells(d) : d.values[cell] # 0 <=> cell \in S
  BY <1>1, <1>2
<1>6. NonZero(d) = S
  BY <1>2, <1>5 DEF NonZero
<1>7. RowScan(d) = RowSequence(NonZero(d)) /\ ColScan(d) = ColSequence(NonZero(d))
  BY DEF RowScan, ColScan, RowSequence, ColSequence
<1>8. QED
  BY <1>1, <1>4, <1>6, <1>7

\* A list of n entries by rows, the cells s of which, once each, are those that p stores of d.
ListOf(coo, p, d, n, s) ==
  /\ Stores(p, d) /\ Enumerates(NonZero(p), n, s) /\ RowsAscend(coo, n)
  /\ \A i \in 1 .. n : coo[i].row = s[i][1] /\ coo[i].col = s[i][2] /\ coo[i].value = d.values[s[i]]

\* A list of a matrix that comes by rows and names no cell twice.
LEMMA ListByRows ==
  ASSUME NEW rows \in Nat, NEW cols \in Nat, NEW coo \in Seq(CooEntries(rows, cols)),
         \A i, j \in DOMAIN coo : i < j => coo[i].row < coo[j].row \/ (coo[i].row = coo[j].row /\ coo[i].col # coo[j].col),
         NEW d, d = DenseFromCoo(coo, rows, cols)
  PROVE  \E p, n, s : ListOf(coo, p, d, n, s)
<1>1. PICK n : n = Len(coo)
  OBVIOUS
<1>2. n \in Nat /\ DOMAIN coo = 1 .. n /\ \A i \in 1 .. n : coo[i] \in CooEntries(rows, cols)
  BY <1>1
<1>3. \A i \in 1 .. n : coo[i].row \in 0 .. rows - 1 /\ coo[i].col \in 0 .. cols - 1 /\ coo[i].value \in Int
  BY <1>2 DEF CooEntries
<1>4. PICK s : s = [i \in 1 .. n |-> <<coo[i].row, coo[i].col>>]
  OBVIOUS
<1>5. \A i \in 1 .. n : s[i] = <<coo[i].row, coo[i].col>> /\ s[i][1] = coo[i].row /\ s[i][2] = coo[i].col
  BY <1>4
<1>6. PICK S : S = {s[i] : i \in 1 .. n}
  OBVIOUS
<1>7. S \subseteq (0 .. rows - 1) \X (0 .. cols - 1)
  <2>1. ASSUME NEW i \in 1 .. n PROVE s[i] \in (0 .. rows - 1) \X (0 .. cols - 1)
    <3>1. coo[i].row \in 0 .. rows - 1 /\ coo[i].col \in 0 .. cols - 1
      BY <1>3
    <3>2. s[i] = <<coo[i].row, coo[i].col>>
      BY <1>5
    <3>3. QED
      BY <3>1, <3>2
  <2>2. QED
    BY <1>6, <2>1
<1>8. PICK p : p = OnesAt(S, rows, cols)
  OBVIOUS
<1>9. IsDense(p) /\ p.row_count = rows /\ p.col_count = cols /\ NonZero(p) = S
  BY <1>7, <1>8, OnesAtIs
<1>10. ASSUME NEW i \in 1 .. n, NEW j \in 1 .. n, s[i] = s[j] PROVE i = j
  <2>1. coo[i].row = coo[j].row /\ coo[i].col = coo[j].col
    BY <1>5, <1>10
  <2>2. coo[i].row \in Int
    BY <1>3
  <2>3. ~(i < j) /\ ~(j < i)
    BY <1>2, <2>1, <2>2
  <2>4. QED
    BY <1>2, <2>3
<1>11. Enumerates(NonZero(p), n, s)
  <2>1. s \in [1 .. n -> S]
    BY <1>4, <1>6
  <2>2. \A x \in S : \E i \in 1 .. n : s[i] = x
    BY <1>6
  <2>3. QED
    BY <1>2, <1>9, <1>10, <2>1, <2>2 DEF Enumerates
<1>12. /\ IsDense(d) /\ d.row_count = rows /\ d.col_count = cols
       /\ \A cell \in Cells(d) : d.values[cell] = LastValue(coo, {i \in DOMAIN coo : <<coo[i].row, coo[i].col>> = cell})
  BY DenseFromCooIsDense, SMTT(30)
<1>13. Cells(d) = (0 .. rows - 1) \X (0 .. cols - 1)
  BY <1>12 DEF Cells, Rows, Cols
<1>14. ASSUME NEW i \in 1 .. n PROVE coo[i].value = d.values[s[i]]
  <2>1. {j \in DOMAIN coo : <<coo[j].row, coo[j].col>> = s[i]} = {i}
    <3>1. \A j \in DOMAIN coo : <<coo[j].row, coo[j].col>> = s[j]
      BY <1>2, <1>5
    <3>2. \A j \in DOMAIN coo : s[j] = s[i] <=> j = i
      BY <1>2, <1>10
    <3>3. i \in DOMAIN coo
      BY <1>2
    <3>4. \A j \in DOMAIN coo : <<coo[j].row, coo[j].col>> = s[i] <=> j = i
      BY <3>1, <3>2, Zenon
    <3>5. QED
      BY <3>3, <3>4, Zenon
  <2>2. s[i] \in Cells(d)
    BY <1>6, <1>7, <1>13
  <2>3. d.values[s[i]] = LastValue(coo, {i})
    BY <1>12, <2>1, <2>2
  <2>4. Max({i}) = i
    BY <1>2, MaxOfOne
  <2>5. QED
    BY <2>3, <2>4 DEF LastValue
<1>15. ASSUME NEW x \in NonZero(d) PROVE x \in S
  <2>1. x \in Cells(d) /\ d.values[x] # 0
    BY DEF NonZero
  <2>2. {i \in DOMAIN coo : <<coo[i].row, coo[i].col>> = x} # {}
    BY <1>12, <2>1 DEF LastValue
  <2>3. PICK i \in DOMAIN coo : <<coo[i].row, coo[i].col>> = x
    BY <2>2
  <2>4. i \in 1 .. n /\ s[i] = x
    BY <1>2, <1>5, <2>3, Zenon
  <2>5. QED
    BY <1>6, <2>4, Zenon
<1>16. Stores(p, d)
  BY <1>9, <1>12, <1>15 DEF Stores
<1>17. RowsAscend(coo, n)
  <2>1. \A i \in 1 .. n : coo[i].row \in Int
    BY <1>3
  <2>2. ASSUME NEW i \in 1 .. n, NEW j \in 1 .. n, i <= j PROVE coo[i].row <= coo[j].row
    <3>1. i = j \/ i < j
      BY <1>2, <2>2
    <3>2. coo[i].row = coo[j].row \/ coo[i].row < coo[j].row
      BY <1>2, <3>1
    <3>3. QED
      BY <2>1, <3>2
  <2>3. QED
    BY <1>1, <1>2, <2>1, <2>2 DEF RowsAscend
<1>18. ListOf(coo, p, d, n, s)
  BY <1>5, <1>11, <1>14, <1>16, <1>17 DEF ListOf
<1>19. QED
  BY <1>18

\* A part of 1 .. n that has with a number all before it.
LEMMA Beginning ==
  ASSUME NEW n \in Nat, NEW S \in SUBSET (1 .. n), \A j \in S : \A i \in 1 .. n : i <= j => i \in S
  PROVE  Cardinality(S) \in 0 .. n /\ S = 1 .. Cardinality(S)
<1>1. CASE S = {}
  <2>1. Cardinality(S) = 0
    BY <1>1, FS_EmptySet
  <2>2. QED
    BY <1>1, <2>1
<1>2. CASE S # {}
  <2>1. PICK m : m = Max(S)
    OBVIOUS
  <2>2. m \in S /\ \A y \in S : m >= y
    BY <1>2, <2>1, GreatestNumber
  <2>3. m \in 1 .. n /\ S = 1 .. m
    <3>1. m \in 1 .. n /\ \A y \in S : y \in 1 .. m
      BY <2>2
    <3>2. \A y \in 1 .. m : y \in 1 .. n /\ y <= m
      BY <3>1
    <3>3. \A y \in 1 .. m : y \in S
      BY <2>2, <3>2
    <3>4. QED
      BY <3>1, <3>3
  <2>4. Cardinality(1 .. m) = m
    BY <2>3, FS_Interval
  <2>5. QED
    BY <2>3, <2>4
<1>3. QED
  BY <1>1, <1>2

\* csr_from_coo makes the rows of such a list its segments: the rows begin where its pointers say.
LEMMA CsrOfList ==
  ASSUME NEW coo, NEW p, NEW d, NEW n, NEW s, ListOf(coo, p, d, n, s), NEW m, m = CsrFromCoo(coo, d.row_count)
  PROVE  \E at : CsrHolds(m, p, d, at)
<1>1. /\ Stores(p, d) /\ Enumerates(NonZero(p), n, s) /\ RowsAscend(coo, n)
      /\ \A i \in 1 .. n : coo[i].row = s[i][1] /\ coo[i].col = s[i][2] /\ coo[i].value = d.values[s[i]]
  BY DEF ListOf
<1>2. /\ n \in Nat /\ DOMAIN coo = 1 .. n /\ Len(coo) = n /\ n + 1 - 1 = n
      /\ \A i \in 1 .. n : coo[i].row \in Int
      /\ \A i, j \in 1 .. n : i <= j => coo[i].row <= coo[j].row
  BY <1>1 DEF RowsAscend
<1>3. m = [row_count |-> d.row_count, row_pointers |-> [r \in 0 .. d.row_count |-> ListRowsBefore(coo, r)],
           entries |-> [i \in DOMAIN coo |-> [index |-> coo[i].col, value |-> coo[i].value]]]
  BY CsrShape
<1>4. /\ m.row_count = d.row_count /\ m.entries = [i \in 1 .. n |-> [index |-> coo[i].col, value |-> coo[i].value]]
      /\ \A r \in 0 .. d.row_count : m.row_pointers[r] = ListRowsBefore(coo, r)
  BY <1>2, <1>3
<1>5. \A i \in 1 .. n : m.entries[i].index = s[i][2] /\ m.entries[i].value = d.values[s[i]]
  BY <1>1, <1>4
<1>6. ASSUME NEW r \in Int
      PROVE  ListRowsBefore(coo, r) \in 0 .. n /\ \A i \in 1 .. n : s[i][1] < r <=> i <= ListRowsBefore(coo, r)
  <2>1. PICK S : S = {j \in 1 .. n : coo[j].row < r}
    OBVIOUS
  <2>2. S \in SUBSET (1 .. n) /\ \A j \in S : \A i \in 1 .. n : i <= j => i \in S
    BY <1>2, <2>1
  <2>3. Cardinality(S) \in 0 .. n /\ S = 1 .. Cardinality(S)
    BY <1>2, <2>2, Beginning
  <2>4. ListRowsBefore(coo, r) = Cardinality(S)
    BY <1>2, <2>1 DEF ListRowsBefore, Before
  <2>5. \A i \in 1 .. n : s[i][1] < r <=> i \in S
    BY <1>1, <2>1
  <2>6. PICK k \in 0 .. n : k = Cardinality(S)
    BY <2>3
  <2>7. \A i \in 1 .. n : i \in S <=> i <= k
    BY <1>2, <2>3, <2>6
  <2>8. QED
    BY <2>4, <2>5, <2>6, <2>7
<1>7. ASSUME NEW r \in Rows(d) PROVE RowSegment(m, r) = {i \in 1 .. n : s[i][1] = r}
  <2>1. d.row_count \in Nat /\ r \in 0 .. d.row_count /\ r + 1 \in 0 .. d.row_count /\ r \in Int /\ r + 1 \in Int
    BY <1>1, StoresFacts DEF IsDense, Rows
  <2>2. PICK from, to : from = ListRowsBefore(coo, r) /\ to = ListRowsBefore(coo, r + 1)
    OBVIOUS
  <2>3. m.row_pointers[r] = from /\ m.row_pointers[r + 1] = to
    BY <1>4, <2>1, <2>2
  <2>4. from \in 0 .. n /\ \A i \in 1 .. n : s[i][1] < r <=> i <= from
    BY <1>6, <2>1, <2>2
  <2>5. to \in 0 .. n /\ \A i \in 1 .. n : s[i][1] < r + 1 <=> i <= to
    BY <1>6, <2>1, <2>2
  <2>6. \A i \in 1 .. n : s[i][1] \in Int
    BY <1>1, <1>2
  <2>7. \A i \in 1 .. n : s[i][1] = r <=> ~(i <= from) /\ i <= to
    BY <2>1, <2>4, <2>5, <2>6
  <2>8. from + 1 .. to = {i \in 1 .. n : ~(i <= from) /\ i <= to}
    BY <1>2, <2>4, <2>5, Between
  <2>9. RowSegment(m, r) = from + 1 .. to
    BY <2>3 DEF RowSegment
  <2>10. QED
    BY <2>7, <2>8, <2>9
<1>8. m.row_count = d.row_count
  BY <1>4
<1>9. QED
  BY <1>1, <1>5, <1>7, <1>8, CsrPlaced

\* coo_from_coo takes such a list as it is.
LEMMA CooOfList ==
  ASSUME NEW coo, NEW p, NEW d, NEW n, NEW s, ListOf(coo, p, d, n, s)
  PROVE  \E at, first : CooHolds(coo, p, d, at, first)
<1>1. /\ Stores(p, d) /\ Enumerates(NonZero(p), n, s) /\ RowsAscend(coo, n)
      /\ \A i \in 1 .. n : coo[i].row = s[i][1] /\ coo[i].col = s[i][2] /\ coo[i].value = d.values[s[i]]
  BY DEF ListOf
<1>2. QED
  BY <1>1, CooPlaced

\* Visits that make every pair of entries meet that belongs together add integers, and together the product.
LEMMA MeetingsAdd ==
  ASSUME NEW P, NEW L, NEW Q, NEW R, StoredOperands(P, L, Q, R), NEW l, NEW r, NEW T, T = Triples(l, P, r, Q),
         NEW V, NEW p, NEW q, Visited(V, T, p, q, L, R)
  PROVE  /\ IsFiniteSet(V) /\ \A v \in V : v.product \in Int
         /\ \A cell \in Rows(L) \X Cols(R) : AddedAt(V, cell) = Product(L, R)[cell]
<1>1. IsFiniteSet(T)
  BY StoredTriples
<1>2. IsFiniteSet(V)
  BY <1>1, VisitsFinite
<1>3. ASSUME NEW v \in V PROVE v.product \in Int
  <2>1. PICK t \in T : v = VisitOf(t, p, q, L, R)
    BY DEF Visited
  <2>2. t[1] \in Rows(L) /\ t[2] \in Cols(L) /\ t[3] \in Cols(R)
    BY StoredTriples
  <2>3. L.values[<<t[1], t[2]>>] \in Int /\ R.values[<<t[2], t[3]>>] \in Int
    BY <2>2, StoredTriples
  <2>4. PICK a \in Int, b \in Int : a = L.values[<<t[1], t[2]>>] /\ b = R.values[<<t[2], t[3]>>]
    BY <2>3
  <2>5. v.product = a * b
    BY <2>1, <2>4 DEF VisitOf, Visit
  <2>6. QED
    BY <2>5
<1>4. ASSUME NEW cell \in Rows(L) \X Cols(R) PROVE AddedAt(V, cell) = Product(L, R)[cell]
  BY VisitsSum
<1>5. QED
  BY <1>2, <1>3, <1>4

\* csr_x_csr of two lists by rows, ...
LEMMA ListsCsrCsr ==
  ASSUME NEW P, NEW L, NEW n, NEW c, NEW left, ListOf(left, P, L, n, c),
         NEW Q, NEW R, NEW k, NEW e, NEW right, ListOf(right, Q, R, k, e), Operands(L, R),
         NEW V, V = csr_x_csr(CsrFromCoo(left, L.row_count), CsrFromCoo(right, R.row_count))
  PROVE  /\ IsFiniteSet(V) /\ \A v \in V : v.product \in Int
         /\ \A cell \in Rows(L) \X Cols(R) : AddedAt(V, cell) = Product(L, R)[cell]
<1>1. PICK m, o : m = CsrFromCoo(left, L.row_count) /\ o = CsrFromCoo(right, R.row_count)
  OBVIOUS
<1>2. PICK a : CsrHolds(m, P, L, a)
  BY <1>1, CsrOfList
<1>3. PICK b : CsrHolds(o, Q, R, b)
  BY <1>1, CsrOfList
<1>4. StoredOperands(P, L, Q, R)
  BY DEF ListOf, StoredOperands
<1>5. PICK T : T = Triples("MAT_CSR", P, "MAT_CSR", Q)
  OBVIOUS
<1>6. PICK p, q : Visited(csr_x_csr(m, o), T, p, q, L, R)
  BY <1>2, <1>3, <1>4, <1>5, HeldCsrCsr
<1>7. Visited(V, T, p, q, L, R)
  BY <1>1, <1>6
<1>8. QED
  BY <1>4, <1>5, <1>7, MeetingsAdd

\* ... and coo_x_coo, where the columns of the left one ascend in a row, make the product.
LEMMA ListsCooCoo ==
  ASSUME NEW P, NEW L, NEW n, NEW c, NEW left, ListOf(left, P, L, n, c),
         NEW Q, NEW R, NEW k, NEW e, NEW right, ListOf(right, Q, R, k, e), Operands(L, R),
         \A i, j \in DOMAIN left : i < j /\ left[i].row = left[j].row => left[i].col < left[j].col,
         NEW V, V = coo_x_coo(left, right)
  PROVE  /\ IsFiniteSet(V) /\ \A v \in V : v.product \in Int
         /\ \A cell \in Rows(L) \X Cols(R) : AddedAt(V, cell) = Product(L, R)[cell]
<1>1. PICK a, f : CooHolds(left, P, L, a, f)
  BY CooOfList
<1>2. PICK b, g : CooHolds(right, Q, R, b, g)
  BY CooOfList
<1>3. StoredOperands(P, L, Q, R)
  BY DEF ListOf, StoredOperands
<1>4. /\ RowsAscend(left, n) /\ RowsAscend(right, k) /\ DOMAIN left = 1 .. n
      /\ \A i \in 1 .. n : left[i].col = c[i][2] /\ c[i] \in NonZero(P)
  BY DEF ListOf, RowsAscend, Enumerates
<1>5. \A x \in NonZero(P) : x[2] \in Int
  BY <1>3, StoresFacts, CellFacts DEF StoredOperands, Operands, IsDense, Cols
<1>6. \A i \in 1 .. n : left[i].col \in Int
  BY <1>4, <1>5
<1>7. \A i, j \in 1 .. n : i < j /\ left[i].row = left[j].row => left[i].col < left[j].col
  BY <1>4
<1>8. ASSUME NEW h \in SegmentStarts(left)
      PROVE  /\ Climbs(CooCol(left), h, SegmentEnd(left, h)) /\ Segment(left, h) = Span(h, SegmentEnd(left, h))
             /\ \A i \in Segment(left, h) : CooCol(left)[i] = left[i].col
  BY <1>4, <1>6, <1>7, ListClimbs
<1>9. /\ InRuns(CooRow(right), 1, ListEnd(right), SegmentEnds(right)) /\ DOMAIN right = Span(1, ListEnd(right))
      /\ \A j \in DOMAIN right : CooRow(right)[j] = right[j].row
  BY <1>4, ListRuns
<1>10. PICK T : T = Triples("MAT_COO", P, "MAT_COO", Q)
  OBVIOUS
<1>11. PICK p, q : Visited(coo_x_coo(left, right), T, p, q, L, R)
  BY <1>1, <1>2, <1>3, <1>8, <1>9, <1>10, HeldCooCoo
<1>12. Visited(V, T, p, q, L, R)
  BY <1>11
<1>13. QED
  BY <1>3, <1>10, <1>12, MeetingsAdd

-----------------------------------------------------------------------------
(* Parts of a matrix.                                                      *)

\* The part of a matrix that begins at a cell.
PartAt(d, r, c, br, bc) ==
  [row_count |-> br, col_count |-> bc,
   values |-> [cell \in (0 .. br - 1) \X (0 .. bc - 1) |-> d.values[<<r + cell[1], c + cell[2]>>]]]

\* A block of the list is the part of the dense matrix that begins at its first cell.
LEMMA PackedPart ==
  ASSUME NEW rows \in Nat, NEW cols \in Nat, NEW coo \in Seq(CooEntries(rows, cols)),
         NEW d, d = DenseFromCoo(coo, rows, cols),
         NEW r \in Nat, NEW c \in Nat, NEW br \in Nat, NEW bc \in Nat, r + br <= rows, c + bc <= cols,
         NEW p, p = PackMatrixBlock(coo, r, c, br, bc)
  PROVE  IsDense(p) /\ p = PartAt(d, r, c, br, bc)
<1>1. /\ IsDense(d) /\ d.row_count = rows /\ d.col_count = cols
      /\ \A x \in Cells(d) : d.values[x] = LastValue(coo, {i \in DOMAIN coo : <<coo[i].row, coo[i].col>> = x})
  BY DenseFromCooIsDense
<1> DEFINE block == (0 .. br - 1) \X (0 .. bc - 1)
           at(cell) == {i \in DOMAIN coo : <<coo[i].row, coo[i].col>> = cell}
           in(cell) == {i \in DOMAIN coo : <<coo[i].row - r, coo[i].col - c>> = cell}
           f == [cell \in block |-> LastValue(coo, in(cell))]
           g == [cell \in block |-> d.values[<<r + cell[1], c + cell[2]>>]]
<1>2. p = [row_count |-> br, col_count |-> bc, values |-> f]
  BY DEF PackMatrixBlock, LastValue
<1>3. ASSUME NEW cell \in block
      PROVE  d.values[<<r + cell[1], c + cell[2]>>] = LastValue(coo, in(cell)) /\ LastValue(coo, in(cell)) \in Int
  <2>1. PICK i, j : i = cell[1] /\ j = cell[2]
    OBVIOUS
  <2>2. cell = <<i, j>> /\ i \in 0 .. br - 1 /\ j \in 0 .. bc - 1
    BY <2>1
  <2>3. r + i \in 0 .. rows - 1 /\ c + j \in 0 .. cols - 1
    BY <2>2
  <2>4. /\ IsDense(d) /\ d.row_count = rows /\ d.col_count = cols
        /\ \A x \in Cells(d) : d.values[x] = LastValue(coo, at(x))
    BY <1>1
  <2>5. <<r + i, c + j>> \in Cells(d)
    BY <2>3, <2>4 DEF Cells, Rows, Cols
  <2>6. \A k \in DOMAIN coo : coo[k].row \in Int /\ coo[k].col \in Int
    <3>1. \A k \in DOMAIN coo : coo[k] \in CooEntries(rows, cols)
      OBVIOUS
    <3>2. \A e \in CooEntries(rows, cols) : e.row \in Int /\ e.col \in Int
      BY DEF CooEntries
    <3>3. QED
      BY <3>1, <3>2
  <2>7. ASSUME NEW k \in DOMAIN coo
        PROVE  <<coo[k].row, coo[k].col>> = <<r + i, c + j>> <=> <<coo[k].row - r, coo[k].col - c>> = <<i, j>>
    <3>1. PICK x, y : x = coo[k].row /\ y = coo[k].col
      OBVIOUS
    <3>2. x \in Int /\ y \in Int /\ i \in Int /\ j \in Int
      BY <2>2, <2>6, <3>1
    <3>3. (x = r + i /\ y = c + j) <=> (x - r = i /\ y - c = j)
      BY <3>2
    <3>4. QED
      BY <3>1, <3>3
  <2>8. at(<<r + i, c + j>>) = in(<<i, j>>)
    BY <2>7
  <2>9. d.values[<<r + i, c + j>>] = LastValue(coo, at(<<r + i, c + j>>)) /\ d.values[<<r + i, c + j>>] \in Int
    BY <2>4, <2>5 DEF IsDense
  <2> HIDE DEF at, in
  <2>10. QED
    BY <2>1, <2>2, <2>8, <2>9
<1>4. f = g /\ f \in [block -> Int]
  <2> HIDE DEF in
  <2>1. QED
    BY <1>3
<1> HIDE DEF f, g
<1>5. p.row_count = br /\ p.col_count = bc /\ p.values = f
  BY <1>2
<1>6. Cells(p) = block
  BY <1>5 DEF Cells, Rows, Cols
<1>7. IsDense(p)
  BY <1>2, <1>4, <1>5, <1>6 DEF IsDense
<1>8. QED
  BY <1>2, <1>4, <1>7 DEF g, PartAt

\* An element of the product of two parts, inner part s: its products are those of the whole matrices.
LEMMA PartsProduct ==
  ASSUME NEW L, NEW R, NEW r, NEW c, NEW b \in Nat, NEW rows \in Nat, NEW cols \in Nat, NEW s \in Nat,
         NEW x \in 0 .. rows - 1, NEW y \in 0 .. cols - 1, NEW row, row = r + x, NEW col, col = c + y,
         NEW f, \A k \in 0 .. b - 1 : f[s + k] = L.values[<<row, s + k>>] * R.values[<<s + k, col>>]
  PROVE  SumsPart(f, s, b, Product(PartAt(L, r, s, rows, b), PartAt(R, s, c, b, cols))[<<x, y>>])
<1>1. PICK P, Q : P = PartAt(L, r, s, rows, b) /\ Q = PartAt(R, s, c, b, cols)
  OBVIOUS
<1>2. /\ P.row_count = rows /\ P.col_count = b /\ Q.row_count = b /\ Q.col_count = cols
      /\ P.values = [cell \in (0 .. rows - 1) \X (0 .. b - 1) |-> L.values[<<r + cell[1], s + cell[2]>>]]
      /\ Q.values = [cell \in (0 .. b - 1) \X (0 .. cols - 1) |-> R.values[<<s + cell[1], c + cell[2]>>]]
  BY <1>1 DEF PartAt
<1>3. PICK g : g = [k \in 0 .. b - 1 |-> f[s + k]]
  OBVIOUS
<1>4. ASSUME NEW k \in 0 .. b - 1
      PROVE  g[k] = P.values[<<x, k>>] * Q.values[<<k, y>>]
  <2>1. P.values[<<x, k>>] = L.values[<<row, s + k>>] /\ Q.values[<<k, y>>] = R.values[<<s + k, col>>]
    BY <1>2
  <2>2. QED
    BY <1>3, <2>1
<1>5. Cols(P) = 0 .. b - 1 /\ <<x, y>> \in Rows(P) \X Cols(Q)
  BY <1>2 DEF Rows, Cols
<1>6. PICK cell : cell = <<x, y>>
  OBVIOUS
<1>7. cell[1] = x /\ cell[2] = y
  BY <1>6
<1>8. \A k \in Cols(P) : g[k] = P.values[<<cell[1], k>>] * Q.values[<<k, cell[2]>>]
  BY <1>4, <1>5, <1>7
<1>9. Product(P, Q)[cell] = SumOf(g, Cols(P))
  BY <1>5, <1>6, <1>8, ProductOfCell
<1>10. (\A k \in 0 .. b - 1 : g[k] = f[s + k]) /\ Product(P, Q)[<<x, y>>] = SumOf(g, 0 .. b - 1)
  BY <1>3, <1>5, <1>6, <1>9
<1>11. SumsPart(f, s, b, Product(P, Q)[<<x, y>>])
  BY <1>10, Zenon DEF SumsPart
<1>12. QED
  BY <1>1, <1>11, Zenon

-----------------------------------------------------------------------------
(* The products that do_sparse_matmul adds, and what visits add.           *)

\* A format without entries is that of a matrix of zeros.
LEMMA EmptyIsZero ==
  ASSUME NEW d, IsDense(d), NEW format \in Formats, Empty(DenseToFormat(d, format))
  PROVE  NonZero(d) = {}
<1>1. PICK n : n = Cardinality(NonZero(d))
  OBVIOUS
<1>2. n \in Nat /\ (n = 0 => NonZero(d) = {})
  BY <1>1, CellFacts, FS_CardinalityType, FS_EmptySet
<1>3. CASE format = "MAT_CSR"
  <2>1. CsrFromDense(d).entries = <<>>
    BY <1>3, FormatsOf DEF Empty
  <2>2. DOMAIN CsrFromDense(d).entries = 1 .. n
    BY <1>1, CsrFacts
  <2>3. QED
    BY <1>2, <2>1, <2>2
<1>4. CASE format = "MAT_CSC"
  <2>1. CscFromDense(d).entries = <<>>
    BY <1>4, FormatsOf DEF Empty
  <2>2. DOMAIN CscFromDense(d).entries = 1 .. n
    BY <1>1, CscFacts
  <2>3. QED
    BY <1>2, <2>1, <2>2
<1>5. CASE format = "MAT_COO"
  <2>1. CooFromDense(d) = <<>>
    BY <1>5, FormatsOf DEF Empty
  <2>2. DOMAIN RowScan(d) = 1 .. n
    BY <1>1, RowScanned
  <2>3. DOMAIN CooFromDense(d) = DOMAIN RowScan(d)
    BY DEF CooFromDense
  <2>4. QED
    BY <1>2, <2>1, <2>2, <2>3
<1>6. format # "MAT_DENSE"
  BY FormatsOf DEF Empty
<1>7. QED
  BY <1>3, <1>4, <1>5, <1>6 DEF Formats

\* The product with a matrix of zeros.
LEMMA ZeroProduct ==
  ASSUME NEW L, NEW R, Operands(L, R), NonZero(L) = {} \/ NonZero(R) = {}, NEW cell \in Rows(L) \X Cols(R)
  PROVE  Product(L, R)[cell] = 0
<1>1. PICK f : f = [k \in Cols(L) |-> L.values[<<cell[1], k>>] * R.values[<<k, cell[2]>>]]
  OBVIOUS
<1>2. cell[1] \in Rows(L) /\ cell[2] \in Cols(R)
  OBVIOUS
<1>3. ASSUME NEW k \in Cols(L) PROVE f[k] = 0
  <2>1. PICK a, b : a = L.values[<<cell[1], k>>] /\ b = R.values[<<k, cell[2]>>]
    OBVIOUS
  <2>2. a \in Int /\ b \in Int
    BY <1>2, <2>1, OperandValues
  <2>3. a = 0 \/ b = 0
    <3>1. <<cell[1], k>> \in Cells(L) /\ <<k, cell[2]>> \in Cells(R)
      BY <1>2, OperandCells
    <3>2. QED
      BY <2>1, <3>1 DEF NonZero
  <2>4. a * b = 0
    BY <2>2, <2>3
  <2>5. QED
    BY <1>1, <2>1, <2>4
<1>4. IsFiniteSet(Cols(L))
  BY TripleFacts
<1>5. SumOf(f, Cols(L)) = 0
  BY <1>3, <1>4, SumOfZeros DEF Summable
<1>6. QED
  BY <1>1, <1>5, ProductOfCell

\* do_sparse_matmul adds the product of two blocks, with or without a kernel.
LEMMA DoSparseAdds ==
  ASSUME NEW L, NEW R, Operands(L, R), NEW l \in Formats, NEW r \in Formats, <<l, r>> # <<"MAT_COO", "MAT_CSC">>,
         NEW output, IsOutput(output, L, R),
         NEW result, result = do_sparse_matmul(output, DenseToFormat(L, l), DenseToFormat(R, r))
  PROVE  /\ IsOutput(result, L, R)
         /\ \A cell \in Rows(L) \X Cols(R) : result.values[cell] = output.values[cell] + Product(L, R)[cell]
<1>1. IsDense(L) /\ IsDense(R)
  BY DEF Operands
<1>2. CASE Empty(DenseToFormat(L, l)) \/ (Empty(DenseToFormat(R, r)) /\ result = output)
  <2>1. NonZero(L) = {} \/ NonZero(R) = {}
    BY <1>1, <1>2, EmptyIsZero
  <2>2. \A cell \in Rows(L) \X Cols(R) : Product(L, R)[cell] = 0
    BY <2>1, ZeroProduct
  <2>3. result = output
    BY <1>2 DEF do_sparse_matmul
  <2>4. \A cell \in Rows(L) \X Cols(R) : output.values[cell] \in Int
    BY DEF IsOutput
  <2>5. QED
    BY <2>2, <2>3, <2>4
<1>3. CASE result = Kernel(output, DenseToFormat(L, l), DenseToFormat(R, r))
  BY <1>3, KernelAdds
<1>4. QED
  BY <1>2, <1>3, Zenon DEF do_sparse_matmul

\* The elements at a cell of the products of N pairs of blocks.
ProductsAt(A, B, N, cell) == [n \in 0 .. N - 1 |-> Product(A[n], B[n])[cell]]

\* The output that the first n of N pairs of blocks make.
SumsTo(A, B, N, rows, cols, n) ==
  [row_count |-> rows, col_count |-> cols,
   values |-> [cell \in (0 .. rows - 1) \X (0 .. cols - 1) |-> SumOf(ProductsAt(A, B, N, cell), 0 .. n - 1)]]

\* N pairs of blocks that fit, all with an output of the same sizes.
PairsOf(A, B, N, rows, cols) ==
  \A n \in 0 .. N - 1 : Operands(A[n], B[n]) /\ A[n].row_count = rows /\ B[n].col_count = cols

\* Their products are integers.
LEMMA ProductsSummable ==
  ASSUME NEW N \in Nat, NEW A, NEW B, NEW rows, NEW cols, PairsOf(A, B, N, rows, cols),
         NEW cell \in (0 .. rows - 1) \X (0 .. cols - 1), NEW n \in 0 .. N
  PROVE  Summable(ProductsAt(A, B, N, cell), 0 .. n - 1) /\ SumOf(ProductsAt(A, B, N, cell), 0 .. n - 1) \in Int
<1>1. ASSUME NEW k \in 0 .. n - 1 PROVE ProductsAt(A, B, N, cell)[k] \in Int
  <2>1. k \in 0 .. N - 1
    OBVIOUS
  <2>2. PICK L, R : L = A[k] /\ R = B[k]
    OBVIOUS
  <2>3. Operands(L, R) /\ Rows(L) \X Cols(R) = (0 .. rows - 1) \X (0 .. cols - 1)
    BY <2>1, <2>2 DEF PairsOf, Rows, Cols
  <2>4. Product(L, R)[cell] \in Int
    BY <2>3, ProductType
  <2>5. QED
    BY <2>1, <2>2, <2>4 DEF ProductsAt
<1>2. IsFiniteSet(0 .. n - 1)
  BY FS_Interval
<1>3. Summable(ProductsAt(A, B, N, cell), 0 .. n - 1)
  BY <1>1, <1>2 DEF Summable
<1>4. QED
  BY <1>3, SumStep

\* One more pair of blocks.
LEMMA SumsStep ==
  ASSUME NEW N \in Nat, NEW A, NEW B, NEW rows, NEW cols, PairsOf(A, B, N, rows, cols), NEW n \in 1 .. N,
         NEW l \in Formats, NEW r \in Formats, <<l, r>> # <<"MAT_COO", "MAT_CSC">>
  PROVE  SumsTo(A, B, N, rows, cols, n) =
           do_sparse_matmul(SumsTo(A, B, N, rows, cols, n - 1), DenseToFormat(A[n - 1], l), DenseToFormat(B[n - 1], r))
<1> DEFINE block == (0 .. rows - 1) \X (0 .. cols - 1)
           f == [cell \in block |-> SumOf(ProductsAt(A, B, N, cell), 0 .. (n - 1) - 1)]
           g == [cell \in block |-> SumOf(ProductsAt(A, B, N, cell), 0 .. n - 1)]
<1>1. PICK L, R : L = A[n - 1] /\ R = B[n - 1]
  OBVIOUS
<1>2. n - 1 \in 0 .. N - 1 /\ n - 1 \in 0 .. N /\ n \in 0 .. N
  OBVIOUS
<1>3. Operands(L, R) /\ L.row_count = rows /\ R.col_count = cols /\ Rows(L) \X Cols(R) = block
  BY <1>1, <1>2 DEF PairsOf, Rows, Cols
<1>4. ASSUME NEW cell \in block
      PROVE  /\ SumOf(ProductsAt(A, B, N, cell), 0 .. (n - 1) - 1) \in Int
             /\ SumOf(ProductsAt(A, B, N, cell), 0 .. n - 1) =
                  SumOf(ProductsAt(A, B, N, cell), 0 .. (n - 1) - 1) + Product(L, R)[cell]
  <2>1. PICK h : h = ProductsAt(A, B, N, cell)
    OBVIOUS
  <2>2. Summable(h, 0 .. n - 1) /\ SumOf(h, 0 .. (n - 1) - 1) \in Int
    BY <1>2, <2>1, ProductsSummable
  <2>3. n - 1 \in 0 .. n - 1 /\ (0 .. n - 1) \ {n - 1} = 0 .. (n - 1) - 1
    OBVIOUS
  <2>4. SumOf(h, 0 .. n - 1) = h[n - 1] + SumOf(h, 0 .. (n - 1) - 1)
    BY <2>2, <2>3, SumRemove
  <2>5. h[n - 1] = Product(L, R)[cell]
    BY <1>1, <1>2, <2>1 DEF ProductsAt
  <2>6. Product(L, R)[cell] \in Int
    BY <1>3, ProductType
  <2>7. QED
    BY <2>1, <2>2, <2>4, <2>5, <2>6
<1>5. PICK output : output = SumsTo(A, B, N, rows, cols, n - 1)
  OBVIOUS
<1>6. output = [row_count |-> rows, col_count |-> cols, values |-> f]
  BY <1>5, Zenon DEF SumsTo
<1>7. f \in [block -> Int] /\ \A cell \in block : g[cell] = f[cell] + Product(L, R)[cell]
  BY <1>4
<1>8. DOMAIN g = block /\ g = [cell \in block |-> g[cell]]
  OBVIOUS
<1> HIDE DEF f, g
<1>9. IsOutput(output, L, R)
  BY <1>3, <1>6, <1>7 DEF IsOutput
<1>10. PICK result : result = do_sparse_matmul(output, DenseToFormat(L, l), DenseToFormat(R, r))
  OBVIOUS
<1>11. IsOutput(result, L, R) /\ \A cell \in block : result.values[cell] = output.values[cell] + Product(L, R)[cell]
  <2>1. Rows(L) \X Cols(R) = block
    BY <1>3
  <2>2. QED
    BY <1>3, <1>9, <1>10, <2>1, DoSparseAdds
<1>12. result.values = g
  <2>1. result.values \in [block -> Int]
    BY <1>3, <1>11 DEF IsOutput
  <2>2. output.values = f
    BY <1>6
  <2>3. \A cell \in block : result.values[cell] = g[cell]
    BY <1>7, <1>11, <2>2
  <2>4. QED
    BY <1>8, <2>1, <2>3
<1>13. result = [row_count |-> rows, col_count |-> cols, values |-> g]
  BY <1>3, <1>11, <1>12 DEF IsOutput
<1>14. SumsTo(A, B, N, rows, cols, n) = [row_count |-> rows, col_count |-> cols, values |-> g]
  BY Zenon DEF SumsTo, g
<1>15. QED
  BY <1>1, <1>5, <1>10, <1>13, <1>14

\* The outputs of a loop that multiplies N pairs of blocks, one after the other.
Repeats(h, N, first, u, w) ==
  h = [n \in 0 .. N |-> IF n = 0 THEN first ELSE do_sparse_matmul(h[n - 1], u[n - 1], w[n - 1])]

\* There is only one sequence of outputs.
LEMMA RepeatsOnce ==
  ASSUME NEW N \in Nat, NEW first, NEW u, NEW w, NEW g, Repeats(g, N, first, u, w), NEW h, Repeats(h, N, first, u, w)
  PROVE  g = h
<1> DEFINE Bad == {n \in 0 .. N : g[n] # h[n]}
<1>1. \A n \in 0 .. N :
        /\ g[n] = IF n = 0 THEN first ELSE do_sparse_matmul(g[n - 1], u[n - 1], w[n - 1])
        /\ h[n] = IF n = 0 THEN first ELSE do_sparse_matmul(h[n - 1], u[n - 1], w[n - 1])
  BY Zenon DEF Repeats
<1>2. Bad = {}
  <2> SUFFICES ASSUME Bad # {} PROVE FALSE
    OBVIOUS
  <2>1. PICK n \in Bad : \A k \in Bad : n <= k
    <3>1. Bad \subseteq Nat
      OBVIOUS
    <3> HIDE DEF Bad
    <3>2. QED
      BY <3>1, LeastNumber
  <2>2. n \in 0 .. N /\ g[n] # h[n]
    BY <2>1
  <2>3. n # 0
    BY <1>1, <2>2
  <2>4. n - 1 \in 0 .. N /\ ~(n <= n - 1)
    BY <2>2, <2>3
  <2>5. g[n - 1] = h[n - 1]
    BY <2>1, <2>4
  <2>6. g[n] = h[n]
    BY <1>1, <2>2, <2>3, <2>5
  <2>7. QED
    BY <2>2, <2>6
<1>3. \A n \in 0 .. N : g[n] = h[n]
  BY <1>2
<1>4. g = [n \in 0 .. N |-> g[n]] /\ h = [n \in 0 .. N |-> h[n]]
  <2>1. \E G : g = [n \in 0 .. N |-> G[n]]
    <3>1. PICK G : G = [n \in 0 .. N |-> IF n = 0 THEN first ELSE do_sparse_matmul(g[n - 1], u[n - 1], w[n - 1])]
      OBVIOUS
    <3>2. g = G /\ G = [n \in 0 .. N |-> G[n]]
      BY <3>1, Zenon DEF Repeats
    <3>3. QED
      BY <3>2
  <2>2. \E G : h = [n \in 0 .. N |-> G[n]]
    <3>1. PICK G : G = [n \in 0 .. N |-> IF n = 0 THEN first ELSE do_sparse_matmul(h[n - 1], u[n - 1], w[n - 1])]
      OBVIOUS
    <3>2. h = G /\ G = [n \in 0 .. N |-> G[n]]
      BY <3>1, Zenon DEF Repeats
    <3>3. QED
      BY <3>2
  <2>3. QED
    BY <2>1, <2>2
<1>5. QED
  BY <1>3, <1>4

\* The last of these outputs.
LoopOutput(N, first, u, w) == (CHOOSE h : Repeats(h, N, first, u, w))[N]

\* No visits add nothing.
LEMMA AddedNone == ASSUME NEW cell PROVE AddedAt({}, cell) = 0
<1>1. PICK f : f = [w \in {} |-> w.product]
  OBVIOUS
<1>2. {w \in {} : w.at = cell} = {} /\ Summable(f, {})
  BY FS_EmptySet DEF Summable
<1>3. Total({}, LAMBDA w : w.product) = SumOf(f, {})
  BY TotalOfProducts
<1>4. AddedAt({}, cell) = Total({}, LAMBDA w : w.product)
  BY <1>2, Zenon DEF AddedAt
<1>5. QED
  BY <1>2, <1>3, <1>4, SumStep

\* What a set of visits adds without one of them.
LEMMA AddedWithout ==
  ASSUME NEW V, IsFiniteSet(V), \A v \in V : v.product \in Int, NEW v \in V, NEW cell
  PROVE  /\ AddedAt(V, cell) \in Int /\ AddedAt({}, cell) = 0
         /\ AddedAt(V, cell) = IF v.at = cell THEN v.product + AddedAt(V \ {v}, cell) ELSE AddedAt(V \ {v}, cell)
<1> DEFINE At(S) == {w \in S : w.at = cell}
           f == [w \in V |-> w.product]
<1>1. ASSUME NEW S \in SUBSET V
      PROVE  AddedAt(S, cell) = SumOf(f, At(S)) /\ Summable(f, At(S))
  <2>1. At(S) \in SUBSET V
    OBVIOUS
  <2>2. IsFiniteSet(At(S))
    BY <2>1, FS_Subset
  <2>3. \A w \in At(S) : f[w] = w.product /\ f[w] \in Int
    BY <2>1
  <2> HIDE DEF f, At
  <2>4. Total(At(S), LAMBDA w : w.product) = SumOf(f, At(S))
    BY <2>3, TotalOfProducts
  <2>5. AddedAt(S, cell) = Total(At(S), LAMBDA w : w.product)
    BY Zenon DEF AddedAt, At
  <2>6. QED
    BY <2>2, <2>3, <2>4, <2>5 DEF Summable
<1>2. AddedAt(V, cell) = SumOf(f, At(V)) /\ Summable(f, At(V)) /\ AddedAt({}, cell) = SumOf(f, At({})) /\ Summable(f, At({}))
      /\ AddedAt(V \ {v}, cell) = SumOf(f, At(V \ {v}))
  BY <1>1
<1>3. At({}) = {} /\ f[v] = v.product
  OBVIOUS
<1>4. IF v.at = cell THEN v \in At(V) /\ At(V \ {v}) = At(V) \ {v} ELSE At(V \ {v}) = At(V)
  OBVIOUS
<1> HIDE DEF At, f
<1>5. AddedAt(V, cell) \in Int /\ AddedAt({}, cell) = 0
  BY <1>2, <1>3, SumStep
<1>6. CASE v.at = cell
  BY <1>2, <1>3, <1>4, <1>5, <1>6, SumRemove
<1>7. CASE v.at # cell
  BY <1>2, <1>4, <1>5, <1>7
<1>8. QED
  BY <1>5, <1>6, <1>7
=============================================================================
