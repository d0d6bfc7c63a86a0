-------------------------- MODULE SparseBlisProofs --------------------------
(* What TLAPS proves about SparseBlis, for every team of threads, every      *)
(* number of blocks that the groups divide, and every choice of formats.     *)
EXTENDS SparseBlis, TLAPS

\* The facts about numbers.
LOCAL Facts == INSTANCE KernelProofs

\* A group whose first block exists exists as a whole.
LEMMA GroupFits ==
  ASSUME NEW b \in Nat \ {0}, NEW count \in Nat, count % b = 0, NEW x \in Starts(b, count)
  PROVE  x \in Nat /\ x + b <= count
<1>1. x \in Nat /\ x < count /\ x % b = 0
  BY DEF Starts
<1>2. QED
  BY <1>1, Facts!StartsApart

\* Stepping by whole groups leads to the first block of a group.
LEMMA NextStart ==
  ASSUME NEW b \in Nat \ {0}, NEW count \in Nat, NEW x \in Starts(b, count), x + b < count
  PROVE  x + b \in Starts(b, count)
<1>1. x \in Nat /\ x % b = 0
  BY DEF Starts
<1>2. (x + b) % b = 0
  BY <1>1, Facts!NextMultiple
<1>3. x + b \in 0 .. count - 1
  BY <1>1
<1>4. QED
  BY <1>2, <1>3 DEF Starts

LEMMA FirstStart ==
  ASSUME NEW b \in Nat \ {0}, NEW count \in Nat, 0 < count
  PROVE  0 \in Starts(b, count)
<1>1. 0 % b = 0
  OBVIOUS
<1>2. QED
  BY <1>1 DEF Starts

\* Where a thread inside its groups stands, there is a block.
LEMMA GroupInBounds ==
  ASSUME Divisible, NEW c \in Counters, InGroup(c)
  PROVE  /\ OutBlock(c) \in Rows \X Cols
         /\ c.p_i < BLOCK_P => BlockP(c) \in Inner
<1>0. /\ BlockM \in Nat /\ BlockN \in Nat /\ BlockK \in Nat
      /\ BLOCK_I \in Nat \ {0} /\ BLOCK_J \in Nat \ {0} /\ BLOCK_P \in Nat \ {0}
  BY CountAssumption
<1>1. /\ c.i_o \in Nat /\ c.i_o + BLOCK_I <= BlockM
      /\ c.j_o \in Nat /\ c.j_o + BLOCK_J <= BlockN
      /\ c.p_o \in Nat /\ c.p_o + BLOCK_P <= BlockK
  BY <1>0, GroupFits DEF InGroup, Divisible
<1>2. c.i_i \in Nat /\ c.i_i < BLOCK_I /\ c.j_i \in Nat /\ c.j_i < BLOCK_J /\ c.p_i \in Nat
  BY DEF InGroup, Counters
<1>3. BlockI(c) \in Rows
  BY <1>0, <1>1, <1>2 DEF BlockI, Rows
<1>4. BlockJ(c) \in Cols
  BY <1>0, <1>1, <1>2 DEF BlockJ, Cols
<1>5. c.p_i < BLOCK_P => BlockP(c) \in Inner
  BY <1>0, <1>1, <1>2 DEF BlockP, Inner
<1>6. QED
  BY <1>3, <1>4, <1>5 DEF OutBlock

\* Threads of different iterations are in different columns of blocks.
LEMMA ColumnsApart ==
  ASSUME NEW c \in Counters, NEW d \in Counters, InGroup(c), InGroup(d), c.j_o # d.j_o
  PROVE  OutBlock(c) # OutBlock(d)
<1>0. BLOCK_J \in Nat \ {0}
  BY CountAssumption
<1>1. /\ c.j_o \in Nat /\ c.j_o % BLOCK_J = 0 /\ c.j_i \in Nat /\ c.j_i < BLOCK_J
      /\ d.j_o \in Nat /\ d.j_o % BLOCK_J = 0 /\ d.j_i \in Nat /\ d.j_i < BLOCK_J
  BY DEF InGroup, Counters, Starts
<1>2. c.j_o + BLOCK_J <= d.j_o \/ d.j_o + BLOCK_J <= c.j_o
  BY <1>0, <1>1, Facts!StartsApart
<1>3. BlockJ(c) # BlockJ(d)
  BY <1>0, <1>1, <1>2 DEF BlockJ
<1>4. QED
  BY <1>3 DEF OutBlock

LEMMA ZeroBag == Zero \in Bag
  BY DEF Zero, Bag

LEMMA ProductBag ==
  ASSUME NEW s \in Bag, NEW i, NEW p \in Inner, NEW j
  PROVE  Product(s, i, p, j) \in Bag
<1>1. CASE ~NonZeroProduct(i, p, j)
  BY <1>1 DEF Product
<1>2. [Zero EXCEPT ![p] = 1] \in Bag
  BY DEF Zero, Bag
<1>3. [s EXCEPT ![p] = @ + 1] \in Bag
  BY DEF Bag
<1>4. QED
  BY <1>1, <1>2, <1>3 DEF Product

\* The counters of the next temporary stay in groups until the loop over p_o ends.
LEMMA AdvanceFacts ==
  ASSUME NEW c \in Counters, InGroup(c)
  PROVE  /\ Advance(c) \in Counters
         /\ Advance(c).j_o = c.j_o
         /\ Advance(c).p_i = 0
         /\ Advance(c).p_o < BlockK => InGroup(Advance(c))
<1>0. /\ BlockM \in Nat /\ BlockN \in Nat /\ BlockK \in Nat
      /\ BLOCK_I \in Nat \ {0} /\ BLOCK_J \in Nat \ {0} /\ BLOCK_P \in Nat \ {0}
  BY CountAssumption
<1> DEFINE d == [c EXCEPT !.p_i = 0]
<1>1. CASE c.i_i + 1 < BLOCK_I
  <2>1. Advance(c) = [d EXCEPT !.i_i = @ + 1]
    BY <1>0, <1>1 DEF Advance, Counters
  <2>2. Advance(c) = [j_o |-> c.j_o, p_o |-> c.p_o, i_o |-> c.i_o,
                      j_i |-> c.j_i, i_i |-> c.i_i + 1, p_i |-> 0]
    BY <2>1 DEF Counters
  <2>3. QED
    BY <1>0, <1>1, <2>2 DEF Counters, InGroup
<1>2. CASE c.i_i + 1 >= BLOCK_I /\ c.j_i + 1 < BLOCK_J
  <2>1. ~(c.i_i + 1 < BLOCK_I)
    BY <1>0, <1>2 DEF Counters
  <2>2. Advance(c) = [d EXCEPT !.i_i = 0, !.j_i = @ + 1]
    BY <1>0, <1>2, <2>1 DEF Advance, Counters
  <2>3. Advance(c) = [j_o |-> c.j_o, p_o |-> c.p_o, i_o |-> c.i_o,
                      j_i |-> c.j_i + 1, i_i |-> 0, p_i |-> 0]
    BY <2>2 DEF Counters
  <2>4. QED
    BY <1>0, <1>2, <2>3 DEF Counters, InGroup
<1>3. CASE c.i_i + 1 >= BLOCK_I /\ c.j_i + 1 >= BLOCK_J /\ c.i_o + BLOCK_I < BlockM
  <2>1. ~(c.i_i + 1 < BLOCK_I) /\ ~(c.j_i + 1 < BLOCK_J)
    BY <1>0, <1>3 DEF Counters
  <2>2. Advance(c) = [d EXCEPT !.i_i = 0, !.j_i = 0, !.i_o = @ + BLOCK_I]
    BY <1>0, <1>3, <2>1 DEF Advance, Counters
  <2>3. c.i_o + BLOCK_I \in Starts(BLOCK_I, BlockM)
    BY <1>0, <1>3, NextStart DEF InGroup
  <2>4. c.i_o + BLOCK_I \in Nat
    BY <1>0 DEF Counters
  <2>5. Advance(c) = [j_o |-> c.j_o, p_o |-> c.p_o, i_o |-> c.i_o + BLOCK_I,
                      j_i |-> 0, i_i |-> 0, p_i |-> 0]
    BY <2>2 DEF Counters
  <2>6. QED
    BY <1>0, <2>3, <2>4, <2>5 DEF Counters, InGroup
<1>4. CASE c.i_i + 1 >= BLOCK_I /\ c.j_i + 1 >= BLOCK_J /\ ~(c.i_o + BLOCK_I < BlockM)
  <2>1. ~(c.i_i + 1 < BLOCK_I) /\ ~(c.j_i + 1 < BLOCK_J)
    BY <1>0, <1>4 DEF Counters
  <2>2. Advance(c) = [d EXCEPT !.i_i = 0, !.j_i = 0, !.i_o = 0, !.p_o = @ + BLOCK_P]
    BY <1>0, <1>4, <2>1 DEF Advance, Counters
  <2>3. 0 \in Starts(BLOCK_I, BlockM)
    <3>1. 0 < BlockM
      BY <1>0 DEF InGroup, Starts
    <3>2. QED
      BY <1>0, <3>1, FirstStart
  <2>4. c.p_o + BLOCK_P < BlockK => c.p_o + BLOCK_P \in Starts(BLOCK_P, BlockK)
    BY <1>0, NextStart DEF InGroup
  <2>5. c.p_o + BLOCK_P \in Nat
    BY <1>0 DEF Counters
  <2>6. Advance(c) = [j_o |-> c.j_o, p_o |-> c.p_o + BLOCK_P, i_o |-> 0,
                      j_i |-> 0, i_i |-> 0, p_i |-> 0]
    BY <2>2 DEF Counters
  <2>7. QED
    BY <1>0, <2>3, <2>4, <2>5, <2>6 DEF Counters, InGroup
<1>5. QED
  <2>1. c.i_i \in Nat /\ c.j_i \in Nat
    BY DEF Counters
  <2>2. /\ c.i_i + 1 < BLOCK_I \/ c.i_i + 1 >= BLOCK_I
        /\ c.j_i + 1 < BLOCK_J \/ c.j_i + 1 >= BLOCK_J
    BY <1>0, <2>1
  <2> HIDE DEF d
  <2>3. QED
    BY <1>1, <1>2, <1>3, <1>4, <2>2

-----------------------------------------------------------------------------
(* The invariant is inductive.                                              *)

LEMMA InitIInv == Init => IInv
<1> SUFFICES ASSUME Init PROVE IInv
  OBVIOUS
<1>1. Home(0) \in Counters
  BY DEF Home, Counters
<1>2. TypeOK
  BY <1>1, ZeroBag DEF Init, TypeOK
<1>3. \A t \in Threads : pc[t] = "idle"
  BY DEF Init
<1>4. QED
  BY <1>2, <1>3 DEF IInv

\* What no step of a thread on its own iteration disturbs: a thread that keeps its
\* j_o keeps its iteration to itself, and so does everyone else.
LEMMA IterationKept ==
  ASSUME IInv, NEW t \in Threads, pc[t] # "idle", todo' = todo,
         NEW c \in Counters, c.j_o = at[t].j_o, at' = [at EXCEPT ![t] = c],
         NEW s \in {"idle", "multiply", "load", "store"}, pc' = [pc EXCEPT ![t] = s]
  PROVE  \A u \in Threads : pc'[u] # "idle" => OwnIteration(u)'
<1>1. at \in [Threads -> Counters] /\ pc \in [Threads -> {"idle", "multiply", "load", "store"}]
  BY DEF IInv, TypeOK
<1>2. \A u \in Threads : at'[u].j_o = at[u].j_o
  BY <1>1
<1>3. \A u \in Threads : pc'[u] # "idle" => pc[u] # "idle"
  BY <1>1
<1>4. \A u \in Threads : pc[u] # "idle" => OwnIteration(u)
  BY DEF IInv
<1>5. QED
  BY <1>2, <1>3, <1>4 DEF OwnIteration

LEMMA TakeIInv ==
  ASSUME IInv, NEW t \in Threads, NEW j_o \in todo, Take(t, j_o)
  PROVE  IInv'
<1>0. /\ BlockM \in Nat /\ BlockN \in Nat /\ BlockK \in Nat
      /\ BLOCK_I \in Nat \ {0} /\ BLOCK_J \in Nat \ {0} /\ BLOCK_P \in Nat \ {0}
  BY CountAssumption
<1>1. TypeOK
  BY DEF IInv
<1>2. j_o \in Starts(BLOCK_J, BlockN) /\ j_o \in Nat
  BY <1>0, <1>1 DEF TypeOK, Starts
<1>3. Home(j_o) \in Counters /\ Home(j_o).j_o = j_o
  BY <1>2 DEF Home, Counters
<1>4. TypeOK'
  BY <1>1, <1>3, ZeroBag DEF TypeOK, Take
<1>5. pc'[t] # "idle" => InGroup(Home(j_o)) /\ Home(j_o).p_i < BLOCK_P
  <2>1. pc'[t] # "idle" => 0 < BlockK /\ 0 < BlockM
    BY <1>0, <1>1 DEF Take, TypeOK
  <2>2. 0 < BlockK /\ 0 < BlockM => 0 \in Starts(BLOCK_I, BlockM) /\ 0 \in Starts(BLOCK_P, BlockK)
    BY <1>0, FirstStart
  <2>3. QED
    BY <1>0, <1>2, <2>1, <2>2 DEF InGroup, Home
<1>6. at'[t] = Home(j_o) /\ \A u \in Threads : u # t => at'[u] = at[u] /\ pc'[u] = pc[u]
  BY <1>1 DEF Take, TypeOK
<1>7. \A u \in Threads : pc'[u] # "idle" =>
        InGroup(at'[u]) /\ (pc'[u] = "multiply" => at'[u].p_i < BLOCK_P)
  BY <1>5, <1>6 DEF IInv
<1>8. todo' = todo \ {j_o} /\ pc[t] = "idle"
  BY DEF Take
<1>9. \A u \in Threads : u # t /\ pc'[u] # "idle" => at'[u].j_o # j_o /\ at'[u].j_o \notin todo
  BY <1>6 DEF IInv, OwnIteration
<1>10. \A u \in Threads : pc'[u] # "idle" => OwnIteration(u)'
  <2> SUFFICES ASSUME NEW u \in Threads, pc'[u] # "idle" PROVE OwnIteration(u)'
    OBVIOUS
  <2>1. CASE u = t
    BY <1>3, <1>6, <1>8, <1>9, <2>1 DEF OwnIteration
  <2>2. CASE u # t
    <3>1. OwnIteration(u)
      BY <1>6, <2>2 DEF IInv
    <3>2. at'[u].j_o \notin todo'
      BY <1>8, <1>9, <2>2
    <3>3. ASSUME NEW v \in Threads, v # u, pc'[v] # "idle" PROVE at'[v].j_o # at'[u].j_o
      BY <1>3, <1>6, <1>9, <2>2, <3>1, <3>3 DEF OwnIteration
    <3>4. QED
      BY <3>2, <3>3 DEF OwnIteration
  <2>3. QED
    BY <2>1, <2>2
<1>11. QED
  BY <1>4, <1>7, <1>10 DEF IInv, InGroup

LEMMA MultiplyIInv ==
  ASSUME Divisible, IInv, NEW t \in Threads, Multiply(t)
  PROVE  IInv'
<1>1. /\ at[t] \in Counters /\ temp[t] \in Bag /\ InGroup(at[t]) /\ at[t].p_i < BLOCK_P
      /\ pc[t] = "multiply" /\ TypeOK
  BY DEF IInv, TypeOK, Multiply
<1> DEFINE c == [at[t] EXCEPT !.p_i = @ + 1]
<1>2. /\ at' = [at EXCEPT ![t] = c]
      /\ c \in Counters /\ c.j_o = at[t].j_o /\ c.p_i = at[t].p_i + 1
  BY <1>1 DEF Multiply, Counters
<1>3. InGroup(c)
  BY <1>1 DEF InGroup, Counters
<1> DEFINE s == IF at[t].p_i + 1 < BLOCK_P THEN "multiply" ELSE "load"
<1>4. pc' = [pc EXCEPT ![t] = s] /\ s \in {"idle", "multiply", "load", "store"}
  BY DEF Multiply
<1>5. s = "multiply" => c.p_i < BLOCK_P
  BY <1>2
<1> HIDE DEF c, s
<1>6. BlockP(at[t]) \in Inner
  BY <1>1, GroupInBounds
<1>7. TypeOK'
  BY <1>1, <1>2, <1>4, <1>6, ProductBag DEF TypeOK, Multiply
<1>8. \A u \in Threads : pc'[u] # "idle" =>
        InGroup(at'[u]) /\ (pc'[u] = "multiply" => at'[u].p_i < BLOCK_P)
  BY <1>1, <1>2, <1>3, <1>4, <1>5 DEF IInv, TypeOK
<1>9. \A u \in Threads : pc'[u] # "idle" => OwnIteration(u)'
  BY <1>1, <1>2, <1>4, IterationKept DEF Multiply
<1>10. QED
  BY <1>7, <1>8, <1>9 DEF IInv, InGroup

LEMMA LoadIInv ==
  ASSUME Divisible, IInv, NEW t \in Threads, Load(t)
  PROVE  IInv'
<1>1. at[t] \in Counters /\ InGroup(at[t]) /\ pc[t] = "load" /\ TypeOK
  BY DEF IInv, TypeOK, Load
<1>2. OutBlock(at[t]) \in Rows \X Cols
  BY <1>1, GroupInBounds
<1>3. TypeOK'
  BY <1>1, <1>2 DEF TypeOK, Load
<1>4. /\ at' = at /\ pc' = [pc EXCEPT ![t] = "store"] /\ todo' = todo
  BY DEF Load
<1>5. at' = [at EXCEPT ![t] = at[t]]
  BY <1>1, <1>4 DEF TypeOK
<1>6. \A u \in Threads : pc'[u] # "idle" =>
        InGroup(at'[u]) /\ (pc'[u] = "multiply" => at'[u].p_i < BLOCK_P)
  BY <1>1, <1>4 DEF IInv, TypeOK
<1>7. \A u \in Threads : pc'[u] # "idle" => OwnIteration(u)'
  BY <1>1, <1>4, <1>5, IterationKept
<1>8. QED
  BY <1>3, <1>6, <1>7 DEF IInv, InGroup

LEMMA StoreIInv ==
  ASSUME Divisible, IInv, NEW t \in Threads, Store(t)
  PROVE  IInv'
<1>0. BlockK \in Nat /\ BLOCK_P \in Nat \ {0}
  BY CountAssumption
<1>1. at[t] \in Counters /\ InGroup(at[t]) /\ pc[t] = "store" /\ TypeOK
  BY DEF IInv, TypeOK, Store
<1> DEFINE c == Advance(at[t])
<1>2. /\ c \in Counters /\ c.j_o = at[t].j_o /\ c.p_i = 0
      /\ c.p_o < BlockK => InGroup(c)
  BY <1>1, AdvanceFacts
<1> DEFINE s == IF c.p_o < BlockK THEN "multiply" ELSE "idle"
<1>3. /\ at' = [at EXCEPT ![t] = c] /\ pc' = [pc EXCEPT ![t] = s] /\ todo' = todo
      /\ s \in {"idle", "multiply", "load", "store"}
  BY DEF Store
<1>4. s # "idle" => InGroup(c) /\ c.p_i < BLOCK_P
  BY <1>0, <1>2
<1> HIDE DEF c, s
<1>5. OutBlock(at[t]) \in Rows \X Cols
  BY <1>1, GroupInBounds
<1>6. output' \in [Rows \X Cols -> Bag]
  <2>1. loaded[t] \in Bag /\ temp[t] \in Bag
    BY <1>1 DEF TypeOK
  <2>2. [p \in Inner |-> loaded[t][p] + temp[t][p]] \in Bag
    BY <2>1 DEF Bag
  <2>3. QED
    BY <1>1, <1>5, <2>2 DEF TypeOK, Store
<1>7. TypeOK'
  BY <1>1, <1>2, <1>3, <1>6, ZeroBag DEF TypeOK, Store
<1>8. \A u \in Threads : pc'[u] # "idle" =>
        InGroup(at'[u]) /\ (pc'[u] = "multiply" => at'[u].p_i < BLOCK_P)
  BY <1>1, <1>3, <1>4 DEF IInv, TypeOK
<1>9. \A u \in Threads : pc'[u] # "idle" => OwnIteration(u)'
  BY <1>1, <1>2, <1>3, IterationKept
<1>10. QED
  BY <1>7, <1>8, <1>9 DEF IInv, InGroup

LEMMA NextIInv ==
  ASSUME Divisible, IInv, [Next]_vars
  PROVE  IInv'
<1>1. ASSUME NEW t \in Threads, Step(t) PROVE IInv'
  <2>1. ASSUME NEW j_o \in todo, Take(t, j_o) PROVE IInv'
    BY <2>1, TakeIInv
  <2>2. CASE Multiply(t)
    BY <2>2, MultiplyIInv
  <2>3. CASE Load(t)
    BY <2>3, LoadIInv
  <2>4. CASE Store(t)
    BY <2>4, StoreIInv
  <2>5. QED
    BY <1>1, <2>1, <2>2, <2>3, <2>4 DEF Step
<1>2. CASE UNCHANGED vars
  BY <1>2 DEF vars, IInv, TypeOK, OwnIteration, InGroup
<1>3. QED
  BY <1>1, <1>2 DEF Next, Done

LEMMA IInvSafe ==
  ASSUME Divisible, IInv
  PROVE  InBounds /\ NoLostUpdate
<1>1. at \in [Threads -> Counters]
  BY DEF IInv, TypeOK
<1>2. InBounds
  BY <1>1, GroupInBounds DEF InBounds, IInv
<1>3. NoLostUpdate
  <2> SUFFICES ASSUME NEW t \in Threads, NEW u \in Threads,
                      t # u, pc[t] = "store", pc[u] \in {"load", "store"}
               PROVE  OutBlock(at[t]) # OutBlock(at[u])
    BY DEF NoLostUpdate
  <2>1. at[t] \in Counters /\ at[u] \in Counters /\ InGroup(at[t]) /\ InGroup(at[u])
    BY <1>1 DEF IInv
  <2>2. at[t].j_o # at[u].j_o
    BY DEF IInv, OwnIteration
  <2>3. QED
    BY <2>1, <2>2, ColumnsApart
<1>4. QED
  BY <1>2, <1>3

-----------------------------------------------------------------------------
LEMMA Invariance == ASSUME Divisible PROVE Spec => []IInv
<1>1. Init => IInv
  BY InitIInv
<1>2. IInv /\ [Next]_vars => IInv'
  BY NextIInv
<1>3. QED
  BY <1>1, <1>2, PTL DEF Spec

\* Every counter, temporary and output block of sparse_blis keeps its shape, however the
\* OpenMP team is scheduled (the loop nest of src/sparse_blis.c).
THEOREM SparseBlisTypes == ASSUME Divisible PROVE Spec => []TypeOK
<1>1. IInv => TypeOK
  BY DEF IInv
<1>2. QED
  BY <1>1, Invariance, PTL

\* When the groups of blocks divide the matrices, the inner loops of sparse_blis, which test
\* no bound, never leave the arrays of blocks.
THEOREM SparseBlisInBounds == ASSUME Divisible PROVE Spec => []InBounds
<1>1. IInv => InBounds
  BY IInvSafe
<1>2. QED
  BY <1>1, Invariance, PTL

\* No thread of sparse_blis writes an output block between another's read and write of it,
\* for every team and every schedule: the columns of two iterations never meet.
THEOREM SparseBlisNoLostUpdate == ASSUME Divisible PROVE Spec => []NoLostUpdate
<1>1. IInv => NoLostUpdate
  BY IInvSafe
<1>2. QED
  BY <1>1, Invariance, PTL
-----------------------------------------------------------------------------
(* Every product is added once.                                             *)

LEMMA CountFacts ==
  /\ BlockM \in Nat /\ BlockN \in Nat /\ BlockK \in Nat
  /\ BLOCK_I \in Nat \ {0} /\ BLOCK_J \in Nat \ {0} /\ BLOCK_P \in Nat \ {0}
  BY CountAssumption

\* Every block is in a group.
LEMMA GroupOf ==
  ASSUME NEW b \in Nat \ {0}, NEW count \in Nat, NEW x \in Nat, x < count
  PROVE  \E s \in Starts(b, count) : s <= x /\ x < s + b
<1>1. PICK m \in Nat, r \in 0 .. b - 1 : x = (b * m) + r
  BY Facts!DivMod
<1>2. b * m \in Nat /\ b * m <= x /\ x < (b * m) + b
  BY <1>1
<1>3. (b * m) % b = 0
  BY <1>1
<1>4. b * m \in Starts(b, count)
  BY <1>2, <1>3 DEF Starts
<1>5. QED
  BY <1>2, <1>4

\* Every column of blocks is in an iteration of the parallel loop.
LEMMA ColumnsCovered ==
  ASSUME NEW b \in Rows \X Cols
  PROVE  \E j_o \in Starts(BLOCK_J, BlockN) : InColumns(j_o, b)
<1>1. b[2] \in Nat /\ b[2] < BlockN
  BY CountFacts DEF Cols
<1>2. QED
  BY <1>1, CountFacts, GroupOf DEF InColumns

\* The columns of two iterations do not meet.
LEMMA IterationsApart ==
  ASSUME NEW x \in Starts(BLOCK_J, BlockN), NEW y \in Starts(BLOCK_J, BlockN),
         NEW b \in Rows \X Cols, InColumns(x, b), InColumns(y, b)
  PROVE  x = y
<1>1. /\ x \in Nat /\ x % BLOCK_J = 0 /\ y \in Nat /\ y % BLOCK_J = 0
      /\ b[2] \in Nat
  BY CountFacts DEF Starts, Cols
<1>2. x < y => x + BLOCK_J <= y
  BY <1>1, CountFacts, Facts!StartsApart
<1>3. y < x => y + BLOCK_J <= x
  BY <1>1, CountFacts, Facts!StartsApart
<1>4. QED
  BY <1>1, <1>2, <1>3, CountFacts DEF InColumns

\* At the start of an iteration nothing has been passed.
LEMMA HomePassed ==
  ASSUME NEW j_o \in Nat, NEW b \in Rows \X Cols, NEW p \in Inner, InColumns(j_o, b)
  PROVE  ~Passed(Home(j_o), b, p)
<1>1. b[1] \in Nat /\ b[2] \in Nat /\ p \in Nat
  BY CountFacts DEF Rows, Cols, Inner
<1>2. /\ Home(j_o).p_o = 0 /\ Home(j_o).i_o = 0
      /\ BlockI(Home(j_o)) = 0 /\ BlockJ(Home(j_o)) = j_o
  BY DEF Home, BlockI, BlockJ
<1>3. QED
  BY <1>1, <1>2, CountFacts DEF Passed, InColumns

\* The temporary is of a block that the thread has not passed with this group.
LEMMA HereNotPassed ==
  ASSUME NEW c \in Counters, NEW p \in Inner, c.p_o <= p
  PROVE  ~Passed(c, OutBlock(c), p)
<1>1. p \in Nat
  BY CountFacts DEF Inner
<1>2. OutBlock(c)[1] = c.i_o + c.i_i /\ OutBlock(c)[2] = c.j_o + c.j_i
  BY DEF OutBlock, BlockI, BlockJ
<1>3. QED
  BY <1>1, <1>2, CountFacts DEF Passed, BlockI, BlockJ, Counters

\* Going on to the next temporary passes the block of this one, and nothing else.
LEMMA AdvancePassed ==
  ASSUME NEW c \in Counters, InGroup(c), NEW b \in Rows \X Cols, NEW p \in Inner,
         InColumns(c.j_o, b)
  PROVE  Passed(Advance(c), b, p) <=>
           \/ Passed(c, b, p)
           \/ b = OutBlock(c) /\ c.p_o <= p /\ p < c.p_o + BLOCK_P
<1>0. /\ BlockM \in Nat /\ BlockN \in Nat /\ BlockK \in Nat
      /\ BLOCK_I \in Nat \ {0} /\ BLOCK_J \in Nat \ {0} /\ BLOCK_P \in Nat \ {0}
  BY CountAssumption
<1>1. /\ p \in Nat /\ p < BlockK /\ b = <<b[1], b[2]>>
      /\ b[1] \in Nat /\ b[1] < BlockM /\ b[2] \in Nat
      /\ c.j_o <= b[2] /\ b[2] < c.j_o + BLOCK_J
  BY <1>0 DEF Rows, Cols, Inner, InColumns
<1>2. /\ c.i_o \in Nat /\ c.j_o \in Nat /\ c.p_o \in Nat /\ c.i_i \in Nat /\ c.j_i \in Nat
      /\ c.i_i < BLOCK_I /\ c.j_i < BLOCK_J
  BY DEF Counters, InGroup
<1>3. b = OutBlock(c) <=> b[1] = c.i_o + c.i_i /\ b[2] = c.j_o + c.j_i
  BY <1>1 DEF OutBlock, BlockI, BlockJ
<1> DEFINE d == [c EXCEPT !.p_i = 0]
<1>4. CASE c.i_i + 1 < BLOCK_I
  <2>1. Advance(c) = [d EXCEPT !.i_i = @ + 1]
    BY <1>0, <1>2, <1>4 DEF Advance
  <2>2. Advance(c) = [j_o |-> c.j_o, p_o |-> c.p_o, i_o |-> c.i_o,
                      j_i |-> c.j_i, i_i |-> c.i_i + 1, p_i |-> 0]
    BY <2>1 DEF Counters
  <2>3. QED
    BY <1>0, <1>1, <1>2, <1>3, <1>4, <2>2 DEF Passed, BlockI, BlockJ
<1>5. CASE c.i_i + 1 >= BLOCK_I /\ c.j_i + 1 < BLOCK_J
  <2>1. ~(c.i_i + 1 < BLOCK_I)
    BY <1>0, <1>2, <1>5
  <2>2. Advance(c) = [d EXCEPT !.i_i = 0, !.j_i = @ + 1]
    BY <1>0, <1>2, <1>5, <2>1 DEF Advance
  <2>3. Advance(c) = [j_o |-> c.j_o, p_o |-> c.p_o, i_o |-> c.i_o,
                      j_i |-> c.j_i + 1, i_i |-> 0, p_i |-> 0]
    BY <2>2 DEF Counters
  <2>4. QED
    BY <1>0, <1>1, <1>2, <1>3, <1>5, <2>3 DEF Passed, BlockI, BlockJ
<1>6. CASE c.i_i + 1 >= BLOCK_I /\ c.j_i + 1 >= BLOCK_J /\ c.i_o + BLOCK_I < BlockM
  <2>1. ~(c.i_i + 1 < BLOCK_I) /\ ~(c.j_i + 1 < BLOCK_J)
    BY <1>0, <1>2, <1>6
  <2>2. Advance(c) = [d EXCEPT !.i_i = 0, !.j_i = 0, !.i_o = @ + BLOCK_I]
    BY <1>0, <1>2, <1>6, <2>1 DEF Advance
  <2>3. Advance(c) = [j_o |-> c.j_o, p_o |-> c.p_o, i_o |-> c.i_o + BLOCK_I,
                      j_i |-> 0, i_i |-> 0, p_i |-> 0]
    BY <2>2 DEF Counters
  <2>4. QED
    BY <1>0, <1>1, <1>2, <1>3, <1>6, <2>3 DEF Passed, BlockI, BlockJ
<1>7. CASE c.i_i + 1 >= BLOCK_I /\ c.j_i + 1 >= BLOCK_J /\ ~(c.i_o + BLOCK_I < BlockM)
  <2>1. ~(c.i_i + 1 < BLOCK_I) /\ ~(c.j_i + 1 < BLOCK_J)
    BY <1>0, <1>2, <1>7
  <2>2. Advance(c) = [d EXCEPT !.i_i = 0, !.j_i = 0, !.i_o = 0, !.p_o = @ + BLOCK_P]
    BY <1>0, <1>2, <1>7, <2>1 DEF Advance
  <2>3. Advance(c) = [j_o |-> c.j_o, p_o |-> c.p_o + BLOCK_P, i_o |-> 0,
                      j_i |-> 0, i_i |-> 0, p_i |-> 0]
    BY <2>2 DEF Counters
  <2>4. QED
    BY <1>0, <1>1, <1>2, <1>3, <1>7, <2>3 DEF Passed, BlockI, BlockJ
<1>8. QED
  <2>1. /\ c.i_i + 1 < BLOCK_I \/ c.i_i + 1 >= BLOCK_I
        /\ c.j_i + 1 < BLOCK_J \/ c.j_i + 1 >= BLOCK_J
    BY <1>0, <1>2
  <2> HIDE DEF d
  <2>2. QED
    BY <1>4, <1>5, <1>6, <1>7, <2>1

\* One iteration of the loop over block_p_i gathers its product.
LEMMA ProductGathers ==
  ASSUME NoneOverwrites, Divisible, NEW c \in Counters, InGroup(c), c.p_i < BLOCK_P,
         NEW sum \in Bag, \A p \in Inner : sum[p] = IF Gathered(c, p) THEN 1 ELSE 0
  PROVE  LET d == [c EXCEPT !.p_i = @ + 1]
         IN  \A p \in Inner : Product(sum, BlockI(c), BlockP(c), BlockJ(c))[p]
                                = IF Gathered(d, p) THEN 1 ELSE 0
<1> DEFINE d == [c EXCEPT !.p_i = @ + 1]
           here == BlockP(c)
<1>1. /\ OutBlock(d) = OutBlock(c) /\ d.p_o = c.p_o /\ d.p_i = c.p_i + 1
      /\ c.p_o \in Nat /\ c.p_i \in Nat
  BY DEF Counters, OutBlock, BlockI, BlockJ
<1>2. OutBlock(c) \in Rows \X Cols /\ here \in Inner
  BY GroupInBounds
<1>3. BlockI(c) \in Rows /\ BlockJ(c) \in Cols
  BY <1>2 DEF OutBlock
<1>4. Terms[OutBlock(c)] = {p \in Inner : NonZeroProduct(BlockI(c), p, BlockJ(c))}
  BY <1>2 DEF Terms, OutBlock
<1>5. here = c.p_o + c.p_i
  BY DEF BlockP
<1>6. sum[here] = 0
  <2>1. ~Gathered(c, here)
    BY <1>1, <1>5 DEF Gathered
  <2>2. QED
    BY <1>2, <2>1
<1>7. ASSUME NEW p \in Inner, p # here
      PROVE  Gathered(d, p) <=> Gathered(c, p)
  <2>1. p \in Nat
    BY CountFacts DEF Inner
  <2>2. QED
    BY <1>1, <1>5, <1>7, <2>1 DEF Gathered
<1>8. Gathered(d, here) <=> NonZeroProduct(BlockI(c), here, BlockJ(c))
  BY <1>1, <1>2, <1>4, <1>5 DEF Gathered
<1>9. Product(sum, BlockI(c), here, BlockJ(c))
        = IF NonZeroProduct(BlockI(c), here, BlockJ(c)) THEN [sum EXCEPT ![here] = @ + 1] ELSE sum
  BY <1>2, <1>3 DEF Product, NoneOverwrites
<1> HIDE DEF d, here
<1>10. ASSUME NEW p \in Inner
       PROVE  Product(sum, BlockI(c), here, BlockJ(c))[p] = IF Gathered(d, p) THEN 1 ELSE 0
  <2>1. CASE p = here
    BY <1>2, <1>6, <1>8, <1>9, <2>1 DEF Bag
  <2>2. CASE p # here
    BY <1>2, <1>7, <1>9, <2>2 DEF Bag
  <2>3. QED
    BY <2>1, <2>2
<1>11. QED
  BY <1>10 DEF d, here

LEMMA InitProducts == Init => ProductsInv
<1> SUFFICES ASSUME Init PROVE ProductsInv
  OBVIOUS
<1>1. \A t \in Threads : pc[t] = "idle"
  BY DEF Init
<1>2. ASSUME NEW b \in Rows \X Cols, NEW p \in Inner
      PROVE  output[b][p] = IF Added(b, p) THEN 1 ELSE 0
  <2>1. PICK j_o \in todo : InColumns(j_o, b)
    BY ColumnsCovered DEF Init
  <2>2. ~Added(b, p)
    BY <2>1 DEF Added
  <2>3. output[b][p] = 0
    BY DEF Init, Zero
  <2>4. QED
    BY <2>2, <2>3
<1>3. QED
  BY <1>1, <1>2 DEF ProductsInv

\* A thread is alone in the columns of its iteration, so what is in the output there is what it passed.
LEMMA AloneInColumns ==
  ASSUME IInv, NEW t \in Threads, pc[t] # "idle", NEW b \in Rows \X Cols, InColumns(at[t].j_o, b)
  PROVE  /\ \A j_o \in todo : ~InColumns(j_o, b)
         /\ \A u \in Threads : u # t /\ pc[u] # "idle" => ~InColumns(at[u].j_o, b)
<1>1. at[t].j_o \in Starts(BLOCK_J, BlockN) /\ OwnIteration(t)
  BY DEF IInv, InGroup
<1>2. todo \subseteq Starts(BLOCK_J, BlockN)
  BY DEF IInv, TypeOK
<1>3. ASSUME NEW j_o \in todo PROVE ~InColumns(j_o, b)
  BY <1>1, <1>2, IterationsApart DEF OwnIteration
<1>4. ASSUME NEW u \in Threads, u # t, pc[u] # "idle" PROVE ~InColumns(at[u].j_o, b)
  <2>1. at[u].j_o \in Starts(BLOCK_J, BlockN)
    BY <1>4 DEF IInv, InGroup
  <2>2. at[u].j_o # at[t].j_o
    BY <1>1, <1>4 DEF OwnIteration
  <2>3. QED
    BY <1>1, <2>1, <2>2, IterationsApart
<1>5. QED
  BY <1>3, <1>4

LEMMA TakeProducts ==
  ASSUME IInv, ProductsInv, NEW t \in Threads, NEW j_o \in todo, Take(t, j_o)
  PROVE  ProductsInv'
<1>1. TypeOK /\ pc[t] = "idle" /\ j_o \in Nat
  BY CountFacts DEF IInv, TypeOK, Take, Starts
<1>2. /\ at'[t] = Home(j_o) /\ temp'[t] = Zero
      /\ pc'[t] = IF BlockK > 0 /\ BlockM > 0 THEN "multiply" ELSE "idle"
      /\ todo' = todo \ {j_o} /\ loaded' = loaded /\ output' = output
  BY <1>1 DEF Take, TypeOK
<1>3. \A u \in Threads : u # t => at'[u] = at[u] /\ pc'[u] = pc[u] /\ temp'[u] = temp[u]
  BY <1>1 DEF Take, TypeOK
<1>4. ASSUME NEW b \in Rows \X Cols, NEW p \in Inner
      PROVE  Added(b, p)' <=> Added(b, p)
  <2>1. pc'[t] = "multiply"
    BY <1>2, CountFacts DEF Rows, Inner
  <2>2. Home(j_o).j_o = j_o
    BY DEF Home
  <2>3. CASE InColumns(j_o, b)
    <3>1. ~Passed(at'[t], b, p)
      BY <1>1, <1>2, <2>3, HomePassed
    <3>2. ~Added(b, p)'
      BY <1>2, <2>1, <2>2, <2>3, <3>1 DEF Added
    <3>3. QED
      BY <2>3, <3>2 DEF Added
  <2>4. CASE ~InColumns(j_o, b)
    BY <1>1, <1>2, <1>3, <2>2, <2>4 DEF Added
  <2>5. QED
    BY <2>3, <2>4
<1>5. \A p \in Inner : temp'[t][p] = IF Gathered(at'[t], p) THEN 1 ELSE 0
  <2> SUFFICES ASSUME NEW p \in Inner PROVE temp'[t][p] = IF Gathered(at'[t], p) THEN 1 ELSE 0
    OBVIOUS
  <2>1. ~Gathered(Home(j_o), p)
    BY CountFacts DEF Gathered, Home, Inner
  <2>2. QED
    BY <1>2, <2>1 DEF Zero
<1>6. ASSUME NEW u \in Threads, pc'[u] # "idle"
      PROVE  /\ pc'[u] # "multiply" => at'[u].p_i = BLOCK_P
             /\ \A p \in Inner : temp'[u][p] = IF Gathered(at'[u], p) THEN 1 ELSE 0
             /\ pc'[u] = "store" => loaded'[u] = output'[OutBlock(at'[u])]
  <2>1. CASE u = t
    BY <1>2, <1>5, <1>6, <2>1
  <2>2. CASE u # t
    BY <1>2, <1>3, <1>6, <2>2 DEF ProductsInv
  <2>3. QED
    BY <2>1, <2>2
<1>7. QED
  BY <1>2, <1>4, <1>6 DEF ProductsInv, Gathered

LEMMA MultiplyProducts ==
  ASSUME NoneOverwrites, Divisible, IInv, ProductsInv, NEW t \in Threads, Multiply(t)
  PROVE  ProductsInv'
<1>1. /\ at[t] \in Counters /\ temp[t] \in Bag /\ InGroup(at[t]) /\ at[t].p_i < BLOCK_P
      /\ pc[t] = "multiply" /\ TypeOK
  BY DEF IInv, TypeOK, Multiply
<1> DEFINE c == [at[t] EXCEPT !.p_i = @ + 1]
           sum == Product(temp[t], BlockI(at[t]), BlockP(at[t]), BlockJ(at[t]))
<1>2. /\ at'[t] = c /\ temp'[t] = sum
      /\ pc'[t] = IF at[t].p_i + 1 < BLOCK_P THEN "multiply" ELSE "load"
      /\ todo' = todo /\ loaded' = loaded /\ output' = output
  BY <1>1 DEF Multiply, TypeOK
<1>3. \A u \in Threads : u # t => at'[u] = at[u] /\ pc'[u] = pc[u] /\ temp'[u] = temp[u]
  BY <1>1 DEF Multiply, TypeOK
<1>4. /\ c.j_o = at[t].j_o /\ c.p_o = at[t].p_o /\ c.i_o = at[t].i_o
      /\ c.j_i = at[t].j_i /\ c.i_i = at[t].i_i /\ c.p_i = at[t].p_i + 1
  BY <1>1 DEF Counters
<1>5. \A p \in Inner : sum[p] = IF Gathered(c, p) THEN 1 ELSE 0
  BY <1>1, ProductGathers DEF ProductsInv
<1>6. pc'[t] # "multiply" => c.p_i = BLOCK_P
  BY <1>1, <1>2, <1>4, CountFacts DEF Counters
<1> HIDE DEF c, sum
<1>7. ASSUME NEW b \in Rows \X Cols, NEW p \in Inner
      PROVE  Added(b, p)' <=> Added(b, p)
  <2>1. Passed(c, b, p) <=> Passed(at[t], b, p)
    BY <1>4 DEF Passed, BlockI, BlockJ
  <2>2. QED
    BY <1>1, <1>2, <1>3, <1>4, <2>1 DEF Added
<1>8. ASSUME NEW u \in Threads, pc'[u] # "idle"
      PROVE  /\ pc'[u] # "multiply" => at'[u].p_i = BLOCK_P
             /\ \A p \in Inner : temp'[u][p] = IF Gathered(at'[u], p) THEN 1 ELSE 0
             /\ pc'[u] = "store" => loaded'[u] = output'[OutBlock(at'[u])]
  <2>1. CASE u = t
    BY <1>2, <1>5, <1>6, <2>1
  <2>2. CASE u # t
    BY <1>2, <1>3, <1>8, <2>2 DEF ProductsInv
  <2>3. QED
    BY <2>1, <2>2
<1>9. QED
  BY <1>2, <1>7, <1>8 DEF ProductsInv, Gathered

LEMMA LoadProducts ==
  ASSUME Divisible, IInv, ProductsInv, NEW t \in Threads, Load(t)
  PROVE  ProductsInv'
<1>1. TypeOK /\ pc[t] = "load"
  BY DEF IInv, Load
<1>2. /\ at' = at /\ temp' = temp /\ todo' = todo /\ output' = output
      /\ pc'[t] = "store" /\ loaded'[t] = output[OutBlock(at[t])]
  BY <1>1 DEF Load, TypeOK
<1>3. \A u \in Threads : u # t => pc'[u] = pc[u] /\ loaded'[u] = loaded[u]
  BY <1>1 DEF Load, TypeOK
<1>4. ASSUME NEW b \in Rows \X Cols, NEW p \in Inner
      PROVE  Added(b, p)' <=> Added(b, p)
  BY <1>1, <1>2, <1>3 DEF Added
<1>5. ASSUME NEW u \in Threads, pc'[u] # "idle"
      PROVE  /\ pc'[u] # "multiply" => at'[u].p_i = BLOCK_P
             /\ \A p \in Inner : temp'[u][p] = IF Gathered(at'[u], p) THEN 1 ELSE 0
             /\ pc'[u] = "store" => loaded'[u] = output'[OutBlock(at'[u])]
  <2>1. CASE u = t
    BY <1>1, <1>2, <2>1 DEF ProductsInv
  <2>2. CASE u # t
    BY <1>2, <1>3, <1>5, <2>2 DEF ProductsInv
  <2>3. QED
    BY <2>1, <2>2
<1>6. QED
  BY <1>2, <1>4, <1>5 DEF ProductsInv, Gathered

\* What a thread writes back: the products that it gathered for its block, once each, and nothing else.
LEMMA StoreProducts ==
  ASSUME Divisible, IInv, ProductsInv, NEW t \in Threads, Store(t)
  PROVE  ProductsInv'
<1>0. /\ BlockK \in Nat /\ BLOCK_P \in Nat \ {0}
  BY CountAssumption
<1>1. at[t] \in Counters /\ InGroup(at[t]) /\ pc[t] = "store" /\ TypeOK
  BY DEF IInv, TypeOK, Store
<1> DEFINE c == Advance(at[t])
           here == OutBlock(at[t])
<1>2. /\ c \in Counters /\ c.j_o = at[t].j_o /\ c.p_i = 0
  BY <1>1, AdvanceFacts
<1>3. /\ at'[t] = c /\ temp'[t] = Zero
      /\ pc'[t] = IF c.p_o < BlockK THEN "multiply" ELSE "idle"
      /\ todo' = todo /\ loaded' = loaded
  BY <1>1 DEF Store, TypeOK
<1>4. \A u \in Threads : u # t => at'[u] = at[u] /\ pc'[u] = pc[u] /\ temp'[u] = temp[u]
  BY <1>1 DEF Store, TypeOK
<1>5. here \in Rows \X Cols /\ InColumns(at[t].j_o, here)
  <2>1. here \in Rows \X Cols
    BY <1>1, GroupInBounds
  <2>2. here[2] = at[t].j_o + at[t].j_i
    BY DEF OutBlock, BlockJ
  <2>3. InColumns(at[t].j_o, here)
    BY <1>1, <2>2, CountFacts DEF InColumns, Counters, InGroup
  <2>4. QED
    BY <2>1, <2>3
<1>6. output' = [output EXCEPT ![here] = [p \in Inner |-> loaded[t][p] + temp[t][p]]]
  BY DEF Store
<1>7. /\ loaded[t] = output[here] /\ at[t].p_i = BLOCK_P
      /\ \A p \in Inner : temp[t][p] = IF Gathered(at[t], p) THEN 1 ELSE 0
  BY <1>1 DEF ProductsInv
<1> HIDE DEF c, here
<1>8. ASSUME NEW b \in Rows \X Cols, NEW p \in Inner, InColumns(at[t].j_o, b)
      PROVE  /\ Added(b, p) <=> p \in Terms[b] /\ Passed(at[t], b, p)
             /\ Added(b, p)' <=> p \in Terms[b] /\ Passed(c, b, p)
  <2>1. /\ \A j_o \in todo : ~InColumns(j_o, b)
        /\ \A u \in Threads : u # t /\ pc[u] # "idle" => ~InColumns(at[u].j_o, b)
    BY <1>1, <1>8, AloneInColumns
  <2>2. pc'[t] = "idle" => Passed(c, b, p)
    <3>1. p \in Nat /\ p < BlockK
      BY <1>0 DEF Inner
    <3>2. c.p_o \in Nat
      BY <1>2 DEF Counters
    <3>3. QED
      BY <1>0, <1>3, <3>1, <3>2 DEF Passed
  <2>3. Added(b, p) <=> p \in Terms[b] /\ Passed(at[t], b, p)
    BY <1>1, <1>8, <2>1 DEF Added
  <2>4. Added(b, p)' <=> p \in Terms[b] /\ Passed(c, b, p)
    BY <1>2, <1>3, <1>4, <1>8, <2>1, <2>2 DEF Added
  <2>5. QED
    BY <2>3, <2>4
<1>9. ASSUME NEW b \in Rows \X Cols, NEW p \in Inner
      PROVE  output'[b][p] = IF Added(b, p)' THEN 1 ELSE 0
  <2>0. output \in [Rows \X Cols -> Bag] /\ output[b][p] = IF Added(b, p) THEN 1 ELSE 0
    BY <1>1 DEF TypeOK, ProductsInv
  <2>1. CASE ~InColumns(at[t].j_o, b)
    <3>1. b # here /\ output'[b] = output[b]
      BY <1>5, <1>6, <2>0, <2>1
    <3>2. Added(b, p)' <=> Added(b, p)
      BY <1>1, <1>2, <1>3, <1>4, <2>1 DEF Added
    <3>3. QED
      BY <2>0, <3>1, <3>2
  <2>2. CASE InColumns(at[t].j_o, b) /\ b # here
    <3>1. output'[b] = output[b]
      BY <1>6, <2>0, <2>2
    <3>2. Passed(c, b, p) <=> Passed(at[t], b, p)
      BY <1>1, <2>2, AdvancePassed DEF c, here
    <3>3. QED
      BY <1>8, <2>0, <2>2, <3>1, <3>2
  <2>3. CASE b = here
    <3>1. output'[b][p] = output[b][p] + temp[t][p]
      BY <1>6, <1>7, <2>0, <2>3
    <3>2. InColumns(at[t].j_o, b)
      BY <1>5, <2>3
    <3>3. Passed(c, b, p) <=> Passed(at[t], b, p) \/ (at[t].p_o <= p /\ p < at[t].p_o + BLOCK_P)
      BY <1>1, <2>3, <3>2, AdvancePassed DEF c, here
    <3>4. at[t].p_o <= p => ~Passed(at[t], b, p)
      BY <1>1, <2>3, HereNotPassed DEF here
    <3>5. Gathered(at[t], p) <=> p \in Terms[b] /\ at[t].p_o <= p /\ p < at[t].p_o + BLOCK_P
      BY <1>7, <2>3 DEF Gathered, here
    <3>6. temp[t][p] = IF Gathered(at[t], p) THEN 1 ELSE 0
      BY <1>7
    <3>7. Added(b, p)' <=> Added(b, p) \/ Gathered(at[t], p)
      BY <1>8, <3>2, <3>3, <3>5
    <3>8. ~(Added(b, p) /\ Gathered(at[t], p))
      BY <1>8, <3>2, <3>4, <3>5
    <3>9. QED
      BY <2>0, <3>1, <3>6, <3>7, <3>8
  <2>4. QED
    BY <1>5, <2>1, <2>2, <2>3
<1>10. \A p \in Inner : ~Gathered(c, p)
  BY <1>2 DEF Gathered, Inner, Counters
<1>11. ASSUME NEW u \in Threads, pc'[u] # "idle"
       PROVE  /\ pc'[u] # "multiply" => at'[u].p_i = BLOCK_P
              /\ \A p \in Inner : temp'[u][p] = IF Gathered(at'[u], p) THEN 1 ELSE 0
              /\ pc'[u] = "store" => loaded'[u] = output'[OutBlock(at'[u])]
  <2>1. CASE u = t
    BY <1>3, <1>10, <1>11, <2>1 DEF Zero
  <2>2. CASE u # t
    <3>1. pc[u] # "idle" /\ at'[u] = at[u] /\ pc'[u] = pc[u] /\ temp'[u] = temp[u]
      BY <1>4, <1>11, <2>2
    <3>2. at[u] \in Counters /\ InGroup(at[u]) /\ at[u].j_o # at[t].j_o
      BY <1>1, <2>2, <3>1 DEF IInv, TypeOK, OwnIteration
    <3>3. OutBlock(at[u]) # here
      BY <1>1, <3>2, ColumnsApart DEF here
    <3>4. OutBlock(at[u]) \in Rows \X Cols
      BY <3>2, GroupInBounds
    <3>5. output'[OutBlock(at[u])] = output[OutBlock(at[u])]
      BY <1>1, <1>6, <3>3, <3>4 DEF TypeOK
    <3>6. QED
      BY <1>3, <3>1, <3>5 DEF ProductsInv
  <2>3. QED
    BY <2>1, <2>2
<1>12. QED
  BY <1>9, <1>11 DEF ProductsInv, Gathered

LEMMA NextProducts ==
  ASSUME NoneOverwrites, Divisible, IInv, ProductsInv, [Next]_vars
  PROVE  ProductsInv'
<1>1. ASSUME NEW t \in Threads, Step(t) PROVE ProductsInv'
  <2>1. ASSUME NEW j_o \in todo, Take(t, j_o) PROVE ProductsInv'
    BY <2>1, TakeProducts
  <2>2. CASE Multiply(t)
    BY <2>2, MultiplyProducts
  <2>3. CASE Load(t)
    BY <2>3, LoadProducts
  <2>4. CASE Store(t)
    BY <2>4, StoreProducts
  <2>5. QED
    BY <1>1, <2>1, <2>2, <2>3, <2>4 DEF Step
<1>2. CASE UNCHANGED vars
  BY <1>2 DEF vars, ProductsInv, Added, Gathered
<1>3. QED
  BY <1>1, <1>2 DEF Next, Done

LEMMA ProductsInvariance == ASSUME NoneOverwrites, Divisible PROVE Spec => []ProductsInv
<1>1. Init => ProductsInv
  BY InitProducts
<1>2. IInv /\ ProductsInv /\ [Next]_vars => ProductsInv'
  BY NextProducts
<1>3. Spec => []IInv
  BY Invariance
<1>4. QED
  BY <1>1, <1>2, <1>3, PTL DEF Spec

LEMMA ProductsMatch == ASSUME TypeOK, ProductsInv PROVE MatchesReference
<1> SUFFICES ASSUME Finished PROVE output = Abstract!Reference
  BY DEF MatchesReference
<1>1. output \in [Rows \X Cols -> Bag]
  BY DEF TypeOK
<1>2. ASSUME NEW b \in Rows \X Cols, NEW p \in Inner
      PROVE  output[b][p] = Abstract!Sum(Terms[b])[p]
  <2>1. Added(b, p) <=> p \in Terms[b]
    BY DEF Finished, Added
  <2>2. QED
    BY <2>1 DEF ProductsInv, Abstract!Sum
<1>3. ASSUME NEW b \in Rows \X Cols
      PROVE  output[b] = Abstract!Sum(Terms[b])
  <2>1. output[b] = [p \in Inner |-> output[b][p]]
    BY <1>1 DEF Bag
  <2>2. Abstract!Sum(Terms[b]) = [p \in Inner |-> Abstract!Sum(Terms[b])[p]]
    BY DEF Abstract!Sum
  <2>3. QED
    BY <1>2, <2>1, <2>2
<1>4. QED
  BY <1>1, <1>3 DEF Abstract!Reference

\* The write of a temporary adds to its output block products that were not in it yet.
LEMMA StoreAccumulates ==
  ASSUME Divisible, IInv, ProductsInv, NEW t \in Threads, Store(t)
  PROVE  Abstract!Next
<1> DEFINE here == OutBlock(at[t])
           terms == {p \in Inner : Gathered(at[t], p)}
<1>1. at[t] \in Counters /\ InGroup(at[t]) /\ pc[t] = "store" /\ output \in [Rows \X Cols -> Bag]
  BY DEF IInv, TypeOK, Store
<1>2. here \in Rows \X Cols
  BY <1>1, GroupInBounds
<1>3. InColumns(at[t].j_o, here)
  <2>1. here[2] = at[t].j_o + at[t].j_i
    BY DEF OutBlock, BlockJ
  <2>2. QED
    BY <1>1, <2>1, CountFacts DEF InColumns, Counters, InGroup
<1>4. terms \subseteq Terms[here]
  BY DEF Gathered
<1>5. \A p \in terms : output[here][p] = 0
  <2> SUFFICES ASSUME NEW p \in Inner, Gathered(at[t], p) PROVE output[here][p] = 0
    OBVIOUS
  <2>1. ~Passed(at[t], here, p)
    BY <1>1, HereNotPassed DEF Gathered
  <2>2. ~Added(here, p)
    BY <1>1, <1>3, <2>1 DEF Added
  <2>3. QED
    BY <1>2, <2>2 DEF ProductsInv
<1>6. output' = [output EXCEPT ![here] = [p \in Inner |-> output[here][p] + Abstract!Sum(terms)[p]]]
  <2>1. output' = [output EXCEPT ![here] = [p \in Inner |-> loaded[t][p] + temp[t][p]]]
    BY DEF Store
  <2>2. /\ loaded[t] = output[here]
        /\ \A p \in Inner : temp[t][p] = IF Gathered(at[t], p) THEN 1 ELSE 0
    BY <1>1 DEF ProductsInv
  <2>3. \A p \in Inner : temp[t][p] = Abstract!Sum(terms)[p]
    BY <2>2 DEF Abstract!Sum
  <2> HIDE DEF here, terms
  <2>4. QED
    BY <2>1, <2>2, <2>3
<1>7. Abstract!Accumulate(here, terms)
  BY <1>1, <1>2, <1>4, <1>5, <1>6 DEF Abstract!Accumulate
<1>8. terms \in SUBSET Inner
  OBVIOUS
<1>9. QED
  BY <1>2, <1>7, <1>8 DEF Abstract!Next

\* When the parallel loop of sparse_blis has ended, each non-zero product of inner blocks is in its
\* output block once, whatever the team, the schedule and the sizes ("All entries match reference").
\* Only the kernel that stores instead of adding, coo_x_csc, is left out.
THEOREM SparseBlisMatchesReference ==
  ASSUME NoneOverwrites, Divisible PROVE Spec => []MatchesReference
<1>1. IInv /\ ProductsInv => MatchesReference
  BY ProductsMatch DEF IInv
<1>2. Spec => []IInv
  BY Invariance
<1>3. Spec => []ProductsInv
  BY ProductsInvariance
<1>4. QED
  BY <1>1, <1>2, <1>3, PTL

\* Of the steps of a thread only a store changes the output.
LEMMA OnlyStoreWrites == [Next]_vars /\ (\A t \in Threads : ~Store(t)) => output' = output
  BY DEF Next, Step, Take, Multiply, Load, Done, vars

\* The loop nest, its temporaries and its unprotected updates implement a blocked product that
\* adds each product to its output block in one step: sparse_blis against what it promises.
THEOREM SparseBlisRefines == ASSUME NoneOverwrites, Divisible PROVE Spec => Refines
<1>1. Init => Abstract!Init
  BY DEF Init, Abstract!Init, Abstract!Sum, Zero
<1>2. IInv /\ ProductsInv /\ [Next]_vars => [Abstract!Next]_output
  <2> SUFFICES ASSUME IInv, ProductsInv, [Next]_vars PROVE [Abstract!Next]_output
    OBVIOUS
  <2>1. CASE \E t \in Threads : Store(t)
    <3>1. Abstract!Next
      BY <2>1, StoreAccumulates
    <3>2. QED
      BY <3>1
  <2>2. CASE \A t \in Threads : ~Store(t)
    <3>1. output' = output
      BY <2>2, OnlyStoreWrites
    <3>2. QED
      BY <3>1
  <2>3. QED
    BY <2>1, <2>2
<1>3. Spec => []IInv
  BY Invariance
<1>4. Spec => []ProductsInv
  BY ProductsInvariance
<1>5. QED
  BY <1>1, <1>2, <1>3, <1>4, PTL DEF Spec, Refines, Abstract!Spec
=============================================================================
