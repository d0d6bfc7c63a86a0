----------------------------- MODULE SparseBlis -----------------------------
(***************************************************************************)
(* sparse_blis of src/sparse_blis.c: the blocked loop nest that OpenMP     *)
(* divides between threads.  A block product is one step; the values are   *)
(* abstracted to which products of inner blocks a block of the output or a *)
(* temporary holds, and how often.  The update of an output block with the *)
(* temporary is a load and a store, so that two threads at one block would *)
(* lose each other's products.                                             *)
(***************************************************************************)
EXTENDS Integers, FiniteSets

CONSTANTS
  Threads,                        \* the OpenMP team
  BlockM, BlockN, BlockK,         \* block_m, block_n, block_k
  BLOCK_I, BLOCK_J, BLOCK_P,      \* MC / MR, NC / NR, KC / KU
  LeftFormat, RightFormat,        \* format of each block, by <<row, col>>
  LeftNonZero, RightNonZero       \* the blocks that have non-zero values

Formats == {"MAT_DENSE", "MAT_CSR", "MAT_CSC", "MAT_COO"}
Rows  == 0 .. BlockM - 1
Cols  == 0 .. BlockN - 1
Inner == 0 .. BlockK - 1

ASSUME CountAssumption ==
  /\ BlockM \in Nat /\ BlockN \in Nat /\ BlockK \in Nat
  /\ BLOCK_I \in Nat \ {0} /\ BLOCK_J \in Nat \ {0} /\ BLOCK_P \in Nat \ {0}
ASSUME FormatAssumption ==
  /\ LeftFormat \in [Rows \X Inner -> Formats]
  /\ RightFormat \in [Inner \X Cols -> Formats]
  /\ LeftNonZero \subseteq Rows \X Inner
  /\ RightNonZero \subseteq Inner \X Cols

VARIABLES
  todo,    \* the values of block_j_o no thread has taken
  pc,      \* per thread: "idle", "multiply", "load" or "store"
  at,      \* per thread: its loop counters
  temp,    \* per thread: how often each product is in the temporary block
  loaded,  \* per thread: the output block it read before adding the temporary
  output   \* output[i, j][p]: how often the product at p is in block (i, j)

vars == <<todo, pc, at, temp, loaded, output>>

\* Planted bug: the last group of blocks is not reached.
BugStarts(step, count) == {x \in 0 .. count - 1 - step : x % step = 0}

\* Planted bug: the groups of blocks overlap.
BugStartsStep(step, count) == {x \in 0 .. count - 1 : step > 0}

Starts(step, count) == {x \in 0 .. count - 1 : x % step = 0}

Zero == [p \in Inner |-> 0]
Home(j_o) == [j_o |-> j_o, p_o |-> 0, i_o |-> 0, j_i |-> 0, i_i |-> 0, p_i |-> 0]

BlockI(c) == c.i_o + c.i_i
BlockJ(c) == c.j_o + c.j_i
BlockP(c) == c.p_o + c.p_i
OutBlock(c) == <<BlockI(c), BlockJ(c)>>

\* The pairs of formats whose kernel stores a sum instead of adding it (coo_x_csc).
Overwrites(lf, rf) == lf = "MAT_COO" /\ rf = "MAT_CSC"

NonZeroProduct(i, p, j) == <<i, p>> \in LeftNonZero /\ <<p, j>> \in RightNonZero

\* do_sparse_matmul: nothing to add when an operand is empty, else the kernel of the two formats.
Product(sum, i, p, j) ==
  IF ~NonZeroProduct(i, p, j) THEN sum
  ELSE IF Overwrites(LeftFormat[i, p], RightFormat[p, j]) THEN [Zero EXCEPT ![p] = 1]
  ELSE [sum EXCEPT ![p] = @ + 1]

Init ==
  /\ todo = Starts(BLOCK_J, BlockN)
  /\ pc = [t \in Threads |-> "idle"]
  /\ at = [t \in Threads |-> Home(0)]
  /\ temp = [t \in Threads |-> Zero]
  /\ loaded = [t \in Threads |-> Zero]
  /\ output = [b \in Rows \X Cols |-> Zero]

\* Planted bug: the iteration stays for other threads to take.
BugTake(t, j_o) ==
  /\ pc[t] = "idle" /\ j_o \in todo
  /\ at' = [at EXCEPT ![t] = Home(j_o)]
  /\ temp' = [temp EXCEPT ![t] = Zero]
  /\ pc' = [pc EXCEPT ![t] = "multiply"]
  /\ UNCHANGED <<todo, loaded, output>>

\* A thread of the team takes an iteration of the parallel loop (the schedule is OpenMP's choice).
Take(t, j_o) ==
  /\ pc[t] = "idle" /\ j_o \in todo
  /\ todo' = todo \ {j_o}
  /\ at' = [at EXCEPT ![t] = Home(j_o)]
  /\ temp' = [temp EXCEPT ![t] = Zero]
  /\ pc' = [pc EXCEPT ![t] = IF BlockK > 0 /\ BlockM > 0 THEN "multiply" ELSE "idle"]
  /\ UNCHANGED <<loaded, output>>

\* One iteration of the loop over block_p_i.
Multiply(t) ==
  LET c == at[t] IN
  /\ pc[t] = "multiply"
  /\ temp' = [temp EXCEPT ![t] = Product(@, BlockI(c), BlockP(c), BlockJ(c))]
  /\ at' = [at EXCEPT ![t].p_i = @ + 1]
  /\ pc' = [pc EXCEPT ![t] = IF c.p_i + 1 < BLOCK_P THEN "multiply" ELSE "load"]
  /\ UNCHANGED <<todo, loaded, output>>

\* "Update output with temp": the read ...
Load(t) ==
  /\ pc[t] = "load"
  /\ loaded' = [loaded EXCEPT ![t] = output[OutBlock(at[t])]]
  /\ pc' = [pc EXCEPT ![t] = "store"]
  /\ UNCHANGED <<todo, at, temp, output>>

\* The counters of the next temporary block; the loop has ended when p_o reaches BlockK.
Advance(c) ==
  LET d == [c EXCEPT !.p_i = 0] IN
  CASE c.i_i + 1 < BLOCK_I -> [d EXCEPT !.i_i = @ + 1]
    [] c.i_i + 1 >= BLOCK_I /\ c.j_i + 1 < BLOCK_J -> [d EXCEPT !.i_i = 0, !.j_i = @ + 1]
    [] c.i_i + 1 >= BLOCK_I /\ c.j_i + 1 >= BLOCK_J /\ c.i_o + BLOCK_I < BlockM ->
         [d EXCEPT !.i_i = 0, !.j_i = 0, !.i_o = @ + BLOCK_I]
    [] OTHER -> [d EXCEPT !.i_i = 0, !.j_i = 0, !.i_o = 0, !.p_o = @ + BLOCK_P]

\* Planted bug: the temporary keeps its products for the next block.
BugStore(t) ==
  LET c == Advance(at[t]) IN
  /\ pc[t] = "store"
  /\ output' = [output EXCEPT ![OutBlock(at[t])] = [p \in Inner |-> loaded[t][p] + temp[t][p]]]
  /\ at' = [at EXCEPT ![t] = c]
  /\ pc' = [pc EXCEPT ![t] = IF c.p_o < BlockK THEN "multiply" ELSE "idle"]
  /\ UNCHANGED <<todo, temp, loaded>>

\* Planted bug: the temporary is subtracted.
BugStoreSign(t) ==
  LET c == Advance(at[t]) IN
  /\ pc[t] = "store"
  /\ output' = [output EXCEPT ![OutBlock(at[t])] = [p \in Inner |-> loaded[t][p] - temp[t][p]]]
  /\ at' = [at EXCEPT ![t] = c]
  /\ temp' = [temp EXCEPT ![t] = Zero]
  /\ pc' = [pc EXCEPT ![t] = IF c.p_o < BlockK THEN "multiply" ELSE "idle"]
  /\ UNCHANGED <<todo, loaded>>

\* ... and the write, then on to the next block with a temporary of zeros.
Store(t) ==
  LET c == Advance(at[t]) IN
  /\ pc[t] = "store"
  /\ output' = [output EXCEPT ![OutBlock(at[t])] = [p \in Inner |-> loaded[t][p] + temp[t][p]]]
  /\ at' = [at EXCEPT ![t] = c]
  /\ temp' = [temp EXCEPT ![t] = Zero]
  /\ pc' = [pc EXCEPT ![t] = IF c.p_o < BlockK THEN "multiply" ELSE "idle"]
  /\ UNCHANGED <<todo, loaded>>

Finished == todo = {} /\ \A t \in Threads : pc[t] = "idle"

\* The implicit barrier: sparse_blis returns.
Done == Finished /\ UNCHANGED vars

Step(t) == (\E j_o \in todo : Take(t, j_o)) \/ Multiply(t) \/ Load(t) \/ Store(t)

Next == (\E t \in Threads : Step(t)) \/ Done

Spec == Init /\ [][Next]_vars

\* Every thread of the team runs: the OS schedules each of them.
FairSpec == Spec /\ \A t \in Threads : WF_vars(Step(t))

-----------------------------------------------------------------------------
Bag == [Inner -> Nat]
Counters == [j_o : Nat, p_o : Nat, i_o : Nat, j_i : Nat, i_i : Nat, p_i : Nat]

\* The shape of every variable.
TypeOK ==
  /\ todo \subseteq Starts(BLOCK_J, BlockN)
  /\ pc \in [Threads -> {"idle", "multiply", "load", "store"}]
  /\ at \in [Threads -> Counters]
  /\ temp \in [Threads -> Bag] /\ loaded \in [Threads -> Bag]
  /\ output \in [Rows \X Cols -> Bag]

\* Every block a thread is about to read or write exists: the loops step by whole
\* groups of blocks and test only the first block of a group.
InBounds ==
  \A t \in Threads : pc[t] # "idle" =>
    /\ OutBlock(at[t]) \in Rows \X Cols
    /\ pc[t] = "multiply" => BlockP(at[t]) \in Inner

\* Between its read and its write of an output block a thread is alone at that
\* block, though nothing but the division of the columns keeps others away.
NoLostUpdate ==
  \A t, u \in Threads :
    /\ t # u /\ pc[t] = "store" /\ pc[u] \in {"load", "store"}
    => OutBlock(at[t]) # OutBlock(at[u])

Terms == [b \in Rows \X Cols |-> {p \in Inner : NonZeroProduct(b[1], p, b[2])}]

\* The blocked loop nest is a blocked product: each non-zero product is added once.
Abstract == INSTANCE BlockProduct WITH
  Rows <- Rows, Cols <- Cols, Inner <- Inner, Terms <- Terms, output <- output
Refines == Abstract!Spec

\* "All entries match reference" (the check of --verify): when the parallel loop
\* has ended, the output is the product, none of its terms missing or twice.
MatchesReference == Finished => output = Abstract!Reference

\* The parallel loop ends, with the whole product in the output.
Terminates == <>(Finished /\ output = Abstract!Reference)

-----------------------------------------------------------------------------
(* The inductive invariant behind InBounds and NoLostUpdate.               *)

\* What the loops of sparse_blis presuppose and never test: groups divide the counts.
Divisible == BlockM % BLOCK_I = 0 /\ BlockN % BLOCK_J = 0 /\ BlockK % BLOCK_P = 0

\* The outer counters stand at the first block of a group, the inner ones stay inside it.
InGroup(c) ==
  /\ c.i_o \in Starts(BLOCK_I, BlockM) /\ c.i_i < BLOCK_I
  /\ c.j_o \in Starts(BLOCK_J, BlockN) /\ c.j_i < BLOCK_J
  /\ c.p_o \in Starts(BLOCK_P, BlockK)

\* A thread that works has an iteration of its own, which no one can take again.
OwnIteration(t) ==
  /\ at[t].j_o \notin todo
  /\ \A u \in Threads : u # t /\ pc[u] # "idle" => at[u].j_o # at[t].j_o

IInv ==
  /\ TypeOK
  /\ \A t \in Threads : pc[t] # "idle" =>
       /\ InGroup(at[t])
       /\ pc[t] = "multiply" => at[t].p_i < BLOCK_P
       /\ OwnIteration(t)
-----------------------------------------------------------------------------
(* The inductive invariant behind MatchesReference and Refines.            *)

\* The kernel that stores instead of adding meets no product that counts.
NoneOverwrites ==
  \A i \in Rows, p \in Inner, j \in Cols :
    NonZeroProduct(i, p, j) => ~Overwrites(LeftFormat[i, p], RightFormat[p, j])

\* The columns of blocks of an iteration of the parallel loop.
InColumns(j_o, b) == j_o <= b[2] /\ b[2] < j_o + BLOCK_J

\* A thread at c has been at block b of its columns with the inner block p.
Passed(c, b, p) ==
  \/ p < c.p_o
  \/ /\ p < c.p_o + BLOCK_P
     /\ \/ b[1] < c.i_o
        \/ b[1] < c.i_o + BLOCK_I /\ b[2] < BlockJ(c)
        \/ b[1] < BlockI(c) /\ b[2] = BlockJ(c)

\* The products that are in the output by now: no one is still to take their columns, and
\* the thread that is in them has passed.
Added(b, p) ==
  /\ p \in Terms[b]
  /\ \A j_o \in todo : ~InColumns(j_o, b)
  /\ \A t \in Threads : pc[t] # "idle" /\ InColumns(at[t].j_o, b) => Passed(at[t], b, p)

\* The products of the current group that are in the temporary by now.
Gathered(c, p) == p \in Terms[OutBlock(c)] /\ c.p_o <= p /\ p < c.p_o + c.p_i

ProductsInv ==
  /\ \A b \in Rows \X Cols, p \in Inner : output[b][p] = IF Added(b, p) THEN 1 ELSE 0
  /\ \A t \in Threads : pc[t] # "idle" =>
       /\ pc[t] # "multiply" => at[t].p_i = BLOCK_P
       /\ \A p \in Inner : temp[t][p] = IF Gathered(at[t], p) THEN 1 ELSE 0
       /\ pc[t] = "store" => loaded[t] = output[OutBlock(at[t])]
=============================================================================
