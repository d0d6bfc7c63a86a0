--------------------------- MODULE BlisMainProofs ---------------------------
(* What TLAPS proves about BlisMain, the main program of src/sparse_blis.c,  *)
(* for every team of threads, every block size and every set of files.       *)
EXTENDS BlisMain, KernelProofs

-----------------------------------------------------------------------------
(* The better of the testers.                                              *)

\* One tester has ended with a least time, or has failed.
LEMMA NextTesterBest ==
  ASSUME BestInv, pc \in {"new_wave", "testing"}, NEW time \in 0 .. Never, NextTester(time)
  PROVE  BestInv'
<1>0. Never \in Nat /\ Testers = {0, 1}
  BY BoundAssumption DEF Never, Testers
<1>1. /\ tester_index \in Testers /\ min_tester_index \in Testers
      /\ min \in [Testers -> 0 .. Never] /\ min_time \in 0 .. Never
      /\ \A t \in Testers : min_time <= min[t]
      /\ min[min_tester_index] = min_time
      /\ \A t \in Testers : tester_index <= t => min[t] = Never
  BY DEF BestInv
<1>2. /\ min' = [min EXCEPT ![tester_index] = time]
      /\ tester_index' = IF tester_index = 0 THEN 1 ELSE tester_index
      /\ pc' = IF tester_index = 0 THEN "new_wave" ELSE "report"
  BY <1>0, <1>1 DEF NextTester
<1>3. \/ time < min_time /\ min_time' = time /\ min_tester_index' = tester_index
      \/ ~(time < min_time) /\ min_time' = min_time /\ min_tester_index' = min_tester_index
  BY DEF NextTester, Better
<1>4. min' \in [Testers -> 0 .. Never] /\ tester_index' \in Testers
  BY <1>0, <1>1, <1>2
<1>5. min[tester_index] = Never
  BY <1>0, <1>1
<1>6. /\ min_tester_index' \in Testers /\ min_time' \in 0 .. Never
      /\ \A t \in Testers : min_time' <= min'[t]
      /\ min'[min_tester_index'] = min_time'
  BY <1>0, <1>1, <1>2, <1>3, <1>5
<1>7. pc' # "report" => \A t \in Testers : tester_index' <= t => min'[t] = Never
  BY <1>0, <1>1, <1>2
<1>8. QED
  BY <1>2, <1>4, <1>6, <1>7 DEF BestInv

LEMMA InitBest == Init => BestInv
<1>0. Never \in Nat
  BY BoundAssumption DEF Never
<1>1. QED
  BY <1>0 DEF Init, BestInv, Testers

LEMMA NextBest == BestInv /\ [Next]_vars => BestInv'
<1> SUFFICES ASSUME BestInv, [Next]_vars PROVE BestInv'
  OBVIOUS
<1>0. Never \in Nat /\ \A time \in 0 .. MaxTime : time \in 0 .. Never
  BY BoundAssumption DEF Never
<1>1. ASSUME UNCHANGED <<tester_index, min, min_time, min_tester_index>>,
             \/ pc' = pc
             \/ pc \in {"load", "block", "new_wave", "testing", "csr"}
             \/ pc' \in {"verify", "verified", "exit", "aborted", "report"}
      PROVE  BestInv'
  BY <1>1 DEF BestInv
<1>2. CASE Load \/ LoadFails \/ Block \/ BlockNext
  BY <1>1, <1>2 DEF Load, LoadFails, Block, BlockNext, testVars
<1>3. ASSUME NEW counters_open \in BOOLEAN, NewWave(counters_open) PROVE BestInv'
  <2>1. CASE counters_open
    BY <1>1, <1>3, <2>1 DEF NewWave, testVars
  <2>2. CASE ~counters_open
    <3>1. pc = "new_wave" /\ NextTester(Never) /\ Never \in 0 .. Never
      BY <1>0, <1>3, <2>2 DEF NewWave
    <3>2. QED
      BY <3>1, NextTesterBest
  <2>3. QED
    BY <2>1, <2>2
<1>4. CASE StartCsr \/ FinishCsr
  BY <1>1, <1>4 DEF StartCsr, FinishCsr, testVars
<1>5. CASE RunBlocked
  BY <1>1, <1>5 DEF RunBlocked
<1>6. ASSUME NEW t \in Threads, Thread(t) PROVE BestInv'
  BY <1>1, <1>6 DEF Thread, testVars
<1>7. ASSUME NEW dies, NEW stray, StartCsrUnfit(dies, stray) PROVE BestInv'
  BY <1>1, <1>7 DEF StartCsrUnfit
<1>8. ASSUME NEW time \in 0 .. MaxTime, Complete(time) PROVE BestInv'
  BY <1>0, <1>8, NextTesterBest DEF Complete
<1>9. ASSUME NEW verify, Report(verify) PROVE BestInv'
  BY <1>1, <1>9 DEF Report, testVars
<1>10. CASE Verify
  BY <1>1, <1>10 DEF Verify, testVars
<1>11. CASE UNCHANGED vars
  BY <1>1, <1>11 DEF vars, testVars
<1>12. QED
  BY <1>2, <1>3, <1>4, <1>5, <1>6, <1>7, <1>8, <1>9, <1>10, <1>11 DEF Next, Done

\* However the testers do and whichever of them fail, the tester that main reports has the least
\* time of all, so that no difference of unsigned times is below zero.
THEOREM BlisMainBestIsLeast == Spec => []BestIsLeast
<1>1. BestInv => BestIsLeast
  BY DEF BestInv, BestIsLeast
<1>2. QED
  BY <1>1, InitBest, NextBest, PTL DEF Spec

-----------------------------------------------------------------------------
(* The blocks that multi_sparsify addresses.                               *)

\* The sizes of the matrix being blocked, its blocks and their groups.
LEMMA BlockCounts ==
  ASSUME GroupsDivide, run \in Runs, solution = Solution(run.file), NEW s \in {"left", "right"},
         MultiSparsify!Divides(s)
  PROVE  /\ blocking[s].inner_step \in Nat \ {0} /\ blocking[s].outer_step \in Nat \ {0}
         /\ MultiSparsify!BlocksRowCount(s) \in Nat /\ MultiSparsify!BlocksColCount(s) \in Nat
         /\ MultiSparsify!BlocksRowCount(s) % blocking[s].inner_step = 0
         /\ MultiSparsify!BlocksColCount(s) % blocking[s].outer_step = 0
<1>1. /\ blocking[s].inner_step \in Nat \ {0} /\ blocking[s].outer_step \in Nat \ {0}
      /\ blocking[s].row_count \in Nat \ {0} /\ blocking[s].col_count \in Nat \ {0}
  BY BlockAssumption DEF blocking
<1>2. /\ solution[s].row_count \in Nat /\ solution[s].col_count \in Nat
      /\ solution[s].row_count % blocking[s].row_count = 0 =>
           (solution[s].row_count \div blocking[s].row_count) % blocking[s].inner_step = 0
      /\ solution[s].col_count % blocking[s].col_count = 0 =>
           (solution[s].col_count \div blocking[s].col_count) % blocking[s].outer_step = 0
  BY DEF GroupsDivide
<1>3. solution[s].row_count % blocking[s].row_count = 0 /\ solution[s].col_count % blocking[s].col_count = 0
  BY DEF MultiSparsify!Divides
<1>4. /\ solution[s].row_count \div blocking[s].row_count \in Nat
      /\ solution[s].col_count \div blocking[s].col_count \in Nat
  BY <1>1, <1>2, DivMod
<1>5. QED
  BY <1>1, <1>2, <1>3, <1>4 DEF MultiSparsify!BlocksRowCount, MultiSparsify!BlocksColCount

\* The loops begin only where there are blocks.
LEMMA NextSideBegins ==
  ASSUME GroupsDivide, run \in Runs, solution = Solution(run.file),
         MultiSparsify!Divides("left"), MultiSparsify!Divides("right"), NEW s \in {"left", "right"}
  PROVE  LET next == MultiSparsify!NextSide(s) IN
         /\ next \in {"left", "right", "done"}
         /\ next # "done" => InGroup(next, MultiSparsify!Home)
<1>1. ASSUME NEW u \in {"left", "right"}, MultiSparsify!BlockCount(u) > 0
      PROVE  InGroup(u, MultiSparsify!Home)
  <2> DEFINE rows == MultiSparsify!BlocksRowCount(u)
             cols == MultiSparsify!BlocksColCount(u)
  <2>1. /\ blocking[u].inner_step \in Nat \ {0} /\ blocking[u].outer_step \in Nat \ {0}
        /\ rows \in Nat /\ cols \in Nat
    <3>1. MultiSparsify!Divides(u)
      OBVIOUS
    <3>2. QED
      BY <3>1, BlockCounts
  <2>2. rows * cols > 0
    BY <1>1 DEF MultiSparsify!BlockCount
  <2>3. rows > 0 /\ cols > 0
    <3>1. CASE rows = 0
      BY <2>1, <2>2, <3>1
    <3>2. CASE cols = 0
      BY <2>1, <2>2, <3>2
    <3>3. QED
      BY <2>1, <3>1, <3>2
  <2>4. 0 % blocking[u].inner_step = 0 /\ 0 % blocking[u].outer_step = 0
    BY <2>1
  <2>5. QED
    BY <2>1, <2>3, <2>4 DEF InGroup, Starts, MultiSparsify!Home
<1>2. QED
  BY <1>1 DEF MultiSparsify!NextSide, MultiSparsify!Sides

\* The counters of the next block stay in groups until the outer loop ends.
LEMMA AdvanceInGroup ==
  ASSUME GroupsDivide, run \in Runs, solution = Solution(run.file), NEW s \in {"left", "right"},
         MultiSparsify!Divides(s), NEW c, InGroup(s, c),
         ~(MultiSparsify!Advance(s, c).outer >= MultiSparsify!BlocksColCount(s))
  PROVE  InGroup(s, MultiSparsify!Advance(s, c))
<1> DEFINE rows == MultiSparsify!BlocksRowCount(s)
           cols == MultiSparsify!BlocksColCount(s)
           b == blocking[s]
<1>1. /\ b.inner_step \in Nat \ {0} /\ b.outer_step \in Nat \ {0}
      /\ rows \in Nat /\ cols \in Nat
  BY BlockCounts
<1>2. /\ c \in [outer : Nat, inner : Nat, inner_i : Nat, outer_i : Nat]
      /\ c.inner \in 0 .. rows - 1 /\ c.inner % b.inner_step = 0
      /\ c.outer \in 0 .. cols - 1 /\ c.outer % b.outer_step = 0
      /\ c.inner_i < b.inner_step /\ c.outer_i < b.outer_step
  BY DEF InGroup, Starts
<1>3. /\ (c.inner + b.inner_step) % b.inner_step = 0
      /\ (c.outer + b.outer_step) % b.outer_step = 0
      /\ 0 % b.inner_step = 0
  <2>1. c.inner \in Nat /\ c.outer \in Nat
    BY <1>2
  <2>2. (c.inner + b.inner_step) % b.inner_step = 0
    BY <1>1, <1>2, <2>1, NextMultiple
  <2>3. (c.outer + b.outer_step) % b.outer_step = 0
    BY <1>1, <1>2, <2>1, NextMultiple
  <2>4. QED
    BY <1>1, <2>2, <2>3
<1>4. c = [outer |-> c.outer, inner |-> c.inner, inner_i |-> c.inner_i, outer_i |-> c.outer_i]
  BY <1>2
<1>5. CASE c.outer_i + 1 < b.outer_step
  <2>1. MultiSparsify!Advance(s, c) =
          [outer |-> c.outer, inner |-> c.inner, inner_i |-> c.inner_i, outer_i |-> c.outer_i + 1]
    BY <1>2, <1>5 DEF MultiSparsify!Advance
  <2>2. QED
    BY <1>1, <1>2, <1>5, <2>1 DEF InGroup, Starts
<1>6. CASE ~(c.outer_i + 1 < b.outer_step) /\ c.inner_i + 1 < b.inner_step
  <2>1. MultiSparsify!Advance(s, c) =
          [outer |-> c.outer, inner |-> c.inner, inner_i |-> c.inner_i + 1, outer_i |-> 0]
    BY <1>2, <1>6 DEF MultiSparsify!Advance
  <2>2. QED
    BY <1>1, <1>2, <1>6, <2>1 DEF InGroup, Starts
<1>7. CASE /\ ~(c.outer_i + 1 < b.outer_step) /\ ~(c.inner_i + 1 < b.inner_step)
           /\ c.inner + b.inner_step < rows
  <2>1. MultiSparsify!Advance(s, c) =
          [outer |-> c.outer, inner |-> c.inner + b.inner_step, inner_i |-> 0, outer_i |-> 0]
    BY <1>2, <1>7 DEF MultiSparsify!Advance
  <2>2. QED
    BY <1>1, <1>2, <1>3, <1>7, <2>1 DEF InGroup, Starts
<1>8. CASE /\ ~(c.outer_i + 1 < b.outer_step) /\ ~(c.inner_i + 1 < b.inner_step)
           /\ ~(c.inner + b.inner_step < rows)
  <2>1. MultiSparsify!Advance(s, c) =
          [outer |-> c.outer + b.outer_step, inner |-> 0, inner_i |-> 0, outer_i |-> 0]
    BY <1>2, <1>8 DEF MultiSparsify!Advance, MultiSparsify!Home
  <2>2. c.outer + b.outer_step < cols
    BY <1>1, <1>2, <2>1
  <2>3. QED
    BY <1>1, <1>2, <1>3, <1>8, <2>1, <2>2 DEF InGroup, Starts
<1>9. QED
  BY <1>5, <1>6, <1>7, <1>8

LEMMA InitBlocks == Init => BlocksInv
  BY DEF Init, BlocksInv

LEMMA NextBlocks == ASSUME GroupsDivide PROVE BlocksInv /\ [Next]_vars => BlocksInv'
<1> SUFFICES ASSUME BlocksInv, [Next]_vars PROVE BlocksInv'
  OBVIOUS
<1>1. CASE Load
  BY <1>1 DEF Load, BlocksInv, blockVars
<1>2. ASSUME run' = run, pc' # "load", pc' # "block" PROVE BlocksInv'
  BY <1>2 DEF BlocksInv
<1>3. CASE Block
  <2>1. run' = run /\ pc = "block" /\ solution = Solution(run.file) /\ run \in Runs
    BY <1>3 DEF Block, BlocksInv
  <2>2. CASE ~(MultiSparsify!Divides("left") /\ MultiSparsify!Divides("right"))
    BY <1>2, <1>3, <2>1, <2>2 DEF Block
  <2>3. CASE MultiSparsify!Divides("left") /\ MultiSparsify!Divides("right")
    <3>1. /\ pc' = "block" /\ solution' = solution
          /\ side' = MultiSparsify!NextSide("left") /\ at' = MultiSparsify!Home
      BY <1>3, <2>1, <2>3 DEF Block, MultiSparsify!Start
    <3>2. /\ side' \in {"left", "right", "done"}
          /\ side' # "done" => InGroup(side', at')
      BY <2>1, <2>3, <3>1, NextSideBegins
    <3>3. /\ MultiSparsify!Divides("left")' /\ MultiSparsify!Divides("right")'
          /\ side' # "done" => InGroup(side, at)'
      BY <2>3, <3>1, <3>2 DEF MultiSparsify!Divides, InGroup, MultiSparsify!BlocksRowCount, MultiSparsify!BlocksColCount
    <3>4. QED
      BY <2>1, <3>1, <3>2, <3>3 DEF BlocksInv
  <2>4. QED
    BY <2>2, <2>3
<1>4. CASE BlockNext
  <2>1. /\ run' = run /\ pc = "block" /\ solution = Solution(run.file) /\ run \in Runs
        /\ MultiSparsify!Divides("left") /\ MultiSparsify!Divides("right")
        /\ side \in {"left", "right", "done"}
        /\ side # "done" => InGroup(side, at)
    BY <1>4 DEF BlockNext, BlocksInv
  <2>2. CASE side = "done"
    BY <1>2, <1>4, <2>1, <2>2 DEF BlockNext
  <2>3. CASE side # "done"
    <3> DEFINE next == MultiSparsify!Advance(side, at)
    <3>1. /\ pc' = "block" /\ solution' = solution
          /\ IF next.outer >= MultiSparsify!BlocksColCount(side)
             THEN at' = MultiSparsify!Home /\ side' = IF side = "left" THEN MultiSparsify!NextSide("right") ELSE "done"
             ELSE at' = next /\ side' = side
      BY <1>4, <2>1, <2>3 DEF BlockNext, MultiSparsify!PackBlock
    <3>2. /\ side' \in {"left", "right", "done"}
          /\ side' # "done" => InGroup(side', at')
      <4>1. CASE next.outer >= MultiSparsify!BlocksColCount(side)
        <5>1. LET other == MultiSparsify!NextSide("right") IN
              /\ other \in {"left", "right", "done"}
              /\ other # "done" => InGroup(other, MultiSparsify!Home)
          BY <2>1, NextSideBegins
        <5>2. QED
          BY <3>1, <4>1, <5>1
      <4>2. CASE ~(next.outer >= MultiSparsify!BlocksColCount(side))
        <5>1. side \in {"left", "right"} /\ MultiSparsify!Divides(side) /\ InGroup(side, at)
          BY <2>1, <2>3
        <5>2. InGroup(side, next)
          BY <2>1, <4>2, <5>1, AdvanceInGroup
        <5>3. QED
          BY <3>1, <4>2, <5>1, <5>2
      <4>3. QED
        BY <4>1, <4>2
    <3>3. /\ MultiSparsify!Divides("left")' /\ MultiSparsify!Divides("right")'
          /\ side' # "done" => InGroup(side, at)'
      BY <2>1, <3>1, <3>2 DEF MultiSparsify!Divides, InGroup, MultiSparsify!BlocksRowCount, MultiSparsify!BlocksColCount
    <3>4. QED
      BY <2>1, <3>1, <3>2, <3>3 DEF BlocksInv
  <2>4. QED
    BY <2>2, <2>3
<1>5. CASE LoadFails
  BY <1>2, <1>5 DEF LoadFails
<1>6. ASSUME NEW time, pc \in {"new_wave", "testing"}, NextTester(time), run' = run PROVE BlocksInv'
  BY <1>2, <1>6 DEF NextTester
<1>7. ASSUME NEW counters_open \in BOOLEAN, NewWave(counters_open) PROVE BlocksInv'
  BY <1>2, <1>6, <1>7 DEF NewWave
<1>8. CASE StartCsr \/ FinishCsr
  BY <1>2, <1>8 DEF StartCsr, FinishCsr
<1>9. CASE RunBlocked
  <2>1. run' = run /\ pc' \in {"testing", "aborted"}
    BY <1>9 DEF RunBlocked
  <2>2. QED
    BY <1>2, <2>1
<1>10. ASSUME NEW t \in Threads, Thread(t) PROVE BlocksInv'
  BY <1>2, <1>10 DEF Thread
<1>11. ASSUME NEW dies, NEW stray, StartCsrUnfit(dies, stray) PROVE BlocksInv'
  <2>1. run' = run /\ pc' \in {"testing", "aborted"}
    BY <1>11 DEF StartCsrUnfit
  <2>2. QED
    BY <1>2, <2>1
<1>12. ASSUME NEW time \in 0 .. MaxTime, Complete(time) PROVE BlocksInv'
  BY <1>6, <1>12 DEF Complete
<1>13. ASSUME NEW verify, Report(verify) PROVE BlocksInv'
  BY <1>2, <1>13 DEF Report
<1>14. CASE Verify
  BY <1>2, <1>14 DEF Verify
<1>15. CASE UNCHANGED vars
  <2>1. UNCHANGED <<run, pc, solution, side, at>>
    BY <1>15 DEF vars, blockVars
  <2>2. QED
    BY <2>1 DEF BlocksInv, InGroup, MultiSparsify!Divides, MultiSparsify!BlocksRowCount, MultiSparsify!BlocksColCount
<1>16. QED
  BY <1>1, <1>3, <1>4, <1>5, <1>7, <1>8, <1>9, <1>10, <1>11, <1>12, <1>13, <1>14, <1>15 DEF Next, Done

\* When groups divide the block counts of every matrix that is blocked, the four loops of
\* multi_sparsify, of which the inner two test no bound, address only blocks that exist, for any
\* sizes of blocks, groups and matrices.
THEOREM BlisMainBlocksInBounds == ASSUME GroupsDivide PROVE Spec => []BlocksInBounds
<1>1. BlocksInv => BlocksInBounds
  <2> SUFFICES ASSUME BlocksInv, pc = "block", at # <<>>, side # "done"
               PROVE  MultiSparsify!BlocksInBounds
    BY DEF BlocksInBounds, MultiSparsify!BlocksInBounds
  <2> DEFINE rows == MultiSparsify!BlocksRowCount(side)
             cols == MultiSparsify!BlocksColCount(side)
             b == blocking[side]
  <2>1. /\ run \in Runs /\ solution = Solution(run.file)
        /\ side \in {"left", "right"} /\ MultiSparsify!Divides(side) /\ InGroup(side, at)
    BY DEF BlocksInv
  <2>2. /\ b.inner_step \in Nat \ {0} /\ b.outer_step \in Nat \ {0}
        /\ rows \in Nat /\ cols \in Nat /\ rows % b.inner_step = 0 /\ cols % b.outer_step = 0
    BY <2>1, BlockCounts
  <2>3. /\ at \in [outer : Nat, inner : Nat, inner_i : Nat, outer_i : Nat]
        /\ at.inner \in 0 .. rows - 1 /\ at.inner % b.inner_step = 0
        /\ at.outer \in 0 .. cols - 1 /\ at.outer % b.outer_step = 0
        /\ at.inner_i < b.inner_step /\ at.outer_i < b.outer_step
    BY <2>1 DEF InGroup, Starts
  <2>4. at.inner + b.inner_step <= rows /\ at.outer + b.outer_step <= cols
    <3>1. at.inner \in Nat /\ at.outer \in Nat /\ at.inner < rows /\ at.outer < cols
      BY <2>2, <2>3
    <3>2. QED
      BY <2>2, <2>3, <3>1, StartsApart
  <2>5. /\ at.inner \in Nat /\ at.inner_i \in Nat /\ at.outer \in Nat /\ at.outer_i \in Nat
        /\ at.inner_i < b.inner_step /\ at.outer_i < b.outer_step
    BY <2>3
  <2> HIDE DEF rows, cols, b
  <2>6. at.inner + at.inner_i < rows /\ at.outer + at.outer_i < cols
    BY <2>2, <2>4, <2>5
  <2>7. QED
    BY <2>6 DEF rows, cols, MultiSparsify!BlocksInBounds, MultiSparsify!BlockRow, MultiSparsify!BlockCol
<1>2. QED
  BY <1>1, InitBlocks, NextBlocks, PTL DEF Spec

-----------------------------------------------------------------------------
(* The updates of the threads of csr_x_csr_parallel.                       *)

LEMMA InSequence ==
  ASSUME NEW E, NEW s \in Seq(E), NEW p \in 1 .. Len(s)
  PROVE  s[p] \in E
  OBVIOUS

\* The matrix of a file, as CSR.
LEMMA CsrOfFile ==
  ASSUME EntriesInRange, NEW r \in Runs, NEW s \in {"left", "right"}
  PROVE  LET m == Solution(r.file)[s]
             u == CooToFormat(m.coo, m.row_count, m.col_count, "MAT_CSR").matrix
         IN  /\ m.row_count \in Nat /\ m.col_count \in Nat
             /\ u.row_count = m.row_count
             /\ \A row \in 0 .. m.row_count : u.row_pointers[row] \in 0 .. Len(m.coo)
             /\ \A p \in 1 .. Len(m.coo) : u.entries[p].index \in 0 .. m.col_count - 1
<1> DEFINE m == Solution(r.file)[s]
           u == CooToFormat(m.coo, m.row_count, m.col_count, "MAT_CSR").matrix
<1>1. /\ m.row_count \in Nat /\ m.col_count \in Nat
      /\ m.coo \in Seq([row : 0 .. m.row_count - 1, col : 0 .. m.col_count - 1, value : Int])
  BY DEF EntriesInRange
<1> HIDE DEF m
<1>2. /\ u.row_count = m.row_count
      /\ u.row_pointers = [row \in 0 .. m.row_count |-> Cardinality({j \in 1 .. (Len(m.coo) + 1) - 1 : m.coo[j].row < row})]
      /\ u.entries = [i \in DOMAIN m.coo |-> [index |-> m.coo[i].col, value |-> m.coo[i].value]]
  BY DEF CooToFormat, CsrFromCoo, Before
<1> HIDE DEF u
<1>3. Len(m.coo) \in Nat /\ DOMAIN m.coo = 1 .. Len(m.coo)
  BY <1>1
<1>4. ASSUME NEW row \in 0 .. m.row_count PROVE u.row_pointers[row] \in 0 .. Len(m.coo)
  <2> DEFINE S == {j \in 1 .. (Len(m.coo) + 1) - 1 : m.coo[j].row < row}
  <2>1. IsFiniteSet(1 .. Len(m.coo)) /\ Cardinality(1 .. Len(m.coo)) = Len(m.coo)
    BY <1>3, FS_Interval
  <2>2. S \subseteq 1 .. Len(m.coo)
    BY <1>3
  <2>3. IsFiniteSet(S) /\ Cardinality(S) <= Len(m.coo)
    BY <2>1, <2>2, FS_Subset
  <2>4. Cardinality(S) \in Nat
    BY <2>3, FS_CardinalityType
  <2>5. u.row_pointers[row] = Cardinality(S)
    BY <1>2
  <2> HIDE DEF S
  <2>6. QED
    BY <1>3, <2>3, <2>4, <2>5
<1>5. ASSUME NEW p \in 1 .. Len(m.coo) PROVE u.entries[p].index \in 0 .. m.col_count - 1
  <2>1. m.coo[p].col \in 0 .. m.col_count - 1
    <3>1. m.coo[p] \in [row : 0 .. m.row_count - 1, col : 0 .. m.col_count - 1, value : Int]
      BY <1>1, InSequence
    <3>2. QED
      BY <3>1
  <2>2. u.entries[p].index = m.coo[p].col
    BY <1>2, <1>3
  <2>3. QED
    BY <2>1, <2>2
<1>6. QED
  BY <1>1, <1>2, <1>4, <1>5 DEF m, u

\* What main has loaded, and the CSR product's visits of it.
Loaded ==
  /\ run \in Runs /\ solution = Solution(run.file) /\ Compatible
  /\ left_union = CooToFormat(solution.left.coo, solution.left.row_count, solution.left.col_count, "MAT_CSR")
  /\ right_union = CooToFormat(solution.right.coo, solution.right.row_count, solution.right.col_count, "MAT_CSR")

AllVisits == Csr!csr_x_csr(left_union.matrix, right_union.matrix)
OutputCells == (0 .. solution.left.row_count - 1) \X (0 .. solution.right.col_count - 1)

\* A visit goes to a cell of the output, comes from two positions, and is the only one of its
\* row that comes from them.
LEMMA VisitFacts ==
  ASSUME EntriesInRange, Loaded
  PROVE  /\ \A v \in AllVisits : v.at \in OutputCells /\ v.from[1] \in Nat /\ v.from[2] \in Nat
         /\ \A v, w \in AllVisits : v.at[1] = w.at[1] /\ v.from[1] = w.from[1] /\ v.from[2] = w.from[2] => v = w
<1> DEFINE L == left_union.matrix
           R == right_union.matrix
           Vis(row, i, j) == Csr!Visit(row, R.entries[j].index, i, j, L.entries[i].value, R.entries[j].value)
           n == solution.left.row_count
<1>1. ASSUME NEW v \in AllVisits
      PROVE  \E row \in 0 .. n - 1 : \E i \in Csr!RowSegment(L, row) : \E j \in Csr!RowSegment(R, L.entries[i].index) :
               v = Vis(row, i, j)
  <2>1. L.row_count = n
    BY CsrOfFile DEF Loaded
  <2>2. QED
    BY <2>1 DEF AllVisits, Csr!csr_x_csr
<1>2. ASSUME NEW row \in 0 .. n - 1, NEW i \in Csr!RowSegment(L, row), NEW j \in Csr!RowSegment(R, L.entries[i].index)
      PROVE  i \in Nat /\ j \in Nat /\ R.entries[j].index \in 0 .. solution.right.col_count - 1
  <2> DEFINE lm == solution.left
             rm == solution.right
  <2>1. /\ n \in Nat /\ lm.col_count \in Nat
        /\ \A x \in 0 .. n : L.row_pointers[x] \in 0 .. Len(lm.coo)
        /\ \A p \in 1 .. Len(lm.coo) : L.entries[p].index \in 0 .. lm.col_count - 1
    <3>1. /\ run \in Runs /\ lm = Solution(run.file)["left"]
          /\ L = CooToFormat(lm.coo, lm.row_count, lm.col_count, "MAT_CSR").matrix
      BY DEF Loaded
    <3>2. QED
      BY <3>1, CsrOfFile
  <2>2. /\ rm.row_count \in Nat
        /\ \A x \in 0 .. rm.row_count : R.row_pointers[x] \in 0 .. Len(rm.coo)
        /\ \A p \in 1 .. Len(rm.coo) : R.entries[p].index \in 0 .. rm.col_count - 1
    <3>1. /\ run \in Runs /\ rm = Solution(run.file)["right"]
          /\ R = CooToFormat(rm.coo, rm.row_count, rm.col_count, "MAT_CSR").matrix
      BY DEF Loaded
    <3>2. QED
      BY <3>1, CsrOfFile
  <2>3. lm.col_count = rm.row_count /\ Len(lm.coo) \in Nat /\ Len(rm.coo) \in Nat
    BY DEF Loaded, Compatible, EntriesInRange
  <2> HIDE DEF L, R, lm, rm, n
  <2>4. i \in 1 .. Len(lm.coo)
    <3>1. row \in 0 .. n /\ row + 1 \in 0 .. n
      BY <2>1
    <3>2. L.row_pointers[row] \in 0 .. Len(lm.coo) /\ L.row_pointers[row + 1] \in 0 .. Len(lm.coo)
      BY <2>1, <3>1
    <3>3. QED
      BY <2>3, <3>2 DEF Csr!RowSegment
  <2>5. j \in 1 .. Len(rm.coo)
    <3>1. L.entries[i].index \in 0 .. rm.row_count - 1
      BY <2>1, <2>3, <2>4
    <3>2. PICK k \in 0 .. rm.row_count - 1 : k = L.entries[i].index
      BY <3>1
    <3>3. k \in 0 .. rm.row_count /\ k + 1 \in 0 .. rm.row_count
      BY <2>2
    <3>4. R.row_pointers[k] \in 0 .. Len(rm.coo) /\ R.row_pointers[k + 1] \in 0 .. Len(rm.coo)
      BY <2>2, <3>3
    <3>5. j \in Csr!RowSegment(R, k)
      BY <3>2
    <3>6. QED
      BY <2>3, <3>4, <3>5 DEF Csr!RowSegment
  <2>6. R.entries[j].index \in 0 .. rm.col_count - 1
    BY <2>2, <2>5
  <2>7. QED
    BY <2>3, <2>4, <2>5, <2>6 DEF rm
<1>3. ASSUME NEW v \in AllVisits
      PROVE  /\ v.at \in OutputCells /\ v.from[1] \in Nat /\ v.from[2] \in Nat
             /\ v = Vis(v.at[1], v.from[1], v.from[2])
  <2>1. PICK row \in 0 .. n - 1 : \E i \in Csr!RowSegment(L, row) : \E j \in Csr!RowSegment(R, L.entries[i].index) : v = Vis(row, i, j)
    BY <1>1
  <2>2. PICK i \in Csr!RowSegment(L, row) : \E j \in Csr!RowSegment(R, L.entries[i].index) : v = Vis(row, i, j)
    BY <2>1
  <2>3. PICK j \in Csr!RowSegment(R, L.entries[i].index) : v = Vis(row, i, j)
    BY <2>2
  <2>4. v.at = <<row, R.entries[j].index>> /\ v.from = <<i, j>>
    BY <2>3 DEF Csr!Visit
  <2>5. v = Vis(v.at[1], v.from[1], v.from[2])
    BY <2>3, <2>4
  <2>6. v.at \in OutputCells /\ v.from[1] \in Nat /\ v.from[2] \in Nat
    BY <1>2, <2>4 DEF OutputCells
  <2>7. QED
    BY <2>5, <2>6
<1>4. ASSUME NEW v \in AllVisits, NEW w \in AllVisits,
             v.at[1] = w.at[1], v.from[1] = w.from[1], v.from[2] = w.from[2]
      PROVE  v = w
  <2>1. v = Vis(v.at[1], v.from[1], v.from[2]) /\ w = Vis(w.at[1], w.from[1], w.from[2])
    BY <1>3
  <2>2. QED
    BY <1>4, <2>1
<1>5. QED
  BY <1>3, <1>4

\* The next of the visits of one row is one of them: their order has a least.
LEMMA FirstVisit ==
  ASSUME EntriesInRange, Loaded, NEW S, S \subseteq AllVisits, S # {}, \A v, w \in S : v.at[1] = w.at[1]
  PROVE  Csr!First(S) \in S
<1>1. \A v \in S : v \in AllVisits /\ v.from[1] \in Nat /\ v.from[2] \in Nat
  BY VisitFacts
<1>2. PICK i \in {v.from[1] : v \in S} : \A k \in {v.from[1] : v \in S} : i <= k
  <2>1. {v.from[1] : v \in S} \subseteq Nat /\ {v.from[1] : v \in S} # {}
    BY <1>1
  <2>2. QED
    BY <2>1, LeastNumber
<1> DEFINE T == {v \in S : v.from[1] = i}
<1>3. PICK j \in {v.from[2] : v \in T} : \A k \in {v.from[2] : v \in T} : j <= k
  <2>1. {v.from[2] : v \in T} \subseteq Nat /\ {v.from[2] : v \in T} # {}
    BY <1>1, <1>2
  <2>2. QED
    BY <2>1, LeastNumber
<1>4. PICK v \in S : v.from[1] = i /\ v.from[2] = j
  BY <1>3
<1>5. ASSUME NEW w \in S PROVE w = v \/ Csr!RowsFirst(v.from, w.from)
  <2>1. i <= w.from[1] /\ i \in Nat /\ j \in Nat /\ w.from[1] \in Nat /\ w.from[2] \in Nat
    BY <1>1, <1>2, <1>4
  <2>2. CASE i < w.from[1]
    BY <1>4, <2>2 DEF Csr!RowsFirst
  <2>3. CASE i = w.from[1]
    <3>1. j <= w.from[2]
      BY <1>3, <2>3
    <3>2. CASE j < w.from[2]
      BY <1>4, <2>3, <3>2 DEF Csr!RowsFirst
    <3>3. CASE j = w.from[2]
      <4>1. v \in AllVisits /\ w \in AllVisits /\ v.at[1] = w.at[1]
        OBVIOUS
      <4>2. QED
        BY <1>4, <2>3, <3>3, <4>1, VisitFacts
    <3>4. QED
      BY <2>1, <3>1, <3>2, <3>3
  <2>4. QED
    BY <2>1, <2>2, <2>3
<1>6. \E x \in S : \A w \in S : w = x \/ Csr!RowsFirst(x.from, w.from)
  BY <1>5
<1>7. QED
  BY <1>6, Zenon DEF Csr!First

LEMMA InitCsr == Init => CsrInv
  BY DEF Init, CsrInv, Csr!Idle

LEMMA CsrLoaded ==
  ASSUME CsrInv, pc = "csr"
  PROVE  /\ Loaded /\ DOMAIN output = OutputCells
         /\ DOMAIN visits = Threads /\ DOMAIN loaded = Threads
         /\ todo \subseteq 0 .. solution.left.row_count - 1
         /\ \A t \in Threads : \A v \in visits[t] :
              /\ v \in AllVisits /\ v.at[1] \notin todo
              /\ \A w \in visits[t] : w.at[1] = v.at[1]
              /\ \A u \in Threads \ {t} : \A w \in visits[u] : w.at[1] # v.at[1]
         /\ \A t \in Threads : loaded[t] # Csr!Nothing =>
              visits[t] # {} /\ loaded[t][1] = output[Csr!First(visits[t]).at]
  BY DEF CsrInv, Loaded, OutputCells, RowOfItsOwn, Csr!RowVisits, AllVisits

\* A step of the team while its product runs.
LEMMA CsrSteps ==
  ASSUME pc = "csr", pc' = "csr", UNCHANGED <<run, solution, left_union, right_union>>, CsrInv,
         DOMAIN visits' = Threads, DOMAIN loaded' = Threads, DOMAIN output' = DOMAIN output,
         todo' \subseteq todo,
         \A t \in Threads : \A v \in visits'[t] :
           /\ v \in Csr!RowVisits(v.at[1]) /\ v.at[1] \notin todo'
           /\ \A w \in visits'[t] : w.at[1] = v.at[1]
           /\ \A u \in Threads \ {t} : \A w \in visits'[u] : w.at[1] # v.at[1],
         \A t \in Threads : loaded'[t] # Csr!Nothing =>
           visits'[t] # {} /\ loaded'[t][1] = output'[Csr!First(visits'[t]).at]
  PROVE  CsrInv'
<1>1. \A row : Csr!RowVisits(row)' = Csr!RowVisits(row)
  BY DEF Csr!RowVisits
<1>2. \A t \in Threads : RowOfItsOwn(t)'
  BY <1>1 DEF RowOfItsOwn
<1>3. Compatible' /\ todo' \subseteq 0 .. solution'.left.row_count - 1
  BY DEF CsrInv, Compatible
<1>4. QED
  BY <1>2, <1>3 DEF CsrInv

LEMMA TakeCsr ==
  ASSUME CsrInv, pc = "csr", pc' = "csr", UNCHANGED <<run, solution>>,
         NEW t \in Threads, NEW row \in todo, Csr!Take(t, row)
  PROVE  CsrInv'
<1>1. /\ visits[t] = {} /\ todo' = todo \ {row} /\ visits' = [visits EXCEPT ![t] = Csr!RowVisits(row)]
      /\ UNCHANGED <<left_union, right_union, loaded, output>>
  BY DEF Csr!Take
<1>2. \A v \in Csr!RowVisits(row) : v \in Csr!RowVisits(v.at[1]) /\ v.at[1] = row
  BY DEF Csr!RowVisits
<1>3. ASSUME NEW u \in Threads, NEW v \in visits[u]
      PROVE  /\ v \in Csr!RowVisits(v.at[1]) /\ v.at[1] \notin todo /\ v.at[1] # row
             /\ \A w \in visits[u] : w.at[1] = v.at[1]
             /\ \A x \in Threads \ {u} : \A w \in visits[x] : w.at[1] # v.at[1]
  BY DEF CsrInv, RowOfItsOwn
<1>4. /\ DOMAIN visits = Threads /\ DOMAIN loaded = Threads
      /\ \A u \in Threads : loaded[u] # Csr!Nothing => visits[u] # {} /\ loaded[u][1] = output[Csr!First(visits[u]).at]
  BY DEF CsrInv
<1>5. visits'[t] = Csr!RowVisits(row) /\ \A u \in Threads \ {t} : visits'[u] = visits[u]
  BY <1>1, <1>4
<1>6. ASSUME NEW u \in Threads, NEW v \in visits'[u]
      PROVE  /\ v \in Csr!RowVisits(v.at[1]) /\ v.at[1] \notin todo'
             /\ \A w \in visits'[u] : w.at[1] = v.at[1]
             /\ \A x \in Threads \ {u} : \A w \in visits'[x] : w.at[1] # v.at[1]
  <2>1. CASE u = t
    BY <1>1, <1>2, <1>3, <1>5, <1>6, <2>1
  <2>2. CASE u # t
    BY <1>1, <1>2, <1>3, <1>5, <1>6, <2>2
  <2>3. QED
    BY <2>1, <2>2
<1>7. \A u \in Threads : loaded'[u] # Csr!Nothing =>
        visits'[u] # {} /\ loaded'[u][1] = output'[Csr!First(visits'[u]).at]
  <2>1. loaded[t] = Csr!Nothing
    BY <1>1, <1>4
  <2>2. QED
    BY <1>1, <1>4, <1>5, <2>1
<1>8. QED
  BY <1>1, <1>4, <1>6, <1>7, CsrSteps

LEMMA LoadCsr ==
  ASSUME CsrInv, pc = "csr", pc' = "csr", UNCHANGED <<run, solution>>,
         NEW t \in Threads, Csr!Load(t)
  PROVE  CsrInv'
<1>1. /\ visits[t] # {} /\ loaded' = [loaded EXCEPT ![t] = <<output[Csr!First(visits[t]).at]>>]
      /\ UNCHANGED <<left_union, right_union, todo, visits, output>>
  BY DEF Csr!Load
<1>2. /\ DOMAIN visits = Threads /\ DOMAIN loaded = Threads
      /\ \A u \in Threads : RowOfItsOwn(u)
      /\ \A u \in Threads : loaded[u] # Csr!Nothing => visits[u] # {} /\ loaded[u][1] = output[Csr!First(visits[u]).at]
  BY DEF CsrInv
<1>3. \A u \in Threads : loaded'[u] # Csr!Nothing =>
        visits'[u] # {} /\ loaded'[u][1] = output'[Csr!First(visits'[u]).at]
  BY <1>1, <1>2
<1>4. \A u \in Threads : \A v \in visits'[u] :
        /\ v \in Csr!RowVisits(v.at[1]) /\ v.at[1] \notin todo'
        /\ \A w \in visits'[u] : w.at[1] = v.at[1]
        /\ \A x \in Threads \ {u} : \A w \in visits'[x] : w.at[1] # v.at[1]
  BY <1>1, <1>2 DEF RowOfItsOwn
<1>5. QED
  BY <1>1, <1>2, <1>3, <1>4, CsrSteps

\* The thread stores to a cell of its own row, which is no other thread's.
LEMMA StoreCsr ==
  ASSUME EntriesInRange, CsrInv, pc = "csr", pc' = "csr", UNCHANGED <<run, solution>>,
         NEW t \in Threads, Csr!Store(t)
  PROVE  CsrInv'
<1> DEFINE v == Csr!First(visits[t])
<1>1. /\ visits[t] # {}
      /\ output' = [output EXCEPT ![v.at] = loaded[t][1] + v.product]
      /\ visits' = [visits EXCEPT ![t] = visits[t] \ {v}]
      /\ loaded' = [loaded EXCEPT ![t] = Csr!Nothing]
      /\ UNCHANGED <<left_union, right_union, todo>>
  BY DEF Csr!Store
<1>2. /\ DOMAIN visits = Threads /\ DOMAIN loaded = Threads
      /\ \A u \in Threads : RowOfItsOwn(u)
      /\ \A u \in Threads : loaded[u] # Csr!Nothing => visits[u] # {} /\ loaded[u][1] = output[Csr!First(visits[u]).at]
  BY DEF CsrInv
<1>3. Loaded /\ DOMAIN output = OutputCells
  BY CsrLoaded
<1>4. ASSUME NEW u \in Threads, visits[u] # {}
      PROVE  Csr!First(visits[u]) \in visits[u] /\ Csr!First(visits[u]).at \in OutputCells
  <2>1. visits[u] \subseteq AllVisits /\ \A x, y \in visits[u] : x.at[1] = y.at[1]
    BY <1>4, CsrLoaded
  <2>2. Csr!First(visits[u]) \in visits[u]
    BY <1>3, <1>4, <2>1, FirstVisit
  <2>3. QED
    BY <1>3, <2>1, <2>2, VisitFacts
<1>5. ASSUME NEW u \in Threads, loaded'[u] # Csr!Nothing
      PROVE  visits'[u] # {} /\ loaded'[u][1] = output'[Csr!First(visits'[u]).at]
  <2>1. u # t /\ loaded'[u] = loaded[u] /\ visits'[u] = visits[u]
    BY <1>1, <1>2, <1>5
  <2>2. visits[u] # {} /\ loaded[u][1] = output[Csr!First(visits[u]).at]
    BY <1>2, <1>5, <2>1
  <2>3. Csr!First(visits[u]).at[1] # v.at[1]
    <3>1. v \in visits[t] /\ Csr!First(visits[u]) \in visits[u] /\ u \in Threads \ {t}
      BY <1>1, <1>4, <2>1, <2>2
    <3>2. QED
      BY <1>2, <3>1 DEF RowOfItsOwn
  <2>4. Csr!First(visits[u]).at \in DOMAIN output
    BY <1>3, <1>4, <2>2
  <2>5. output'[Csr!First(visits[u]).at] = output[Csr!First(visits[u]).at]
    BY <1>1, <2>3, <2>4
  <2>6. QED
    BY <2>1, <2>2, <2>5
<1>6. \A u \in Threads : visits'[u] \subseteq visits[u]
  BY <1>1, <1>2
<1>7. \A u \in Threads : \A w \in visits'[u] :
        /\ w \in Csr!RowVisits(w.at[1]) /\ w.at[1] \notin todo'
        /\ \A y \in visits'[u] : y.at[1] = w.at[1]
        /\ \A x \in Threads \ {u} : \A y \in visits'[x] : y.at[1] # w.at[1]
  BY <1>1, <1>2, <1>6 DEF RowOfItsOwn
<1>8. DOMAIN visits' = Threads /\ DOMAIN loaded' = Threads /\ DOMAIN output' = DOMAIN output
  BY <1>1, <1>2
<1>9. QED
  BY <1>1, <1>5, <1>7, <1>8, CsrSteps

LEMMA NextCsr == ASSUME EntriesInRange PROVE CsrInv /\ [Next]_vars => CsrInv'
<1> SUFFICES ASSUME CsrInv, [Next]_vars PROVE CsrInv'
  OBVIOUS
<1>1. ASSUME run' = run, UNCHANGED <<todo, visits, loaded>>, pc # "csr", pc' # "csr",
             \/ pc' = "aborted"
             \/ /\ pc \notin {"load", "aborted"} /\ UNCHANGED <<solution, left_union, right_union>>
                /\ DOMAIN output' = DOMAIN output
      PROVE  CsrInv'
  BY <1>1 DEF CsrInv
<1>2. CASE Load
  BY <1>2 DEF Load, CsrInv
<1>3. CASE LoadFails
  BY <1>1, <1>3 DEF LoadFails, csrVars
<1>4. CASE Block
  <2>1. /\ run' = run /\ UNCHANGED <<todo, visits, loaded, solution, left_union, right_union, output>>
        /\ pc = "block" /\ pc' \in {"block", "aborted"}
    BY <1>4 DEF Block, csrVars, MultiSparsify!Start
  <2>2. QED
    BY <1>1, <2>1
<1>5. CASE BlockNext
  <2>1. /\ run' = run /\ UNCHANGED <<todo, visits, loaded, solution, left_union, right_union, output>>
        /\ pc = "block" /\ pc' \in {"block", "new_wave"}
    BY <1>5 DEF BlockNext, csrVars, MultiSparsify!PackBlock
  <2>2. QED
    BY <1>1, <2>1
<1>6. ASSUME NEW time, NextTester(time) PROVE pc' \in {"new_wave", "report"}
  BY <1>6 DEF NextTester
<1>7. ASSUME NEW counters_open \in BOOLEAN, NewWave(counters_open) PROVE CsrInv'
  <2>1. /\ run' = run /\ UNCHANGED <<todo, visits, loaded, solution, left_union, right_union, output>>
        /\ pc = "new_wave" /\ pc' \in {"testing", "new_wave", "report"}
    BY <1>6, <1>7 DEF NewWave, csrVars
  <2>2. QED
    BY <1>1, <2>1
<1>8. CASE StartCsr
  <2>1. /\ run' = run /\ solution' = solution /\ Compatible /\ pc = "testing" /\ pc' = "csr"
        /\ UNCHANGED <<left_union, right_union, visits, loaded>>
        /\ output' = [cell \in DOMAIN output |-> 0] /\ todo' = 0 .. left_union.matrix.row_count - 1
    BY <1>8 DEF StartCsr, Csr!Start
  <2>2. left_union.matrix.row_count = solution.left.row_count
    BY <2>1 DEF CsrInv, CooToFormat, CsrFromCoo
  <2>3. \A t \in Threads : visits'[t] = {} /\ loaded'[t] = Csr!Nothing
    BY <2>1 DEF CsrInv
  <2>4. \A t \in Threads : RowOfItsOwn(t)'
    BY <2>3 DEF RowOfItsOwn
  <2>5. Compatible' /\ todo' \subseteq 0 .. solution'.left.row_count - 1 /\ DOMAIN output' = DOMAIN output
    BY <2>1, <2>2 DEF Compatible
  <2>6. QED
    BY <2>1, <2>3, <2>4, <2>5 DEF CsrInv
<1>9. ASSUME NEW t \in Threads, Thread(t) PROVE CsrInv'
  <2>1. pc = "csr" /\ pc' = "csr" /\ UNCHANGED <<run, solution>> /\ Csr!Step(t)
    BY <1>9 DEF Thread
  <2>2. QED
    BY <2>1, TakeCsr, LoadCsr, StoreCsr DEF Csr!Step
<1>10. CASE FinishCsr
  <2>1. /\ pc = "csr" /\ pc' = "testing" /\ todo = {} /\ \A t \in Threads : visits[t] = {}
        /\ UNCHANGED <<run, solution, left_union, right_union, todo, visits, loaded, output>>
    BY <1>10 DEF FinishCsr, csrVars, Csr!Finished
  <2>2. \A t \in Threads : loaded[t] = Csr!Nothing
    BY <2>1 DEF CsrInv
  <2>3. QED
    BY <2>1, <2>2 DEF CsrInv
<1>11. ASSUME NEW dies, NEW stray, StartCsrUnfit(dies, stray) PROVE CsrInv'
  <2>1. /\ run' = run /\ UNCHANGED <<todo, visits, loaded, solution, left_union, right_union>>
        /\ output' = [cell \in DOMAIN output |-> stray]
        /\ pc = "testing" /\ pc' \in {"testing", "aborted"}
    BY <1>11 DEF StartCsrUnfit
  <2>2. QED
    BY <1>1, <2>1
<1>12. CASE RunBlocked
  <2>1. /\ run' = run /\ UNCHANGED <<todo, visits, loaded, solution, left_union, right_union>>
        /\ output' = sparse_blis \/ output' = output
        /\ pc = "testing" /\ pc' \in {"testing", "aborted"}
    BY <1>12 DEF RunBlocked
  <2>2. DOMAIN sparse_blis = DOMAIN output
    BY DEF sparse_blis
  <2>3. QED
    BY <1>1, <2>1, <2>2
<1>13. ASSUME NEW time \in 0 .. MaxTime, Complete(time) PROVE CsrInv'
  <2>1. /\ run' = run /\ UNCHANGED <<todo, visits, loaded, solution, left_union, right_union, output>>
        /\ pc = "testing" /\ pc' \in {"new_wave", "report"}
    BY <1>6, <1>13 DEF Complete, csrVars
  <2>2. QED
    BY <1>1, <2>1
<1>14. ASSUME NEW verify, Report(verify) PROVE CsrInv'
  <2>1. /\ run' = run /\ UNCHANGED <<todo, visits, loaded, solution, left_union, right_union, output>>
        /\ pc = "report" /\ pc' \in {"verify", "exit"}
    BY <1>14 DEF Report, csrVars
  <2>2. QED
    BY <1>1, <2>1
<1>15. CASE Verify
  <2>1. /\ run' = run /\ UNCHANGED <<todo, visits, loaded, solution, left_union, right_union, output>>
        /\ pc = "verify" /\ pc' = "verified"
    BY <1>15 DEF Verify, csrVars
  <2>2. QED
    BY <1>1, <2>1
<1>16. CASE UNCHANGED vars
  <2>1. UNCHANGED <<run, pc, solution, left_union, right_union, todo, visits, loaded, output>>
    BY <1>16 DEF vars, csrVars
  <2>2. \A t \in Threads : RowOfItsOwn(t) <=> RowOfItsOwn(t)'
    BY <2>1 DEF RowOfItsOwn, Csr!RowVisits
  <2>3. Compatible' <=> Compatible
    BY <2>1 DEF Compatible
  <2>4. QED
    BY <2>1, <2>2, <2>3 DEF CsrInv
<1>17. QED
  BY <1>2, <1>3, <1>4, <1>5, <1>7, <1>8, <1>9, <1>10, <1>11, <1>12, <1>13, <1>14, <1>15, <1>16 DEF Next, Done

\* When the entries of the files lie in their matrices, no value that a thread of the CSR product
\* has loaded is changed by another before it stores the sum, for every team and every schedule.
THEOREM BlisMainNoLostUpdate == ASSUME EntriesInRange PROVE Spec => []NoLostUpdate
<1>1. CsrInv => NoLostUpdate
  BY DEF CsrInv, NoLostUpdate, Csr!NoLostUpdate
<1>2. QED
  BY <1>1, InitCsr, NextCsr, PTL DEF Spec

-----------------------------------------------------------------------------
(* What the blocks of multi_sparsify hold.                                 *)

\* The composed modules have operators of their own; they are those of Formats and Kernels.
LEMMA BlockConversion == ASSUME NEW d, NEW f PROVE MultiSparsify!DenseToFormat(d, f) = DenseToFormat(d, f)
  BY Zenon DEF MultiSparsify!DenseToFormat, DenseToFormat, MultiSparsify!CsrFromDense, CsrFromDense,
     MultiSparsify!CscFromDense, CscFromDense, MultiSparsify!CooFromDense, CooFromDense,
     MultiSparsify!RowScan, RowScan, MultiSparsify!ColScan, ColScan, MultiSparsify!Scan, Scan,
     MultiSparsify!NonZero, NonZero, MultiSparsify!Cells, Cells,  MultiSparsify!Rows, Rows,  MultiSparsify!Cols, Cols,
     MultiSparsify!RowsFirst, RowsFirst, MultiSparsify!ColsFirst, ColsFirst, MultiSparsify!Cardinality, Cardinality

\* ... what a matrix represents, ...
LEMMA BlockRepresentation == ASSUME NEW u, NEW d PROVE MultiSparsify!Represents(u, d) <=> Represents(u, d)
  BY Zenon DEF MultiSparsify!Represents, Represents, MultiSparsify!Ascending, Ascending, MultiSparsify!ValueAt, ValueAt,
     MultiSparsify!Increasing, Increasing, MultiSparsify!RowSegment, RowSegment, MultiSparsify!ColSegment, ColSegment,
     MultiSparsify!Total, Total, MultiSparsify!MapThenSumSet, MapThenSumSet, MultiSparsify!MapThenFoldSet, MapThenFoldSet,
     MultiSparsify!Cells, Cells,  MultiSparsify!Rows, Rows,  MultiSparsify!Cols, Cols, MultiSparsify!RowsFirst, RowsFirst

\* ... the dense matrix of a list, ...
LEMMA BlockDense == ASSUME NEW coo, NEW rows, NEW cols PROVE MultiSparsify!DenseFromCoo(coo, rows, cols) = DenseFromCoo(coo, rows, cols)
  BY Zenon DEF MultiSparsify!DenseFromCoo, DenseFromCoo, MultiSparsify!Max, Max

\* ... the visits of the CSR product ...
LEMMA CsrVisits == ASSUME NEW L, NEW R PROVE Csr!csr_x_csr(L, R) = csr_x_csr(L, R)
  BY Zenon DEF Csr!csr_x_csr, csr_x_csr, Csr!Visit, Visit, Csr!RowSegment, RowSegment

\* ... and a block of a list.
LEMMA BlockPacking == ASSUME NEW a, NEW b, NEW c, NEW e, NEW f PROVE (MultiSparsify!PackMatrixBlock(a,b,c,e,f)) = PackMatrixBlock(a,b,c,e,f)
  BY Zenon DEF MultiSparsify!Max, Max, MultiSparsify!PackMatrixBlock, PackMatrixBlock

\* One step of the loops over rows i + k and columns o + m of blocks, in numbers.
LEMMA LoopStep ==
  ASSUME NEW o \in Nat, NEW i \in Nat, NEW k \in Nat, NEW m \in Nat,
         NEW outer \in Nat, NEW inner \in Nat, NEW rows \in Nat, NEW cols \in Nat,
         NEW row \in Nat, NEW col \in Nat, NEW p \in Nat, NEW q \in Nat, NEW v \in Nat, NEW w \in Nat,
         row < rows, col < cols, o < cols, k < inner, m < outer, i + inner <= rows,
         \/ p >= cols
         \/ col < p
         \/ col < p + outer /\ (row < q + v \/ (row = q + v /\ col < p + w)),
         \/ m + 1 < outer /\ p = o /\ q = i /\ v = k /\ w = m + 1
         \/ ~(m + 1 < outer) /\ p = o /\ q = i /\ v = k + 1 /\ w = 0
         \/ ~(m + 1 < outer) /\ ~(k + 1 < inner) /\ p = o /\ q = i + inner /\ v = 0 /\ w = 0
         \/ ~(m + 1 < outer) /\ ~(k + 1 < inner) /\ ~(i + inner < rows) /\ p = o + outer /\ q = 0 /\ v = 0 /\ w = 0
  PROVE  \/ col < o
         \/ col < o + outer /\ (row < i + k \/ (row = i + k /\ col < o + m))
         \/ row = i + k /\ col = o + m
  OBVIOUS

\* After the block at the counters c, the loops have passed that block and those that they had
\* passed before, and when the outer loop ends, every block.
LEMMA AdvancePasses ==
  ASSUME GroupsDivide, run \in Runs, solution = Solution(run.file), NEW s \in {"left", "right"},
         MultiSparsify!Divides(s), NEW c, InGroup(s, c),
         NEW next, next = MultiSparsify!Advance(s, c),
         NEW row \in 0 .. MultiSparsify!BlocksRowCount(s) - 1,
         NEW col \in 0 .. MultiSparsify!BlocksColCount(s) - 1,
         next.outer >= MultiSparsify!BlocksColCount(s) \/ PassedIn(s, next, row, col)
  PROVE  PassedIn(s, c, row, col) \/ (row = MultiSparsify!BlockRow(c) /\ col = MultiSparsify!BlockCol(c))
<1> DEFINE rows == MultiSparsify!BlocksRowCount(s)
           cols == MultiSparsify!BlocksColCount(s)
           b == blocking[s]
<1>1. /\ b.inner_step \in Nat \ {0} /\ b.outer_step \in Nat \ {0}
      /\ rows \in Nat /\ cols \in Nat /\ rows % b.inner_step = 0 /\ cols % b.outer_step = 0
  BY BlockCounts
<1>2. /\ c \in [outer : Nat, inner : Nat, inner_i : Nat, outer_i : Nat]
      /\ c.inner \in 0 .. rows - 1 /\ c.inner % b.inner_step = 0
      /\ c.outer \in 0 .. cols - 1 /\ c.outer % b.outer_step = 0
      /\ c.inner_i < b.inner_step /\ c.outer_i < b.outer_step
  BY DEF InGroup, Starts
<1>3. /\ c.outer \in Nat /\ c.inner \in Nat /\ c.inner_i \in Nat /\ c.outer_i \in Nat
      /\ c.outer < cols /\ c.inner < rows
      /\ row \in Nat /\ col \in Nat /\ row < rows /\ col < cols
  BY <1>1, <1>2
<1>4. c.inner + b.inner_step <= rows
  BY <1>1, <1>2, <1>3, StartsApart
<1>5. \/ next.outer >= cols
      \/ col < next.outer
      \/ /\ col < next.outer + b.outer_step
         /\ \/ row < next.inner + next.inner_i
            \/ row = next.inner + next.inner_i /\ col < next.outer + next.outer_i
  BY Zenon DEF PassedIn, MultiSparsify!BlockRow, MultiSparsify!BlockCol
<1>6. \/ /\ c.outer_i + 1 < b.outer_step
         /\ next.outer = c.outer /\ next.inner = c.inner
         /\ next.inner_i = c.inner_i /\ next.outer_i = c.outer_i + 1
      \/ /\ ~(c.outer_i + 1 < b.outer_step)
         /\ next.outer = c.outer /\ next.inner = c.inner
         /\ next.inner_i = c.inner_i + 1 /\ next.outer_i = 0
      \/ /\ ~(c.outer_i + 1 < b.outer_step) /\ ~(c.inner_i + 1 < b.inner_step)
         /\ next.outer = c.outer /\ next.inner = c.inner + b.inner_step
         /\ next.inner_i = 0 /\ next.outer_i = 0
      \/ /\ ~(c.outer_i + 1 < b.outer_step) /\ ~(c.inner_i + 1 < b.inner_step)
         /\ ~(c.inner + b.inner_step < rows)
         /\ next.outer = c.outer + b.outer_step /\ next.inner = 0
         /\ next.inner_i = 0 /\ next.outer_i = 0
  BY <1>2 DEF MultiSparsify!Advance, MultiSparsify!Home
<1>7. /\ b.outer_step \in Nat /\ b.inner_step \in Nat
      /\ next.outer \in Nat /\ next.inner \in Nat /\ next.inner_i \in Nat /\ next.outer_i \in Nat
  BY <1>1, <1>3, <1>6
<1>8. PICK o, i, k, m, outer, inner : /\ o = c.outer /\ i = c.inner /\ k = c.inner_i /\ m = c.outer_i
                                      /\ outer = b.outer_step /\ inner = b.inner_step
  OBVIOUS
<1>9. PICK p, q, v, w : p = next.outer /\ q = next.inner /\ v = next.inner_i /\ w = next.outer_i
  OBVIOUS
<1>10. /\ o \in Nat /\ i \in Nat /\ k \in Nat /\ m \in Nat /\ outer \in Nat /\ inner \in Nat
       /\ p \in Nat /\ q \in Nat /\ v \in Nat /\ w \in Nat
       /\ o < cols /\ k < inner /\ m < outer /\ i + inner <= rows
  BY <1>2, <1>3, <1>4, <1>7, <1>8, <1>9
<1>11. \/ p >= cols
       \/ col < p
       \/ col < p + outer /\ (row < q + v \/ (row = q + v /\ col < p + w))
  BY <1>5, <1>8, <1>9, Zenon
<1>12. \/ m + 1 < outer /\ p = o /\ q = i /\ v = k /\ w = m + 1
       \/ ~(m + 1 < outer) /\ p = o /\ q = i /\ v = k + 1 /\ w = 0
       \/ ~(m + 1 < outer) /\ ~(k + 1 < inner) /\ p = o /\ q = i + inner /\ v = 0 /\ w = 0
       \/ ~(m + 1 < outer) /\ ~(k + 1 < inner) /\ ~(i + inner < rows) /\ p = o + outer /\ q = 0 /\ v = 0 /\ w = 0
  BY <1>6, <1>8, <1>9, Zenon
<1>13. \/ col < o
       \/ col < o + outer /\ (row < i + k \/ (row = i + k /\ col < o + m))
       \/ row = i + k /\ col = o + m
  BY <1>1, <1>3, <1>10, <1>11, <1>12, LoopStep
<1>14. QED
  BY <1>8, <1>13, Zenon DEF PassedIn, MultiSparsify!BlockRow, MultiSparsify!BlockCol

\* What pack_matrix_block makes for a block is the block's part of the matrix.
LEMMA PackedBlock ==
  ASSUME EntriesInRange, run \in Runs, solution = Solution(run.file), NEW s \in {"left", "right"},
         MultiSparsify!Divides(s),
         NEW row \in 0 .. MultiSparsify!BlocksRowCount(s) - 1,
         NEW col \in 0 .. MultiSparsify!BlocksColCount(s) - 1,
         NEW n, n = row * MultiSparsify!BlocksColCount(s) + col
  PROVE  /\ IsDense(MultiSparsify!BlockOf(s, n))
         /\ MultiSparsify!BlockOf(s, n) =
              MultiSparsify!PackMatrixBlock(solution[s].coo, row * blocking[s].row_count, col * blocking[s].col_count,
                                            blocking[s].row_count, blocking[s].col_count)
         /\ MultiSparsify!BlockOf(s, n) =
              PartAt(DenseFromCoo(solution[s].coo, solution[s].row_count, solution[s].col_count),
                     row * blocking[s].row_count, col * blocking[s].col_count, blocking[s].row_count, blocking[s].col_count)
<1> DEFINE b == blocking[s]
           m == solution[s]
           bcols == MultiSparsify!BlocksColCount(s)
           d == DenseFromCoo(m.coo, m.row_count, m.col_count)
           r == row * b.row_count
           c == col * b.col_count
           p == PackMatrixBlock(m.coo, r, c, b.row_count, b.col_count)
           block == (0 .. b.row_count - 1) \X (0 .. b.col_count - 1)
<1>1. /\ m.row_count \in Nat /\ m.col_count \in Nat
      /\ m.coo \in Seq([row : 0 .. m.row_count - 1, col : 0 .. m.col_count - 1, value : Int])
  BY Zenon DEF EntriesInRange
<1>2. b.row_count \in Nat \ {0} /\ b.col_count \in Nat \ {0}
  BY BlockAssumption DEF blocking
<1>3. m.row_count % b.row_count = 0 /\ m.col_count % b.col_count = 0
  BY DEF MultiSparsify!Divides
<1>4. /\ MultiSparsify!BlocksRowCount(s) = m.row_count \div b.row_count
      /\ bcols = m.col_count \div b.col_count
  BY DEF MultiSparsify!BlocksRowCount, MultiSparsify!BlocksColCount
<1>5. bcols \in Nat /\ MultiSparsify!BlocksRowCount(s) \in Nat
  BY <1>1, <1>2, <1>4, DivMod
<1>6. n \div bcols = row /\ n % bcols = col
  <2>1. PICK rows \in Nat, cols \in Nat : rows = MultiSparsify!BlocksRowCount(s) /\ cols = bcols
    BY <1>5
  <2>2. row \in 0 .. rows - 1 /\ col \in 0 .. cols - 1 /\ n = row * cols + col
    BY <2>1
  <2>3. QED
    BY <2>1, <2>2, BlockIndex
<1>7. r \in Nat /\ r + b.row_count <= m.row_count /\ c \in Nat /\ c + b.col_count <= m.col_count
  BY <1>1, <1>2, <1>3, <1>4, BlockFits
<1>8. m.coo \in Seq(CooEntries(m.row_count, m.col_count))
  BY <1>1 DEF CooEntries
<1>9. /\ IsDense(p) /\ p = PartAt(d, r, c, b.row_count, b.col_count)
      /\ p = [row_count |-> b.row_count, col_count |-> b.col_count,
              values |-> [cell \in block |-> d.values[<<r + cell[1], c + cell[2]>>]]]
  <2> HIDE DEF b, m, r, c
  <2>1. PICK rows, cols, coo, x, y, br, bc :
          /\ rows = m.row_count /\ cols = m.col_count /\ coo = m.coo
          /\ x = r /\ y = c /\ br = b.row_count /\ bc = b.col_count
    OBVIOUS
  <2>2. /\ rows \in Nat /\ cols \in Nat /\ coo \in Seq(CooEntries(rows, cols))
        /\ x \in Nat /\ y \in Nat /\ br \in Nat /\ bc \in Nat /\ x + br <= rows /\ y + bc <= cols
    BY <1>1, <1>2, <1>7, <1>8, <2>1
  <2>3. d = DenseFromCoo(coo, rows, cols) /\ p = PackMatrixBlock(coo, x, y, br, bc)
    BY <2>1, Zenon
  <2> HIDE DEF p, d
  <2>4. IsDense(p) /\ p = PartAt(d, x, y, br, bc)
    BY <2>2, <2>3, PackedPart
  <2>5. QED
    BY <2>1, <2>4, Zenon DEF PartAt
<1>10. MultiSparsify!BlockOf(s, n) =
         [row_count |-> b.row_count, col_count |-> b.col_count,
          values |-> [cell \in block |-> MultiSparsify!Part(s, n, cell)]]
  BY DEF MultiSparsify!BlockOf
<1>11. ASSUME NEW cell \in block PROVE MultiSparsify!Part(s, n, cell) = d.values[<<r + cell[1], c + cell[2]>>]
  <2>1. MultiSparsify!Part(s, n, cell) =
          MultiSparsify!DenseFromCoo(m.coo, m.row_count, m.col_count).values
            [<<(n \div bcols) * b.row_count + cell[1], (n % bcols) * b.col_count + cell[2]>>]
    BY DEF MultiSparsify!Part
  <2>2. MultiSparsify!DenseFromCoo(m.coo, m.row_count, m.col_count) = d
    BY BlockDense
  <2> HIDE DEF d
  <2>3. QED
    BY <1>6, <2>1, <2>2
<1>12. MultiSparsify!PackMatrixBlock(m.coo, r, c, b.row_count, b.col_count) = p
  BY BlockPacking
<1> HIDE DEF p, d, b, m, r, c
<1>13. [cell \in block |-> MultiSparsify!Part(s, n, cell)] = [cell \in block |-> d.values[<<r + cell[1], c + cell[2]>>]]
  BY <1>11
<1>14. MultiSparsify!BlockOf(s, n) = p
  BY <1>9, <1>10, <1>13
<1>15. QED
  BY <1>9, <1>12, <1>14, Zenon DEF d, b, m, r, c

\* The block at the loop counters exists.
LEMMA BlockAddressed ==
  ASSUME GroupsDivide, run \in Runs, solution = Solution(run.file), NEW s \in {"left", "right"},
         MultiSparsify!Divides(s), NEW c, InGroup(s, c)
  PROVE  /\ MultiSparsify!BlockRow(c) \in 0 .. MultiSparsify!BlocksRowCount(s) - 1
         /\ MultiSparsify!BlockCol(c) \in 0 .. MultiSparsify!BlocksColCount(s) - 1
<1> DEFINE rows == MultiSparsify!BlocksRowCount(s)
           cols == MultiSparsify!BlocksColCount(s)
           b == blocking[s]
<1>1. /\ b.inner_step \in Nat \ {0} /\ b.outer_step \in Nat \ {0}
      /\ rows \in Nat /\ cols \in Nat /\ rows % b.inner_step = 0 /\ cols % b.outer_step = 0
  BY BlockCounts
<1>2. /\ c \in [outer : Nat, inner : Nat, inner_i : Nat, outer_i : Nat]
      /\ c.inner \in 0 .. rows - 1 /\ c.inner % b.inner_step = 0
      /\ c.outer \in 0 .. cols - 1 /\ c.outer % b.outer_step = 0
      /\ c.inner_i < b.inner_step /\ c.outer_i < b.outer_step
  BY DEF InGroup, Starts
<1>3. c.inner \in Nat /\ c.outer \in Nat /\ c.inner < rows /\ c.outer < cols
  BY <1>1, <1>2
<1>4. c.inner + b.inner_step <= rows /\ c.outer + b.outer_step <= cols
  BY <1>1, <1>2, <1>3, StartsApart
<1>5. c.inner + c.inner_i \in 0 .. rows - 1 /\ c.outer + c.outer_i \in 0 .. cols - 1
  BY <1>1, <1>2, <1>3, <1>4
<1>6. QED
  BY <1>5 DEF MultiSparsify!BlockRow, MultiSparsify!BlockCol

\* The matrices before the one whose blocking begins, when there is none or the other one, and the
\* blocks that are passed when it begins, have no blocks.
LEMMA NothingPassed ==
  ASSUME GroupsDivide, run \in Runs, solution = Solution(run.file), NEW s \in {"left", "right"},
         MultiSparsify!Divides(s),
         NEW row \in 0 .. MultiSparsify!BlocksRowCount(s) - 1,
         NEW col \in 0 .. MultiSparsify!BlocksColCount(s) - 1
  PROVE  MultiSparsify!BlockCount(s) > 0 /\ ~PassedIn(s, MultiSparsify!Home, row, col)
<1>1. PICK rows \in Nat, cols \in Nat : rows = MultiSparsify!BlocksRowCount(s) /\ cols = MultiSparsify!BlocksColCount(s)
  BY BlockCounts
<1>2. row \in 0 .. rows - 1 /\ col \in 0 .. cols - 1
  BY <1>1
<1>3. PICK n : n = row * cols + col
  OBVIOUS
<1>4. n \in 0 .. rows * cols - 1
  BY <1>2, <1>3, BlockIndex
<1>5. rows * cols \in Nat
  BY <1>1
<1>6. rows * cols > 0
  BY <1>4, <1>5
<1>7. ~(col < 0) /\ ~(row < 0 + 0) /\ ~(row = 0 + 0 /\ col < 0 + 0)
  BY <1>2
<1>8. QED
  BY <1>1, <1>6, <1>7 DEF PassedIn, MultiSparsify!Home, MultiSparsify!BlockRow, MultiSparsify!BlockCol, MultiSparsify!BlockCount

\* The format that is asked for.
LEMMA FormatAsked ==
  ASSUME NoneDense, run \in Runs, NEW s \in {"left", "right"}
  PROVE  run[s] \in Formats /\ run[s] # "MAT_DENSE"
<1>1. run.left \in Formats \ {"MAT_DENSE"} /\ run.right \in Formats \ {"MAT_DENSE"}
  BY DEF NoneDense
<1>2. QED
  BY <1>1

\* What a step leaves alone.
LEMMA BlocksKept ==
  ASSUME UNCHANGED <<run, solution>>, NEW s
  PROVE  /\ MultiSparsify!BlocksRowCount(s)' = MultiSparsify!BlocksRowCount(s)
         /\ MultiSparsify!BlocksColCount(s)' = MultiSparsify!BlocksColCount(s)
         /\ MultiSparsify!BlockCount(s)' = MultiSparsify!BlockCount(s)
         /\ \A n : MultiSparsify!BlockOf(s, n)' = MultiSparsify!BlockOf(s, n)
<1>1. /\ MultiSparsify!BlocksRowCount(s)' = MultiSparsify!BlocksRowCount(s)
      /\ MultiSparsify!BlocksColCount(s)' = MultiSparsify!BlocksColCount(s)
  BY DEF MultiSparsify!BlocksRowCount, MultiSparsify!BlocksColCount
<1>2. MultiSparsify!BlockCount(s)' = MultiSparsify!BlockCount(s)
  BY <1>1 DEF MultiSparsify!BlockCount
<1>3. \A n : MultiSparsify!BlockOf(s, n)' = MultiSparsify!BlockOf(s, n)
  BY Zenon DEF MultiSparsify!BlockOf, MultiSparsify!Part, MultiSparsify!BlocksColCount
<1>4. QED
  BY <1>1, <1>2, <1>3

\* No block is packed before the files are loaded.
LEMMA InitPacked == Init => PackedInv
  BY DEF Init, PackedInv

\* One block is packed and the loops go on.
LEMMA PackPassed ==
  ASSUME GroupsDivide, EntriesInRange, NoneDense, BlocksInv, PackedInv,
         pc = "block", BlockNext, side # "done",
         NEW s \in {"left", "right"},
         NEW row \in 0 .. MultiSparsify!BlocksRowCount(s) - 1,
         NEW col \in 0 .. MultiSparsify!BlocksColCount(s) - 1,
         Passed(s, row, col)'
  PROVE  IsPacked(s, row * MultiSparsify!BlocksColCount(s) + col)'
<1> DEFINE next == MultiSparsify!Advance(side, at)
           over == next.outer >= MultiSparsify!BlocksColCount(side)
           n == row * MultiSparsify!BlocksColCount(s) + col
           m == MultiSparsify!Index(side, at)
<1>1. /\ run' = run /\ run \in Runs /\ solution = Solution(run.file) /\ at # <<>>
      /\ MultiSparsify!Divides("left") /\ MultiSparsify!Divides("right")
      /\ side \in {"left", "right"} /\ InGroup(side, at)
  BY DEF BlockNext, BlocksInv
<1>2. /\ solution' = solution /\ block_formats' = block_formats
      /\ pack' = MultiSparsify!Packed(side, at)
      /\ blocks' = [blocks EXCEPT ![side][m] = MultiSparsify!Converted(pack', block_formats[side][m])]
      /\ IF over THEN at' = MultiSparsify!Home /\ side' = IF side = "left" THEN MultiSparsify!NextSide("right") ELSE "done"
                 ELSE at' = next /\ side' = side
  BY <1>1 DEF BlockNext, MultiSparsify!PackBlock
<1>3. /\ block_formats[s] = [k \in 0 .. MultiSparsify!BlockCount(s) - 1 |-> run[s]]
      /\ DOMAIN blocks = {"left", "right"} /\ DOMAIN blocks[s] = 0 .. MultiSparsify!BlockCount(s) - 1
      /\ Passed(s, row, col) => IsPacked(s, n)
  BY <1>1 DEF PackedInv, FormatsAsked, PassedArePacked
<1>4. MultiSparsify!Divides(s) /\ MultiSparsify!Divides(side)
  BY <1>1
<1>5. MultiSparsify!BlockCount(s) > 0 /\ ~PassedIn(s, MultiSparsify!Home, row, col)
  BY <1>1, <1>4, NothingPassed
<1>6. Passed(s, row, col) \/ (s = side /\ row = MultiSparsify!BlockRow(at) /\ col = MultiSparsify!BlockCol(at))
  <2>1. side' = "done" \/ (s = "left" /\ side' = "right") \/ (s = side' /\ PassedIn(s, at', row, col))
    BY Zenon DEF Passed, PassedIn, MultiSparsify!BlockRow, MultiSparsify!BlockCol
  <2>2. ASSUME s = side, over \/ PassedIn(s, next, row, col)
        PROVE  PassedIn(s, at, row, col) \/ (row = MultiSparsify!BlockRow(at) /\ col = MultiSparsify!BlockCol(at))
    BY <1>1, <1>4, <2>2, AdvancePasses
  <2>3. CASE s = side
    <3>1. over \/ PassedIn(s, next, row, col)
      BY <1>1, <1>2, <2>1, <2>3, Zenon
    <3>2. QED
      BY <2>2, <2>3, <3>1 DEF Passed
  <2>4. CASE s # side
    <3>1. CASE s = "left"
      BY <1>1, <2>4, <3>1 DEF Passed
    <3>2. CASE s = "right"
      <4>1. side = "left" /\ MultiSparsify!NextSide("right") = "right"
        BY <1>1, <1>5, <2>4, <3>2 DEF MultiSparsify!NextSide, MultiSparsify!Sides
      <4>2. over /\ at' = MultiSparsify!Home /\ side' = "right"
        BY <1>2, <2>1, <2>4, <3>2, <4>1
      <4>3. FALSE
        BY <1>5, <2>1, <3>2, <4>2
      <4>4. QED
        BY <4>3
    <3>3. QED
      BY <3>1, <3>2
  <2>5. QED
    BY <2>3, <2>4
<1>7. PICK k : k = n
  OBVIOUS
<1>8. MultiSparsify!BlocksColCount(s)' = MultiSparsify!BlocksColCount(s) /\ MultiSparsify!BlockOf(s, k)' = MultiSparsify!BlockOf(s, k)
  BY <1>1, <1>2, BlocksKept
<1>9. SUFFICES blocks'[s][k] = MultiSparsify!DenseToFormat(MultiSparsify!BlockOf(s, k), run[s])
  BY <1>1, <1>7, <1>8, Zenon DEF IsPacked
<1>10. n \in 0 .. MultiSparsify!BlockCount(s) - 1
  <2>1. PICK rows \in Nat, cols \in Nat : rows = MultiSparsify!BlocksRowCount(s) /\ cols = MultiSparsify!BlocksColCount(s)
    BY <1>1, <1>4, BlockCounts
  <2>2. row \in 0 .. rows - 1 /\ col \in 0 .. cols - 1 /\ n = row * cols + col
    BY <2>1
  <2>3. n \in 0 .. rows * cols - 1
    BY <2>2, BlockIndex
  <2>4. QED
    BY <2>1, <2>3 DEF MultiSparsify!BlockCount
<1>11. CASE s = side /\ row = MultiSparsify!BlockRow(at) /\ col = MultiSparsify!BlockCol(at)
  <2>1. m = n
    BY <1>11 DEF MultiSparsify!Index
  <2>2. pack' = MultiSparsify!BlockOf(s, n)
    <3>1. pack' = MultiSparsify!PackMatrixBlock(solution[s].coo, row * blocking[s].row_count, col * blocking[s].col_count,
                                            blocking[s].row_count, blocking[s].col_count)
      BY <1>2, <1>11 DEF MultiSparsify!Packed
    <3>2. QED
      BY <1>1, <1>4, <3>1, PackedBlock
  <2>3. block_formats[side][m] = run[s] /\ run[s] # "MAT_DENSE"
    BY <1>1, <1>3, <1>10, <1>11, <2>1, FormatAsked
  <2>4. MultiSparsify!Converted(pack', block_formats[side][m]) =
          MultiSparsify!DenseToFormat(MultiSparsify!BlockOf(s, n), run[s])
    BY <2>2, <2>3 DEF MultiSparsify!Converted
  <2> HIDE DEF n, m
  <2>5. blocks'[s][n] = MultiSparsify!Converted(pack', block_formats[side][m])
    BY <1>2, <1>3, <1>10, <1>11, <2>1
  <2>6. QED
    BY <1>7, <2>4, <2>5
<1>12. CASE ~(s = side /\ row = MultiSparsify!BlockRow(at) /\ col = MultiSparsify!BlockCol(at))
  <2>1. IsPacked(s, n)
    BY <1>3, <1>6, <1>12
  <2>2. s # side \/ n # m
    <3> SUFFICES ASSUME s = side PROVE n # m
      OBVIOUS
    <3>1. PICK rows \in Nat, cols \in Nat : rows = MultiSparsify!BlocksRowCount(s) /\ cols = MultiSparsify!BlocksColCount(s)
      BY <1>1, <1>4, BlockCounts
    <3>2. PICK r, c : r = MultiSparsify!BlockRow(at) /\ c = MultiSparsify!BlockCol(at)
      OBVIOUS
    <3>3. r \in 0 .. rows - 1 /\ c \in 0 .. cols - 1
      BY <1>1, <1>4, <3>1, <3>2, BlockAddressed
    <3>4. row \in 0 .. rows - 1 /\ col \in 0 .. cols - 1 /\ n = row * cols + col
      BY <3>1
    <3>5. m = r * cols + c
      BY <3>1, <3>2 DEF MultiSparsify!Index
    <3> HIDE DEF n, m
    <3>6. n \div cols = row /\ n % cols = col /\ m \div cols = r /\ m % cols = c
      BY <3>3, <3>4, <3>5, BlockIndex
    <3>7. QED
      BY <1>12, <3>2, <3>6
  <2> HIDE DEF n, m
  <2>3. blocks'[s][n] = blocks[s][n]
    BY <1>1, <1>2, <1>3, <1>10, <2>2
  <2>4. QED
    BY <1>7, <2>1, <2>3 DEF IsPacked
<1>13. QED
  BY <1>11, <1>12

\* The blocks are allocated, none of them is passed.
LEMMA StartPassed ==
  ASSUME GroupsDivide, BlocksInv, PackedInv, pc = "block", Block,
         MultiSparsify!Divides("left") /\ MultiSparsify!Divides("right"),
         NEW s \in {"left", "right"},
         NEW row \in 0 .. MultiSparsify!BlocksRowCount(s) - 1,
         NEW col \in 0 .. MultiSparsify!BlocksColCount(s) - 1
  PROVE  ~Passed(s, row, col)'
<1>1. /\ run \in Runs /\ solution = Solution(run.file)
      /\ side' = MultiSparsify!NextSide("left") /\ at' = MultiSparsify!Home
  BY DEF Block, BlocksInv, MultiSparsify!Start
<1>2. MultiSparsify!BlockCount(s) > 0 /\ ~PassedIn(s, MultiSparsify!Home, row, col)
  BY <1>1, NothingPassed
<1>3. side' # "done" /\ ~(s = "left" /\ side' = "right")
  BY <1>1, <1>2 DEF MultiSparsify!NextSide, MultiSparsify!Sides
<1>4. ~PassedIn(s, at', row, col)
  BY <1>1, <1>2
<1>5. QED
  BY <1>3, <1>4, Zenon DEF Passed, PassedIn, MultiSparsify!BlockRow, MultiSparsify!BlockCol

\* Steps that leave the blocks alone.
LEMMA PackedKept ==
  ASSUME UNCHANGED <<run, solution, block_formats, side, at, blocks>>
  PROVE  /\ FormatsAsked' <=> FormatsAsked
         /\ PassedArePacked' <=> PassedArePacked
         /\ AllPassed' <=> AllPassed
<1>1. FormatsAsked' <=> FormatsAsked
  <2>1. \A s : MultiSparsify!BlockCount(s)' = MultiSparsify!BlockCount(s)
    BY BlocksKept
  <2>2. QED
    BY <2>1, Zenon DEF FormatsAsked
<1>2. AllPassed' <=> AllPassed
  BY DEF AllPassed, MultiSparsify!Divides
<1>3. \A s, row, col : Passed(s, row, col)' <=> Passed(s, row, col)
  BY Zenon DEF Passed, PassedIn, MultiSparsify!BlockRow, MultiSparsify!BlockCol
<1>4. ASSUME NEW s PROVE /\ MultiSparsify!BlocksRowCount(s)' = MultiSparsify!BlocksRowCount(s)
                         /\ MultiSparsify!BlocksColCount(s)' = MultiSparsify!BlocksColCount(s)
                         /\ MultiSparsify!BlockCount(s)' = MultiSparsify!BlockCount(s)
                         /\ \A n : IsPacked(s, n)' <=> IsPacked(s, n)
  BY BlocksKept, Zenon DEF IsPacked
<1>5. PassedArePacked' <=> PassedArePacked
  BY <1>3, <1>4, Zenon DEF PassedArePacked
<1>6. QED
  BY <1>1, <1>2, <1>5

\* Each block that multi_sparsify passes is packed, and none of them is changed later.
LEMMA NextPacked ==
  ASSUME GroupsDivide, EntriesInRange, NoneDense
  PROVE  BlocksInv /\ PackedInv /\ [Next]_vars => PackedInv'
<1> SUFFICES ASSUME BlocksInv, PackedInv, [Next]_vars PROVE PackedInv'
  OBVIOUS
<1>1. ASSUME UNCHANGED <<run, solution, block_formats, side, at, blocks>>, pc # "load",
             pc = "aborted" => pc' = "aborted",
             pc = "block" => pc' \in {"block", "aborted"}
      PROVE  PackedInv'
  BY <1>1, PackedKept, Zenon DEF PackedInv
<1>2. CASE Load
  <2>1. pc = "load" /\ pc' = "block" /\ run' = run /\ at' = at /\ at = <<>> /\ solution' = Solution(run.file)
    BY <1>2 DEF Load, BlocksInv, blockVars
  <2>2. block_formats' = [left |-> ConstantFormats("left", run.left), right |-> ConstantFormats("right", run.right)]
    BY <1>2 DEF Load
  <2>3. ASSUME NEW s \in {"left", "right"}
        PROVE  block_formats'[s] = [n \in 0 .. MultiSparsify!BlockCount(s)' - 1 |-> run'[s]]
    <3>1. block_formats'[s] = ConstantFormats(s, run[s])
      BY <2>2
    <3>2. QED
      BY <2>1, <3>1, Zenon DEF ConstantFormats, MultiSparsify!BlockCount, MultiSparsify!BlocksRowCount, MultiSparsify!BlocksColCount
  <2>4. FormatsAsked'
    BY <2>1, <2>3, Zenon DEF FormatsAsked
  <2>5. QED
    BY <2>1, <2>4 DEF PackedInv
<1>3. CASE LoadFails
  BY <1>3 DEF LoadFails, PackedInv
<1>4. ASSUME pc' = "block", pc = "block", UNCHANGED <<run, solution, block_formats>>,
             DOMAIN blocks' = {"left", "right"},
             \A s \in {"left", "right"} : DOMAIN blocks'[s] = 0 .. MultiSparsify!BlockCount(s) - 1,
             \A s \in {"left", "right"} :
               \A row \in 0 .. MultiSparsify!BlocksRowCount(s) - 1, col \in 0 .. MultiSparsify!BlocksColCount(s) - 1 :
                 Passed(s, row, col)' => IsPacked(s, row * MultiSparsify!BlocksColCount(s) + col)'
      PROVE  PackedInv'
  <2>1. ASSUME NEW s PROVE /\ MultiSparsify!BlocksRowCount(s)' = MultiSparsify!BlocksRowCount(s)
                           /\ MultiSparsify!BlocksColCount(s)' = MultiSparsify!BlocksColCount(s)
                           /\ MultiSparsify!BlockCount(s)' = MultiSparsify!BlockCount(s)
    BY <1>4, BlocksKept
  <2>2. FormatsAsked'
    BY <1>4, <2>1, Zenon DEF PackedInv, FormatsAsked
  <2>3. PassedArePacked'
    BY <1>4, <2>1, Zenon DEF PassedArePacked
  <2>4. QED
    BY <1>4, <2>2, <2>3 DEF PackedInv
<1>5. CASE Block
  <2>1. CASE ~(MultiSparsify!Divides("left") /\ MultiSparsify!Divides("right"))
    <3>1. UNCHANGED <<run, solution, block_formats, side, at, blocks>> /\ pc = "block" /\ pc' = "aborted"
      BY <1>5, <2>1 DEF Block, blockVars
    <3>2. QED
      BY <1>1, <3>1
  <2>2. CASE MultiSparsify!Divides("left") /\ MultiSparsify!Divides("right")
    <3>1. /\ pc = "block" /\ pc' = "block" /\ UNCHANGED <<run, solution, block_formats>>
          /\ blocks' = [s \in {"left", "right"} |-> [n \in 0 .. MultiSparsify!BlockCount(s) - 1 |-> MultiSparsify!None]]
      BY <1>5, <2>2 DEF Block, MultiSparsify!Start, MultiSparsify!Sides
    <3>2. ASSUME NEW s \in {"left", "right"},
                 NEW row \in 0 .. MultiSparsify!BlocksRowCount(s) - 1,
                 NEW col \in 0 .. MultiSparsify!BlocksColCount(s) - 1
          PROVE  ~Passed(s, row, col)'
      BY <1>5, <2>2, <3>1, StartPassed
    <3>3. /\ DOMAIN blocks' = {"left", "right"}
          /\ \A s \in {"left", "right"} : DOMAIN blocks'[s] = 0 .. MultiSparsify!BlockCount(s) - 1
      BY <3>1
    <3>4. QED
      BY <1>4, <3>1, <3>2, <3>3
  <2>3. QED
    BY <2>1, <2>2
<1>6. CASE BlockNext
  <2>1. /\ run' = run /\ pc = "block" /\ at # <<>> /\ PassedArePacked
        /\ MultiSparsify!Divides("left") /\ MultiSparsify!Divides("right")
    BY <1>6 DEF BlockNext, BlocksInv, PackedInv
  <2>2. CASE side = "done"
    <3>1. UNCHANGED <<run, solution, block_formats, side, at, blocks>> /\ pc' = "new_wave"
      BY <1>6, <2>2 DEF BlockNext, blockVars
    <3>2. FormatsAsked' /\ PassedArePacked' /\ AllPassed'
      BY <2>1, <2>2, <3>1, PackedKept DEF PackedInv, AllPassed
    <3>3. QED
      BY <3>1, <3>2 DEF PackedInv
  <2>3. CASE side # "done"
    <3>1. /\ pc' = "block" /\ UNCHANGED <<run, solution, block_formats>>
          /\ blocks' = [blocks EXCEPT ![side][MultiSparsify!Index(side, at)] =
                          MultiSparsify!Converted(pack', block_formats[side][MultiSparsify!Index(side, at)])]
      BY <1>6, <2>1, <2>3 DEF BlockNext, MultiSparsify!PackBlock
    <3>2. /\ DOMAIN blocks' = {"left", "right"}
          /\ \A s \in {"left", "right"} : DOMAIN blocks'[s] = 0 .. MultiSparsify!BlockCount(s) - 1
      BY <2>1, <3>1 DEF PassedArePacked
    <3>3. ASSUME NEW s \in {"left", "right"},
                 NEW row \in 0 .. MultiSparsify!BlocksRowCount(s) - 1,
                 NEW col \in 0 .. MultiSparsify!BlocksColCount(s) - 1,
                 Passed(s, row, col)'
          PROVE  IsPacked(s, row * MultiSparsify!BlocksColCount(s) + col)'
      BY <1>6, <2>1, <2>3, <3>3, PackPassed
    <3>4. QED
      BY <1>4, <2>1, <3>1, <3>2, <3>3
  <2>4. QED
    BY <2>2, <2>3
<1>7. ASSUME NEW time, pc \in {"new_wave", "testing"}, NextTester(time),
             UNCHANGED <<run, solution, block_formats, side, at, blocks>>
      PROVE  PackedInv'
  BY <1>1, <1>7 DEF NextTester
<1>8. ASSUME NEW counters_open \in BOOLEAN, NewWave(counters_open) PROVE PackedInv'
  BY <1>1, <1>7, <1>8 DEF NewWave, blockVars
<1>9. CASE StartCsr \/ FinishCsr
  BY <1>1, <1>9 DEF StartCsr, FinishCsr, blockVars
<1>10. CASE RunBlocked
  BY <1>1, <1>10 DEF RunBlocked, blockVars
<1>11. ASSUME NEW t \in Threads, Thread(t) PROVE PackedInv'
  BY <1>1, <1>11 DEF Thread, blockVars
<1>12. ASSUME NEW dies, NEW stray, StartCsrUnfit(dies, stray) PROVE PackedInv'
  BY <1>1, <1>12 DEF StartCsrUnfit, blockVars
<1>13. ASSUME NEW time \in 0 .. MaxTime, Complete(time) PROVE PackedInv'
  BY <1>7, <1>13 DEF Complete, blockVars
<1>14. ASSUME NEW verify, Report(verify) PROVE PackedInv'
  BY <1>1, <1>14 DEF Report, blockVars
<1>15. CASE Verify
  BY <1>1, <1>15 DEF Verify, blockVars
<1>16. CASE UNCHANGED vars
  <2>1. UNCHANGED <<run, pc, solution, block_formats, side, at, blocks>>
    BY <1>16 DEF vars, blockVars
  <2>2. QED
    BY <2>1, PackedKept, Zenon DEF PackedInv
<1>17. QED
  BY <1>2, <1>3, <1>5, <1>6, <1>8, <1>9, <1>10, <1>11, <1>12, <1>13, <1>14, <1>15, <1>16 DEF Next, Done

\* When the entries of the files lie in their matrices, groups divide the block counts and no dense
\* blocks are asked for, every block that multi_sparsify makes of a matrix of any size has the format
\* asked for and holds its part of the matrix, in the order that the kernels need.
THEOREM BlisMainBlocksRepresent == ASSUME GroupsDivide, EntriesInRange, NoneDense PROVE Spec => []BlocksRepresent
<1>1. BlocksInv /\ PackedInv => BlocksRepresent
  <2> SUFFICES ASSUME BlocksInv, PackedInv, pc = "new_wave",
                      NEW s \in {"left", "right"}, NEW n \in 0 .. MultiSparsify!BlockCount(s) - 1
               PROVE  /\ blocks[s][n].format = block_formats[s][n]
                      /\ MultiSparsify!Represents(MultiSparsify!Block(s, n), MultiSparsify!BlockOf(s, n))
    BY DEF BlocksRepresent, MultiSparsify!BlocksRepresent, MultiSparsify!Sides
  <2>1. /\ run \in Runs /\ solution = Solution(run.file) /\ side = "done" /\ MultiSparsify!Divides(s)
        /\ PassedArePacked /\ block_formats[s] = [k \in 0 .. MultiSparsify!BlockCount(s) - 1 |-> run[s]]
    BY DEF BlocksInv, PackedInv, FormatsAsked, AllPassed
  <2>2. PICK rows \in Nat, cols \in Nat : rows = MultiSparsify!BlocksRowCount(s) /\ cols = MultiSparsify!BlocksColCount(s)
    BY <2>1, BlockCounts
  <2>3. PICK row \in 0 .. rows - 1, col \in 0 .. cols - 1 : n = row * cols + col
    <3>1. n \in 0 .. rows * cols - 1
      BY <2>2 DEF MultiSparsify!BlockCount
    <3>2. QED
      BY <3>1, IndexBlock
  <2>4. blocks[s][n] = MultiSparsify!DenseToFormat(MultiSparsify!BlockOf(s, n), run[s])
    <3>1. IsPacked(s, row * MultiSparsify!BlocksColCount(s) + col)
      BY <2>1, <2>2, <2>3 DEF PassedArePacked, Passed
    <3>2. QED
      BY <2>2, <2>3, <3>1 DEF IsPacked
  <2>5. run[s] \in Formats /\ run[s] # "MAT_DENSE"
    BY <2>1, FormatAsked
  <2>6. IsDense(MultiSparsify!BlockOf(s, n))
    BY <2>1, <2>2, <2>3, PackedBlock
  <2>7. blocks[s][n] = DenseToFormat(MultiSparsify!BlockOf(s, n), run[s])
    BY <2>4, BlockConversion
  <2>8. blocks[s][n].format = run[s]
    BY <2>7 DEF DenseToFormat
  <2>9. MultiSparsify!Block(s, n) = blocks[s][n]
    BY <2>5, <2>8 DEF MultiSparsify!Block, MultiSparsify!InPack
  <2>10. Represents(MultiSparsify!Block(s, n), MultiSparsify!BlockOf(s, n))
    BY <2>5, <2>6, <2>7, <2>9, DenseConversions
  <2>11. QED
    BY <2>1, <2>8, <2>10, BlockRepresentation
<1>2. QED
  BY <1>1, InitBlocks, NextBlocks, InitPacked, NextPacked, PTL DEF Spec

-----------------------------------------------------------------------------
(* The sums of the CSR product, and the comparison with coo_x_coo.         *)

\* The matrix that a side of the file gives.
Given(s) == DenseFromCoo(solution[s].coo, solution[s].row_count, solution[s].col_count)

\* The matrix of a side that was loaded is a dense matrix of its sizes.
LEMMA GivenIsDense ==
  ASSUME EntriesInRange, run \in Runs, solution = Solution(run.file), NEW s \in {"left", "right"}
  PROVE  IsDense(Given(s)) /\ Given(s).row_count = solution[s].row_count /\ Given(s).col_count = solution[s].col_count
<1>1. PICK rows, cols, coo : rows = solution[s].row_count /\ cols = solution[s].col_count /\ coo = solution[s].coo
  OBVIOUS
<1>2. /\ rows \in Nat /\ cols \in Nat
      /\ coo \in Seq([row : 0 .. rows - 1, col : 0 .. cols - 1, value : Int])
  BY <1>1, Zenon DEF EntriesInRange
<1>3. coo \in Seq(CooEntries(rows, cols))
  BY <1>2 DEF CooEntries
<1>4. Given(s) = DenseFromCoo(coo, rows, cols)
  BY <1>1 DEF Given
<1>5. QED
  BY <1>1, <1>2, <1>3, <1>4, DenseFromCooIsDense

\* The list of a side is one of the matrix that it gives.
LEMMA GivenLists ==
  ASSUME EntriesInRange, FilesByRows, run \in Runs, solution = Solution(run.file), NEW s \in {"left", "right"}
  PROVE  \E p, n, c : ListOf(solution[s].coo, p, Given(s), n, c)
<1>1. PICK rows, cols, coo : rows = solution[s].row_count /\ cols = solution[s].col_count /\ coo = solution[s].coo
  OBVIOUS
<1>2. /\ rows \in Nat /\ cols \in Nat
      /\ coo \in Seq([row : 0 .. rows - 1, col : 0 .. cols - 1, value : Int])
  BY <1>1, Zenon DEF EntriesInRange
<1>3. coo \in Seq(CooEntries(rows, cols))
  BY <1>2 DEF CooEntries
<1>4. \A i, j \in DOMAIN coo : i < j => coo[i].row < coo[j].row \/ (coo[i].row = coo[j].row /\ coo[i].col # coo[j].col)
  <2>1. LET list == Solution(run.file)[s].coo IN
        \A i, j \in DOMAIN list : i < j => list[i].row < list[j].row \/ (list[i].row = list[j].row /\ list[i].col # list[j].col)
    BY DEF FilesByRows
  <2>2. coo = Solution(run.file)[s].coo
    BY <1>1
  <2>3. QED
    BY <2>1, <2>2
<1>5. PICK d : d = DenseFromCoo(coo, rows, cols)
  OBVIOUS
<1>6. Given(s) = d
  BY <1>1, <1>5 DEF Given
<1>7. \E p, n, c : ListOf(coo, p, d, n, c)
  BY <1>2, <1>3, <1>4, <1>5, ListByRows
<1>8. QED
  BY <1>1, <1>6, <1>7

\* The product by its definition has its cells in the output.
LEMMA ReferenceIs ==
  ASSUME EntriesInRange, run \in Runs, solution = Solution(run.file), Compatible
  PROVE  /\ Operands(Given("left"), Given("right")) /\ Reference = Product(Given("left"), Given("right"))
         /\ Rows(Given("left")) \X Cols(Given("right")) = OutputCells
         /\ \A cell \in OutputCells : Reference[cell] \in Int
<1>1. /\ IsDense(Given("left")) /\ IsDense(Given("right"))
      /\ Given("left").row_count = solution.left.row_count /\ Given("left").col_count = solution.left.col_count
      /\ Given("right").row_count = solution.right.row_count /\ Given("right").col_count = solution.right.col_count
  BY GivenIsDense
<1>2. Operands(Given("left"), Given("right"))
  BY <1>1 DEF Operands, Compatible
<1>3. Reference = Product(Given("left"), Given("right"))
  BY Zenon DEF Reference, Given
<1>4. Rows(Given("left")) \X Cols(Given("right")) = OutputCells
  BY <1>1 DEF OutputCells, Rows, Cols
<1>5. \A cell \in OutputCells : Reference[cell] \in Int
  BY <1>2, <1>3, <1>4, ProductType
<1>6. QED
  BY <1>2, <1>3, <1>4, <1>5

\* All visits of the CSR product together add the product.
LEMMA AllVisitsAdd ==
  ASSUME EntriesInRange, FilesByRows, Loaded
  PROVE  /\ IsFiniteSet(AllVisits) /\ \A v \in AllVisits : v.product \in Int
         /\ \A cell \in OutputCells : AddedAt(AllVisits, cell) = Reference[cell]
<1>1. PICK L, R : L = Given("left") /\ R = Given("right")
  OBVIOUS
<1>2. run \in Runs /\ solution = Solution(run.file) /\ Compatible
  BY DEF Loaded
<1>3. /\ Operands(L, R) /\ Reference = Product(L, R) /\ Rows(L) \X Cols(R) = OutputCells
  BY <1>1, <1>2, ReferenceIs
<1>4. L.row_count = solution.left.row_count /\ R.row_count = solution.right.row_count
  BY <1>1, <1>2, GivenIsDense
<1>5. PICK left, right : left = solution.left.coo /\ right = solution.right.coo
  OBVIOUS
<1>6. PICK P, n, c : ListOf(left, P, L, n, c)
  BY <1>1, <1>2, <1>5, GivenLists
<1>7. PICK Q, k, e : ListOf(right, Q, R, k, e)
  BY <1>1, <1>2, <1>5, GivenLists
<1>8. left_union.matrix = CsrFromCoo(left, L.row_count) /\ right_union.matrix = CsrFromCoo(right, R.row_count)
  BY <1>4, <1>5 DEF Loaded, CooToFormat
<1>9. PICK V : V = csr_x_csr(CsrFromCoo(left, L.row_count), CsrFromCoo(right, R.row_count))
  OBVIOUS
<1>10. AllVisits = V
  BY <1>8, <1>9, CsrVisits DEF AllVisits
<1>11. /\ IsFiniteSet(V) /\ \A v \in V : v.product \in Int
       /\ \A cell \in Rows(L) \X Cols(R) : AddedAt(V, cell) = Product(L, R)[cell]
  BY <1>3, <1>6, <1>7, <1>9, ListsCsrCsr
<1>12. QED
  BY <1>3, <1>10, <1>11

\* What is in the output and what is still to be added make the product.
CsrSum == \A cell \in OutputCells : output[cell] + AddedAt(Remaining, cell) = Reference[cell]

\* The visits that remain are visits of the CSR product.
LEMMA RemainingIs ==
  /\ Remaining = {v \in AllVisits : v.at[1] \in todo \/ \E t \in Threads : v \in visits[t]}
  /\ Remaining' = {v \in AllVisits' : v.at[1] \in todo' \/ \E t \in Threads : v \in visits'[t]}
  BY DEF Remaining, AllVisits

\* Steps that neither visit nor store.
LEMMA CsrSumKept ==
  ASSUME UNCHANGED <<solution, left_union, right_union, output>>, Remaining' = Remaining, CsrSum
  PROVE  CsrSum'
<1>1. Reference' = Reference /\ OutputCells' = OutputCells
  BY DEF Reference, OutputCells
<1>2. \A cell : AddedAt(Remaining, cell)' = AddedAt(Remaining, cell)
  BY Zenon
<1>3. QED
  BY <1>1, <1>2, Zenon DEF CsrSum

\* A thread that takes a row takes its visits with it.
LEMMA TakeSum ==
  ASSUME CsrInv, pc = "csr", UNCHANGED <<run, solution>>, CsrSum,
         NEW t \in Threads, NEW row \in todo, Csr!Take(t, row)
  PROVE  CsrSum'
<1>1. /\ visits[t] = {} /\ todo' = todo \ {row} /\ visits' = [visits EXCEPT ![t] = Csr!RowVisits(row)]
      /\ UNCHANGED <<left_union, right_union, loaded, output>>
  BY DEF Csr!Take
<1>2. DOMAIN visits = Threads /\ Csr!RowVisits(row) = {v \in AllVisits : v.at[1] = row}
  BY DEF CsrInv, Csr!RowVisits, AllVisits
<1>3. visits'[t] = {v \in AllVisits : v.at[1] = row} /\ \A u \in Threads \ {t} : visits'[u] = visits[u]
  BY <1>1, <1>2
<1>4. AllVisits' = AllVisits
  BY <1>1 DEF AllVisits
<1>5. ASSUME NEW v \in AllVisits
      PROVE  (v.at[1] \in todo' \/ \E u \in Threads : v \in visits'[u]) <=> (v.at[1] \in todo \/ \E u \in Threads : v \in visits[u])
  <2>1. v \in visits'[t] <=> v.at[1] = row
    BY <1>3
  <2>2. v \notin visits[t]
    BY <1>1
  <2>3. v.at[1] \in todo <=> v.at[1] \in todo' \/ v.at[1] = row
    BY <1>1
  <2>4. QED
    BY <1>3, <2>1, <2>2, <2>3
<1>6. Remaining' = Remaining
  BY <1>4, <1>5, RemainingIs
<1>7. QED
  BY <1>1, <1>6, CsrSumKept

\* A load adds nothing.
LEMMA LoadSum ==
  ASSUME UNCHANGED solution, CsrSum, NEW t \in Threads, Csr!Load(t)
  PROVE  CsrSum'
<1>1. UNCHANGED <<left_union, right_union, todo, visits, output>>
  BY DEF Csr!Load
<1>2. AllVisits' = AllVisits
  BY <1>1 DEF AllVisits
<1>3. Remaining' = Remaining
  BY <1>1, <1>2, RemainingIs, Zenon
<1>4. QED
  BY <1>1, <1>3, CsrSumKept

\* A store moves one product from what is to be added to the output.
LEMMA StoreSum ==
  ASSUME EntriesInRange, FilesByRows, CsrInv, pc = "csr", UNCHANGED <<run, solution>>,
         output \in [OutputCells -> Int], CsrSum,
         NEW t \in Threads, Csr!Store(t)
  PROVE  output' \in [OutputCells -> Int] /\ CsrSum'
<1>1. PICK v : v = Csr!First(visits[t])
  OBVIOUS
<1>2. /\ visits[t] # {} /\ loaded[t] # Csr!Nothing
      /\ output' = [output EXCEPT ![v.at] = loaded[t][1] + v.product]
      /\ visits' = [visits EXCEPT ![t] = visits[t] \ {v}]
      /\ UNCHANGED <<left_union, right_union, todo>>
  BY <1>1 DEF Csr!Store
<1>3. /\ Loaded /\ DOMAIN visits = Threads
      /\ \A u \in Threads : \A x \in visits[u] :
           /\ x \in AllVisits /\ x.at[1] \notin todo
           /\ \A w \in visits[u] : w.at[1] = x.at[1]
           /\ \A y \in Threads \ {u} : \A w \in visits[y] : w.at[1] # x.at[1]
      /\ loaded[t][1] = output[v.at]
  BY <1>1, <1>2, CsrLoaded
<1>4. v \in visits[t]
  <2>1. visits[t] \subseteq AllVisits /\ \A x, y \in visits[t] : x.at[1] = y.at[1]
    BY <1>3
  <2>2. QED
    BY <1>1, <1>2, <1>3, <2>1, FirstVisit
<1>5. v \in AllVisits /\ v.at[1] \notin todo /\ \A u \in Threads \ {t} : v \notin visits[u]
  BY <1>3, <1>4
<1>6. /\ IsFiniteSet(AllVisits) /\ \A x \in AllVisits : x.product \in Int
      /\ v.at \in OutputCells
  BY <1>3, <1>5, AllVisitsAdd, VisitFacts
<1>7. AllVisits' = AllVisits /\ Reference' = Reference /\ OutputCells' = OutputCells
  BY <1>2 DEF AllVisits, Reference, OutputCells
<1>8. visits'[t] = visits[t] \ {v} /\ \A u \in Threads \ {t} : visits'[u] = visits[u]
  BY <1>2, <1>3
<1>9. v \in Remaining /\ Remaining \in SUBSET AllVisits
  BY <1>4, <1>5, RemainingIs
<1>10. Remaining' = Remaining \ {v}
  <2>1. ASSUME NEW x \in AllVisits
        PROVE  (x.at[1] \in todo' \/ \E u \in Threads : x \in visits'[u]) <=>
                 (x.at[1] \in todo \/ \E u \in Threads : x \in visits[u]) /\ x # v
    <3>1. CASE x = v
      BY <1>2, <1>5, <1>8, <3>1
    <3>2. CASE x # v
      BY <1>2, <1>8, <3>2
    <3>3. QED
      BY <3>1, <3>2
  <2>2. QED
    BY <1>7, <2>1, RemainingIs
<1>11. \A u \in OutputCells : output[u] \in Int
  OBVIOUS
<1>12. v.product \in Int
  BY <1>5, <1>6
<1>13. output' \in [OutputCells -> Int]
  <2>1. loaded[t][1] + v.product \in Int
    BY <1>3, <1>6, <1>11, <1>12
  <2>2. QED
    BY <1>2, <2>1
<1>14. ASSUME NEW cell \in OutputCells
       PROVE  output'[cell] + AddedAt(Remaining \ {v}, cell) = Reference[cell]
  <2>1. /\ AddedAt(Remaining, cell) \in Int
        /\ AddedAt(Remaining, cell) =
             IF v.at = cell THEN v.product + AddedAt(Remaining \ {v}, cell) ELSE AddedAt(Remaining \ {v}, cell)
    <3>1. IsFiniteSet(Remaining) /\ \A x \in Remaining : x.product \in Int
      BY <1>6, <1>9, FS_Subset
    <3>2. QED
      BY <1>9, <3>1, AddedWithout
  <2>2. AddedAt(Remaining \ {v}, cell) \in Int
    <3>1. CASE Remaining \ {v} = {}
      <4>1. AddedAt({}, cell) = 0
        BY AddedNone
      <4>2. QED
        BY <3>1, <4>1
    <3>2. CASE Remaining \ {v} # {}
      <4>1. PICK w : w \in Remaining \ {v}
        BY <3>2
      <4>2. IsFiniteSet(Remaining \ {v}) /\ \A x \in Remaining \ {v} : x.product \in Int
        BY <1>6, <1>9, FS_Subset
      <4>3. QED
        BY <4>1, <4>2, AddedWithout
    <3>3. QED
      BY <3>1, <3>2
  <2>3. output[cell] + AddedAt(Remaining, cell) = Reference[cell] /\ output[cell] \in Int
    BY <1>11 DEF CsrSum
  <2>4. CASE v.at = cell
    <3>1. output'[cell] = output[cell] + v.product
      BY <1>2, <1>3, <2>4
    <3>2. QED
      BY <1>12, <2>1, <2>2, <2>3, <2>4, <3>1
  <2>5. CASE v.at # cell
    <3>1. output'[cell] = output[cell]
      BY <1>2, <2>5
    <3>2. QED
      BY <2>1, <2>3, <2>5, <3>1
  <2>6. QED
    BY <2>4, <2>5
<1>15. CsrSum'
  <2>1. PICK rest : rest = Remaining \ {v}
    OBVIOUS
  <2>2. \A cell : AddedAt(Remaining, cell)' = AddedAt(rest, cell)
    BY <1>10, <2>1, Zenon
  <2>3. QED
    BY <1>7, <1>14, <2>1, <2>2, Zenon DEF CsrSum
<1>16. QED
  BY <1>13, <1>15

\* The output is cleared and everything is to be added.
LEMMA StartSum ==
  ASSUME EntriesInRange, FilesByRows, CsrInv, Loaded, output \in [OutputCells -> Int],
         UNCHANGED <<run, solution>>, Csr!Start
  PROVE  output' \in [OutputCells -> Int] /\ CsrSum'
<1>1. /\ output' = [cell \in OutputCells |-> 0] /\ todo' = 0 .. left_union.matrix.row_count - 1
      /\ UNCHANGED <<left_union, right_union>>
  BY DEF Csr!Start
<1>2. /\ AllVisits' = AllVisits /\ Reference' = Reference /\ OutputCells' = OutputCells
      /\ left_union.matrix.row_count = solution.left.row_count
  <2>1. run \in Runs /\ solution = Solution(run.file)
    BY DEF Loaded
  <2>2. CooToFormat(solution.left.coo, solution.left.row_count, solution.left.col_count, "MAT_CSR").matrix.row_count = solution.left.row_count
    BY <2>1, CsrOfFile
  <2>3. QED
    BY <1>1, <2>2 DEF AllVisits, Reference, OutputCells, Loaded
<1>3. Remaining' = AllVisits
  <2>1. \A v \in AllVisits : v.at \in OutputCells
    BY VisitFacts
  <2>2. \A v \in AllVisits : v.at[1] \in todo'
    BY <1>1, <1>2, <2>1 DEF OutputCells
  <2>3. QED
    BY <1>2, <2>2, RemainingIs
<1>4. \A cell \in OutputCells : AddedAt(AllVisits, cell) = Reference[cell] /\ Reference[cell] \in Int
  BY AllVisitsAdd, ReferenceIs DEF Loaded
<1>5. PICK V : V = AllVisits
  OBVIOUS
<1>6. \A cell : AddedAt(Remaining, cell)' = AddedAt(V, cell)
  BY <1>3, <1>5, Zenon
<1>7. \A cell \in OutputCells : output'[cell] + AddedAt(V, cell) = Reference[cell]
  BY <1>1, <1>4, <1>5
<1>8. QED
  BY <1>1, <1>2, <1>6, <1>7 DEF CsrSum

\* Nothing is left: the output is the product.
LEMMA FinishSum ==
  ASSUME EntriesInRange, Loaded, output \in [OutputCells -> Int], CsrSum, Csr!Finished
  PROVE  \A cell \in OutputCells : output[cell] = Reference[cell]
<1>1. Remaining = {}
  BY RemainingIs DEF Csr!Finished
<1>2. \A cell : AddedAt({}, cell) = 0
  BY AddedNone
<1>3. QED
  BY <1>1, <1>2 DEF CsrSum

\* The output that --verify begins with.
LEMMA ZerosAre ==
  ASSUME NEW L, NEW R, Operands(L, R), NEW rows, rows = L.row_count, NEW cols, cols = R.col_count
  PROVE  IsOutput(Zeros(rows, cols), L, R) /\ \A cell \in Rows(L) \X Cols(R) : Zeros(rows, cols).values[cell] = 0
<1>1. Zeros(rows, cols) = [row_count |-> L.row_count, col_count |-> R.col_count, values |-> [cell \in Rows(L) \X Cols(R) |-> 0]]
  BY DEF Zeros, Rows, Cols
<1>2. Zeros(rows, cols).values = [cell \in Rows(L) \X Cols(R) |-> 0]
  BY <1>1
<1>3. QED
  BY <1>1, <1>2 DEF IsOutput

\* coo_x_coo of the lists on zeros is the product.
LEMMA ComparedIs ==
  ASSUME EntriesInRange, FilesByRows, LeftByColumns, run \in Runs, solution = Solution(run.file), Compatible
  PROVE  Compared.values \in [OutputCells -> Int] /\ \A cell \in OutputCells : Compared.values[cell] = Reference[cell]
<1>1. PICK L, R : L = Given("left") /\ R = Given("right")
  OBVIOUS
<1>2. /\ Operands(L, R) /\ Reference = Product(L, R) /\ Rows(L) \X Cols(R) = OutputCells
      /\ \A cell \in OutputCells : Reference[cell] \in Int
  BY <1>1, ReferenceIs
<1>3. L.row_count = solution.left.row_count /\ R.col_count = solution.right.col_count
  BY <1>1, GivenIsDense
<1>4. PICK left, right : left = solution.left.coo /\ right = solution.right.coo
  OBVIOUS
<1>5. PICK zeros : zeros = Zeros(solution.left.row_count, solution.right.col_count)
  OBVIOUS
<1>6. IsOutput(zeros, L, R) /\ \A cell \in Rows(L) \X Cols(R) : zeros.values[cell] = 0
  BY <1>2, <1>3, <1>5, ZerosAre
<1>7. PICK V : V = coo_x_coo(left, right)
  OBVIOUS
<1>8. Compared = Accumulate(zeros, V)
  BY <1>4, <1>5, <1>7 DEF Compared, Kernel, Stored, Visits
<1>9. /\ IsOutput(Compared, L, R)
      /\ \A cell \in Rows(L) \X Cols(R) : Compared.values[cell] = zeros.values[cell] + Product(L, R)[cell]
  <2>1. PICK P, n, c : ListOf(left, P, L, n, c)
    BY <1>1, <1>4, GivenLists
  <2>2. PICK Q, k, e : ListOf(right, Q, R, k, e)
    BY <1>1, <1>4, GivenLists
  <2>3. \A i, j \in DOMAIN left : i < j /\ left[i].row = left[j].row => left[i].col < left[j].col
    BY <1>4, Zenon DEF LeftByColumns
  <2>4. \A cell \in Rows(L) \X Cols(R) : AddedAt(V, cell) = Product(L, R)[cell]
    BY <1>2, <1>7, <2>1, <2>2, <2>3, ListsCooCoo
  <2>5. PICK result : result = Accumulate(zeros, V)
    OBVIOUS
  <2>6. /\ IsOutput(result, L, R)
        /\ \A cell \in Rows(L) \X Cols(R) : result.values[cell] = zeros.values[cell] + Product(L, R)[cell]
    BY <1>2, <1>6, <2>4, <2>5, AddsProduct
  <2>7. QED
    BY <1>8, <2>5, <2>6
<1>10. Compared.values \in [OutputCells -> Int]
  BY <1>2, <1>9, Zenon DEF IsOutput
<1>11. ASSUME NEW cell \in OutputCells PROVE Compared.values[cell] = Reference[cell]
  <2>1. /\ Compared.values[cell] = zeros.values[cell] + Product(L, R)[cell]
        /\ zeros.values[cell] = 0 /\ Product(L, R)[cell] = Reference[cell] /\ Reference[cell] \in Int
    BY <1>2, <1>6, <1>9
  <2>2. QED
    BY <2>1
<1>12. QED
  BY <1>10, <1>11

-----------------------------------------------------------------------------
(* The sums of the blocked product.                                        *)

\* What the loop leaves is the sum of the products.
LEMMA LoopSums ==
  ASSUME NEW N \in Nat, NEW A, NEW B, NEW rows, NEW cols, PairsOf(A, B, N, rows, cols),
         NEW l \in Formats, NEW r \in Formats, <<l, r>> # <<"MAT_COO", "MAT_CSC">>,
         NEW u, \A n \in 0 .. N - 1 : u[n] = DenseToFormat(A[n], l),
         NEW w, \A n \in 0 .. N - 1 : w[n] = DenseToFormat(B[n], r)
  PROVE  LoopOutput(N, Zeros(rows, cols), u, w) = SumsTo(A, B, N, rows, cols, N)
<1>1. PICK h : h = [n \in 0 .. N |-> SumsTo(A, B, N, rows, cols, n)]
  OBVIOUS
<1>2. SumsTo(A, B, N, rows, cols, 0) = Zeros(rows, cols)
  <2>1. ASSUME NEW cell PROVE SumOf(ProductsAt(A, B, N, cell), 0 .. 0 - 1) = 0
    <3>1. PICK f : f = ProductsAt(A, B, N, cell)
      OBVIOUS
    <3>2. 0 .. 0 - 1 = {} /\ Summable(f, {})
      BY FS_EmptySet DEF Summable
    <3>3. SumOf(f, {}) = 0
      BY <3>2, SumStep
    <3>4. QED
      BY <3>1, <3>2, <3>3
  <2>2. QED
    BY <2>1, Zenon DEF SumsTo, Zeros
<1>3. ASSUME NEW n \in 1 .. N PROVE h[n] = do_sparse_matmul(h[n - 1], u[n - 1], w[n - 1])
  <2>1. n \in 0 .. N /\ n - 1 \in 0 .. N /\ n - 1 \in 0 .. N - 1
    OBVIOUS
  <2>2. h[n] = SumsTo(A, B, N, rows, cols, n) /\ h[n - 1] = SumsTo(A, B, N, rows, cols, n - 1)
    BY <1>1, <2>1
  <2>3. u[n - 1] = DenseToFormat(A[n - 1], l) /\ w[n - 1] = DenseToFormat(B[n - 1], r)
    BY <2>1
  <2>4. SumsTo(A, B, N, rows, cols, n) =
          do_sparse_matmul(SumsTo(A, B, N, rows, cols, n - 1), DenseToFormat(A[n - 1], l), DenseToFormat(B[n - 1], r))
    BY SumsStep
  <2>5. QED
    BY <2>2, <2>3, <2>4, Zenon
<1>4. Repeats(h, N, Zeros(rows, cols), u, w)
  <2>1. ASSUME NEW n \in 0 .. N
        PROVE  h[n] = IF n = 0 THEN Zeros(rows, cols) ELSE do_sparse_matmul(h[n - 1], u[n - 1], w[n - 1])
    <3>1. CASE n = 0
      BY <1>1, <1>2, <3>1
    <3>2. CASE n # 0
      <4>1. n \in 1 .. N
        BY <3>2
      <4>2. QED
        BY <1>3, <3>2, <4>1
    <3>3. QED
      BY <3>1, <3>2
  <2>2. h = [n \in 0 .. N |-> h[n]]
    BY <1>1
  <2>3. QED
    BY <2>1, <2>2 DEF Repeats
<1>5. PICK g : g = CHOOSE x : Repeats(x, N, Zeros(rows, cols), u, w)
  OBVIOUS
<1>6. Repeats(g, N, Zeros(rows, cols), u, w)
  BY <1>4, <1>5, Zenon
<1>7. g = h
  BY <1>4, <1>6, RepeatsOnce
<1>8. h[N] = SumsTo(A, B, N, rows, cols, N)
  BY <1>1
<1>9. LoopOutput(N, Zeros(rows, cols), u, w) = g[N]
  BY <1>5, Zenon DEF LoopOutput
<1>10. QED
  BY <1>7, <1>8, <1>9

\* A sum over all numbers, part by part: f over those of the part that starts at s.
LEMMA SumByStart ==
  ASSUME NEW b \in Nat \ {0}, NEW n \in Nat, n % b = 0, NEW f, Summable(f, 0 .. n - 1),
         NEW h, \A s \in Starts(b, n) : SumsPart(f, s, b, h[s])
  PROVE  Summable(h, Starts(b, n)) /\ SumOf(h, Starts(b, n)) = SumOf(f, 0 .. n - 1)
<1>1. PICK key : key = [x \in 0 .. n - 1 |-> x - (x % b)]
  OBVIOUS
<1>2. ASSUME NEW x \in 0 .. n - 1 PROVE key[x] \in Starts(b, n)
  <2>0. x \in Nat
    OBVIOUS
  <2>1. x \in Nat /\ x % b \in 0 .. b - 1 /\ x \div b \in Nat /\ x = (b * (x \div b)) + (x % b)
    BY <2>0, DivMod
  <2>2. PICK q \in Nat, r \in 0 .. b - 1 : q = x \div b /\ r = x % b
    BY <2>1
  <2>3. b * q \in Nat /\ x - (x % b) = b * q + 0
    BY <2>1, <2>2
  <2>4. (b * q + 0) % b = 0
    BY QuotientAndRest
  <2>5. x - (x % b) \in 0 .. n - 1 /\ (x - (x % b)) % b = 0
    BY <2>1, <2>2, <2>3, <2>4
  <2>6. QED
    BY <1>1, <2>5 DEF Starts
<1>3. ASSUME NEW s \in Starts(b, n) PROVE h[s] = SumOf(f, {x \in 0 .. n - 1 : key[x] = s})
  <2>1. PICK g : (\A k \in 0 .. b - 1 : g[k] = f[s + k]) /\ h[s] = SumOf(g, 0 .. b - 1)
    BY DEF SumsPart
  <2>2. s \in Nat /\ s < n /\ s % b = 0
    BY DEF Starts
  <2>3. s + b <= n
    BY <2>2, StartsApart
  <2>4. From(n, s, b) = {x \in 0 .. n - 1 : s <= x /\ x < s + b}
    BY DEF From
  <2>5. SumOf(g, 0 .. b - 1) = SumOf(f, From(n, s, b))
    <3>1. b \in Nat
      OBVIOUS
    <3>2. QED
      BY <2>1, <2>2, <2>3, <3>1, SumFrom
  <2>6. \A x \in 0 .. n - 1 : key[x] = s <=> s <= x /\ x < s + b
    <3> SUFFICES ASSUME NEW x \in 0 .. n - 1 PROVE key[x] = s <=> s <= x /\ x < s + b
      OBVIOUS
    <3>1. key[x] = x - (x % b) /\ x \in Nat
      BY <1>1
    <3>2. x - (x % b) = s <=> s <= x /\ x < s + b
      BY <2>2, <3>1, PartByStart
    <3>3. QED
      BY <3>1, <3>2
  <2>7. QED
    BY <2>1, <2>4, <2>5, <2>6
<1>4. SumsKeys(h, Starts(b, n), f, 0 .. n - 1, key)
  BY <1>2, <1>3 DEF SumsKeys
<1>5. IsFiniteSet(Starts(b, n))
  <2>1. IsFiniteSet(0 .. n - 1) /\ Starts(b, n) \subseteq 0 .. n - 1
    BY FS_Interval DEF Starts
  <2>2. QED
    BY <2>1, FS_Subset
<1>6. QED
  BY <1>4, <1>5, SumByKey

\* Matrices that have a product are blocked.
Blocked ==
  /\ run \in Runs /\ solution = Solution(run.file) /\ Compatible
  /\ side = "done" /\ PassedArePacked /\ MultiSparsify!Divides("left") /\ MultiSparsify!Divides("right")

\* The blocks of columns of the left matrix and of rows of the right one.
LEMMA InnerBlocks ==
  ASSUME GroupsDivide, InnerGroupsDivide, Blocked, NEW c, c = MultiSparsify!BlocksColCount("left")
  PROVE  /\ c \in Nat /\ c = MultiSparsify!BlocksRowCount("right") /\ c % BLOCK_P = 0
         /\ solution.left.col_count = BLOCK_KU * c
         /\ BLOCK_KU \in Nat \ {0} /\ BLOCK_P \in Nat \ {0} /\ BLOCK_MR \in Nat \ {0} /\ BLOCK_NR \in Nat \ {0}
<1>1. c \in Nat
  BY BlockCounts DEF Blocked
<1>2. BLOCK_KU \in Nat \ {0} /\ BLOCK_P \in Nat \ {0} /\ BLOCK_MR \in Nat \ {0} /\ BLOCK_NR \in Nat \ {0}
  BY BlockAssumption
<1>3. blocking["left"].col_count = BLOCK_KU /\ blocking["right"].row_count = BLOCK_KU
  BY DEF blocking
<1>4. c = solution.left.col_count \div BLOCK_KU /\ solution.left.col_count % BLOCK_KU = 0
  BY <1>3 DEF Blocked, MultiSparsify!BlocksColCount, MultiSparsify!Divides
<1>5. c = MultiSparsify!BlocksRowCount("right")
  BY <1>3, <1>4 DEF Blocked, Compatible, MultiSparsify!BlocksRowCount
<1>6. c % BLOCK_P = 0
  BY <1>4, Zenon DEF Blocked, InnerGroupsDivide
<1>7. solution.left.col_count = BLOCK_KU * c
  <2>1. PICK n : n = solution.left.col_count
    OBVIOUS
  <2>2. n \in Nat
    BY <2>1 DEF Blocked, GroupsDivide
  <2>3. n = (BLOCK_KU * (n \div BLOCK_KU)) + (n % BLOCK_KU) /\ n \div BLOCK_KU \in Nat
    BY <1>2, <2>2, DivMod
  <2>4. n = (BLOCK_KU * c) + 0
    BY <1>4, <2>1, <2>3
  <2>5. BLOCK_KU * c \in Nat
    BY <1>1, <1>2
  <2>6. QED
    BY <2>1, <2>4, <2>5
<1>8. QED
  BY <1>1, <1>2, <1>5, <1>6, <1>7

\* A block is read as its part of the matrix, in the format asked for.
LEMMA BlockRead ==
  ASSUME GroupsDivide, EntriesInRange, NoneDense, Blocked, NEW s \in {"left", "right"},
         NEW row \in 0 .. MultiSparsify!BlocksRowCount(s) - 1,
         NEW col \in 0 .. MultiSparsify!BlocksColCount(s) - 1,
         NEW n, n = row * MultiSparsify!BlocksColCount(s) + col
  PROVE  /\ MultiSparsify!Block(s, n) = DenseToFormat(MultiSparsify!BlockOf(s, n), run[s])
         /\ IsDense(MultiSparsify!BlockOf(s, n))
         /\ MultiSparsify!BlockOf(s, n) =
              PartAt(Given(s), row * blocking[s].row_count, col * blocking[s].col_count,
                     blocking[s].row_count, blocking[s].col_count)
<1>1. run \in Runs /\ solution = Solution(run.file) /\ side = "done" /\ MultiSparsify!Divides(s) /\ PassedArePacked
  BY DEF Blocked
<1>2. IsPacked(s, row * MultiSparsify!BlocksColCount(s) + col)
  BY <1>1 DEF PassedArePacked, Passed
<1>3. blocks[s][n] = DenseToFormat(MultiSparsify!BlockOf(s, n), run[s])
  BY <1>2, BlockConversion DEF IsPacked
<1>4. run[s] \in Formats /\ run[s] # "MAT_DENSE"
  BY <1>1, FormatAsked
<1>5. blocks[s][n].format = run[s]
  BY <1>3 DEF DenseToFormat
<1>6. MultiSparsify!Block(s, n) = blocks[s][n]
  BY <1>4, <1>5 DEF MultiSparsify!Block, MultiSparsify!InPack
<1>7. /\ IsDense(MultiSparsify!BlockOf(s, n))
      /\ MultiSparsify!BlockOf(s, n) =
           PartAt(DenseFromCoo(solution[s].coo, solution[s].row_count, solution[s].col_count),
                  row * blocking[s].row_count, col * blocking[s].col_count, blocking[s].row_count, blocking[s].col_count)
  BY <1>1, PackedBlock
<1>8. QED
  BY <1>3, <1>6, <1>7, Zenon DEF Given

\* The blocks that meet in the output block <<i, j>>: number p in a row of blocks of the left matrix, ...
LeftBlock(i, p) == MultiSparsify!BlockOf("left", i * MultiSparsify!BlocksColCount("left") + p)

\* ... and number p in a column of blocks of the right one.
RightBlock(p, j) == MultiSparsify!BlockOf("right", p * MultiSparsify!BlocksColCount("right") + j)

\* They have a product, and are read as parts of the matrices in the formats asked for.
LEMMA BlocksMeet ==
  ASSUME GroupsDivide, EntriesInRange, NoneDense, InnerGroupsDivide, Blocked,
         NEW i \in 0 .. MultiSparsify!BlocksRowCount("left") - 1,
         NEW j \in 0 .. MultiSparsify!BlocksColCount("right") - 1,
         NEW p \in 0 .. MultiSparsify!BlocksColCount("left") - 1
  PROVE  /\ MultiSparsify!Block("left", i * MultiSparsify!BlocksColCount("left") + p) = DenseToFormat(LeftBlock(i, p), run.left)
         /\ MultiSparsify!Block("right", p * MultiSparsify!BlocksColCount("right") + j) = DenseToFormat(RightBlock(p, j), run.right)
         /\ Operands(LeftBlock(i, p), RightBlock(p, j))
         /\ LeftBlock(i, p) = PartAt(Given("left"), i * BLOCK_MR, p * BLOCK_KU, BLOCK_MR, BLOCK_KU)
         /\ RightBlock(p, j) = PartAt(Given("right"), p * BLOCK_KU, j * BLOCK_NR, BLOCK_KU, BLOCK_NR)
<1>1. p \in 0 .. MultiSparsify!BlocksRowCount("right") - 1
  BY InnerBlocks
<1>2. /\ blocking["left"].row_count = BLOCK_MR /\ blocking["left"].col_count = BLOCK_KU
      /\ blocking["right"].row_count = BLOCK_KU /\ blocking["right"].col_count = BLOCK_NR
  BY DEF blocking
<1>3. PICK n, m : /\ n = i * MultiSparsify!BlocksColCount("left") + p
                  /\ m = p * MultiSparsify!BlocksColCount("right") + j
  OBVIOUS
<1>4. /\ MultiSparsify!Block("left", n) = DenseToFormat(MultiSparsify!BlockOf("left", n), run["left"])
      /\ IsDense(MultiSparsify!BlockOf("left", n))
      /\ MultiSparsify!BlockOf("left", n) = PartAt(Given("left"), i * BLOCK_MR, p * BLOCK_KU, BLOCK_MR, BLOCK_KU)
  <2>1. PICK s : s = "left"
    OBVIOUS
  <2>2. s \in {"left", "right"} /\ i \in 0 .. MultiSparsify!BlocksRowCount(s) - 1 /\ p \in 0 .. MultiSparsify!BlocksColCount(s) - 1
        /\ n = i * MultiSparsify!BlocksColCount(s) + p
    BY <1>3, <2>1
  <2>3. /\ MultiSparsify!Block(s, n) = DenseToFormat(MultiSparsify!BlockOf(s, n), run[s])
        /\ IsDense(MultiSparsify!BlockOf(s, n))
        /\ MultiSparsify!BlockOf(s, n) =
             PartAt(Given(s), i * blocking[s].row_count, p * blocking[s].col_count,
                    blocking[s].row_count, blocking[s].col_count)
    BY <2>2, BlockRead
  <2>4. QED
    BY <1>2, <2>1, <2>3, Zenon
<1>5. /\ MultiSparsify!Block("right", m) = DenseToFormat(MultiSparsify!BlockOf("right", m), run["right"])
      /\ IsDense(MultiSparsify!BlockOf("right", m))
      /\ MultiSparsify!BlockOf("right", m) = PartAt(Given("right"), p * BLOCK_KU, j * BLOCK_NR, BLOCK_KU, BLOCK_NR)
  <2>1. PICK s : s = "right"
    OBVIOUS
  <2>2. s \in {"left", "right"} /\ p \in 0 .. MultiSparsify!BlocksRowCount(s) - 1 /\ j \in 0 .. MultiSparsify!BlocksColCount(s) - 1
        /\ m = p * MultiSparsify!BlocksColCount(s) + j
    BY <1>1, <1>3, <2>1
  <2>3. /\ MultiSparsify!Block(s, m) = DenseToFormat(MultiSparsify!BlockOf(s, m), run[s])
        /\ IsDense(MultiSparsify!BlockOf(s, m))
        /\ MultiSparsify!BlockOf(s, m) =
             PartAt(Given(s), p * blocking[s].row_count, j * blocking[s].col_count,
                    blocking[s].row_count, blocking[s].col_count)
    BY <2>2, BlockRead
  <2>4. QED
    BY <1>2, <2>1, <2>3, Zenon
<1>6. MultiSparsify!BlockOf("left", n).col_count = BLOCK_KU /\ MultiSparsify!BlockOf("right", m).row_count = BLOCK_KU
  BY <1>4, <1>5 DEF PartAt
<1>7. Operands(MultiSparsify!BlockOf("left", n), MultiSparsify!BlockOf("right", m))
  BY <1>4, <1>5, <1>6 DEF Operands
<1>8. QED
  BY <1>3, <1>4, <1>5, <1>7, Zenon DEF LeftBlock, RightBlock

\* The temporary of an output block: the products of the blocks of a group, together.
LEMMA TemporaryIs ==
  ASSUME GroupsDivide, EntriesInRange, NoneDense, NoneStores, InnerGroupsDivide, Blocked,
         NEW i \in 0 .. MultiSparsify!BlocksRowCount("left") - 1,
         NEW j \in 0 .. MultiSparsify!BlocksColCount("right") - 1,
         NEW p_o \in Starts(BLOCK_P, MultiSparsify!BlocksColCount("left")),
         NEW cell \in (0 .. BLOCK_MR - 1) \X (0 .. BLOCK_NR - 1)
  PROVE  \E g : /\ \A n \in 0 .. BLOCK_P - 1 : g[n] = Product(LeftBlock(i, p_o + n), RightBlock(p_o + n, j))[cell]
                /\ Temporary(i, j, p_o)[cell] = SumOf(g, 0 .. BLOCK_P - 1)
<1> DEFINE N == BLOCK_P
           lc == MultiSparsify!BlocksColCount("left")
           rc == MultiSparsify!BlocksColCount("right")
<1>1. /\ lc \in Nat /\ lc % N = 0 /\ N \in Nat \ {0}
      /\ p_o \in Nat /\ p_o + N <= lc
  <2>1. lc \in Nat /\ lc % N = 0 /\ N \in Nat \ {0}
    BY InnerBlocks
  <2>2. p_o \in Nat /\ p_o < lc /\ p_o % N = 0
    BY <2>1 DEF Starts
  <2>3. QED
    BY <2>1, <2>2, StartsApart
<1>2. PICK A, B : /\ A = [n \in 0 .. N - 1 |-> LeftBlock(i, p_o + n)]
                  /\ B = [n \in 0 .. N - 1 |-> RightBlock(p_o + n, j)]
  OBVIOUS
<1>3. PICK u, w : /\ u = [n \in 0 .. N - 1 |-> MultiSparsify!Block("left", i * lc + (p_o + n))]
                  /\ w = [n \in 0 .. N - 1 |-> MultiSparsify!Block("right", (p_o + n) * rc + j)]
  OBVIOUS
<1>4. ASSUME NEW n \in 0 .. N - 1
      PROVE  /\ Operands(A[n], B[n]) /\ A[n].row_count = BLOCK_MR /\ B[n].col_count = BLOCK_NR
             /\ u[n] = DenseToFormat(A[n], run.left) /\ w[n] = DenseToFormat(B[n], run.right)
  <2>1. PICK p : p = p_o + n
    OBVIOUS
  <2>2. p \in 0 .. lc - 1
    BY <1>1, <2>1
  <2>3. /\ MultiSparsify!Block("left", i * lc + p) = DenseToFormat(LeftBlock(i, p), run.left)
        /\ MultiSparsify!Block("right", p * rc + j) = DenseToFormat(RightBlock(p, j), run.right)
        /\ Operands(LeftBlock(i, p), RightBlock(p, j))
        /\ LeftBlock(i, p) = PartAt(Given("left"), i * BLOCK_MR, p * BLOCK_KU, BLOCK_MR, BLOCK_KU)
        /\ RightBlock(p, j) = PartAt(Given("right"), p * BLOCK_KU, j * BLOCK_NR, BLOCK_KU, BLOCK_NR)
    BY <2>2, BlocksMeet
  <2>4. LeftBlock(i, p).row_count = BLOCK_MR /\ RightBlock(p, j).col_count = BLOCK_NR
    BY <2>3 DEF PartAt
  <2>5. /\ A[n] = LeftBlock(i, p) /\ B[n] = RightBlock(p, j)
        /\ u[n] = MultiSparsify!Block("left", i * lc + p) /\ w[n] = MultiSparsify!Block("right", p * rc + j)
    BY <1>2, <1>3, <2>1, Zenon
  <2>6. QED
    BY <2>3, <2>4, <2>5
<1>5. PairsOf(A, B, N, BLOCK_MR, BLOCK_NR)
  BY <1>4 DEF PairsOf
<1>6. run.left \in Formats /\ run.right \in Formats /\ <<run.left, run.right>> # <<"MAT_COO", "MAT_CSC">>
  BY Zenon DEF Blocked, NoneDense, NoneStores
<1>7. PICK first : first = Zeros(BLOCK_MR, BLOCK_NR)
  OBVIOUS
<1>8. (CHOOSE h : Repeats(h, N, first, u, w))[N] = SumsTo(A, B, N, BLOCK_MR, BLOCK_NR, N)
  <2>1. PICK l, r, rows, cols, b : l = run.left /\ r = run.right /\ rows = BLOCK_MR /\ cols = BLOCK_NR /\ b = N
    OBVIOUS
  <2>2. /\ b \in Nat /\ PairsOf(A, B, b, rows, cols) /\ l \in Formats /\ r \in Formats /\ <<l, r>> # <<"MAT_COO", "MAT_CSC">>
        /\ \A n \in 0 .. b - 1 : u[n] = DenseToFormat(A[n], l)
        /\ \A n \in 0 .. b - 1 : w[n] = DenseToFormat(B[n], r)
    BY <1>1, <1>4, <1>5, <1>6, <2>1
  <2>3. LoopOutput(b, Zeros(rows, cols), u, w) = SumsTo(A, B, b, rows, cols, b)
    BY <2>2, LoopSums
  <2>4. QED
    BY <1>7, <2>1, <2>3, Zenon DEF LoopOutput
<1> DEFINE Temps(h) == h = [n \in 0 .. BLOCK_P |->
             IF n = 0 THEN Zeros(BLOCK_MR, BLOCK_NR)
             ELSE do_sparse_matmul(h[n - 1],
                                   MultiSparsify!Block("left", i * MultiSparsify!BlocksColCount("left") + (p_o + n - 1)),
                                   MultiSparsify!Block("right", (p_o + n - 1) * MultiSparsify!BlocksColCount("right") + j))]
<1>9. Temporary(i, j, p_o) = (CHOOSE h : Temps(h))[N].values
  BY Zenon DEF Temporary
<1>10. \A h : Temps(h) <=> Repeats(h, N, first, u, w)
  <2>1. ASSUME NEW n \in 0 .. N, n # 0
        PROVE  /\ u[n - 1] = MultiSparsify!Block("left", i * lc + (p_o + n - 1))
               /\ w[n - 1] = MultiSparsify!Block("right", (p_o + n - 1) * rc + j)
    <3>1. n - 1 \in 0 .. N - 1 /\ p_o + (n - 1) = p_o + n - 1
      BY <1>1, <2>1
    <3>2. /\ u[n - 1] = MultiSparsify!Block("left", i * lc + (p_o + (n - 1)))
          /\ w[n - 1] = MultiSparsify!Block("right", (p_o + (n - 1)) * rc + j)
      BY <1>3, <3>1
    <3>3. QED
      BY <3>1, <3>2
  <2> HIDE DEF lc, rc
  <2>2. ASSUME NEW h
        PROVE  Temps(h) <=> Repeats(h, N, first, u, w)
    <3> DEFINE a == [n \in 0 .. N |-> IF n = 0 THEN Zeros(BLOCK_MR, BLOCK_NR)
                       ELSE do_sparse_matmul(h[n - 1], MultiSparsify!Block("left", i * lc + (p_o + n - 1)),
                                             MultiSparsify!Block("right", (p_o + n - 1) * rc + j))]
               b == [n \in 0 .. N |-> IF n = 0 THEN first ELSE do_sparse_matmul(h[n - 1], u[n - 1], w[n - 1])]
    <3>1. a = b
      BY <1>7, <2>1
    <3>2. Temps(h) <=> h = a
      BY Zenon DEF lc, rc
    <3>3. Repeats(h, N, first, u, w) <=> h = b
      BY Zenon DEF Repeats
    <3>4. QED
      BY <3>1, <3>2, <3>3, Zenon
  <2>3. QED
    BY <2>2, Zenon
<1>11. (CHOOSE h : Temps(h)) = (CHOOSE h : Repeats(h, N, first, u, w))
  BY <1>10, Zenon
<1>12. Temporary(i, j, p_o)[cell] = SumOf(ProductsAt(A, B, N, cell), 0 .. N - 1)
  <2>1. Temporary(i, j, p_o) = SumsTo(A, B, N, BLOCK_MR, BLOCK_NR, N).values
    BY <1>8, <1>9, <1>11, Zenon
  <2>2. SumsTo(A, B, N, BLOCK_MR, BLOCK_NR, N).values =
          [x \in (0 .. BLOCK_MR - 1) \X (0 .. BLOCK_NR - 1) |-> SumOf(ProductsAt(A, B, N, x), 0 .. N - 1)]
    BY DEF SumsTo
  <2>3. QED
    BY <2>1, <2>2
<1>13. \A n \in 0 .. N - 1 : ProductsAt(A, B, N, cell)[n] = Product(LeftBlock(i, p_o + n), RightBlock(p_o + n, j))[cell]
  BY <1>2 DEF ProductsAt
<1>14. QED
  BY <1>12, <1>13

\* What the temporaries of an output block add to one of its elements.
Temporaries(V, i, j, element) == Total(V, LAMBDA p_o : Temporary(i, j, p_o)[element])

\* The fold over the groups is a sum.
LEMMA TotalOfTemporaries ==
  ASSUME NEW V, NEW i, NEW j, NEW element, NEW f, \A p_o \in V : f[p_o] = Temporary(i, j, p_o)[element]
  PROVE  Temporaries(V, i, j, element) = SumOf(f, V)
<1> DEFINE A(iter) == iter = [s \in SUBSET V |-> IF s = {} THEN 0 ELSE LET x == CHOOSE x \in s : TRUE
                                                                      IN  Temporary(i, j, x)[element] + iter[s \ {x}]]
           B(iter) == iter = [s \in SUBSET V |-> IF s = {} THEN 0 ELSE LET x == CHOOSE x \in s : TRUE
                                                                      IN  f[x] + iter[s \ {x}]]
<1>1. \A s \in SUBSET V : s # {} => (CHOOSE x \in s : TRUE) \in V
  OBVIOUS
<1>2. \A iter : A(iter) <=> B(iter)
  BY <1>1
<1>3. (CHOOSE iter : A(iter)) = (CHOOSE iter : B(iter))
  BY <1>2, Zenon
<1>4. Temporaries(V, i, j, element) = (CHOOSE iter : A(iter))[V]
  BY Zenon DEF Temporaries, Total, MapThenSumSet, MapThenFoldSet
<1>5. SumOf(f, V) = (CHOOSE iter : B(iter))[V]
  BY Zenon DEF SumOf
<1>6. QED
  BY <1>3, <1>4, <1>5, Zenon

\* The products of all blocks that meet in an output block make the product there.
LEMMA BlocksSum ==
  ASSUME GroupsDivide, EntriesInRange, NoneDense, NoneStores, InnerGroupsDivide, Blocked,
         NEW i \in 0 .. MultiSparsify!BlocksRowCount("left") - 1,
         NEW j \in 0 .. MultiSparsify!BlocksColCount("right") - 1,
         NEW x \in 0 .. BLOCK_MR - 1, NEW y \in 0 .. BLOCK_NR - 1,
         <<i * BLOCK_MR + x, j * BLOCK_NR + y>> \in OutputCells
  PROVE  \E h : /\ \A p_o \in Starts(BLOCK_P, MultiSparsify!BlocksColCount("left")) : h[p_o] = Temporary(i, j, p_o)[<<x, y>>]
                /\ SumOf(h, Starts(BLOCK_P, MultiSparsify!BlocksColCount("left"))) =
                     Reference[<<i * BLOCK_MR + x, j * BLOCK_NR + y>>]
<1>1. PICK c : c = MultiSparsify!BlocksColCount("left")
  OBVIOUS
<1>2. /\ c \in Nat /\ c % BLOCK_P = 0 /\ solution.left.col_count = BLOCK_KU * c
      /\ BLOCK_KU \in Nat \ {0} /\ BLOCK_P \in Nat \ {0} /\ BLOCK_MR \in Nat \ {0} /\ BLOCK_NR \in Nat \ {0}
  BY <1>1, InnerBlocks
<1>3. PICK L, R : L = Given("left") /\ R = Given("right")
  OBVIOUS
<1>4. /\ Operands(L, R) /\ Reference = Product(L, R) /\ Rows(L) \X Cols(R) = OutputCells
  BY <1>3, ReferenceIs DEF Blocked
<1>5. PICK row, col : row = i * BLOCK_MR + x /\ col = j * BLOCK_NR + y
  OBVIOUS
<1>6. <<row, col>> \in Rows(L) \X Cols(R) /\ row \in Rows(L) /\ col \in Cols(R)
  BY <1>4, <1>5
<1>7. Cols(L) = 0 .. BLOCK_KU * c - 1
  <2>1. L.col_count = solution.left.col_count
    BY <1>3, GivenIsDense DEF Blocked
  <2>2. QED
    BY <1>2, <2>1 DEF Cols
\* one product for each common index, ...
<1>8. PICK f : f = [k \in Cols(L) |-> L.values[<<row, k>>] * R.values[<<k, col>>]]
  OBVIOUS
<1>9. Summable(f, 0 .. BLOCK_KU * c - 1) /\ Reference[<<row, col>>] = SumOf(f, 0 .. BLOCK_KU * c - 1)
  <2>1. ASSUME NEW k \in Cols(L) PROVE f[k] \in Int
    <3>1. PICK a, b : a = L.values[<<row, k>>] /\ b = R.values[<<k, col>>]
      OBVIOUS
    <3>2. a \in Int /\ b \in Int
      BY <1>4, <1>6, <3>1, OperandValues
    <3>3. QED
      BY <1>8, <3>1, <3>2
  <2>2. IsFiniteSet(Cols(L))
    BY <1>4, TripleFacts
  <2>3. PICK cell : cell = <<row, col>>
    OBVIOUS
  <2>4. \A k \in Cols(L) : f[k] = L.values[<<cell[1], k>>] * R.values[<<k, cell[2]>>]
    BY <1>8, <2>3
  <2>5. Product(L, R)[cell] = SumOf(f, Cols(L))
    BY <1>6, <2>3, <2>4, ProductOfCell
  <2>6. QED
    BY <1>4, <1>7, <2>1, <2>2, <2>3, <2>5 DEF Summable
\* ... together those of one pair of blocks, ...
<1>10. PICK e : e = [p \in 0 .. c - 1 |-> Product(LeftBlock(i, p), RightBlock(p, j))[<<x, y>>]]
  OBVIOUS
<1>11. ASSUME NEW p \in 0 .. c - 1
       PROVE  SumsPart(f, BLOCK_KU * p, BLOCK_KU, e[p])
  <2>1. /\ LeftBlock(i, p) = PartAt(L, i * BLOCK_MR, p * BLOCK_KU, BLOCK_MR, BLOCK_KU)
        /\ RightBlock(p, j) = PartAt(R, p * BLOCK_KU, j * BLOCK_NR, BLOCK_KU, BLOCK_NR)
    BY <1>1, <1>3, BlocksMeet
  <2>2. PICK s \in Nat : s = BLOCK_KU * p /\ s = p * BLOCK_KU
    <3>1. BLOCK_KU * p \in Nat /\ BLOCK_KU * p = p * BLOCK_KU
      BY <1>2
    <3>2. QED
      BY <3>1
  <2>3. PICK t, u : t = i * BLOCK_MR /\ u = j * BLOCK_NR
    OBVIOUS
  <2>5. PICK rows \in Nat, cols \in Nat, b \in Nat : rows = BLOCK_MR /\ cols = BLOCK_NR /\ b = BLOCK_KU
    BY <1>2
  <2>6. \A k \in 0 .. b - 1 : s + k \in Cols(L)
    <3>1. p + 1 <= c /\ p \in Nat
      BY <1>2
    <3>2. b * (p + 1) <= b * c /\ b * (p + 1) = b * p + b /\ b * c \in Nat
      BY <1>2, <3>1
    <3>3. s = b * p
      BY <2>2, <2>5
    <3>4. s + b <= b * c
      BY <3>2, <3>3
    <3>5. \A k \in 0 .. b - 1 : s + k \in 0 .. b * c - 1
      BY <3>2, <3>4
    <3>6. QED
      BY <1>7, <2>5, <3>5
  <2>7. \A k \in 0 .. b - 1 : f[s + k] = L.values[<<row, s + k>>] * R.values[<<s + k, col>>]
    BY <1>8, <2>6
  <2>8. row = t + x /\ col = u + y /\ x \in 0 .. rows - 1 /\ y \in 0 .. cols - 1
    BY <1>5, <2>3, <2>5
  <2>9. SumsPart(f, s, b, Product(PartAt(L, t, s, rows, b), PartAt(R, s, u, b, cols))[<<x, y>>])
    BY <2>7, <2>8, PartsProduct
  <2>10. /\ LeftBlock(i, p) = PartAt(L, t, s, rows, b) /\ RightBlock(p, j) = PartAt(R, s, u, b, cols)
    BY <2>1, <2>2, <2>3, <2>5
  <2>11. e[p] = Product(LeftBlock(i, p), RightBlock(p, j))[<<x, y>>]
    BY <1>10
  <2>12. QED
    BY <2>2, <2>5, <2>9, <2>10, <2>11, Zenon
<1>12. Summable(e, 0 .. c - 1) /\ SumOf(e, 0 .. c - 1) = SumOf(f, 0 .. BLOCK_KU * c - 1)
  <2>1. PICK b \in Nat \ {0} : b = BLOCK_KU
    BY <1>2
  <2>2. Summable(f, 0 .. b * c - 1) /\ \A p \in 0 .. c - 1 : SumsPart(f, b * p, b, e[p])
    BY <1>9, <1>11, <2>1
  <2>3. Summable(e, 0 .. c - 1) /\ SumOf(e, 0 .. c - 1) = SumOf(f, 0 .. b * c - 1)
    BY <1>2, <2>2, SumByQuotient
  <2>4. QED
    BY <2>1, <2>3
\* ... and those of a group of pairs.
<1>13. PICK h : h = [p_o \in Starts(BLOCK_P, c) |-> Temporary(i, j, p_o)[<<x, y>>]]
  OBVIOUS
<1>14. ASSUME NEW p_o \in Starts(BLOCK_P, c)
       PROVE  SumsPart(e, p_o, BLOCK_P, h[p_o])
  <2>1. PICK g : /\ \A n \in 0 .. BLOCK_P - 1 : g[n] = Product(LeftBlock(i, p_o + n), RightBlock(p_o + n, j))[<<x, y>>]
                 /\ Temporary(i, j, p_o)[<<x, y>>] = SumOf(g, 0 .. BLOCK_P - 1)
    <3>1. PICK cell : cell = <<x, y>>
      OBVIOUS
    <3>2. cell \in (0 .. BLOCK_MR - 1) \X (0 .. BLOCK_NR - 1)
      BY <3>1
    <3>3. QED
      BY <1>1, <3>1, <3>2, TemporaryIs
  <2>2. p_o \in Nat /\ p_o < c /\ p_o % BLOCK_P = 0
    BY <1>2 DEF Starts
  <2>3. p_o + BLOCK_P <= c
    BY <1>2, <2>2, StartsApart
  <2>4. \A n \in 0 .. BLOCK_P - 1 : p_o + n \in 0 .. c - 1
    BY <1>2, <2>2, <2>3
  <2>5. \A n \in 0 .. BLOCK_P - 1 : g[n] = e[p_o + n]
    BY <1>10, <2>1, <2>4
  <2>6. h[p_o] = SumOf(g, 0 .. BLOCK_P - 1)
    BY <1>13, <2>1
  <2>7. QED
    BY <2>5, <2>6, Zenon DEF SumsPart
<1>15. SumOf(h, Starts(BLOCK_P, c)) = SumOf(e, 0 .. c - 1)
  <2>1. PICK b \in Nat \ {0} : b = BLOCK_P
    BY <1>2
  <2>2. c % b = 0 /\ \A s \in Starts(b, c) : SumsPart(e, s, b, h[s])
    BY <1>2, <1>14, <2>1
  <2>3. SumOf(h, Starts(b, c)) = SumOf(e, 0 .. c - 1)
    BY <1>2, <1>12, <2>2, SumByStart
  <2>4. QED
    BY <2>1, <2>3
<1>16. QED
  BY <1>1, <1>5, <1>9, <1>12, <1>13, <1>15

\* The blocked product adds the product of the matrices to the output.
LEMMA BlockedAdds ==
  ASSUME GroupsDivide, EntriesInRange, NoneDense, NoneStores, InnerGroupsDivide, Blocked,
         output \in [OutputCells -> Int]
  PROVE  /\ sparse_blis \in [OutputCells -> Int]
         /\ \A cell \in OutputCells : sparse_blis[cell] = output[cell] + Reference[cell]
<1>1. /\ BLOCK_MR \in Nat \ {0} /\ BLOCK_NR \in Nat \ {0}
      /\ blocking["left"].row_count = BLOCK_MR /\ blocking["right"].col_count = BLOCK_NR
  BY BlockAssumption DEF blocking
<1>2. PICK m, n : m = solution.left.row_count /\ n = solution.right.col_count
  OBVIOUS
<1>3. /\ m \in Nat /\ n \in Nat /\ m % BLOCK_MR = 0 /\ n % BLOCK_NR = 0
      /\ MultiSparsify!BlocksRowCount("left") = m \div BLOCK_MR
      /\ MultiSparsify!BlocksColCount("right") = n \div BLOCK_NR
  <2>1. m \in Nat /\ n \in Nat
    BY <1>2 DEF Blocked, GroupsDivide
  <2>2. QED
    BY <1>1, <1>2, <2>1 DEF Blocked, MultiSparsify!Divides, MultiSparsify!BlocksRowCount, MultiSparsify!BlocksColCount
<1>4. \A cell \in OutputCells : Reference[cell] \in Int
  BY ReferenceIs DEF Blocked
<1>5. ASSUME NEW cell \in OutputCells
      PROVE  Temporaries(Starts(BLOCK_P, MultiSparsify!BlocksColCount("left")),
                         cell[1] \div BLOCK_MR, cell[2] \div BLOCK_NR, <<cell[1] % BLOCK_MR, cell[2] % BLOCK_NR>>) = Reference[cell]
  <2>1. cell[1] \in 0 .. m - 1 /\ cell[2] \in 0 .. n - 1 /\ cell = <<cell[1], cell[2]>>
    BY <1>2 DEF OutputCells
  <2>2. PICK row \in 0 .. m - 1, col \in 0 .. n - 1 : row = cell[1] /\ col = cell[2] /\ cell = <<row, col>>
    BY <2>1
  <2>3. PICK i, j, x, y : i = cell[1] \div BLOCK_MR /\ j = cell[2] \div BLOCK_NR /\ x = cell[1] % BLOCK_MR /\ y = cell[2] % BLOCK_NR
    OBVIOUS
  <2>4. /\ i \in 0 .. MultiSparsify!BlocksRowCount("left") - 1 /\ x \in 0 .. BLOCK_MR - 1 /\ i * BLOCK_MR + x = row
    <3>1. PICK b \in Nat \ {0} : b = BLOCK_MR
      BY <1>1
    <3>2. m % b = 0
      BY <1>3, <3>1
    <3>3. row \div b \in 0 .. (m \div b) - 1 /\ row % b \in 0 .. b - 1 /\ (row \div b) * b + (row % b) = row
      BY <1>3, <3>2, RowOfBlock
    <3>4. QED
      BY <1>3, <2>2, <2>3, <3>1, <3>3
  <2>5. /\ j \in 0 .. MultiSparsify!BlocksColCount("right") - 1 /\ y \in 0 .. BLOCK_NR - 1 /\ j * BLOCK_NR + y = col
    <3>1. PICK b \in Nat \ {0} : b = BLOCK_NR
      BY <1>1
    <3>2. n % b = 0
      BY <1>3, <3>1
    <3>3. col \div b \in 0 .. (n \div b) - 1 /\ col % b \in 0 .. b - 1 /\ (col \div b) * b + (col % b) = col
      BY <1>3, <3>2, RowOfBlock
    <3>4. QED
      BY <1>3, <2>2, <2>3, <3>1, <3>3
  <2>6. <<i * BLOCK_MR + x, j * BLOCK_NR + y>> = cell
    BY <2>2, <2>4, <2>5
  <2>7. PICK h : /\ \A p_o \in Starts(BLOCK_P, MultiSparsify!BlocksColCount("left")) : h[p_o] = Temporary(i, j, p_o)[<<x, y>>]
                 /\ SumOf(h, Starts(BLOCK_P, MultiSparsify!BlocksColCount("left"))) =
                      Reference[<<i * BLOCK_MR + x, j * BLOCK_NR + y>>]
    <3>1. <<i * BLOCK_MR + x, j * BLOCK_NR + y>> \in OutputCells
      BY <2>6
    <3>2. QED
      BY <2>4, <2>5, <3>1, BlocksSum
  <2>8. PICK V, e : V = Starts(BLOCK_P, MultiSparsify!BlocksColCount("left")) /\ e = <<x, y>>
    OBVIOUS
  <2>9. Temporaries(V, i, j, e) = SumOf(h, V)
    <3>1. \A p_o \in V : h[p_o] = Temporary(i, j, p_o)[e]
      BY <2>7, <2>8
    <3>2. QED
      BY <3>1, TotalOfTemporaries
  <2>10. SumOf(h, V) = Reference[cell]
    BY <2>6, <2>7, <2>8
  <2>11. QED
    BY <2>3, <2>8, <2>9, <2>10, Zenon
<1>6. sparse_blis = [cell \in OutputCells |-> output[cell] + Reference[cell]]
  <2>1. DOMAIN output = OutputCells
    OBVIOUS
  <2>2. sparse_blis = [cell \in DOMAIN output |-> output[cell] +
          Temporaries(Starts(BLOCK_P, MultiSparsify!BlocksColCount("left")),
                      cell[1] \div BLOCK_MR, cell[2] \div BLOCK_NR, <<cell[1] % BLOCK_MR, cell[2] % BLOCK_NR>>)]
    BY Zenon DEF sparse_blis, Temporaries
  <2>3. QED
    BY <1>5, <2>1, <2>2, Zenon
<1>7. QED
  BY <1>4, <1>6

-----------------------------------------------------------------------------
(* What the output counts.                                                 *)

\* The product of a pair of matrices is of integers.
ReferenceInInt ==
  pc \notin {"load", "aborted"} /\ Compatible => \A cell \in OutputCells : Reference[cell] \in Int

\* That holds of all files whose entries lie in their matrices.
LEMMA ReferenceType == ASSUME EntriesInRange PROVE CsrInv => ReferenceInInt
  BY ReferenceIs DEF CsrInv, ReferenceInInt

\* Nothing is in the output at first.
LEMMA InitProduct == Init => ProductInv
  BY DEF Init, ProductInv

\* What ProductInv says of the CSR product's output.
LEMMA CsrSumIs ==
  ASSUME DOMAIN output = OutputCells
  PROVE  CsrSum <=> \A cell \in DOMAIN output :
           output[cell] + Total({v \in Remaining : v.at = cell}, LAMBDA v : v.product) = Reference[cell]
  BY Zenon DEF CsrSum, AddedAt

\* ... and after a step.
LEMMA CsrSumIsNext ==
  ASSUME DOMAIN output' = OutputCells'
  PROVE  CsrSum' <=> (\A cell \in DOMAIN output :
           output[cell] + Total({v \in Remaining : v.at = cell}, LAMBDA v : v.product) = Reference[cell])'
  BY Zenon DEF CsrSum, AddedAt

\* What it says while no product runs, ...
LEMMA BetweenProducts ==
  ASSUME added' \in Nat, pc' \notin {"load", "csr", "aborted"}, output' \in [OutputCells' -> Int],
         Compatible' => \A cell \in OutputCells' : output'[cell] = added' * Reference'[cell]
  PROVE  ProductInv'
<1>1. DOMAIN output' = OutputCells'
  OBVIOUS
<1>2. QED
  BY <1>1 DEF ProductInv, OutputCells

\* ... and while the CSR product does.
LEMMA DuringCsr ==
  ASSUME added' \in Nat, pc' = "csr", output' \in [OutputCells' -> Int], CsrSum'
  PROVE  ProductInv'
<1>1. DOMAIN output' = OutputCells'
  OBVIOUS
<1>2. pc' # "load" /\ pc' \in {"load", "csr", "aborted"}
  OBVIOUS
<1>3. (\A cell \in DOMAIN output :
           output[cell] + Total({v \in Remaining : v.at = cell}, LAMBDA v : v.product) = Reference[cell])'
  BY <1>1, CsrSumIsNext, Zenon
<1>4. QED
  BY <1>2, <1>3, Zenon DEF ProductInv, OutputCells

\* What ProductInv says, cell by cell of the output.
LEMMA ReadProduct ==
  ASSUME ProductInv
  PROVE  /\ added \in Nat /\ (pc = "load" => added = 0)
         /\ pc \notin {"load", "aborted"} => output \in [OutputCells -> Int]
         /\ pc \notin {"load", "csr", "aborted"} /\ Compatible => \A cell \in OutputCells : output[cell] = added * Reference[cell]
         /\ pc = "csr" => CsrSum
<1>1. /\ added \in Nat /\ (pc = "load" => added = 0)
      /\ pc \notin {"load", "aborted"} => output \in [OutputCells -> Int]
  BY DEF ProductInv, OutputCells
<1>2. ASSUME pc \notin {"load", "csr", "aborted"}, Compatible PROVE \A cell \in OutputCells : output[cell] = added * Reference[cell]
  <2>1. DOMAIN output = OutputCells
    BY <1>1, <1>2
  <2>2. QED
    BY <1>2, <2>1 DEF ProductInv
<1>3. ASSUME pc = "csr" PROVE CsrSum
  <2>1. pc \notin {"load", "aborted"}
    BY <1>3
  <2>2. DOMAIN output = OutputCells
    BY <1>1, <2>1
  <2>3. QED
    BY <1>3, <2>2, CsrSumIs, Zenon DEF ProductInv
<1>4. QED
  BY <1>1, <1>2, <1>3

\* Steps that leave the output alone.
LEMMA ProductKept ==
  ASSUME UNCHANGED <<solution, output, added>>, ProductInv,
         pc \notin {"load", "csr", "aborted"}, pc' \notin {"load", "csr"}
  PROVE  ProductInv'
<1>1. /\ added \in Nat /\ output \in [OutputCells -> Int]
      /\ Compatible => \A cell \in OutputCells : output[cell] = added * Reference[cell]
  BY ReadProduct
<1>2. OutputCells' = OutputCells /\ Reference' = Reference /\ (Compatible' <=> Compatible)
  BY DEF OutputCells, Reference, Compatible
<1>3. CASE pc' = "aborted"
  BY <1>1, <1>3 DEF ProductInv
<1>4. CASE pc' # "aborted"
  <2>1. output' \in [OutputCells' -> Int] /\ added' \in Nat
    BY <1>1, <1>2
  <2>2. Compatible' => \A cell \in OutputCells' : output'[cell] = added' * Reference'[cell]
    BY <1>1, <1>2
  <2>3. QED
    BY <1>4, <2>1, <2>2, BetweenProducts
<1>5. QED
  BY <1>3, <1>4

\* The files are loaded: an output of zeros.
LEMMA LoadProduct ==
  ASSUME ProductInv, ReferenceInInt', Load
  PROVE  ProductInv'
<1>1. /\ pc = "load" /\ pc' = "block" /\ added' = added
      /\ output' = [cell \in OutputCells' |-> 0]
  BY DEF Load, OutputCells
<1>2. added' = 0
  BY <1>1, ReadProduct
<1>3. ASSUME Compatible', NEW cell \in OutputCells' PROVE output'[cell] = added' * Reference'[cell]
  <2>1. Reference'[cell] \in Int
    BY <1>1, <1>3 DEF ReferenceInInt
  <2>2. PICK r \in Int : r = Reference'[cell]
    BY <2>1
  <2>3. 0 * r = 0
    BY OneMore
  <2>4. QED
    BY <1>1, <1>2, <1>3, <2>2, <2>3
<1>4. output' \in [OutputCells' -> Int]
  BY <1>1
<1>5. QED
  BY <1>1, <1>2, <1>3, <1>4, BetweenProducts

\* A thread of the CSR product moves on.
LEMMA ThreadProduct ==
  ASSUME EntriesInRange, FilesByRows, CsrInv, ProductInv, NEW t \in Threads, Thread(t)
  PROVE  ProductInv'
<1>1. /\ pc = "csr" /\ pc' = "csr" /\ UNCHANGED <<run, solution, added>> /\ Csr!Step(t)
  BY DEF Thread
<1>2. added \in Nat /\ output \in [OutputCells -> Int] /\ CsrSum /\ OutputCells' = OutputCells
  BY <1>1, ReadProduct DEF OutputCells
<1>3. output' \in [OutputCells -> Int] /\ CsrSum'
  <2>1. ASSUME NEW row \in todo, Csr!Take(t, row) PROVE output' \in [OutputCells -> Int] /\ CsrSum'
    <3>1. output' = output
      BY <2>1 DEF Csr!Take
    <3>2. QED
      BY <1>1, <1>2, <2>1, <3>1, TakeSum
  <2>2. CASE Csr!Load(t)
    <3>1. output' = output
      BY <2>2 DEF Csr!Load
    <3>2. QED
      BY <1>1, <1>2, <2>2, <3>1, LoadSum
  <2>3. CASE Csr!Store(t)
    BY <1>1, <1>2, <2>3, StoreSum
  <2>4. QED
    BY <1>1, <2>1, <2>2, <2>3 DEF Csr!Step
<1>4. added' \in Nat /\ output' \in [OutputCells' -> Int]
  BY <1>1, <1>2, <1>3
<1>5. QED
  BY <1>1, <1>3, <1>4, DuringCsr

\* The CSR product begins on a cleared output ...
LEMMA StartProduct ==
  ASSUME EntriesInRange, FilesByRows, CsrInv, ProductInv, StartCsr
  PROVE  ProductInv'
<1>1. /\ pc = "testing" /\ pc' = "csr" /\ UNCHANGED <<run, solution, added>> /\ Csr!Start /\ Compatible
  BY DEF StartCsr
<1>2. added \in Nat /\ output \in [OutputCells -> Int] /\ OutputCells' = OutputCells
  BY <1>1, ReadProduct DEF OutputCells
<1>3. Loaded
  BY <1>1 DEF Loaded, CsrInv
<1>4. output' \in [OutputCells -> Int] /\ CsrSum'
  BY <1>1, <1>2, <1>3, StartSum
<1>5. added' \in Nat /\ output' \in [OutputCells' -> Int]
  BY <1>1, <1>2, <1>4
<1>6. QED
  BY <1>1, <1>4, <1>5, DuringCsr

\* ... and ends with the product in it once.
LEMMA FinishProduct ==
  ASSUME EntriesInRange, CsrInv, ReferenceInInt, ProductInv, FinishCsr
  PROVE  ProductInv'
<1>1. /\ pc = "csr" /\ pc' = "testing" /\ Csr!Finished /\ added' = 1
      /\ UNCHANGED <<run, solution, output>>
  BY DEF FinishCsr, csrVars
<1>2. output \in [OutputCells -> Int] /\ CsrSum
  BY <1>1, ReadProduct
<1>3. OutputCells' = OutputCells /\ Reference' = Reference /\ (Compatible' <=> Compatible)
  BY <1>1 DEF OutputCells, Reference, Compatible
<1>4. Loaded
  BY <1>1, CsrLoaded
<1>5. \A cell \in OutputCells : output[cell] = Reference[cell]
  BY <1>1, <1>2, <1>4, FinishSum
<1>6. Compatible
  BY <1>4 DEF Loaded
<1>7. ASSUME NEW cell \in OutputCells PROVE output'[cell] = added' * Reference'[cell]
  <2>1. Reference[cell] \in Int
    BY <1>1, <1>6 DEF ReferenceInInt
  <2>2. 1 * Reference[cell] = Reference[cell]
    BY <2>1, OneMore
  <2>3. QED
    BY <1>1, <1>3, <1>5, <2>2
<1>8. added' \in Nat /\ output' \in [OutputCells' -> Int]
  BY <1>1, <1>2, <1>3
<1>9. QED
  BY <1>1, <1>3, <1>7, <1>8, BetweenProducts

\* Matrices that do not fit have no product.
LEMMA UnfitProduct ==
  ASSUME ProductInv, NEW dies, NEW stray \in {0, 1}, StartCsrUnfit(dies, stray)
  PROVE  ProductInv'
<1>1. /\ pc = "testing" /\ pc' \in {"testing", "aborted"} /\ ~Compatible
      /\ output' = [cell \in DOMAIN output |-> stray] /\ UNCHANGED <<solution, added>>
  BY DEF StartCsrUnfit
<1>2. added \in Nat /\ output \in [OutputCells -> Int]
  BY <1>1, ReadProduct
<1>3. ~Compatible' /\ OutputCells' = OutputCells
  BY <1>1 DEF Compatible, OutputCells
<1>4. added' \in Nat /\ output' \in [OutputCells' -> Int]
  BY <1>1, <1>2, <1>3
<1>5. CASE pc' = "aborted"
  BY <1>4, <1>5 DEF ProductInv
<1>6. CASE pc' = "testing"
  BY <1>3, <1>4, <1>6, BetweenProducts
<1>7. QED
  BY <1>1, <1>5, <1>6

\* The blocked product adds the product once more.
LEMMA BlockedProduct ==
  ASSUME GroupsDivide, EntriesInRange, NoneDense, NoneStores, InnerGroupsDivide,
         CsrInv, ReferenceInInt, PackedInv, ProductInv, RunBlocked
  PROVE  ProductInv'
<1>1. pc = "testing" /\ UNCHANGED <<run, solution>>
  BY DEF RunBlocked
<1>2. /\ added \in Nat /\ output \in [OutputCells -> Int]
      /\ Compatible => \A cell \in OutputCells : output[cell] = added * Reference[cell]
  BY <1>1, ReadProduct
<1>3. OutputCells' = OutputCells /\ Reference' = Reference /\ (Compatible' <=> Compatible)
  BY <1>1 DEF OutputCells, Reference, Compatible
<1>4. CASE ~Compatible
  <2>1. pc' = "aborted" /\ UNCHANGED <<output, added>>
    BY <1>4 DEF RunBlocked
  <2>2. QED
    BY <1>2, <2>1 DEF ProductInv
<1>5. CASE Compatible
  <2>1. output' = sparse_blis /\ added' = added + 1 /\ pc' = "testing"
    BY <1>1, <1>5 DEF RunBlocked
  <2>2. Blocked
    BY <1>1, <1>5 DEF Blocked, CsrInv, PackedInv, AllPassed
  <2>3. /\ sparse_blis \in [OutputCells -> Int]
        /\ \A cell \in OutputCells : sparse_blis[cell] = output[cell] + Reference[cell]
    BY <1>2, <2>2, BlockedAdds
  <2>4. ASSUME NEW cell \in OutputCells PROVE output'[cell] = added' * Reference'[cell]
    <3>1. Reference[cell] \in Int
      BY <1>1, <1>5 DEF ReferenceInInt
    <3>2. added * Reference[cell] + Reference[cell] = (added + 1) * Reference[cell]
      BY <1>2, <3>1, OneMore
    <3>3. output'[cell] = output[cell] + Reference[cell]
      BY <2>1, <2>3
    <3>4. output[cell] = added * Reference[cell]
      BY <1>2, <1>5
    <3>5. output'[cell] = (added + 1) * Reference[cell]
      BY <3>2, <3>3, <3>4, Zenon
    <3>6. QED
      BY <1>3, <2>1, <3>5, Zenon
  <2>5. added' \in Nat /\ output' \in [OutputCells' -> Int]
    BY <1>2, <1>3, <2>1, <2>3
  <2>6. QED
    BY <1>3, <2>1, <2>4, <2>5, BetweenProducts
<1>6. QED
  BY <1>4, <1>5

\* Every step of main keeps count of the products in the output.
LEMMA NextProduct ==
  ASSUME GroupsDivide, EntriesInRange, FilesByRows, NoneDense, NoneStores, InnerGroupsDivide
  PROVE  CsrInv /\ ReferenceInInt /\ ReferenceInInt' /\ PackedInv /\ ProductInv /\ [Next]_vars => ProductInv'
<1> SUFFICES ASSUME CsrInv, ReferenceInInt, ReferenceInInt', PackedInv, ProductInv, [Next]_vars
             PROVE  ProductInv'
  OBVIOUS
<1>1. CASE Load
  BY <1>1, LoadProduct
<1>2. CASE LoadFails
  <2>1. pc' = "aborted" /\ added' = added
    BY <1>2 DEF LoadFails
  <2>2. added \in Nat
    BY ReadProduct
  <2>3. QED
    BY <2>1, <2>2 DEF ProductInv
<1>3. CASE Block
  <2>1. UNCHANGED <<solution, output, added>> /\ pc = "block" /\ pc' \in {"block", "aborted"}
    BY <1>3 DEF Block, csrVars, MultiSparsify!Start
  <2>2. QED
    BY <2>1, ProductKept
<1>4. CASE BlockNext
  <2>1. UNCHANGED <<solution, output, added>> /\ pc = "block" /\ pc' \in {"block", "new_wave"}
    BY <1>4 DEF BlockNext, csrVars, MultiSparsify!PackBlock
  <2>2. QED
    BY <2>1, ProductKept
<1>5. ASSUME NEW time, NextTester(time) PROVE pc' \in {"new_wave", "report"}
  BY <1>5 DEF NextTester
<1>6. ASSUME NEW counters_open \in BOOLEAN, NewWave(counters_open) PROVE ProductInv'
  <2>1. UNCHANGED <<solution, output, added>> /\ pc = "new_wave" /\ pc' \in {"testing", "new_wave", "report"}
    BY <1>5, <1>6 DEF NewWave, csrVars
  <2>2. QED
    BY <2>1, ProductKept
<1>7. CASE StartCsr
  BY <1>7, StartProduct
<1>8. CASE FinishCsr
  BY <1>8, FinishProduct
<1>9. CASE RunBlocked
  BY <1>9, BlockedProduct
<1>10. ASSUME NEW t \in Threads, Thread(t) PROVE ProductInv'
  BY <1>10, ThreadProduct
<1>11. ASSUME NEW dies \in BOOLEAN, NEW stray \in {0, 1}, StartCsrUnfit(dies, stray) PROVE ProductInv'
  BY <1>11, UnfitProduct
<1>12. ASSUME NEW time \in 0 .. MaxTime, Complete(time) PROVE ProductInv'
  <2>1. UNCHANGED <<solution, output, added>> /\ pc = "testing" /\ pc' \in {"new_wave", "report"}
    BY <1>5, <1>12 DEF Complete, csrVars
  <2>2. QED
    BY <2>1, ProductKept
<1>13. ASSUME NEW verify \in BOOLEAN, Report(verify) PROVE ProductInv'
  <2>1. UNCHANGED <<solution, output, added>> /\ pc = "report" /\ pc' \in {"verify", "exit"}
    BY <1>13 DEF Report, csrVars
  <2>2. QED
    BY <2>1, ProductKept
<1>14. CASE Verify
  <2>1. UNCHANGED <<solution, output, added>> /\ pc = "verify" /\ pc' = "verified"
    BY <1>14 DEF Verify, csrVars
  <2>2. QED
    BY <2>1, ProductKept
<1>15. CASE UNCHANGED vars
  <2>1. UNCHANGED <<pc, solution, left_union, right_union, todo, visits, output, added>>
    BY <1>15 DEF vars, csrVars
  <2>2. OutputCells' = OutputCells /\ Reference' = Reference /\ (Compatible' <=> Compatible)
    BY <2>1 DEF OutputCells, Reference, Compatible
  <2>3. CASE pc = "csr"
    <3>1. added \in Nat /\ output \in [OutputCells -> Int] /\ CsrSum
      BY <2>3, ReadProduct
    <3>2. Remaining' = Remaining
      BY <2>1 DEF Remaining
    <3>3. CsrSum'
      BY <2>1, <3>1, <3>2, CsrSumKept
    <3>4. added' \in Nat /\ output' \in [OutputCells' -> Int] /\ pc' = "csr"
      BY <2>1, <2>2, <2>3, <3>1
    <3>5. QED
      BY <3>3, <3>4, DuringCsr
  <2>4. CASE pc # "csr"
    <3>1. pc' # "csr"
      BY <2>1, <2>4
    <3>2. QED
      BY <2>1, <2>2, <2>4, <3>1 DEF ProductInv, OutputCells
  <2>5. QED
    BY <2>3, <2>4
<1>16. QED
  BY <1>1, <1>2, <1>3, <1>4, <1>6, <1>7, <1>8, <1>9, <1>10, <1>11, <1>12, <1>13, <1>14, <1>15 DEF Next, Done

\* The product is in the output as often as it was added, at all times.
LEMMA AlwaysProduct ==
  ASSUME GroupsDivide, EntriesInRange, FilesByRows, NoneDense, NoneStores, InnerGroupsDivide
  PROVE  Spec => []ProductInv
<1>1. Spec => []CsrInv
  BY InitCsr, NextCsr, PTL DEF Spec
<1>2. Spec => []PackedInv
  BY InitBlocks, NextBlocks, InitPacked, NextPacked, PTL DEF Spec
<1>3. []CsrInv => []ReferenceInInt
  BY ReferenceType, PTL
<1>4. QED
  BY <1>1, <1>2, <1>3, InitProduct, NextProduct, PTL DEF Spec

\* When the lists of the files come by rows, name no cell twice and have their entries in range, groups
\* divide the block counts, and no format is asked for whose block is lost in the pack arena or whose
\* kernel stores instead of adding: for matrices of any size, every size of blocks and groups, every
\* team and schedule, each of the products adds the same Reference to the output, the CSR product
\* after it has cleared it, so that the output holds it exactly as often as it was added.
THEOREM BlisMainOutputCountsProducts ==
  ASSUME GroupsDivide, EntriesInRange, FilesByRows, NoneDense, NoneStores, InnerGroupsDivide
  PROVE  Spec => []OutputCountsProducts
<1>1. ProductInv => OutputCountsProducts
  BY DEF ProductInv, OutputCountsProducts
<1>2. QED
  BY <1>1, AlwaysProduct, PTL

-----------------------------------------------------------------------------
(* What --verify reports.                                                  *)

\* Nothing is compared at first.
LEMMA InitCompared == Init => ComparedInv
  BY DEF Init, ComparedInv

\* Steps that leave the output alone and do not compare it.
LEMMA ComparedKept ==
  ASSUME ComparedInv, pc \notin {"load", "aborted"}, output' = output, pc' # "verified"
  PROVE  ComparedInv'
  BY DEF ComparedInv

\* Whatever the products are, the output stays a function, and --verify compares it with the reference.
LEMMA NextCompared == ComparedInv /\ [Next]_vars => ComparedInv'
<1> SUFFICES ASSUME ComparedInv, [Next]_vars PROVE ComparedInv'
  OBVIOUS
<1>1. CASE Load
  BY <1>1 DEF Load, ComparedInv
<1>2. CASE LoadFails
  BY <1>2 DEF LoadFails, ComparedInv
<1>3. CASE Block
  BY <1>3, ComparedKept DEF Block, csrVars
<1>4. CASE BlockNext
  BY <1>4, ComparedKept DEF BlockNext, csrVars
<1>5. ASSUME NEW time, NextTester(time) PROVE pc' \in {"new_wave", "report"}
  BY <1>5 DEF NextTester
<1>6. ASSUME NEW counters_open \in BOOLEAN, NewWave(counters_open) PROVE ComparedInv'
  BY <1>5, <1>6, ComparedKept DEF NewWave, csrVars
<1>7. CASE StartCsr
  BY <1>7 DEF StartCsr, Csr!Start, ComparedInv
<1>8. CASE FinishCsr
  BY <1>8, ComparedKept DEF FinishCsr, csrVars
<1>9. CASE RunBlocked
  <2>1. pc = "testing" /\ pc' \in {"testing", "aborted"}
    BY <1>9 DEF RunBlocked
  <2>2. CASE Compatible
    BY <1>9, <2>1, <2>2 DEF RunBlocked, sparse_blis, ComparedInv
  <2>3. CASE ~Compatible
    BY <1>9, <2>1, <2>3, ComparedKept DEF RunBlocked
  <2>4. QED
    BY <2>2, <2>3
<1>10. ASSUME NEW t \in Threads, Thread(t) PROVE ComparedInv'
  <2>1. pc = "csr" /\ pc' = "csr" /\ Csr!Step(t)
    BY <1>10 DEF Thread
  <2>2. ASSUME NEW row \in todo, Csr!Take(t, row) PROVE ComparedInv'
    BY <2>1, <2>2, ComparedKept DEF Csr!Take
  <2>3. CASE Csr!Load(t)
    BY <2>1, <2>3, ComparedKept DEF Csr!Load
  <2>4. CASE Csr!Store(t)
    <3>1. output' = [output EXCEPT ![Csr!First(visits[t]).at] = loaded[t][1] + Csr!First(visits[t]).product]
      BY <2>4 DEF Csr!Store
    <3>2. QED
      BY <2>1, <3>1 DEF ComparedInv
  <2>5. QED
    BY <2>1, <2>2, <2>3, <2>4 DEF Csr!Step
<1>11. ASSUME NEW dies \in BOOLEAN, NEW stray \in {0, 1}, StartCsrUnfit(dies, stray) PROVE ComparedInv'
  BY <1>11 DEF StartCsrUnfit, ComparedInv
<1>12. ASSUME NEW time \in 0 .. MaxTime, Complete(time) PROVE ComparedInv'
  BY <1>5, <1>12, ComparedKept DEF Complete, csrVars
<1>13. ASSUME NEW verify \in BOOLEAN, Report(verify) PROVE ComparedInv'
  BY <1>13, ComparedKept DEF Report, csrVars
<1>14. CASE Verify
  <2>1. /\ pc = "verify" /\ (had_failure' <=> output # Compared.values)
        /\ UNCHANGED <<solution, output>>
    BY <1>14, Zenon DEF Verify, csrVars
  <2>2. Compared' = Compared
    BY <2>1 DEF Compared
  <2>3. QED
    BY <2>1, <2>2 DEF ComparedInv
<1>15. CASE UNCHANGED vars
  <2>1. UNCHANGED <<pc, solution, output, had_failure>>
    BY <1>15 DEF vars, csrVars
  <2>2. Compared' = Compared
    BY <2>1 DEF Compared
  <2>3. QED
    BY <2>1, <2>2 DEF ComparedInv
<1>16. QED
  BY <1>1, <1>2, <1>3, <1>4, <1>6, <1>7, <1>8, <1>9, <1>10, <1>11, <1>12, <1>13, <1>14, <1>15 DEF Next, Done

\* When the lists of the files come by rows, name no cell twice and have their entries in range, and the
\* columns of the left ones ascend in each row, so that coo_x_coo finds every pair: --verify of matrices
\* that have a product reports a failure exactly if some value of the output is not that of the product,
\* whatever the formats, blocks and groups, and whatever the products left there.
THEOREM BlisMainVerifyExact ==
  ASSUME EntriesInRange, FilesByRows, LeftByColumns
  PROVE  Spec => [](Compatible => VerifyExact)
<1>1. ASSUME CsrInv, ComparedInv, Compatible, pc = "verified"
      PROVE  ~had_failure <=> \A cell \in DOMAIN output : output[cell] = Reference[cell]
  <2>1. run \in Runs /\ solution = Solution(run.file) /\ DOMAIN output = OutputCells
    BY <1>1 DEF CsrInv, OutputCells
  <2>2. output = [cell \in DOMAIN output |-> output[cell]] /\ (had_failure <=> output # Compared.values)
    BY <1>1 DEF ComparedInv
  <2>3. Compared.values \in [OutputCells -> Int] /\ \A cell \in OutputCells : Compared.values[cell] = Reference[cell]
    BY <1>1, <2>1, ComparedIs
  <2>4. output = Compared.values <=> \A cell \in OutputCells : output[cell] = Compared.values[cell]
    BY <2>1, <2>2, <2>3
  <2>5. QED
    BY <2>1, <2>2, <2>3, <2>4
<1>2. CsrInv /\ ComparedInv => (Compatible => VerifyExact)
  BY <1>1 DEF VerifyExact
<1>3. QED
  BY <1>2, InitCsr, NextCsr, InitCompared, NextCompared, PTL DEF Spec
=============================================================================
