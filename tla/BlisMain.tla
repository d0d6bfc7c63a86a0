------------------------------ MODULE BlisMain ------------------------------
(***************************************************************************)
(* main of src/sparse_blis.c: the solution file is loaded, its matrices    *)
(* are converted to CSR and blocked, the global CSR product and the        *)
(* blocked one are tested in turn on one output, the better one is         *)
(* reported, and --verify compares the output with a reference.            *)
(*   multi_sparsify and csr_x_csr_parallel are the modules composed here;  *)
(* sparse_blis is one step, which module SparseBlis justifies.  A tester   *)
(* is what its user sees of it: some iterations and a least time, or an    *)
(* error before the first.                                                 *)
(***************************************************************************)
EXTENDS Kernels

CONSTANTS
  Threads,                    \* the OpenMP team
  BLOCK_MR, BLOCK_NR, BLOCK_KU,
  BLOCK_I, BLOCK_J, BLOCK_P,  \* blocks in a group
  Runs,                       \* what main is started with: a file and the two constant formats
  MaxTime,                    \* bound on the least time of a tester
  MaxIterations               \* bound on the iterations of a tester

ASSUME BlockAssumption ==
  \A n \in {BLOCK_MR, BLOCK_NR, BLOCK_KU, BLOCK_I, BLOCK_J, BLOCK_P} : n \in Nat \ {0}
ASSUME BoundAssumption == MaxTime \in Nat /\ MaxIterations \in Nat \ {0}

\* The blockings that load_matrix_solution sets.
blocking ==
  [left |-> [row_count |-> BLOCK_MR, col_count |-> BLOCK_KU, outer_step |-> BLOCK_I, inner_step |-> BLOCK_P],
   right |-> [row_count |-> BLOCK_KU, col_count |-> BLOCK_NR, outer_step |-> BLOCK_J, inner_step |-> BLOCK_P]]

Testers == {0, 1}      \* "Global CSR x CSR", "Constant Blocking"
Never == MaxTime + 1   \* ~(u64)0, the minimum of a tester that ran no test

VARIABLES
  run,               \* [file, left, right]: the fields of the file, and the formats asked for
  pc,                \* where main is, see Stages
  solution,          \* per side: row_count, col_count and the coordinate list
  block_formats,     \* per side: the formats of the constant blocking
  side, at, blocks, pack,                                    \* of multi_sparsify
  left_union, right_union, todo, visits, loaded, output,     \* of csr_x_csr_parallel
  tester_index,
  iterations,        \* completed by the tester under test
  min,               \* results.min of each tester
  min_time, min_tester_index,
  had_failure,
  added              \* history: how often the product should be in the output

Stages == {"load", "block", "new_wave", "testing", "csr", "report", "verify", "verified", "exit", "aborted"}

blockVars == <<side, at, blocks, pack>>
csrVars == <<left_union, right_union, todo, visits, loaded, output>>
testVars == <<tester_index, iterations, min, min_time, min_tester_index>>
vars == <<run, pc, solution, block_formats, blockVars, csrVars, testVars, had_failure, added>>

MultiSparsify == INSTANCE MultiSparsify WITH matrix <- solution
Csr == INSTANCE CsrParallel WITH left <- left_union, right <- right_union

-----------------------------------------------------------------------------
(* Loading.                                                                *)

\* A matrix in the file at offset o: two sizes, a count, then rows, columns and values.
\* A field the file does not have is a zero: every fread of it is ignored.
ReadMatrix(file, o) ==
  LET field(n) == IF n <= Len(file) THEN file[n] ELSE 0
      count == field(o + 3)
  IN  [row_count |-> field(o + 1), col_count |-> field(o + 2),
       coo |-> [i \in 1 .. count |->
                  [row |-> field(o + 3 + i), col |-> field(o + 3 + count + i), value |-> field(o + 3 + 2 * count + i)]]]

\* load_matrix_solution.
Solution(file) ==
  LET left == ReadMatrix(file, 0)
  IN  [left |-> left, right |-> ReadMatrix(file, 3 + 3 * Len(left.coo))]

\* The block formats of "Constant Blocking": every block has the one asked for.
ConstantFormats(s, format) ==
  [n \in 0 .. (solution'[s].row_count \div blocking[s].row_count)
              * (solution'[s].col_count \div blocking[s].col_count) - 1 |-> format]

Init ==
  /\ run \in Runs
  /\ pc = "load"
  /\ solution = <<>> /\ block_formats = <<>>
  /\ side = "left" /\ at = <<>> /\ blocks = <<>> /\ pack = <<>>
  /\ left_union = <<>> /\ right_union = <<>> /\ Csr!Idle
  /\ output = <<>>
  /\ tester_index = 0 /\ iterations = 0
  /\ min = [t \in Testers |-> Never]
  /\ min_time = Never /\ min_tester_index = 0
  /\ had_failure = FALSE /\ added = 0

\* The matrices of the file in CSR, and an output of zeros (a memfd).
Load ==
  /\ pc = "load" /\ pc' = "block"
  /\ solution' = Solution(run.file)
  /\ block_formats' = [left |-> ConstantFormats("left", run.left), right |-> ConstantFormats("right", run.right)]
  /\ left_union' = CooToFormat(solution'.left.coo, solution'.left.row_count, solution'.left.col_count, "MAT_CSR")
  /\ right_union' = CooToFormat(solution'.right.coo, solution'.right.row_count, solution'.right.col_count, "MAT_CSR")
  /\ output' = [cell \in (0 .. solution'.left.row_count - 1) \X (0 .. solution'.right.col_count - 1) |-> 0]
  /\ UNCHANGED <<run, blockVars, todo, visits, loaded, testVars, had_failure, added>>

\* A file that cannot be opened: fopen's result goes to fread as it is, which crashes.
LoadFails ==
  /\ pc = "load" /\ pc' = "aborted"
  /\ UNCHANGED <<run, solution, block_formats, blockVars, csrVars, testVars, had_failure, added>>

\* multi_sparsify of both matrices: its assertion on the sizes, ...
Block ==
  /\ pc = "block" /\ at = <<>>
  /\ IF MultiSparsify!Divides("left") /\ MultiSparsify!Divides("right")
     THEN MultiSparsify!Start /\ pc' = pc
     ELSE pc' = "aborted" /\ UNCHANGED <<solution, block_formats, blockVars>>
  /\ UNCHANGED <<run, csrVars, testVars, had_failure, added>>

\* ... then its blocks one by one.
BlockNext ==
  /\ pc = "block" /\ at # <<>>
  /\ IF side = "done" THEN pc' = "new_wave" /\ UNCHANGED <<solution, block_formats, blockVars>>
                      ELSE pc' = pc /\ MultiSparsify!PackBlock
  /\ UNCHANGED <<run, csrVars, testVars, had_failure, added>>

-----------------------------------------------------------------------------
(* The products.                                                           *)

Zeros(row_count, col_count) ==
  [row_count |-> row_count, col_count |-> col_count,
   values |-> [cell \in (0 .. row_count - 1) \X (0 .. col_count - 1) |-> 0]]

Starts(step, count) == {x \in 0 .. count - 1 : x % step = 0}

\* The temporary of output block <<i, j>> after the group of inner blocks that starts at p_o.
Temporary(i, j, p_o) ==
  LET left_block(p) == MultiSparsify!Block("left", i * MultiSparsify!BlocksColCount("left") + p)
      right_block(p) == MultiSparsify!Block("right", p * MultiSparsify!BlocksColCount("right") + j)
      temp[n \in 0 .. BLOCK_P] ==
        IF n = 0 THEN Zeros(BLOCK_MR, BLOCK_NR)
        ELSE do_sparse_matmul(temp[n - 1], left_block(p_o + n - 1), right_block(p_o + n - 1))
  IN  temp[BLOCK_P].values

\* sparse_blis: each temporary is added to its part of the output.
sparse_blis ==
  [cell \in DOMAIN output |->
     output[cell] + Total(Starts(BLOCK_P, MultiSparsify!BlocksColCount("left")),
       LAMBDA p_o : Temporary(cell[1] \div BLOCK_MR, cell[2] \div BLOCK_NR, p_o)
                      [<<cell[1] % BLOCK_MR, cell[2] % BLOCK_NR>>])]

\* "Matrices are not compatible for multiplication."
Compatible == solution.left.col_count = solution.right.row_count

-----------------------------------------------------------------------------
(* The testers.                                                            *)

\* Planted bug: the tester that came last is kept.
BugBetter(time) == time <= Never

\* A tester with a new least time is the one to report.
Better(time) == time < min_time

\* After the loop over is_testing: keep the better tester, go on to the next.
NextTester(time) ==
  /\ min' = [min EXCEPT ![tester_index] = time]
  /\ IF Better(time) THEN min_time' = time /\ min_tester_index' = tester_index
                     ELSE UNCHANGED <<min_time, min_tester_index>>
  /\ IF tester_index + 1 \in Testers
     THEN pc' = "new_wave" /\ tester_index' = tester_index + 1
     ELSE pc' = "report" /\ UNCHANGED tester_index
  /\ iterations' = 0

\* repetition_tester_new_wave; without its event counters a tester is in error and runs nothing.
NewWave(counters_open) ==
  /\ pc = "new_wave"
  /\ IF counters_open THEN pc' = "testing" /\ UNCHANGED testVars ELSE NextTester(Never)
  /\ UNCHANGED <<run, solution, block_formats, blockVars, csrVars, had_failure, added>>

\* reptest_solution on the CSR matrices clears the output and starts the threads.
StartCsr ==
  /\ pc = "testing" /\ tester_index = 0 /\ iterations < MaxIterations
  /\ Compatible
  /\ Csr!Start /\ pc' = "csr"
  /\ UNCHANGED <<run, solution, block_formats, blockVars, testVars, had_failure, added>>

Thread(t) ==
  /\ pc = "csr" /\ Csr!Step(t)
  /\ UNCHANGED <<run, pc, solution, block_formats, blockVars, testVars, had_failure, added>>

FinishCsr ==
  /\ pc = "csr" /\ Csr!Finished /\ pc' = "testing"
  /\ iterations' = iterations + 1 /\ added' = 1
  /\ UNCHANGED <<run, solution, block_formats, blockVars, csrVars, tester_index, min, min_time, min_tester_index, had_failure>>

\* The sizes do not fit, so the kernel reads behind the row pointers of the right matrix if the
\* left one has a value: it dies, or it adds what it takes for entries to the cleared output.
StartCsrUnfit(dies, stray) ==
  /\ pc = "testing" /\ tester_index = 0 /\ iterations < MaxIterations
  /\ ~Compatible
  /\ dies \/ stray # 0 => solution.left.coo # <<>>
  /\ output' = [cell \in DOMAIN output |-> stray]
  /\ IF dies THEN pc' = "aborted" /\ UNCHANGED iterations ELSE iterations' = iterations + 1 /\ UNCHANGED pc
  /\ UNCHANGED <<run, solution, block_formats, blockVars, left_union, right_union, todo, visits, loaded, tester_index, min, min_time, min_tester_index, had_failure, added>>

\* reptest_solution on the blocked matrices adds to what the output holds.
RunBlocked ==
  /\ pc = "testing" /\ tester_index = 1 /\ iterations < MaxIterations
  /\ IF Compatible
     THEN /\ output' = sparse_blis /\ added' = added + 1
          /\ iterations' = iterations + 1 /\ UNCHANGED pc
     ELSE pc' = "aborted" /\ UNCHANGED <<output, added, iterations>>
  /\ UNCHANGED <<run, solution, block_formats, blockVars, left_union, right_union, todo, visits, loaded,
                 tester_index, min, min_time, min_tester_index, had_failure>>

\* is_testing returns false, with the least time of the tests.
Complete(time) ==
  /\ pc = "testing" /\ iterations > 0
  /\ NextTester(time)
  /\ UNCHANGED <<run, solution, block_formats, blockVars, csrVars, had_failure, added>>

-----------------------------------------------------------------------------
(* The report and the verification.                                        *)

\* The percentages are printed; then to the verification, if it was asked for.
Report(verify) ==
  /\ pc = "report" /\ pc' = IF verify THEN "verify" ELSE "exit"
  /\ UNCHANGED <<run, solution, block_formats, blockVars, csrVars, testVars, had_failure, added>>

\* The reference: coo_x_coo of the loaded lists.
Compared ==
  Kernel(Zeros(solution.left.row_count, solution.right.col_count),
         [format |-> "MAT_COO", matrix |-> solution.left.coo],
         [format |-> "MAT_COO", matrix |-> solution.right.coo])

\* sparse_blis on params[0], whose blocked matrices have no blocks, adds nothing; then every
\* value of the output is compared with the reference.
Verify ==
  /\ pc = "verify" /\ pc' = "verified"
  /\ had_failure' = (output # Compared.values)
  /\ UNCHANGED <<run, solution, block_formats, blockVars, csrVars, testVars, added>>

Done == pc \in {"verified", "exit", "aborted"} /\ UNCHANGED vars

Next ==
  \/ Load \/ LoadFails \/ Block \/ BlockNext
  \/ \E counters_open \in BOOLEAN : NewWave(counters_open)
  \/ StartCsr \/ FinishCsr \/ RunBlocked
  \/ \E t \in Threads : Thread(t)
  \/ \E dies \in BOOLEAN, stray \in {0, 1} : StartCsrUnfit(dies, stray)
  \/ \E time \in 0 .. MaxTime : Complete(time)
  \/ \E verify \in BOOLEAN : Report(verify)
  \/ Verify
  \/ Done

Spec == Init /\ [][Next]_vars

\* main goes on, and the OS schedules each thread of the team.
FairSpec == Spec /\ WF_vars(Next) /\ \A t \in Threads : WF_vars(Thread(t))

-----------------------------------------------------------------------------
\* The product of the matrices that were loaded, by its definition.
Reference ==
  Product(DenseFromCoo(solution.left.coo, solution.left.row_count, solution.left.col_count),
          DenseFromCoo(solution.right.coo, solution.right.row_count, solution.right.col_count))

\* Every block that the loops of multi_sparsify address exists, in the table of formats as in
\* the result, though the loops test only the first block of a group.
BlocksInBounds == pc = "block" /\ at # <<>> => MultiSparsify!BlocksInBounds

\* When the testers begin, every block has its format and holds its part of the matrix: none
\* is lost when the pack arena is cleared for the next.
BlocksRepresent == pc = "new_wave" => MultiSparsify!BlocksRepresent

\* Between its load and its store of an output value a thread of the CSR product is alone at it.
NoLostUpdate == Csr!NoLostUpdate

\* Between iterations the output is the product of the loaded matrices, once for the last
\* CSR iteration, which clears it first, and once more for every blocked one, which does not:
\* both products compute the same, whatever the formats, the schedule and the failed testers.
OutputCountsProducts ==
  pc \in {"new_wave", "testing", "report", "verify", "verified", "exit"} /\ Compatible =>
    \A cell \in DOMAIN output : output[cell] = added * Reference[cell]

\* "All entries match reference" is reported exactly when the product is in the output once.
VerifyExact ==
  pc = "verified" => (~had_failure <=> \A cell \in DOMAIN output : output[cell] = Reference[cell])

\* Reporting how much better the best tester is never subtracts a larger unsigned
\* time from a smaller one, though a tester may have failed.
BestIsLeast == pc \in {"report", "verify", "verified", "exit"} =>
  /\ \A t \in Testers : min_time <= min[t]
  /\ min[min_tester_index] = min_time

\* Whatever the file holds and however the threads are scheduled, the program ends.
RunsToEnd == <>(pc \in {"verified", "exit", "aborted"})
-----------------------------------------------------------------------------
(* The inductive invariants behind the safety properties: BestInv,         *)
(* BlocksInv, CsrInv, PackedInv, ProductInv and ComparedInv, and what they *)
(* need of the files and of the formats that are asked for.                *)

\* The matrices of a file have their entries inside.
EntriesInRange ==
  \A r \in Runs : \A s \in {"left", "right"} :
    LET m == Solution(r.file)[s] IN
    /\ m.row_count \in Nat /\ m.col_count \in Nat
    /\ m.coo \in Seq([row : 0 .. m.row_count - 1, col : 0 .. m.col_count - 1, value : Int])

\* What the loops of multi_sparsify presuppose and never test: where the blocks divide the
\* sizes of a matrix, groups divide its block counts.
GroupsDivide ==
  \A r \in Runs : \A s \in {"left", "right"} :
    LET m == Solution(r.file)[s]
        b == blocking[s]
    IN  /\ m.row_count \in Nat /\ m.col_count \in Nat
        /\ m.row_count % b.row_count = 0 => (m.row_count \div b.row_count) % b.inner_step = 0
        /\ m.col_count % b.col_count = 0 => (m.col_count \div b.col_count) % b.outer_step = 0

BestInv ==
  /\ tester_index \in Testers /\ min_tester_index \in Testers
  /\ min \in [Testers -> 0 .. Never] /\ min_time \in 0 .. Never
  /\ \A t \in Testers : min_time <= min[t]
  /\ min[min_tester_index] = min_time
  /\ pc \in {"load", "block", "new_wave", "testing", "csr"} =>
       \A t \in Testers : tester_index <= t => min[t] = Never

\* The counters of multi_sparsify stand in a group that begins where groups do.
InGroup(s, c) ==
  /\ c \in [outer : Nat, inner : Nat, inner_i : Nat, outer_i : Nat]
  /\ c.inner \in Starts(blocking[s].inner_step, MultiSparsify!BlocksRowCount(s))
  /\ c.outer \in Starts(blocking[s].outer_step, MultiSparsify!BlocksColCount(s))
  /\ c.inner_i < blocking[s].inner_step /\ c.outer_i < blocking[s].outer_step

BlocksInv ==
  /\ run \in Runs
  /\ pc = "load" => at = <<>>
  /\ pc = "block" => solution = Solution(run.file)
  /\ pc = "block" /\ at # <<>> =>
       /\ MultiSparsify!Divides("left") /\ MultiSparsify!Divides("right")
       /\ side \in {"left", "right", "done"}
       /\ side # "done" => InGroup(side, at)

\* The visits a thread has left are of one row, which no other thread has and none can take.
RowOfItsOwn(t) ==
  \A v \in visits[t] :
    /\ v \in Csr!RowVisits(v.at[1]) /\ v.at[1] \notin todo
    /\ \A w \in visits[t] : w.at[1] = v.at[1]
    /\ \A u \in Threads \ {t} : \A w \in visits[u] : w.at[1] # v.at[1]

CsrInv ==
  /\ run \in Runs
  /\ DOMAIN visits = Threads /\ DOMAIN loaded = Threads
  /\ pc \notin {"load", "aborted"} =>
       /\ solution = Solution(run.file)
       /\ left_union = CooToFormat(solution.left.coo, solution.left.row_count, solution.left.col_count, "MAT_CSR")
       /\ right_union = CooToFormat(solution.right.coo, solution.right.row_count, solution.right.col_count, "MAT_CSR")
       /\ DOMAIN output = (0 .. solution.left.row_count - 1) \X (0 .. solution.right.col_count - 1)
  /\ pc # "csr" => todo = {} /\ \A t \in Threads : visits[t] = {} /\ loaded[t] = Csr!Nothing
  /\ pc = "csr" =>
       /\ Compatible /\ todo \subseteq 0 .. solution.left.row_count - 1
       /\ \A t \in Threads :
            /\ RowOfItsOwn(t)
            /\ loaded[t] # Csr!Nothing =>
                 visits[t] # {} /\ loaded[t][1] = output[Csr!First(visits[t]).at]

\* No blocks are asked for that would stay in the pack arena.
NoneDense == \A r \in Runs : r.left \in Formats \ {"MAT_DENSE"} /\ r.right \in Formats \ {"MAT_DENSE"}

\* The lists of a file come by rows and name no cell twice.
FilesByRows ==
  \A r \in Runs : \A s \in {"left", "right"} :
    LET coo == Solution(r.file)[s].coo IN
    \A i, j \in DOMAIN coo : i < j => coo[i].row < coo[j].row \/ (coo[i].row = coo[j].row /\ coo[i].col # coo[j].col)

\* The left ones have their columns in order within a row.
LeftByColumns ==
  \A r \in Runs :
    LET coo == Solution(r.file).left.coo IN
    \A i, j \in DOMAIN coo : i < j /\ coo[i].row = coo[j].row => coo[i].col < coo[j].col

\* What sparse_blis presupposes and never tests: groups divide the inner blocks.
InnerGroupsDivide ==
  \A r \in Runs :
    LET m == Solution(r.file).left
    IN  m.col_count % BLOCK_KU = 0 => (m.col_count \div BLOCK_KU) % BLOCK_P = 0

\* No blocks whose kernel stores a sum of its own.
NoneStores == \A r \in Runs : <<r.left, r.right>> # <<"MAT_COO", "MAT_CSC">>

\* The loops of multi_sparsify at the counters c have passed a block, given by its row and column
\* of blocks: it is in a group of columns before, or in this group in a row before, ...
PassedIn(s, c, row, col) ==
  \/ col < c.outer
  \/ /\ col < c.outer + blocking[s].outer_step
     /\ \/ row < MultiSparsify!BlockRow(c)
        \/ row = MultiSparsify!BlockRow(c) /\ col < MultiSparsify!BlockCol(c)
Passed(s, row, col) ==
  side = "done" \/ (s = "left" /\ side = "right") \/ (s = side /\ PassedIn(s, at, row, col))

\* ... and such a block is its part of the matrix, in the format asked for.
IsPacked(s, n) == blocks[s][n] = MultiSparsify!DenseToFormat(MultiSparsify!BlockOf(s, n), run[s])

FormatsAsked ==
  /\ solution = Solution(run.file)
  /\ \A s \in {"left", "right"} :
       block_formats[s] = [n \in 0 .. MultiSparsify!BlockCount(s) - 1 |-> run[s]]

PassedArePacked ==
  /\ DOMAIN blocks = {"left", "right"}
  /\ \A s \in {"left", "right"} : DOMAIN blocks[s] = 0 .. MultiSparsify!BlockCount(s) - 1
  /\ \A s \in {"left", "right"} :
       \A row \in 0 .. MultiSparsify!BlocksRowCount(s) - 1, col \in 0 .. MultiSparsify!BlocksColCount(s) - 1 :
         Passed(s, row, col) => IsPacked(s, row * MultiSparsify!BlocksColCount(s) + col)

AllPassed ==
  at # <<>> /\ side = "done" /\ MultiSparsify!Divides("left") /\ MultiSparsify!Divides("right")

PackedInv ==
  /\ pc \notin {"load", "aborted"} => FormatsAsked
  /\ pc \notin {"load", "aborted"} /\ at # <<>> => PassedArePacked
  /\ pc \notin {"load", "block", "aborted"} => AllPassed

\* The visits of the CSR product that threads have left, or will find in the rows to be taken.
Remaining ==
  {v \in Csr!csr_x_csr(left_union.matrix, right_union.matrix) : v.at[1] \in todo \/ \E t \in Threads : v \in visits[t]}

ProductInv ==
  /\ added \in Nat /\ (pc = "load" => added = 0)
  /\ pc \notin {"load", "aborted"} =>
       output \in [(0 .. solution.left.row_count - 1) \X (0 .. solution.right.col_count - 1) -> Int]
  /\ pc \notin {"load", "csr", "aborted"} /\ Compatible =>
       \A cell \in DOMAIN output : output[cell] = added * Reference[cell]
  /\ pc = "csr" =>
       \A cell \in DOMAIN output :
         output[cell] + Total({v \in Remaining : v.at = cell}, LAMBDA v : v.product) = Reference[cell]

ComparedInv ==
  /\ pc \notin {"load", "aborted"} => output = [cell \in DOMAIN output |-> output[cell]]
  /\ pc = "verified" => (had_failure <=> output # Compared.values)
=============================================================================
