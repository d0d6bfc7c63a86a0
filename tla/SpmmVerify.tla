----------------------------- MODULE SpmmVerify -----------------------------
(***************************************************************************)
(* main of src/reptest_spmm.c.  --verify: two random matrices in every     *)
(* format, a reference computed with the dense kernel, then every kernel   *)
(* of test_entries on an output of zeros.  The sweep: for each density two *)
(* matrices, every kernel under a tester of its own, again and again on    *)
(* one output that no one clears; then a CSV file for each kernel with a   *)
(* row for each density.  Built with OBSERVE_FLOPS, as the rows are for.   *)
(***************************************************************************)
EXTENDS Kernels

CONSTANTS
  VerifyLefts, VerifyRights,  \* the dense matrices make_random_dense_matrix may return for --verify
  test_entries,               \* the pairs of formats of test_entries, element 1 being index 0
  densities,                  \* the densities of the sweep, element 1 being index 0
  fixed_density,              \* the density of a side that is not swept
  sweep_left, sweep_right,
  Lefts, Rights,              \* the matrices it may return for each density
  MaxIterations,              \* bound on the iterations of a tester
  MaxFailures                 \* bound on the testers that are in error

VARIABLES
  pc,               \* "init", "reference", "entries"; "density", "wave", "testing"; "csv", "exit"
  params,           \* the Operation_Parameters: both matrices in every format, and the output
  reference,        \* the copy of the output of matmul_dense_dense
  i,                \* the loop counter of the verification, counting from 0
  had_failure,
  density_idx, func_idx,
  iterations,       \* of the tester under test
  flops,            \* results.min's flop count of each tester that has completed
  non_zero_counts,  \* of both matrices of each density
  rows,             \* the rows of the CSV file written last
  compared,         \* history: the entries whose output was compared
  drawn,            \* history: both matrices of each density
  times             \* history: how often the product should be in the output

verifyVars == <<reference, i, had_failure, compared>>
sweepVars == <<density_idx, func_idx, iterations, flops, non_zero_counts, rows, drawn, times>>

Zeros(row_count, col_count) ==
  [row_count |-> row_count, col_count |-> col_count,
   values |-> [cell \in (0 .. row_count - 1) \X (0 .. col_count - 1) |-> 0]]

Reps(d) == [format \in Formats |-> DenseToFormat(d, format)]

\* init_params with the matrices drawn.
Params(left, right) ==
  [left |-> Reps(left), right |-> Reps(right), output |-> Zeros(left.row_count, right.col_count)]

Init ==
  /\ pc \in {"init", "density"}   \* whether --verify was given
  /\ params = <<>> /\ reference = <<>>
  /\ i = 1 /\ had_failure = FALSE /\ compared = {}
  /\ density_idx = 0 /\ func_idx = 0 /\ iterations = 0
  /\ flops = <<>> /\ non_zero_counts = <<>> /\ rows = <<>>
  /\ drawn = <<>> /\ times = 0

-----------------------------------------------------------------------------
(* The verification.                                                       *)

InitParams(left, right) ==
  /\ pc = "init" /\ pc' = "reference"
  /\ params' = Params(left, right)
  /\ UNCHANGED <<verifyVars, sweepVars>>

Run(entry, output) == Kernel(output, params.left[entry[1]], params.right[entry[2]])

\* matmul_dense_dense, and the copy of what it left.
MakeReference ==
  LET output == Run(<<"MAT_DENSE", "MAT_DENSE">>, params.output) IN
  /\ pc = "reference" /\ pc' = "entries"
  /\ params' = [params EXCEPT !.output = output]
  /\ reference' = output.values
  /\ UNCHANGED <<i, had_failure, compared, sweepVars>>

\* One iteration of the loop over test_entries.
VerifyEntry ==
  LET entry == test_entries[i + 1]
      output == Run(entry, Zeros(params.output.row_count, params.output.col_count))
  IN
  /\ pc = "entries" /\ i < Len(test_entries)
  /\ params' = [params EXCEPT !.output = output]
  /\ had_failure' = (had_failure \/ output.values # reference)
  /\ compared' = compared \cup {entry}
  /\ i' = i + 1
  /\ UNCHANGED <<pc, reference, sweepVars>>

\* arena_clear, and the message when there was no failure; the block's variables end.
Finish ==
  /\ pc = "entries" /\ i = Len(test_entries) /\ pc' = "density"
  /\ params' = <<>> /\ reference' = <<>>
  /\ i' = 1 /\ had_failure' = FALSE /\ compared' = {}
  /\ UNCHANGED sweepVars

-----------------------------------------------------------------------------
(* The sweep.                                                              *)

left_density  == IF sweep_left  THEN densities[density_idx + 1] ELSE fixed_density
right_density == IF sweep_right THEN densities[density_idx + 1] ELSE fixed_density

\* init_params for the next density; the numbers of values are those of the CSR matrices.
NextDensity(left, right) ==
  /\ pc = "density" /\ density_idx < Len(densities) /\ pc' = "wave"
  /\ params' = Params(left, right)
  /\ non_zero_counts' = Append(non_zero_counts, <<Len(params'.left["MAT_CSR"].matrix.entries),
                                                 Len(params'.right["MAT_CSR"].matrix.entries)>>)
  /\ func_idx' = 0 /\ times' = 0
  /\ drawn' = Append(drawn, <<left, right>>)
  /\ UNCHANGED <<verifyVars, density_idx, iterations, flops, rows>>

\* Planted bug: the results go to the tester of the next density.
BugTester == <<func_idx, density_idx + 1>>

\* testers[func_idx][density_idx].
Tester == <<func_idx, density_idx>>

\* The next kernel, or arena_clear and the next density.
NextEntry ==
  /\ iterations' = 0
  /\ IF func_idx + 1 < Len(test_entries)
     THEN /\ func_idx' = func_idx + 1 /\ pc' = "wave"
          /\ UNCHANGED <<params, density_idx, times>>
     ELSE /\ density_idx' = density_idx + 1 /\ pc' = "density"
          /\ params' = <<>> /\ func_idx' = 0 /\ times' = 0

\* The testers that were in error so far.
Failures == density_idx * Len(test_entries) + func_idx - Cardinality(DOMAIN flops)

\* repetition_tester_new_wave; a tester without its event counters is in error and runs nothing.
NewWave(counters_open) ==
  /\ pc = "wave"
  /\ IF counters_open
     THEN pc' = "testing" /\ UNCHANGED <<params, density_idx, func_idx, iterations, times>>
     ELSE NextEntry /\ Failures < MaxFailures
  /\ UNCHANGED <<verifyVars, flops, non_zero_counts, rows, drawn>>

\* coo_x_csc stores its sums where the other kernels add them.
Overwrites(entry) == entry = <<"MAT_COO", "MAT_CSC">>

\* The kernel under test, on the output as it is.
RunEntry ==
  LET entry == test_entries[func_idx + 1] IN
  /\ pc = "testing" /\ iterations < MaxIterations
  /\ params' = [params EXCEPT !.output = Run(entry, @)]
  /\ iterations' = iterations + 1
  /\ times' = IF Overwrites(entry) THEN 1 ELSE times + 1
  /\ UNCHANGED <<pc, verifyVars, density_idx, func_idx, flops, non_zero_counts, rows, drawn>>

\* FMADD counts two operations.
Flops(entry) == 2 * Cardinality(Visits(params.left[entry[1]], params.right[entry[2]]))

\* is_testing returns false; each iteration has counted the same.
Complete ==
  /\ pc = "testing" /\ iterations > 0
  /\ flops' = [t \in DOMAIN flops \cup {Tester} |-> IF t = Tester THEN Flops(test_entries[func_idx + 1]) ELSE flops[t]]
  /\ NextEntry
  /\ UNCHANGED <<verifyVars, non_zero_counts, rows, drawn>>

\* The loops over the densities have ended.
SweepDone ==
  /\ pc = "density" /\ density_idx = Len(densities)
  /\ pc' = "csv" /\ func_idx' = 0
  /\ UNCHANGED <<params, verifyVars, density_idx, iterations, flops, non_zero_counts, rows, drawn, times>>

\* The row of a density: a tester in error has counted nothing.
CsvRow(d) ==
  [left_non_zero_count |-> non_zero_counts[d][1], right_non_zero_count |-> non_zero_counts[d][2],
   density |-> densities[d],
   flops |-> IF <<func_idx, d - 1>> \in DOMAIN flops THEN flops[<<func_idx, d - 1>>] ELSE 0]

\* One kernel's file; one that cannot be opened is left out.
DumpCsv(opened) ==
  /\ pc = "csv" /\ func_idx < Len(test_entries)
  /\ rows' = IF opened THEN [d \in 1 .. Len(densities) |-> CsvRow(d)] ELSE <<>>
  /\ func_idx' = func_idx + 1
  /\ UNCHANGED <<pc, params, verifyVars, density_idx, iterations, flops, non_zero_counts, drawn, times>>

Exit ==
  /\ pc = "csv" /\ func_idx = Len(test_entries) /\ pc' = "exit" /\ rows' = <<>>
  /\ UNCHANGED <<params, verifyVars, density_idx, func_idx, iterations, flops, non_zero_counts, drawn, times>>

vars == <<pc, params, verifyVars, sweepVars>>

Done == pc = "exit" /\ UNCHANGED vars

Next ==
  \/ \E left \in VerifyLefts, right \in VerifyRights : InitParams(left, right)
  \/ MakeReference \/ VerifyEntry \/ Finish
  \/ /\ density_idx < Len(densities)
     /\ \E left \in Lefts[left_density], right \in Rights[right_density] : NextDensity(left, right)
  \/ \E counters_open \in BOOLEAN : NewWave(counters_open)
  \/ RunEntry \/ Complete \/ SweepDone
  \/ \E opened \in BOOLEAN : DumpCsv(opened)
  \/ Exit \/ Done

Spec == Init /\ [][Next]_vars

-----------------------------------------------------------------------------
\* Each of the formats a matrix is converted to has the values of the dense one,
\* in the order that the kernels' cursors rely on.
FormatsAgree ==
  pc \in {"reference", "entries"} =>
    \A format \in Formats :
      /\ Represents(params.left[format], params.left["MAT_DENSE"].matrix)
      /\ Represents(params.right[format], params.right["MAT_DENSE"].matrix)

\* The conversions from a coordinate list (csr_from_coo copies the entries and computes
\* only pointers, csc_from_coo sorts them by counting through one cursor per column)
\* give the matrix that the conversions from the dense one give, in the same order.
ConversionsAgree ==
  pc = "reference" =>
    \A side \in {params.left, params.right}, format \in Formats :
      LET d == side["MAT_DENSE"].matrix IN
      CooToFormat(side["MAT_COO"].matrix, d.row_count, d.col_count, format) = side[format]

\* "All entries match reference": no kernel that is compared differs from the
\* dense product, and that one is the product by its definition.
NoEntryFails ==
  /\ ~had_failure
  /\ pc = "entries" => reference = Product(params.left["MAT_DENSE"].matrix, params.right["MAT_DENSE"].matrix)

\* "All entries match reference" speaks of every entry of the table.
EveryEntryCompared ==
  pc = "entries" /\ i = Len(test_entries) /\ ~had_failure => compared = {test_entries[n] : n \in DOMAIN test_entries}

\* The sweep never clears the output, and its kernels add to it: between two tests it is a whole
\* number of products of the density's matrices, one only after coo_x_csc, which stores.
OutputCountsProducts ==
  pc \in {"wave", "testing"} =>
    LET product == Product(drawn[density_idx + 1][1], drawn[density_idx + 1][2])
    IN  \A cell \in DOMAIN product : params.output.values[cell] = times * product[cell]

\* How many values a matrix has in a column or a row when it is in a format.
InCol(d, format, k) == Cardinality({row \in Rows(d) : format = "MAT_DENSE" \/ d.values[<<row, k>>] # 0})
InRow(d, format, k) == Cardinality({col \in Cols(d) : format = "MAT_DENSE" \/ d.values[<<k, col>>] # 0})

\* The multiplications that the two formats ask for, each counted as two operations.
FlopsOf(entry, left, right) ==
  2 * Total(Cols(left), LAMBDA k : InCol(left, entry[1], k) * InRow(right, entry[2], k))

\* Each row of a file has the numbers of values of its own density's matrices ("Should be the
\* same across all formats") and, unless its tester was in error, the operations that those
\* matrices need in the file's two formats, no more and no fewer.
RowsTruthful ==
  rows # <<>> =>
    \A d \in DOMAIN rows :
      LET left == drawn[d][1]  right == drawn[d][2] IN
      /\ rows[d].left_non_zero_count = Cardinality(NonZero(left))
      /\ rows[d].right_non_zero_count = Cardinality(NonZero(right))
      /\ <<func_idx - 1, d - 1>> \in DOMAIN flops =>
           rows[d].flops = FlopsOf(test_entries[func_idx], left, right)
-----------------------------------------------------------------------------
(* What the properties rest on, for matrices of every size.                *)

\* The matrices of the n-th density, counting from 1.
LeftsOf(n) == Lefts[IF sweep_left THEN densities[n] ELSE fixed_density]
RightsOf(n) == Rights[IF sweep_right THEN densities[n] ELSE fixed_density]

IsSequence(s) == s \in Seq({s[n] : n \in DOMAIN s})

\* make_random_dense_matrix makes matrices of numbers, and main gives both the same k.
ASSUME MatricesAssumption ==
  /\ test_entries \in Seq(Formats \X Formats) /\ test_entries # <<>>
  /\ IsSequence(densities)
  /\ \A left \in VerifyLefts, right \in VerifyRights : Operands(left, right)
  /\ \A n \in DOMAIN densities : \A left \in LeftsOf(n), right \in RightsOf(n) : Operands(left, right)

\* The output is n times the product, in the shape of the output of two matrices.
Holds(output, left, right, n) ==
  /\ output.values \in [Rows(left) \X Cols(right) -> Int]
  /\ output = [row_count |-> left.row_count, col_count |-> right.col_count, values |-> output.values]
  /\ \A cell \in Rows(left) \X Cols(right) : output.values[cell] = n * Product(left, right)[cell]

\* The operation works on two matrices, and its output is n times their product.
Operates(left, right, n) ==
  /\ Operands(left, right)
  /\ params = [left |-> Reps(left), right |-> Reps(right), output |-> params.output]
  /\ Holds(params.output, left, right, n)

\* The verification: zeros, then the product, which the reference is from then on.
VerifyInv ==
  /\ i \in Nat /\ ~had_failure
  /\ pc = "reference" => \E left \in VerifyLefts, right \in VerifyRights : Operates(left, right, 0)
  /\ pc = "entries" => \E left \in VerifyLefts, right \in VerifyRights :
                         Operates(left, right, 1) /\ reference = Product(left, right)

\* What the sweep has written down of a density, and what its testers have counted.
CountsInv ==
  /\ non_zero_counts \in Seq(Nat \X Nat) /\ Len(non_zero_counts) = Len(drawn)
  /\ \A d \in DOMAIN drawn :
       /\ Operands(drawn[d][1], drawn[d][2])
       /\ non_zero_counts[d] = <<Cardinality(NonZero(drawn[d][1])), Cardinality(NonZero(drawn[d][2]))>>
  /\ DOMAIN flops \subseteq (0 .. Len(test_entries) - 1) \X (0 .. Len(drawn) - 1)
  /\ \A t \in DOMAIN flops : flops[t] = FlopsOf(test_entries[t[1] + 1], drawn[t[2] + 1][1], drawn[t[2] + 1][2])

\* The sweep: the matrices of the density under test are the last ones drawn.
SweepInv ==
  /\ density_idx \in 0 .. Len(densities) /\ func_idx \in 0 .. Len(test_entries) /\ times \in Nat
  /\ IsSequence(drawn)
  /\ Len(drawn) = density_idx + (IF pc \in {"wave", "testing"} THEN 1 ELSE 0)
  /\ pc \in {"wave", "testing"} =>
       /\ func_idx < Len(test_entries) /\ density_idx < Len(densities)
       /\ Operates(drawn[density_idx + 1][1], drawn[density_idx + 1][2], times)
  /\ pc \in {"csv", "exit"} => density_idx = Len(densities)

\* A file's rows are there while the files are written.
RowsInv == pc # "csv" => rows = <<>>
=============================================================================
