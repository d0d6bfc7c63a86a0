-------------------------- MODULE SpmmVerifyProofs --------------------------
(* What TLAPS proves about SpmmVerify, the main program of                   *)
(* src/reptest_spmm.c, for matrices of every size and with every pattern of  *)
(* values, every table of entries and every list of densities.               *)
EXTENDS SpmmVerify, KernelProofs

-----------------------------------------------------------------------------
(* One kernel, and one count.                                              *)

LEMMA RepsAre ==
  ASSUME NEW d, NEW format \in Formats
  PROVE  Reps(d)[format] = DenseToFormat(d, format)
  BY DEF Reps

LEMMA ZerosHold ==
  ASSUME NEW left, NEW right, Operands(left, right)
  PROVE  Holds(Zeros(left.row_count, right.col_count), left, right, 0)
<1> DEFINE output == Zeros(left.row_count, right.col_count)
<1>1. output = [row_count |-> left.row_count, col_count |-> right.col_count,
                values |-> [cell \in Rows(left) \X Cols(right) |-> 0]]
  BY DEF Zeros, Rows, Cols
<1>2. output.values = [cell \in Rows(left) \X Cols(right) |-> 0]
  BY <1>1
<1> HIDE DEF output
<1>3. output = [row_count |-> left.row_count, col_count |-> right.col_count, values |-> output.values]
  BY <1>1, <1>2
<1>4. \A cell \in Rows(left) \X Cols(right) : Product(left, right)[cell] \in Int
  BY ProductType
<1>5. \A cell \in Rows(left) \X Cols(right) : output.values[cell] = 0 * Product(left, right)[cell]
  BY <1>2, <1>4
<1>6. output.values \in [Rows(left) \X Cols(right) -> Int]
  BY <1>2
<1>7. Holds(output, left, right, 0)
  BY <1>3, <1>5, <1>6 DEF Holds
<1>8. QED
  BY <1>7 DEF output

\* A kernel adds the product once more, or leaves it there once.
LEMMA KernelHolds ==
  ASSUME NEW left, NEW right, Operands(left, right), NEW entry \in Formats \X Formats, NEW n \in Nat,
         NEW output, Holds(output, left, right, n),
         NEW result, result = Kernel(output, Reps(left)[entry[1]], Reps(right)[entry[2]])
  PROVE  Holds(result, left, right, IF Overwrites(entry) THEN 1 ELSE n + 1)
<1>1. IsOutput(output, left, right)
  BY DEF Holds, IsOutput
<1>2. \A cell \in Rows(left) \X Cols(right) : output.values[cell] = n * Product(left, right)[cell]
  BY DEF Holds
<1>3. \A cell \in Rows(left) \X Cols(right) : Product(left, right)[cell] \in Int /\ output.values[cell] \in Int
  BY <1>1, ProductType DEF IsOutput
<1>4. entry[1] \in Formats /\ entry[2] \in Formats /\ entry = <<entry[1], entry[2]>>
  OBVIOUS
<1>5. result = Kernel(output, DenseToFormat(left, entry[1]), DenseToFormat(right, entry[2]))
  BY <1>4, RepsAre
<1>6. CASE Overwrites(entry)
  <2>1. entry[1] = "MAT_COO" /\ entry[2] = "MAT_CSC"
    BY <1>6 DEF Overwrites
  <2>2. /\ IsOutput(result, left, right)
        /\ \A cell \in Rows(left) \X Cols(right) :
             result.values[cell] # Product(left, right)[cell] =>
               Product(left, right)[cell] = 0 /\ result.values[cell] = output.values[cell]
    BY <1>1, <1>5, <2>1, KernelStores
  <2>3. ASSUME NEW cell \in Rows(left) \X Cols(right) PROVE result.values[cell] = 1 * Product(left, right)[cell]
    BY <1>2, <1>3, <2>2
  <2>4. Holds(result, left, right, 1)
    BY <2>2, <2>3 DEF IsOutput, Holds
  <2>5. QED
    BY <1>6, <2>4
<1>7. CASE ~Overwrites(entry)
  <2>1. <<entry[1], entry[2]>> # <<"MAT_COO", "MAT_CSC">>
    BY <1>4, <1>7 DEF Overwrites
  <2>2. /\ IsOutput(result, left, right)
        /\ \A cell \in Rows(left) \X Cols(right) : result.values[cell] = output.values[cell] + Product(left, right)[cell]
    BY <1>1, <1>4, <1>5, <2>1, KernelAdds
  <2>3. ASSUME NEW cell \in Rows(left) \X Cols(right) PROVE result.values[cell] = (n + 1) * Product(left, right)[cell]
    <3>1. PICK x \in Int : x = Product(left, right)[cell]
      BY <1>3
    <3>2. result.values[cell] = n * x + x
      BY <1>2, <2>2, <3>1
    <3>3. QED
      BY <3>1, <3>2
  <2>4. Holds(result, left, right, n + 1)
    BY <2>2, <2>3 DEF IsOutput, Holds
  <2>5. QED
    BY <1>7, <2>4
<1>8. QED
  BY <1>6, <1>7

\* The output that holds the product once is the product.
LEMMA HoldsOnce ==
  ASSUME NEW left, NEW right, Operands(left, right), NEW output, Holds(output, left, right, 1)
  PROVE  output.values = Product(left, right)
<1>1. Product(left, right) \in [Rows(left) \X Cols(right) -> Int] /\ output.values \in [Rows(left) \X Cols(right) -> Int]
  BY ProductType DEF Holds
<1>2. \A cell \in Rows(left) \X Cols(right) : output.values[cell] = 1 * Product(left, right)[cell]
  BY DEF Holds
<1>3. QED
  BY <1>1, <1>2

-----------------------------------------------------------------------------
(* What is counted.                                                        *)

\* FlopsOf, with its factors as a function.
LEMMA FlopsOfSum ==
  ASSUME NEW left, NEW right, NEW entry, NEW f,
         \A k \in Cols(left) : f[k] = InCol(left, entry[1], k) * InRow(right, entry[2], k)
  PROVE  FlopsOf(entry, left, right) = 2 * SumOf(f, Cols(left))
<1> DEFINE V == Cols(left)
           A(iter) == iter = [s \in SUBSET V |-> IF s = {} THEN 0 ELSE LET x == CHOOSE x \in s : TRUE
                                       IN  InCol(left, entry[1], x) * InRow(right, entry[2], x) + iter[s \ {x}]]
           B(iter) == iter = [s \in SUBSET V |-> IF s = {} THEN 0 ELSE LET x == CHOOSE x \in s : TRUE
                                                                      IN  f[x] + iter[s \ {x}]]
<1>1. \A s \in SUBSET V : s # {} => (CHOOSE x \in s : TRUE) \in V
  OBVIOUS
<1>2. \A iter : A(iter) <=> B(iter)
  BY <1>1
<1>3. (CHOOSE iter : A(iter)) = (CHOOSE iter : B(iter))
  BY <1>2, Zenon
<1>4. Total(V, LAMBDA k : InCol(left, entry[1], k) * InRow(right, entry[2], k)) = (CHOOSE iter : A(iter))[V]
  BY Zenon DEF Total, MapThenSumSet, MapThenFoldSet
<1>5. SumOf(f, V) = (CHOOSE iter : B(iter))[V]
  BY Zenon DEF SumOf
<1>6. FlopsOf(entry, left, right) = 2 * Total(V, LAMBDA k : InCol(left, entry[1], k) * InRow(right, entry[2], k))
  BY Zenon DEF FlopsOf
<1>7. QED
  BY <1>3, <1>4, <1>5, <1>6, Zenon

\* A kernel does the multiplications that its formats ask for.
LEMMA FlopsCounted ==
  ASSUME NEW left, NEW right, Operands(left, right), NEW entry \in Formats \X Formats
  PROVE  2 * Cardinality(Visits(Reps(left)[entry[1]], Reps(right)[entry[2]])) = FlopsOf(entry, left, right)
<1> DEFINE f == [k \in Cols(left) |-> InCol(left, entry[1], k) * InRow(right, entry[2], k)]
<1>1. entry[1] \in Formats /\ entry[2] \in Formats
  OBVIOUS
<1>2. \A k \in Cols(left) : f[k] = InCol(left, entry[1], k) * InRow(right, entry[2], k)
  OBVIOUS
<1> HIDE DEF f
<1>3. FlopsOf(entry, left, right) = 2 * SumOf(f, Cols(left))
  BY <1>2, FlopsOfSum
<1>4. \A row, k : <<row, k>> \in Held(entry[1], left) <=>
        row \in Rows(left) /\ k \in Cols(left) /\ (entry[1] = "MAT_DENSE" \/ left.values[<<row, k>>] # 0)
  BY OperandCells DEF Held, NonZero
<1>5. \A k, col : <<k, col>> \in Held(entry[2], right) <=>
        k \in Cols(left) /\ col \in Cols(right) /\ (entry[2] = "MAT_DENSE" \/ right.values[<<k, col>>] # 0)
  BY OperandCells DEF Held, NonZero
<1>6. ASSUME NEW k \in Cols(left)
      PROVE  f[k] = Cardinality({row \in Rows(left) : <<row, k>> \in Held(entry[1], left)})
                    * Cardinality({col \in Cols(right) : <<k, col>> \in Held(entry[2], right)})
  <2>1. {row \in Rows(left) : <<row, k>> \in Held(entry[1], left)} =
        {row \in Rows(left) : entry[1] = "MAT_DENSE" \/ left.values[<<row, k>>] # 0}
    BY <1>4
  <2>2. {col \in Cols(right) : <<k, col>> \in Held(entry[2], right)} =
        {col \in Cols(right) : entry[2] = "MAT_DENSE" \/ right.values[<<k, col>>] # 0}
    BY <1>5
  <2>3. QED
    BY <1>2, <2>1, <2>2 DEF InCol, InRow
<1>7. CountsPairs(f, entry[1], left, entry[2], right)
  BY <1>6 DEF CountsPairs
<1>8. Cardinality(Visits(DenseToFormat(left, entry[1]), DenseToFormat(right, entry[2]))) = SumOf(f, Cols(left))
  BY <1>1, <1>7, KernelCount
<1>9. QED
  BY <1>1, <1>3, <1>8, RepsAre

LEMMA ValuesCounted ==
  ASSUME NEW d, IsDense(d)
  PROVE  Len(Reps(d)["MAT_CSR"].matrix.entries) = Cardinality(NonZero(d))
<1>1. "MAT_CSR" \in Formats
  BY DEF Formats
<1>2. Reps(d)["MAT_CSR"].matrix = CsrFromDense(d)
  BY <1>1, RepsAre, FormatsOf
<1>3. Len(CsrFromDense(d).entries) = Cardinality(NonZero(d))
  BY CsrFacts
<1>4. QED
  BY <1>2, <1>3

-----------------------------------------------------------------------------
(* The verification.                                                       *)

LEMMA EntriesTyped ==
  /\ Len(test_entries) \in Nat \ {0} /\ \A n \in 1 .. Len(test_entries) : test_entries[n] \in Formats \X Formats
  /\ Len(densities) \in Nat /\ DOMAIN densities = 1 .. Len(densities)
  BY MatricesAssumption DEF IsSequence

LEMMA InitVerify == Init => VerifyInv
  BY DEF Init, VerifyInv

\* The kernels that main runs on its matrices.
LEMMA RunHolds ==
  ASSUME NEW left, NEW right, NEW n \in Nat, Operates(left, right, n), NEW m \in Nat, NEW output, Holds(output, left, right, m),
         NEW entry \in Formats \X Formats
  PROVE  Holds(Run(entry, output), left, right, IF Overwrites(entry) THEN 1 ELSE m + 1)
<1>1. params.left = Reps(left) /\ params.right = Reps(right) /\ Operands(left, right)
  BY DEF Operates
<1>2. Run(entry, output) = Kernel(output, Reps(left)[entry[1]], Reps(right)[entry[2]])
  BY <1>1 DEF Run
<1>3. QED
  BY <1>1, <1>2, KernelHolds

\* The operation goes on with another output.
LEMMA NewOutput ==
  ASSUME NEW left, NEW right, NEW n, Operates(left, right, n), NEW m, NEW output, Holds(output, left, right, m),
         params' = [params EXCEPT !.output = output]
  PROVE  Operates(left, right, m)'
<1>1. params = [left |-> Reps(left), right |-> Reps(right), output |-> params.output] /\ Operands(left, right)
  BY DEF Operates
<1>2. params' = [left |-> Reps(left), right |-> Reps(right), output |-> output]
  BY <1>1
<1>3. params'.output = output
  BY <1>2
<1>4. QED
  BY <1>1, <1>2, <1>3 DEF Operates

\* init_params makes an output of zeros.
LEMMA NewParams ==
  ASSUME NEW left, NEW right, Operands(left, right), params' = Params(left, right)
  PROVE  Operates(left, right, 0)'
<1>1. params' = [left |-> Reps(left), right |-> Reps(right), output |-> Zeros(left.row_count, right.col_count)]
  BY DEF Params
<1>2. params'.output = Zeros(left.row_count, right.col_count)
  BY <1>1
<1>3. QED
  BY <1>1, <1>2, ZerosHold DEF Operates

LEMMA NextVerify == VerifyInv /\ [Next]_vars => VerifyInv'
<1> SUFFICES ASSUME VerifyInv, [Next]_vars PROVE VerifyInv'
  OBVIOUS
<1>0. i \in Nat /\ had_failure = FALSE
  BY DEF VerifyInv
<1>1. ASSUME UNCHANGED verifyVars, pc' \notin {"reference", "entries"} PROVE VerifyInv'
  BY <1>1, <1>0 DEF VerifyInv, verifyVars
<1>2. ASSUME NEW left \in VerifyLefts, NEW right \in VerifyRights, InitParams(left, right) PROVE VerifyInv'
  <2>1. pc' = "reference" /\ params' = Params(left, right) /\ UNCHANGED verifyVars
    BY <1>2 DEF InitParams
  <2>2. Operates(left, right, 0)'
    BY <2>1, MatricesAssumption, NewParams
  <2>3. QED
    BY <1>0, <2>1, <2>2 DEF VerifyInv, verifyVars
<1>3. CASE MakeReference
  <2>1. PICK left \in VerifyLefts, right \in VerifyRights : Operates(left, right, 0)
    BY <1>3 DEF MakeReference, VerifyInv
  <2>2. PICK entry \in Formats \X Formats : entry = <<"MAT_DENSE", "MAT_DENSE">>
    BY DEF Formats
  <2>3. PICK output : output = Run(entry, params.output)
    OBVIOUS
  <2>4. /\ pc' = "entries" /\ params' = [params EXCEPT !.output = output] /\ reference' = output.values
        /\ i' = i /\ had_failure' = had_failure
    BY <1>3, <2>2, <2>3 DEF MakeReference
  <2>5. Operands(left, right) /\ Holds(params.output, left, right, 0)
    BY <2>1 DEF Operates
  <2>6. ~Overwrites(entry)
    BY <2>2 DEF Overwrites
  <2>7. Holds(output, left, right, 1)
    BY <2>1, <2>3, <2>5, <2>6, RunHolds
  <2>8. Operates(left, right, 1)'
    BY <2>1, <2>4, <2>7, NewOutput
  <2>9. reference' = Product(left, right)
    BY <2>4, <2>5, <2>7, HoldsOnce
  <2>10. QED
    BY <1>0, <2>4, <2>8, <2>9 DEF VerifyInv
<1>4. CASE VerifyEntry
  <2>1. PICK left \in VerifyLefts, right \in VerifyRights : Operates(left, right, 1) /\ reference = Product(left, right)
    BY <1>4 DEF VerifyEntry, VerifyInv
  <2>2. PICK entry : entry = test_entries[i + 1]
    OBVIOUS
  <2>3. PICK zeros : zeros = Zeros(params.output.row_count, params.output.col_count)
    OBVIOUS
  <2>4. PICK output : output = Run(entry, zeros)
    OBVIOUS
  <2>5. /\ pc' = pc /\ pc = "entries" /\ params' = [params EXCEPT !.output = output] /\ reference' = reference
        /\ i < Len(test_entries) /\ i' = i + 1 /\ had_failure' = (had_failure \/ output.values # reference)
    BY <1>4, <2>2, <2>3, <2>4 DEF VerifyEntry
  <2>6. entry \in Formats \X Formats
    <3>1. i + 1 \in 1 .. Len(test_entries)
      BY <1>0, <2>5, EntriesTyped
    <3>2. QED
      BY <2>2, <3>1, EntriesTyped
  <2>7. Operands(left, right) /\ Holds(params.output, left, right, 1)
    BY <2>1 DEF Operates
  <2>8. zeros = Zeros(left.row_count, right.col_count)
    <3>1. params.output.row_count = left.row_count /\ params.output.col_count = right.col_count
      BY <2>7 DEF Holds
    <3>2. QED
      BY <2>3, <3>1
  <2>9. Holds(zeros, left, right, 0)
    BY <2>7, <2>8, ZerosHold
  <2>10. Holds(output, left, right, IF Overwrites(entry) THEN 1 ELSE 0 + 1)
    BY <2>1, <2>4, <2>6, <2>9, RunHolds
  <2>11. Holds(output, left, right, 1)
    BY <2>10
  <2>12. Operates(left, right, 1)'
    BY <2>1, <2>5, <2>11, NewOutput
  <2>13. output.values = reference
    BY <2>1, <2>7, <2>11, HoldsOnce
  <2>14. ~had_failure' /\ i' \in Nat /\ pc' = "entries"
    <3>1. ~had_failure'
      BY <1>0, <2>5, <2>13, Zenon
    <3>2. i' \in Nat /\ pc' = "entries"
      BY <1>0, <2>5
    <3>3. QED
      BY <3>1, <3>2
  <2>15. reference' = Product(left, right)
    BY <2>1, <2>5
  <2>16. QED
    BY <2>12, <2>14, <2>15 DEF VerifyInv
<1>5. CASE Finish
  BY <1>5 DEF Finish, VerifyInv
<1>6. ASSUME NEW left, NEW right, NextDensity(left, right) PROVE VerifyInv'
  BY <1>1, <1>6 DEF NextDensity
<1>7. ASSUME NEW counters_open \in BOOLEAN, NewWave(counters_open) PROVE VerifyInv'
  BY <1>1, <1>7 DEF NewWave, NextEntry
<1>8. CASE RunEntry
  BY <1>1, <1>8 DEF RunEntry
<1>9. CASE Complete
  BY <1>1, <1>9 DEF Complete, NextEntry
<1>10. CASE SweepDone
  BY <1>1, <1>10 DEF SweepDone
<1>11. ASSUME NEW opened \in BOOLEAN, DumpCsv(opened) PROVE VerifyInv'
  BY <1>1, <1>11 DEF DumpCsv
<1>12. CASE Exit
  BY <1>1, <1>12 DEF Exit
<1>13. CASE UNCHANGED vars
  BY <1>13 DEF VerifyInv, Operates, vars, verifyVars
<1>14. QED
  BY <1>2, <1>3, <1>4, <1>5, <1>6, <1>7, <1>8, <1>9, <1>10, <1>11, <1>12, <1>13 DEF Next, Done

\* Every format of the matrices that --verify draws stands for the dense matrix it was made of, in
\* the order that the kernels rely on (init_params, dense_to_format), whatever is drawn.
THEOREM SpmmVerifyFormatsAgree == Spec => []FormatsAgree
<1>1. VerifyInv => FormatsAgree
  <2> SUFFICES ASSUME VerifyInv, pc \in {"reference", "entries"}, NEW format \in Formats
               PROVE  /\ Represents(params.left[format], params.left["MAT_DENSE"].matrix)
                      /\ Represents(params.right[format], params.right["MAT_DENSE"].matrix)
    BY DEF FormatsAgree
  <2>1. PICK left \in VerifyLefts, right \in VerifyRights, n \in Nat : Operates(left, right, n)
    BY DEF VerifyInv
  <2>2. params.left = Reps(left) /\ params.right = Reps(right) /\ IsDense(left) /\ IsDense(right)
    BY <2>1 DEF Operates, Operands
  <2>3. "MAT_DENSE" \in Formats
    BY DEF Formats
  <2>4. Reps(left)["MAT_DENSE"].matrix = left /\ Reps(right)["MAT_DENSE"].matrix = right
    BY <2>3, RepsAre, FormatsOf
  <2>5. Represents(DenseToFormat(left, format), left) /\ Represents(DenseToFormat(right, format), right)
    BY <2>2, DenseConversions
  <2>6. QED
    BY <2>2, <2>4, <2>5, RepsAre
<1>2. QED
  BY <1>1, InitVerify, NextVerify, PTL DEF Spec

\* "All entries match reference": the reference is the product by its definition, and no kernel
\* of the table leaves anything else in an output of zeros, whatever matrices are drawn and
\* however long the table is (main with --verify).
THEOREM SpmmVerifyNoEntryFails == Spec => []NoEntryFails
<1>1. VerifyInv => NoEntryFails
  <2> SUFFICES ASSUME VerifyInv, pc = "entries"
               PROVE  reference = Product(params.left["MAT_DENSE"].matrix, params.right["MAT_DENSE"].matrix)
    BY DEF NoEntryFails, VerifyInv
  <2>1. PICK left \in VerifyLefts, right \in VerifyRights : Operates(left, right, 1) /\ reference = Product(left, right)
    BY DEF VerifyInv
  <2>2. params.left = Reps(left) /\ params.right = Reps(right)
    BY <2>1 DEF Operates
  <2>3. "MAT_DENSE" \in Formats
    BY DEF Formats
  <2>4. Reps(left)["MAT_DENSE"].matrix = left /\ Reps(right)["MAT_DENSE"].matrix = right
    BY <2>3, RepsAre, FormatsOf
  <2>5. QED
    BY <2>1, <2>2, <2>4
<1>2. QED
  BY <1>1, InitVerify, NextVerify, PTL DEF Spec

-----------------------------------------------------------------------------
(* The sweep.                                                              *)

\* The verification's matrices come out of the conversions from their coordinate lists as they do
\* out of those from the dense matrices (main), for all matrices.
THEOREM SpmmVerifyConversionsAgree == Spec => []ConversionsAgree
<1>1. Init => VerifyInv
  BY InitVerify
<1>2. VerifyInv /\ [Next]_vars => VerifyInv'
  BY NextVerify
<1>3. VerifyInv => ConversionsAgree
  <2>1. SUFFICES ASSUME VerifyInv, pc = "reference", NEW side \in {params.left, params.right}, NEW format \in Formats
                 PROVE  CooToFormat(side["MAT_COO"].matrix, side["MAT_DENSE"].matrix.row_count,
                                    side["MAT_DENSE"].matrix.col_count, format) = side[format]
    BY DEF ConversionsAgree
  <2>2. PICK left, right : Operands(left, right) /\ params = [left |-> Reps(left), right |-> Reps(right), output |-> params.output]
    BY <2>1 DEF VerifyInv, Operates
  <2>3. PICK d : d \in {left, right} /\ side = Reps(d)
    BY <2>1, <2>2
  <2>4. IsDense(d)
    BY <2>2, <2>3 DEF Operands
  <2>5. side["MAT_DENSE"].matrix = d /\ side["MAT_COO"].matrix = CooFromDense(d) /\ side[format] = DenseToFormat(d, format)
    BY <2>3, RepsAre, FormatsOf DEF Formats
  <2>6. CooToFormat(CooFromDense(d), d.row_count, d.col_count, format) = DenseToFormat(d, format)
    BY <2>4, CooConversions
  <2>7. QED
    BY <2>5, <2>6
<1>4. QED
  BY <1>1, <1>2, <1>3, PTL DEF Spec

LEMMA SeqIsFunction ==
  ASSUME NEW S, NEW t \in Seq(S)
  PROVE  Len(t) \in Nat /\ t \in [1 .. Len(t) -> S]
  OBVIOUS

LEMMA FunctionIsSeq ==
  ASSUME NEW S, NEW n \in Nat, NEW t \in [1 .. n -> S]
  PROVE  t \in Seq(S)
  OBVIOUS

LEMMA AppendIs ==
  ASSUME NEW s, IsSequence(s), NEW e, NEW t, t = Append(s, e)
  PROVE  /\ IsSequence(t) /\ Len(s) \in Nat /\ Len(t) = Len(s) + 1
         /\ DOMAIN s = 1 .. Len(s) /\ DOMAIN t = 1 .. Len(t)
         /\ \A d \in 1 .. Len(s) : t[d] = s[d]
         /\ t[Len(s) + 1] = e
<1>1. PICK S : S = {s[d] : d \in DOMAIN s} \cup {e}
  OBVIOUS
<1>2. s \in Seq(S)
  <2>1. Len(s) \in Nat /\ DOMAIN s = 1 .. Len(s) /\ s \in [1 .. Len(s) -> {s[d] : d \in DOMAIN s}]
    BY DEF IsSequence
  <2>2. s \in [1 .. Len(s) -> S]
    BY <1>1, <2>1
  <2>3. QED
    BY <2>1, <2>2
<1>3. /\ Len(s) \in Nat /\ Len(t) = Len(s) + 1 /\ DOMAIN s = 1 .. Len(s) /\ DOMAIN t = 1 .. Len(t)
      /\ (\A d \in 1 .. Len(s) : t[d] = s[d]) /\ t[Len(s) + 1] = e /\ t \in Seq(S)
  BY <1>1, <1>2
<1>4. IsSequence(t)
  <2>1. PICK n \in Nat : n = Len(t)
    BY <1>3
  <2>2. t = [d \in 1 .. n |-> t[d]] /\ DOMAIN t = 1 .. n
    <3>1. t \in [1 .. Len(t) -> S]
      BY <1>3, SeqIsFunction
    <3>2. QED
      BY <2>1, <3>1
  <2>3. PICK T : T = {t[d] : d \in DOMAIN t}
    OBVIOUS
  <2>4. \A d \in 1 .. n : t[d] \in T
    BY <2>2, <2>3
  <2>5. t \in [1 .. n -> T]
    BY <2>2, <2>4
  <2>6. t \in Seq(T)
    BY <2>5, FunctionIsSeq
  <2>7. QED
    BY <2>3, <2>6 DEF IsSequence
<1>5. QED
  BY <1>3, <1>4

LEMMA InitSweep == Init => SweepInv
<1>1. IsSequence(<<>>) /\ Len(<<>>) = 0
  BY DEF IsSequence
<1>2. QED
  BY <1>1, EntriesTyped DEF Init, SweepInv

\* The next density, whichever kernel is to come.
LEMMA NextEntrySweep ==
  ASSUME SweepInv, pc \in {"wave", "testing"}, NextEntry, drawn' = drawn
  PROVE  SweepInv'
<1>1. /\ density_idx \in 0 .. Len(densities) /\ func_idx \in 0 .. Len(test_entries) /\ times \in Nat
      /\ IsSequence(drawn) /\ Len(drawn) = density_idx + 1
      /\ func_idx < Len(test_entries) /\ density_idx < Len(densities)
      /\ Operates(drawn[density_idx + 1][1], drawn[density_idx + 1][2], times)
  BY DEF SweepInv
<1>2. CASE func_idx + 1 < Len(test_entries)
  <2>1. func_idx' = func_idx + 1 /\ pc' = "wave" /\ params' = params /\ density_idx' = density_idx /\ times' = times
    BY <1>2 DEF NextEntry
  <2>2. func_idx' \in 0 .. Len(test_entries)
    BY <1>1, <1>2, <2>1, EntriesTyped
  <2>3. QED
    BY <1>1, <1>2, <2>1, <2>2 DEF SweepInv, Operates
<1>3. CASE ~(func_idx + 1 < Len(test_entries))
  <2>1. density_idx' = density_idx + 1 /\ pc' = "density" /\ func_idx' = 0 /\ times' = 0
    BY <1>3 DEF NextEntry
  <2>2. func_idx' \in 0 .. Len(test_entries) /\ density_idx' \in 0 .. Len(densities)
    BY <1>1, <2>1, EntriesTyped
  <2>3. QED
    BY <1>1, <2>1, <2>2 DEF SweepInv
<1>4. QED
  BY <1>2, <1>3

LEMMA NextSweep == SweepInv /\ [Next]_vars => SweepInv'
<1> SUFFICES ASSUME SweepInv, [Next]_vars PROVE SweepInv'
  OBVIOUS
<1>0. /\ density_idx \in 0 .. Len(densities) /\ func_idx \in 0 .. Len(test_entries) /\ times \in Nat
      /\ IsSequence(drawn)
      /\ Len(drawn) = density_idx + (IF pc \in {"wave", "testing"} THEN 1 ELSE 0)
      /\ Len(test_entries) \in Nat \ {0} /\ Len(densities) \in Nat
  BY EntriesTyped DEF SweepInv
<1>1. ASSUME UNCHANGED sweepVars, pc \in {"init", "reference", "entries"}, pc' \in {"reference", "entries", "density"}
      PROVE  SweepInv'
  BY <1>0, <1>1 DEF SweepInv, sweepVars
<1>2. ASSUME NEW left \in VerifyLefts, NEW right \in VerifyRights, InitParams(left, right) PROVE SweepInv'
  BY <1>1, <1>2 DEF InitParams
<1>3. CASE MakeReference
  BY <1>1, <1>3 DEF MakeReference, sweepVars
<1>4. CASE VerifyEntry
  BY <1>1, <1>4 DEF VerifyEntry
<1>5. CASE Finish
  BY <1>1, <1>5 DEF Finish
<1>6. ASSUME density_idx < Len(densities), NEW left \in Lefts[left_density], NEW right \in Rights[right_density],
             NextDensity(left, right)
      PROVE  SweepInv'
  <2>1. /\ pc = "density" /\ pc' = "wave" /\ params' = Params(left, right) /\ func_idx' = 0 /\ times' = 0
        /\ drawn' = Append(drawn, <<left, right>>) /\ density_idx' = density_idx
    BY <1>6 DEF NextDensity
  <2>2. Operands(left, right)
    <3>1. density_idx + 1 \in DOMAIN densities
      BY <1>0, <1>6, EntriesTyped
    <3>2. left \in LeftsOf(density_idx + 1) /\ right \in RightsOf(density_idx + 1)
      BY <1>6 DEF LeftsOf, RightsOf, left_density, right_density
    <3>3. QED
      BY <3>1, <3>2, MatricesAssumption
  <2>3. Operates(left, right, 0)'
    BY <2>1, <2>2, NewParams
  <2>4. /\ IsSequence(drawn') /\ Len(drawn') = Len(drawn) + 1
        /\ drawn'[Len(drawn) + 1] = <<left, right>>
    BY <1>0, <2>1, AppendIs
  <2>5. Len(drawn) = density_idx
    BY <1>0, <2>1
  <2>6. drawn'[density_idx' + 1][1] = left /\ drawn'[density_idx' + 1][2] = right
    BY <2>1, <2>4, <2>5
  <2>7. 0 < Len(test_entries)
    BY <1>0
  <2>8. QED
    BY <1>0, <1>6, <2>1, <2>3, <2>4, <2>5, <2>6, <2>7 DEF SweepInv, Operates
<1>7. ASSUME NEW counters_open \in BOOLEAN, NewWave(counters_open) PROVE SweepInv'
  <2>1. CASE counters_open
    BY <1>0, <1>7, <2>1 DEF NewWave, SweepInv, Operates
  <2>2. CASE ~counters_open
    BY <1>7, <2>2, NextEntrySweep DEF NewWave
  <2>3. QED
    BY <2>1, <2>2
<1>8. CASE RunEntry
  <2>1. PICK entry : entry = test_entries[func_idx + 1]
    OBVIOUS
  <2>2. PICK left, right : left = drawn[density_idx + 1][1] /\ right = drawn[density_idx + 1][2]
    OBVIOUS
  <2>3. PICK output : output = Run(entry, params.output)
    OBVIOUS
  <2>4. /\ pc = "testing" /\ pc' = pc /\ density_idx' = density_idx /\ func_idx' = func_idx /\ drawn' = drawn
        /\ params' = [params EXCEPT !.output = output]
        /\ times' = IF Overwrites(entry) THEN 1 ELSE times + 1
    BY <1>8, <2>1, <2>3 DEF RunEntry
  <2>5. func_idx < Len(test_entries) /\ density_idx < Len(densities) /\ Operates(left, right, times)
    BY <2>2, <2>4 DEF SweepInv
  <2>6. entry \in Formats \X Formats
    <3>1. func_idx + 1 \in 1 .. Len(test_entries)
      BY <1>0, <2>5
    <3>2. QED
      BY <2>1, <3>1, EntriesTyped
  <2>7. PICK n \in Nat, m \in Nat : n = times /\ m = IF Overwrites(entry) THEN 1 ELSE times + 1
    BY <1>0
  <2>8. Operates(left, right, n) /\ Holds(params.output, left, right, n)
    BY <2>5, <2>7 DEF Operates
  <2>9. Holds(output, left, right, m)
    BY <2>3, <2>6, <2>7, <2>8, RunHolds
  <2>10. Operates(left, right, m)'
    BY <2>4, <2>8, <2>9, NewOutput
  <2>11. drawn'[density_idx' + 1][1] = left /\ drawn'[density_idx' + 1][2] = right /\ times' = m
    BY <2>2, <2>4, <2>7
  <2>12. QED
    BY <1>0, <2>4, <2>5, <2>7, <2>10, <2>11 DEF SweepInv, Operates
<1>9. CASE Complete
  BY <1>9, NextEntrySweep DEF Complete
<1>10. CASE SweepDone
  BY <1>0, <1>10 DEF SweepDone, SweepInv
<1>11. ASSUME NEW opened \in BOOLEAN, DumpCsv(opened) PROVE SweepInv'
  BY <1>0, <1>11 DEF DumpCsv, SweepInv
<1>12. CASE Exit
  BY <1>0, <1>12 DEF Exit, SweepInv
<1>13. CASE UNCHANGED vars
  BY <1>13 DEF SweepInv, Operates, vars, sweepVars
<1>14. QED
  BY <1>2, <1>3, <1>4, <1>5, <1>6, <1>7, <1>8, <1>9, <1>10, <1>11, <1>12, <1>13 DEF Next, Done

\* Between two tests the output that no one clears is a whole number of products of the density's
\* matrices: as many as kernels ran on it, and one after coo_x_csc, which stores (main).
THEOREM SpmmVerifyOutputCountsProducts == Spec => []OutputCountsProducts
<1>1. SweepInv => OutputCountsProducts
  <2> SUFFICES ASSUME SweepInv, pc \in {"wave", "testing"},
                      NEW left, NEW right, left = drawn[density_idx + 1][1], right = drawn[density_idx + 1][2],
                      NEW cell \in DOMAIN Product(left, right)
               PROVE  params.output.values[cell] = times * Product(left, right)[cell]
    BY DEF OutputCountsProducts
  <2>1. Operates(left, right, times)
    BY DEF SweepInv
  <2>2. cell \in Rows(left) \X Cols(right)
    BY DEF Product
  <2>3. QED
    BY <2>1, <2>2 DEF Operates, Holds
<1>2. QED
  BY <1>1, InitSweep, NextSweep, PTL DEF Spec

-----------------------------------------------------------------------------
(* The rows of the files.                                                  *)

LEMMA InitCounts == Init => CountsInv /\ RowsInv /\ RowsTruthful
<1>1. <<>> \in Seq(Nat \X Nat) /\ DOMAIN <<>> = {}
  OBVIOUS
<1>2. QED
  BY <1>1 DEF Init, CountsInv, RowsInv, RowsTruthful

\* init_params of a density, and the numbers of values of its matrices.
LEMMA DensityCounts ==
  ASSUME SweepInv, CountsInv, density_idx < Len(densities),
         NEW left \in Lefts[left_density], NEW right \in Rights[right_density], NextDensity(left, right)
  PROVE  CountsInv'
<1>1. /\ pc = "density" /\ params' = Params(left, right) /\ drawn' = Append(drawn, <<left, right>>) /\ flops' = flops
      /\ non_zero_counts' = Append(non_zero_counts, <<Len(params'.left["MAT_CSR"].matrix.entries),
                                                     Len(params'.right["MAT_CSR"].matrix.entries)>>)
  BY DEF NextDensity
<1>2. Operands(left, right)
  <2>1. density_idx + 1 \in DOMAIN densities
    <3>1. density_idx \in 0 .. Len(densities)
      BY Zenon DEF SweepInv
    <3>2. Len(densities) \in Nat /\ DOMAIN densities = 1 .. Len(densities)
      BY EntriesTyped
    <3>3. QED
      BY <3>1, <3>2
  <2>2. left \in LeftsOf(density_idx + 1) /\ right \in RightsOf(density_idx + 1)
    BY DEF LeftsOf, RightsOf, left_density, right_density
  <2>3. QED
    BY <2>1, <2>2, MatricesAssumption
<1>3. PICK a, b : a = Cardinality(NonZero(left)) /\ b = Cardinality(NonZero(right))
  OBVIOUS
<1>4. a \in Nat /\ b \in Nat
  BY <1>2, <1>3, CellFacts, FS_CardinalityType DEF Operands
<1>5. non_zero_counts' = Append(non_zero_counts, <<a, b>>)
  <2>1. params'.left = Reps(left) /\ params'.right = Reps(right)
    BY <1>1 DEF Params
  <2>2. Len(Reps(left)["MAT_CSR"].matrix.entries) = a /\ Len(Reps(right)["MAT_CSR"].matrix.entries) = b
    BY <1>2, <1>3, ValuesCounted DEF Operands
  <2>3. QED
    BY <1>1, <2>1, <2>2
<1>6. PICK n \in Nat : n = Len(drawn)
  BY SeqIsFunction DEF SweepInv, IsSequence
<1>7. /\ Len(drawn') = n + 1 /\ DOMAIN drawn = 1 .. n /\ DOMAIN drawn' = 1 .. n + 1
      /\ (\A d \in 1 .. n : drawn'[d] = drawn[d]) /\ drawn'[n + 1] = <<left, right>>
  BY <1>1, <1>6, AppendIs DEF SweepInv
<1>8. /\ non_zero_counts' \in Seq(Nat \X Nat) /\ Len(non_zero_counts') = n + 1
      /\ (\A d \in 1 .. n : non_zero_counts'[d] = non_zero_counts[d]) /\ non_zero_counts'[n + 1] = <<a, b>>
  BY <1>4, <1>5, <1>6 DEF CountsInv
<1>9. ASSUME NEW d \in DOMAIN drawn'
      PROVE  /\ Operands(drawn'[d][1], drawn'[d][2])
             /\ non_zero_counts'[d] = <<Cardinality(NonZero(drawn'[d][1])), Cardinality(NonZero(drawn'[d][2]))>>
  <2>1. CASE d \in 1 .. n
    BY <1>7, <1>8, <2>1 DEF CountsInv
  <2>2. CASE d = n + 1
    <3>1. drawn'[d][1] = left /\ drawn'[d][2] = right /\ non_zero_counts'[d] = <<a, b>>
      BY <1>7, <1>8, <2>2
    <3>2. QED
      BY <1>2, <1>3, <3>1
  <2>3. QED
    BY <1>7, <2>1, <2>2
<1>10. DOMAIN flops' \subseteq (0 .. Len(test_entries) - 1) \X (0 .. Len(drawn') - 1)
  BY <1>1, <1>6, <1>7 DEF CountsInv
<1>11. ASSUME NEW t \in DOMAIN flops'
       PROVE  flops'[t] = FlopsOf(test_entries[t[1] + 1], drawn'[t[2] + 1][1], drawn'[t[2] + 1][2])
  <2>1. t \in DOMAIN flops /\ flops'[t] = flops[t] /\ t[2] \in 0 .. n - 1
    BY <1>1, <1>6 DEF CountsInv
  <2>2. drawn'[t[2] + 1] = drawn[t[2] + 1]
    BY <1>7, <2>1
  <2>3. QED
    BY <2>1, <2>2 DEF CountsInv
<1>12. QED
  BY <1>7, <1>8, <1>9, <1>10, <1>11 DEF CountsInv

\* A tester that completes has counted the multiplications of its kernel.
LEMMA TesterCounts ==
  ASSUME SweepInv, CountsInv, Complete
  PROVE  CountsInv'
<1>1. PICK entry : entry = test_entries[func_idx + 1]
  OBVIOUS
<1>2. PICK left, right : left = drawn[density_idx + 1][1] /\ right = drawn[density_idx + 1][2]
  OBVIOUS
<1>3. PICK x : x = <<func_idx, density_idx>>
  OBVIOUS
<1>4. /\ pc = "testing" /\ flops' = [t \in DOMAIN flops \cup {x} |-> IF t = x THEN Flops(entry) ELSE flops[t]] /\ drawn' = drawn /\ non_zero_counts' = non_zero_counts
  BY <1>1, <1>3 DEF Complete, Tester
<1>5. /\ func_idx < Len(test_entries) /\ Operates(left, right, times)
      /\ func_idx \in Nat /\ density_idx \in Nat /\ Len(drawn) = density_idx + 1
  BY <1>2, <1>4, EntriesTyped DEF SweepInv
<1>6. entry \in Formats \X Formats
  <2>1. func_idx + 1 \in 1 .. Len(test_entries)
    BY <1>5, EntriesTyped
  <2>2. QED
    BY <1>1, <2>1, EntriesTyped
<1>7. Flops(entry) = FlopsOf(entry, left, right)
  <2>1. Operands(left, right) /\ params.left = Reps(left) /\ params.right = Reps(right)
    BY <1>5 DEF Operates
  <2>2. QED
    BY <1>6, <2>1, FlopsCounted DEF Flops
<1>8. /\ DOMAIN flops' = DOMAIN flops \cup {x} /\ flops'[x] = Flops(entry)
      /\ \A t \in DOMAIN flops : t # x => flops'[t] = flops[t]
  BY <1>4
<1>9. DOMAIN flops' \subseteq (0 .. Len(test_entries) - 1) \X (0 .. Len(drawn') - 1)
  <2>1. x \in (0 .. Len(test_entries) - 1) \X (0 .. Len(drawn) - 1)
    BY <1>3, <1>5, EntriesTyped
  <2>2. QED
    BY <1>4, <1>8, <2>1 DEF CountsInv
<1>10. ASSUME NEW t \in DOMAIN flops'
       PROVE  flops'[t] = FlopsOf(test_entries[t[1] + 1], drawn'[t[2] + 1][1], drawn'[t[2] + 1][2])
  <2>1. CASE t = x
    <3>1. t[1] = func_idx /\ t[2] = density_idx
      BY <1>3, <2>1
    <3>2. QED
      BY <1>1, <1>2, <1>4, <1>7, <1>8, <2>1, <3>1
  <2>2. CASE t # x
    BY <1>4, <1>8, <2>2 DEF CountsInv
  <2>3. QED
    BY <2>1, <2>2
<1>11. QED
  BY <1>4, <1>9, <1>10 DEF CountsInv

LEMMA NextCounts == SweepInv /\ CountsInv /\ [Next]_vars => CountsInv'
<1> SUFFICES ASSUME SweepInv, CountsInv, [Next]_vars PROVE CountsInv'
  OBVIOUS
<1>1. ASSUME UNCHANGED <<drawn, non_zero_counts, flops>> PROVE CountsInv'
  BY <1>1 DEF CountsInv
<1>2. ASSUME NEW left \in VerifyLefts, NEW right \in VerifyRights, InitParams(left, right) PROVE CountsInv'
  BY <1>1, <1>2 DEF InitParams, sweepVars
<1>3. CASE MakeReference \/ VerifyEntry \/ Finish
  BY <1>1, <1>3 DEF MakeReference, VerifyEntry, Finish, sweepVars
<1>4. ASSUME density_idx < Len(densities), NEW left \in Lefts[left_density], NEW right \in Rights[right_density],
             NextDensity(left, right)
      PROVE  CountsInv'
  BY <1>4, DensityCounts
<1>5. ASSUME NEW counters_open \in BOOLEAN, NewWave(counters_open) PROVE CountsInv'
  BY <1>1, <1>5 DEF NewWave
<1>6. CASE RunEntry
  BY <1>1, <1>6 DEF RunEntry
<1>7. CASE Complete
  BY <1>7, TesterCounts
<1>8. CASE SweepDone
  BY <1>1, <1>8 DEF SweepDone
<1>9. ASSUME NEW opened \in BOOLEAN, DumpCsv(opened) PROVE CountsInv'
  BY <1>1, <1>9 DEF DumpCsv
<1>10. CASE Exit
  BY <1>1, <1>10 DEF Exit
<1>11. CASE UNCHANGED vars
  BY <1>1, <1>11 DEF vars, sweepVars
<1>12. QED
  BY <1>2, <1>3, <1>4, <1>5, <1>6, <1>7, <1>8, <1>9, <1>10, <1>11 DEF Next, Done

\* A file has the rows of all densities, each from its own tester.
LEMMA DumpRows ==
  ASSUME SweepInv, CountsInv, NEW opened \in BOOLEAN, DumpCsv(opened)
  PROVE  RowsTruthful'
<1>1. /\ pc = "csv" /\ func_idx' = func_idx + 1 /\ drawn' = drawn /\ flops' = flops /\ func_idx < Len(test_entries)
      /\ rows' = IF opened THEN [d \in 1 .. Len(densities) |-> CsvRow(d)] ELSE <<>>
  BY DEF DumpCsv
<1>2. /\ func_idx \in Nat /\ Len(drawn) = Len(densities) /\ Len(densities) \in Nat /\ DOMAIN drawn = 1 .. Len(drawn)
  BY <1>1, SeqIsFunction, EntriesTyped DEF SweepInv, IsSequence
<1>3. SUFFICES ASSUME rows' # <<>>, NEW d \in DOMAIN rows', NEW left, NEW right, left = drawn[d][1], right = drawn[d][2]
               PROVE  /\ rows'[d].left_non_zero_count = Cardinality(NonZero(left))
                      /\ rows'[d].right_non_zero_count = Cardinality(NonZero(right))
                      /\ <<func_idx' - 1, d - 1>> \in DOMAIN flops =>
                           rows'[d].flops = FlopsOf(test_entries[func_idx'], left, right)
  BY <1>1 DEF RowsTruthful
<1>4. d \in 1 .. Len(densities) /\ rows'[d] = CsvRow(d) /\ d \in DOMAIN drawn
  BY <1>1, <1>2, <1>3
<1>5. non_zero_counts[d] = <<Cardinality(NonZero(left)), Cardinality(NonZero(right))>>
  BY <1>3, <1>4 DEF CountsInv
<1>6. rows'[d].left_non_zero_count = Cardinality(NonZero(left)) /\ rows'[d].right_non_zero_count = Cardinality(NonZero(right))
  <2>1. non_zero_counts[d][1] = Cardinality(NonZero(left)) /\ non_zero_counts[d][2] = Cardinality(NonZero(right))
    BY <1>5
  <2>2. QED
    BY <1>4, <2>1 DEF CsvRow
<1>7. ASSUME <<func_idx' - 1, d - 1>> \in DOMAIN flops PROVE rows'[d].flops = FlopsOf(test_entries[func_idx'], left, right)
  <2>1. PICK t : t = <<func_idx, d - 1>>
    OBVIOUS
  <2>2. t \in DOMAIN flops /\ t[1] + 1 = func_idx' /\ t[2] + 1 = d
    BY <1>1, <1>2, <1>4, <1>7, <2>1
  <2>3. flops[t] = FlopsOf(test_entries[func_idx'], left, right)
    BY <1>3, <2>2 DEF CountsInv
  <2>4. rows'[d].flops = flops[t]
    BY <1>4, <2>1, <2>2 DEF CsvRow
  <2>5. QED
    BY <2>3, <2>4
<1>8. QED
  BY <1>6, <1>7

LEMMA NextRows == SweepInv /\ CountsInv /\ RowsInv /\ RowsTruthful /\ [Next]_vars => RowsInv' /\ RowsTruthful'
<1> SUFFICES ASSUME SweepInv, CountsInv, RowsInv, RowsTruthful, [Next]_vars PROVE RowsInv' /\ RowsTruthful'
  OBVIOUS
<1>1. ASSUME pc # "csv", rows' = rows PROVE RowsInv' /\ RowsTruthful'
  BY <1>1 DEF RowsInv, RowsTruthful
<1>2. ASSUME NEW left \in VerifyLefts, NEW right \in VerifyRights, InitParams(left, right) PROVE RowsInv' /\ RowsTruthful'
  BY <1>1, <1>2 DEF InitParams, sweepVars
<1>3. CASE MakeReference \/ VerifyEntry \/ Finish
  BY <1>1, <1>3 DEF MakeReference, VerifyEntry, Finish, sweepVars
<1>4. ASSUME NEW left, NEW right, NextDensity(left, right) PROVE RowsInv' /\ RowsTruthful'
  BY <1>1, <1>4 DEF NextDensity
<1>5. ASSUME NEW counters_open \in BOOLEAN, NewWave(counters_open) PROVE RowsInv' /\ RowsTruthful'
  BY <1>1, <1>5 DEF NewWave
<1>6. CASE RunEntry \/ Complete \/ SweepDone
  BY <1>1, <1>6 DEF RunEntry, Complete, SweepDone
<1>7. ASSUME NEW opened \in BOOLEAN, DumpCsv(opened) PROVE RowsInv' /\ RowsTruthful'
  <2>1. RowsTruthful'
    BY <1>7, DumpRows
  <2>2. pc' = "csv"
    BY <1>7 DEF DumpCsv
  <2>3. QED
    BY <2>1, <2>2 DEF RowsInv
<1>8. CASE Exit
  BY <1>8 DEF Exit, RowsInv, RowsTruthful
<1>9. CASE UNCHANGED vars
  BY <1>9 DEF vars, sweepVars, RowsInv, RowsTruthful
<1>10. QED
  BY <1>2, <1>3, <1>4, <1>5, <1>6, <1>7, <1>8, <1>9 DEF Next, Done

\* Every row of every file has the numbers of values of its own density's matrices and, unless its
\* tester was in error, the operations that the two formats ask for (main, dump_csv), for all
\* matrices, densities and tables.
THEOREM SpmmVerifyRowsTruthful == Spec => []RowsTruthful
<1> DEFINE IInv == SweepInv /\ CountsInv /\ RowsInv /\ RowsTruthful
<1>1. Init => IInv
  BY InitSweep, InitCounts
<1>2. IInv /\ [Next]_vars => IInv'
  BY NextSweep, NextCounts, NextRows
<1>3. IInv => RowsTruthful
  OBVIOUS
<1>4. QED
  BY <1>1, <1>2, <1>3, PTL DEF Spec
=============================================================================
