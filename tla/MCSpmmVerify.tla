---------------------------- MODULE MCSpmmVerify ----------------------------
(* Instances of SpmmVerify for TLC: every pattern of values of a 2 by 3 and a 3 by 2 matrix. *)
EXTENDS SpmmVerify

Patterns(m, n, value(_)) ==
  {[row_count |-> m, col_count |-> n,
    values |-> [cell \in (0 .. m - 1) \X (0 .. n - 1) |-> IF cell \in nz THEN value(cell) ELSE 0]] :
   nz \in SUBSET ((0 .. m - 1) \X (0 .. n - 1))}

MCVerifyLefts  == Patterns(2, 3, LAMBDA cell : 1 + cell[1] * 3 + cell[2])
MCVerifyRights == Patterns(3, 2, LAMBDA cell : 7 - 2 * cell[1] - cell[2])

\* The sweep: the left side is swept over two densities, the right one is fixed.
MCDensities == <<"0.3", "0.7">>

Some(matrices, nz) == {d \in matrices : NonZero(d) \in nz}
MCLefts ==
  [density \in {"0.3", "0.7"} |->
     IF density = "0.3" THEN Some(MCVerifyLefts, {{}, {<<0, 1>>, <<1, 2>>}})
     ELSE Some(MCVerifyLefts, {{<<0, 0>>, <<0, 2>>, <<1, 0>>, <<1, 1>>, <<1, 2>>}})]
MCRights ==
  [density \in {"1.0"} |->
     Some(MCVerifyRights, {{0, 1, 2} \X {0, 1}, {<<0, 1>>, <<1, 0>>, <<2, 0>>, <<2, 1>>}})]

MCEntries ==
  <<<<"MAT_DENSE", "MAT_CSR">>, <<"MAT_DENSE", "MAT_CSC">>, <<"MAT_DENSE", "MAT_COO">>,
    <<"MAT_CSR", "MAT_DENSE">>, <<"MAT_CSR", "MAT_CSR">>, <<"MAT_CSR", "MAT_CSC">>, <<"MAT_CSR", "MAT_COO">>,
    <<"MAT_CSC", "MAT_DENSE">>, <<"MAT_CSC", "MAT_CSR">>, <<"MAT_CSC", "MAT_CSC">>, <<"MAT_CSC", "MAT_COO">>,
    <<"MAT_COO", "MAT_DENSE">>, <<"MAT_COO", "MAT_CSR">>, <<"MAT_COO", "MAT_CSC">>, <<"MAT_COO", "MAT_COO">>>>
=============================================================================
