----------------------------- MODULE MCBlisMain -----------------------------
(* Instances of BlisMain for TLC: a 4 by 4 left matrix in 2 by 2 blocks, a 4 by 4 right one in 2 by 1 blocks. *)
EXTENDS BlisMain

\* The fields of a file with a value at each of the cells, by rows.
Fields(rows, cols, cells) ==
  LET order == Scan(cells, RowsFirst)
      n == Len(order)
  IN  <<rows, cols, n>> \o [i \in 1 .. n |-> order[i][1]] \o [i \in 1 .. n |-> order[i][2]] \o [i \in 1 .. n |-> i]

File(left, right) == Fields(4, 4, left) \o Fields(4, 4, right)

Lefts  == {{}, {<<0, 1>>, <<1, 0>>, <<1, 2>>, <<3, 3>>}, {<<0, 0>>, <<0, 3>>, <<2, 3>>}, {<<1, 2>>, <<2, 0>>, <<2, 1>>}}
Rights == {{<<0, 0>>, <<1, 1>>, <<2, 0>>, <<3, 2>>, <<3, 3>>}, {<<0, 3>>, <<2, 1>>, <<3, 0>>}}

Run(file, pair) == [file |-> file, left |-> pair[1], right |-> pair[2]]

\* The default formats, and pairs that meet every kernel but those of dense blocks and coo_x_csc.
Default == <<"MAT_CSC", "MAT_CSR">>
Pairs == {Default, <<"MAT_COO", "MAT_CSR">>, <<"MAT_CSC", "MAT_COO">>, <<"MAT_CSR", "MAT_CSC">>, <<"MAT_COO", "MAT_COO">>}

\* A file that ends early, anywhere; one whose sizes the blocks do not divide.
Small == File({<<0, 1>>, <<3, 2>>}, {<<1, 0>>, <<2, 1>>, <<3, 1>>})
Short == {SubSeq(Small, 1, n) : n \in 0 .. Len(Small) - 1}
Odd   == Fields(4, 3, {<<0, 1>>}) \o Fields(3, 2, {<<1, 1>>})

\* A file with a value of zero, and with columns in any order in the rows of its right matrix.
Loose ==
  <<4, 4, 4,  0, 0, 1, 3,  1, 3, 2, 0,  1, 2, 0, 4>> \o <<4, 4, 5,  0, 1, 1, 2, 3,  3, 2, 0, 1, 2,  1, 2, 3, 0, 5>>

\* The whole files: with Runs <- MCWhole all hypotheses of the theorems about BlisMain hold.
MCWhole == {Run(file, pair) : file \in {File(l, r) : l \in Lefts, r \in Rights} \cup {Loose}, pair \in Pairs}
MCRuns  == MCWhole \cup {Run(file, Default) : file \in Short \cup {Odd}}

\* --right_constant_blocking=MAT_DENSE, as in the Makefile.
MCDense == {Run(File(l, r), <<"MAT_CSC", "MAT_DENSE">>) : l \in Lefts, r \in Rights}
=============================================================================
