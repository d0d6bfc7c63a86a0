------------------------------ MODULE Kernels ------------------------------
(***************************************************************************)
(* The kernels of src/formats.h, one for each pair of formats.  A kernel   *)
(* is the set of its visits: the multiplications its loops do, each with   *)
(* the cell of the output it goes to and the positions of its factors.     *)
(* The order of the visits is left out, for a sum does not tell it apart.  *)
(***************************************************************************)
EXTENDS Formats

Visit(row, col, i, j, left, right) == [at |-> <<row, col>>, from |-> <<i, j>>, product |-> left * right]

\* LOAD, FMADD, STORE for every visit.
Accumulate(output, visits) ==
  [output EXCEPT !.values = [cell \in DOMAIN @ |->
     @[cell] + Total({v \in visits : v.at = cell}, LAMBDA v : v.product)]]

\* The end of the segment that starts at p: the first position behind it with another row.
SegmentEnd(coo, p) ==
  LET others == {q \in p + 1 .. Len(coo) : coo[q].row # coo[p].row}
  IN  IF others = {} THEN Len(coo) + 1 ELSE Min(others)

\* Where the loop over the segments of a coordinate list stops.
SegmentStarts(coo) == {p \in DOMAIN coo : p = 1 \/ coo[p - 1].row # coo[p].row}
Segment(coo, p) == p .. SegmentEnd(coo, p) - 1

\* Planted bug: the cursor that is behind jumps to its end.
BugMerge(left, a, a_end, right, b, b_end, run_end) ==
  LET hits[c \in (a .. a_end) \X (b .. b_end)] ==
        LET i == c[1]  j == c[2]  k == Min({left[i], right[j]}) IN
        IF i = a_end \/ j = b_end THEN {}
        ELSE (IF left[i] = k /\ right[j] = k THEN {i} \X (j .. run_end[j] - 1) ELSE {})
             \cup hits[<<IF left[i] = k THEN i + 1 ELSE i, IF right[j] = k THEN b_end ELSE j>>]
  IN  hits[<<a, b>>]

\* Two cursors over the ascending indices left and right: the pairs of positions with
\* the same index; run_end[j] is the end of the right positions that one match covers.
Merge(left, a, a_end, right, b, b_end, run_end) ==
  LET hits[c \in (a .. a_end) \X (b .. b_end)] ==
        LET i == c[1]  j == c[2]  k == Min({left[i], right[j]}) IN
        IF i = a_end \/ j = b_end THEN {}
        ELSE (IF left[i] = k /\ right[j] = k THEN {i} \X (j .. run_end[j] - 1) ELSE {})
             \cup hits[<<IF left[i] = k THEN i + 1 ELSE i, IF right[j] = k THEN run_end[j] ELSE j>>]
  IN  hits[<<a, b>>]

\* The index arrays of a matrix, and where a match of one entry or of a segment ends.
Index(m) == [p \in DOMAIN m.entries |-> m.entries[p].index]
CooRow(coo) == [p \in DOMAIN coo |-> coo[p].row]
CooCol(coo) == [p \in DOMAIN coo |-> coo[p].col]
OneEntry(m) == [p \in DOMAIN m.entries |-> p + 1]
SegmentEnds(coo) == [p \in DOMAIN coo |-> SegmentEnd(coo, p)]

-----------------------------------------------------------------------------
dense_x_dense(left, right) ==
  UNION {UNION {{Visit(row, col, i, i, left.values[<<row, i>>], right.values[<<i, col>>]) :
                   i \in Cols(left)} :
            col \in Cols(right)} : row \in Rows(left)}

dense_x_csr(left, right) ==
  UNION {UNION {{Visit(row, right.entries[rj].index, k, rj, left.values[<<row, k>>], right.entries[rj].value) :
                   rj \in RowSegment(right, k)} :
            k \in 0 .. right.row_count - 1} : row \in Rows(left)}

dense_x_csc(left, right) ==
  UNION {UNION {{LET k == right.entries[kc].index
                 IN  Visit(row, col, k, kc, left.values[<<row, k>>], right.entries[kc].value) :
                   kc \in ColSegment(right, col)} :
            col \in 0 .. right.col_count - 1} : row \in Rows(left)}

dense_x_coo(left, right) ==
  UNION {UNION {{Visit(row, right[jB].col, kB, jB, left.values[<<row, right[kB].row>>], right[jB].value) :
                   jB \in Segment(right, kB)} :
            kB \in SegmentStarts(right)} : row \in Rows(left)}

csr_x_dense(left, right) ==
  UNION {UNION {{Visit(row, col, i, col, left.entries[i].value, right.values[<<left.entries[i].index, col>>]) :
                   i \in RowSegment(left, row)} :
            col \in Cols(right)} : row \in 0 .. left.row_count - 1}

csr_x_csr(left, right) ==
  UNION {UNION {{Visit(row, right.entries[j].index, i, j, left.entries[i].value, right.entries[j].value) :
                   j \in RowSegment(right, left.entries[i].index)} :
            i \in RowSegment(left, row)} : row \in 0 .. left.row_count - 1}

csr_x_csc(left, right) ==
  UNION {UNION {{Visit(row, col, hit[1], hit[2], left.entries[hit[1]].value, right.entries[hit[2]].value) :
                   hit \in Merge(Index(left),
                                 left.row_pointers[row] + 1, left.row_pointers[row + 1] + 1,
                                 Index(right),
                                 right.col_pointers[col] + 1, right.col_pointers[col + 1] + 1,
                                 OneEntry(right))} :
            col \in 0 .. right.col_count - 1} : row \in 0 .. left.row_count - 1}

csr_x_coo(left, right) ==
  UNION {{Visit(row, right[hit[2]].col, hit[1], hit[2], left.entries[hit[1]].value, right[hit[2]].value) :
            hit \in Merge(Index(left),
                          left.row_pointers[row] + 1, left.row_pointers[row + 1] + 1,
                          CooRow(right), 1, Len(right) + 1,
                          SegmentEnds(right))} :
         row \in 0 .. left.row_count - 1}

csc_x_dense(left, right) ==
  UNION {UNION {{Visit(left.entries[i].index, right_col, i, col, left.entries[i].value, right.values[<<col, right_col>>]) :
                   i \in ColSegment(left, col)} :
            right_col \in Cols(right)} : col \in 0 .. left.col_count - 1}

csc_x_csr(left, right) ==
  UNION {UNION {{Visit(left.entries[i].index, right.entries[j].index, i, j, left.entries[i].value, right.entries[j].value) :
                   j \in RowSegment(right, k)} :
            i \in ColSegment(left, k)} : k \in 0 .. right.row_count - 1}

csc_x_csc(left, right) ==
  UNION {UNION {{Visit(left.entries[j].index, col, j, i, left.entries[j].value, right.entries[i].value) :
                   j \in ColSegment(left, right.entries[i].index)} :
            i \in ColSegment(right, col)} : col \in 0 .. right.col_count - 1}

csc_x_coo(left, right) ==
  UNION {UNION {{Visit(left.entries[iA].index, right[jB].col, iA, jB, left.entries[iA].value, right[jB].value) :
                   jB \in Segment(right, kB)} :
            iA \in ColSegment(left, right[kB].row)} : kB \in SegmentStarts(right)}

coo_x_dense(left, right) ==
  UNION {UNION {{Visit(left[kA].row, col, iA, col, left[iA].value, right.values[<<left[iA].col, col>>]) :
                   col \in Cols(right)} :
            iA \in Segment(left, kA)} : kA \in SegmentStarts(left)}

coo_x_csr(left, right) ==
  UNION {UNION {{Visit(left[kA].row, right.entries[jB].index, iA, jB, left[iA].value, right.entries[jB].value) :
                   jB \in RowSegment(right, left[iA].col)} :
            iA \in Segment(left, kA)} : kA \in SegmentStarts(left)}

coo_x_csc(left, right) ==
  UNION {UNION {{Visit(left[kA].row, col, hit[1], hit[2], left[hit[1]].value, right.entries[hit[2]].value) :
                   hit \in Merge(CooCol(left), kA, SegmentEnd(left, kA),
                                 Index(right),
                                 right.col_pointers[col] + 1, right.col_pointers[col + 1] + 1,
                                 OneEntry(right))} :
            col \in 0 .. right.col_count - 1} : kA \in SegmentStarts(left)}

coo_x_coo(left, right) ==
  UNION {{Visit(left[kA].row, right[hit[2]].col, hit[1], hit[2], left[hit[1]].value, right[hit[2]].value) :
            hit \in Merge(CooCol(left), kA, SegmentEnd(left, kA),
                          CooRow(right), 1, Len(right) + 1,
                          SegmentEnds(right))} :
         kA \in SegmentStarts(left)}

-----------------------------------------------------------------------------
Visits(l, r) ==
  LET left == l.matrix
      right == r.matrix
      pair == <<l.format, r.format>>
  IN
  CASE pair = <<"MAT_DENSE", "MAT_DENSE">> -> dense_x_dense(left, right)
    [] pair = <<"MAT_DENSE", "MAT_CSR">> -> dense_x_csr(left, right)
    [] pair = <<"MAT_DENSE", "MAT_CSC">> -> dense_x_csc(left, right)
    [] pair = <<"MAT_DENSE", "MAT_COO">> -> dense_x_coo(left, right)
    [] pair = <<"MAT_CSR", "MAT_DENSE">> -> csr_x_dense(left, right)
    [] pair = <<"MAT_CSR", "MAT_CSR">> -> csr_x_csr(left, right)
    [] pair = <<"MAT_CSR", "MAT_CSC">> -> csr_x_csc(left, right)
    [] pair = <<"MAT_CSR", "MAT_COO">> -> csr_x_coo(left, right)
    [] pair = <<"MAT_CSC", "MAT_DENSE">> -> csc_x_dense(left, right)
    [] pair = <<"MAT_CSC", "MAT_CSR">> -> csc_x_csr(left, right)
    [] pair = <<"MAT_CSC", "MAT_CSC">> -> csc_x_csc(left, right)
    [] pair = <<"MAT_CSC", "MAT_COO">> -> csc_x_coo(left, right)
    [] pair = <<"MAT_COO", "MAT_DENSE">> -> coo_x_dense(left, right)
    [] pair = <<"MAT_COO", "MAT_CSR">> -> coo_x_csr(left, right)
    [] pair = <<"MAT_COO", "MAT_CSC">> -> coo_x_csc(left, right)
    [] pair = <<"MAT_COO", "MAT_COO">> -> coo_x_coo(left, right)

\* Planted bug: coo_x_csr stores its sum too.
BugStored(output, l, r) ==
  IF l.format = "MAT_COO" /\ r.format \in {"MAT_CSC", "MAT_CSR"}
  THEN [output EXCEPT !.values = [cell \in DOMAIN @ |->
          IF \E p \in DOMAIN l.matrix : l.matrix[p].row = cell[1] THEN 0 ELSE @[cell]]]
  ELSE output

\* coo_x_csc stores a sum of its own into every cell of the rows that have an entry.
Stored(output, l, r) ==
  IF <<l.format, r.format>> = <<"MAT_COO", "MAT_CSC">>
  THEN [output EXCEPT !.values = [cell \in DOMAIN @ |->
          IF \E p \in DOMAIN l.matrix : l.matrix[p].row = cell[1] THEN 0 ELSE @[cell]]]
  ELSE output

\* The kernel of two formats, called on an output.
Kernel(output, l, r) == Accumulate(Stored(output, l, r), Visits(l, r))

Empty(u) == u.format # "MAT_DENSE" /\ (IF u.format = "MAT_COO" THEN u.matrix ELSE u.matrix.entries) = <<>>

\* The operands that do_sparse_matmul does not ask for their number of values.
Unasked == {<<"MAT_CSC", "MAT_COO">>, <<"MAT_COO", "MAT_COO">>}

\* do_sparse_matmul of sparse_blis.c: no kernel when an operand it asks is empty.
do_sparse_matmul(output, l, r) ==
  IF Empty(l) \/ (Empty(r) /\ <<l.format, r.format>> \notin Unasked) THEN output
  ELSE Kernel(output, l, r)

-----------------------------------------------------------------------------
\* The product by its definition.
Product(left, right) ==
  [cell \in Rows(left) \X Cols(right) |->
     Total(Cols(left), LAMBDA k : left.values[<<cell[1], k>>] * right.values[<<k, cell[2]>>])]

\* Two matrices of numbers that have a product.
Operands(L, R) == IsDense(L) /\ IsDense(R) /\ L.col_count = R.row_count
=============================================================================
