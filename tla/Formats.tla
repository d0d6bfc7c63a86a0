------------------------------ MODULE Formats ------------------------------
(***************************************************************************)
(* The matrix formats of src/formats.h and the conversions of              *)
(* src/formats.c.  Indices count from 0 as in the code; the parallel       *)
(* arrays of a sparse format are one sequence of entries, whose element    *)
(* p + 1 is what the code has at index p.  Values are integers.            *)
(***************************************************************************)
EXTENDS Integers, Sequences, FiniteSets, FiniteSetsExt

Formats == {"MAT_DENSE", "MAT_CSR", "MAT_CSC", "MAT_COO"}

Rows(d) == 0 .. d.row_count - 1
Cols(d) == 0 .. d.col_count - 1
Cells(d) == Rows(d) \X Cols(d)
NonZero(d) == {cell \in Cells(d) : d.values[cell] # 0}

RowsFirst(a, b) == a[1] < b[1] \/ (a[1] = b[1] /\ a[2] < b[2])
ColsFirst(a, b) == a[2] < b[2] \/ (a[2] = b[2] /\ a[1] < b[1])

\* The cells of S as a sequence, each after those that come before it.
Scan(S, Comes(_, _)) ==
  [i \in 1 .. Cardinality(S) |->
     CHOOSE cell \in S : Cardinality({b \in S : Comes(b, cell)}) = i - 1]

\* Planted bug: the rows are scanned column by column.
BugRowScan(d) == Scan(NonZero(d), ColsFirst)

\* The cells with a value, in the order in which the loops over the dense matrix meet them.
RowScan(d) == Scan(NonZero(d), RowsFirst)
ColScan(d) == Scan(NonZero(d), ColsFirst)

-----------------------------------------------------------------------------
(* From a dense matrix: csr_from_dense, csc_from_dense, coo_from_dense.    *)

CsrFromDense(d) ==
  LET cells == RowScan(d) IN
  [row_count |-> d.row_count,
   row_pointers |-> [r \in 0 .. d.row_count |-> Cardinality({c \in NonZero(d) : c[1] < r})],
   entries |-> [i \in DOMAIN cells |-> [index |-> cells[i][2], value |-> d.values[cells[i]]]]]

CscFromDense(d) ==
  LET cells == ColScan(d) IN
  [col_count |-> d.col_count,
   col_pointers |-> [c \in 0 .. d.col_count |-> Cardinality({x \in NonZero(d) : x[2] < c})],
   entries |-> [i \in DOMAIN cells |-> [index |-> cells[i][1], value |-> d.values[cells[i]]]]]

CooFromDense(d) ==
  LET cells == RowScan(d) IN
  [i \in DOMAIN cells |-> [row |-> cells[i][1], col |-> cells[i][2], value |-> d.values[cells[i]]]]

\* dense_to_format, a Matrix_Union.
DenseToFormat(d, format) ==
  [format |-> format,
   matrix |-> CASE format = "MAT_DENSE" -> d
                [] format = "MAT_CSR" -> CsrFromDense(d)
                [] format = "MAT_CSC" -> CscFromDense(d)
                [] format = "MAT_COO" -> CooFromDense(d)]

-----------------------------------------------------------------------------
(* From a coordinate list: dense_from_coo, csr_from_coo, csc_from_coo.     *)

Before(coo, i, P(_)) == Cardinality({j \in 1 .. i - 1 : P(coo[j])})

\* A later entry for the same cell overwrites an earlier one.
DenseFromCoo(coo, row_count, col_count) ==
  LET at(cell) == {i \in DOMAIN coo : <<coo[i].row, coo[i].col>> = cell} IN
  [row_count |-> row_count, col_count |-> col_count,
   values |-> [cell \in (0 .. row_count - 1) \X (0 .. col_count - 1) |->
                 IF at(cell) = {} THEN 0 ELSE coo[Max(at(cell))].value]]

\* The entries are copied as they come; only the pointers look at the rows.
CsrFromCoo(coo, row_count) ==
  [row_count |-> row_count,
   row_pointers |-> [r \in 0 .. row_count |-> Before(coo, Len(coo) + 1, LAMBDA e : e.row < r)],
   entries |-> [i \in DOMAIN coo |-> [index |-> coo[i].col, value |-> coo[i].value]]]

\* Planted bug: the cursors of all columns advance together.
BugCursor(coo, i) == i - 1

\* What the column's cursor stands at when entry i comes.
Cursor(coo, i) == Before(coo, i, LAMBDA e : e.col = coo[i].col)

\* A counting sort by column that keeps the order of the rows.
CscFromCoo(coo, col_count) ==
  LET col_pointers == [c \in 0 .. col_count |-> Before(coo, Len(coo) + 1, LAMBDA e : e.col < c)]
      dst == [i \in DOMAIN coo |-> col_pointers[coo[i].col] + Cursor(coo, i) + 1]
      src(p) == {i \in DOMAIN coo : dst[i] = p}
  IN  [col_count |-> col_count,
       col_pointers |-> col_pointers,
       entries |-> [p \in DOMAIN coo |->
                      IF src(p) = {} THEN [index |-> 0, value |-> 0]   \* as calloc left it
                      ELSE [index |-> coo[Max(src(p))].row, value |-> coo[Max(src(p))].value]]]

\* coo_to_format.
CooToFormat(coo, row_count, col_count, format) ==
  [format |-> format,
   matrix |-> CASE format = "MAT_DENSE" -> DenseFromCoo(coo, row_count, col_count)
                [] format = "MAT_CSR" -> CsrFromCoo(coo, row_count)
                [] format = "MAT_CSC" -> CscFromCoo(coo, col_count)
                [] format = "MAT_COO" -> coo]

\* pack_matrix_block of sparse_blis.c: the entries of the list that lie in the block, at their
\* places in it.
PackMatrixBlock(coo, row_start, col_start, row_block_size, col_block_size) ==
  LET at(cell) == {i \in DOMAIN coo : <<coo[i].row - row_start, coo[i].col - col_start>> = cell} IN
  [row_count |-> row_block_size, col_count |-> col_block_size,
   values |-> [cell \in (0 .. row_block_size - 1) \X (0 .. col_block_size - 1) |->
                 IF at(cell) = {} THEN 0 ELSE coo[Max(at(cell))].value]]

-----------------------------------------------------------------------------
(* What a matrix in a format stands for.                                   *)

\* The positions of a row of a CSR matrix, of a column of a CSC one.
RowSegment(csr, r) == csr.row_pointers[r] + 1 .. csr.row_pointers[r + 1]
ColSegment(csc, c) == csc.col_pointers[c] + 1 .. csc.col_pointers[c + 1]

Total(S, value(_)) == MapThenSumSet(value, S)

ValueAt(u, cell) ==
  LET m == u.matrix IN
  CASE u.format = "MAT_DENSE" -> m.values[cell]
    [] u.format = "MAT_CSR" -> Total({p \in RowSegment(m, cell[1]) : m.entries[p].index = cell[2]}, LAMBDA p : m.entries[p].value)
    [] u.format = "MAT_CSC" -> Total({p \in ColSegment(m, cell[2]) : m.entries[p].index = cell[1]}, LAMBDA p : m.entries[p].value)
    [] u.format = "MAT_COO" -> Total({p \in DOMAIN m : <<m[p].row, m[p].col>> = cell}, LAMBDA p : m[p].value)

Increasing(entries, segment) == \A p \in segment : p - 1 \in segment => entries[p - 1].index < entries[p].index

\* What the kernels rely on: pointers that ascend to the number of entries, indices that ascend in a segment.
Ascending(u) ==
  LET m == u.matrix IN
  CASE u.format = "MAT_DENSE" -> TRUE
    [] u.format = "MAT_CSR" -> /\ m.row_pointers[0] = 0 /\ m.row_pointers[m.row_count] = Len(m.entries)
                               /\ \A r \in 0 .. m.row_count - 1 : /\ m.row_pointers[r] <= m.row_pointers[r + 1]
                                                                  /\ Increasing(m.entries, RowSegment(m, r))
    [] u.format = "MAT_CSC" -> /\ m.col_pointers[0] = 0 /\ m.col_pointers[m.col_count] = Len(m.entries)
                               /\ \A c \in 0 .. m.col_count - 1 : /\ m.col_pointers[c] <= m.col_pointers[c + 1]
                                                                  /\ Increasing(m.entries, ColSegment(m, c))
    [] u.format = "MAT_COO" -> \A p \in 2 .. Len(m) : RowsFirst(<<m[p - 1].row, m[p - 1].col>>, <<m[p].row, m[p].col>>)

\* A matrix in a format is a dense matrix: same values, in the order the kernels need.
Represents(u, d) == Ascending(u) /\ \A cell \in Cells(d) : ValueAt(u, cell) = d.values[cell]

\* A dense matrix of numbers.
IsDense(d) ==
  /\ d.row_count \in Nat /\ d.col_count \in Nat /\ d.values \in [Cells(d) -> Int]
  /\ d = [row_count |-> d.row_count, col_count |-> d.col_count, values |-> d.values]
=============================================================================
