---------------------------- MODULE TacoKernels ----------------------------
(***************************************************************************)
(* The functions that TACO generated into src/taco_bullshit.c, for the     *)
(* kernels that src/taco_bench.c runs: pack builds an operand from a       *)
(* coordinate list, assemble the coordinates of the output, and compute    *)
(* its values, walking the operands a second time.  Tensors have the       *)
(* shapes of Formats; an output in coordinates has an entry for each       *)
(* product, or for each cell of a grid, and a reader adds up its entries.  *)
(***************************************************************************)
EXTENDS Kernels

-----------------------------------------------------------------------------
(* Packing.  Entries of one cell that follow each other become one.        *)

RunStarts(coo) == {p \in DOMAIN coo : p = 1 \/ <<coo[p - 1].row, coo[p - 1].col>> # <<coo[p].row, coo[p].col>>}
RunEnd(coo, p) == Min({q \in RunStarts(coo) : q > p} \cup {Len(coo) + 1}) - 1

\* Planted bug: the first entry of a run stands for all of them.
BugMerged(coo) ==
  LET starts == Scan(RunStarts(coo), LAMBDA a, b : a < b)
  IN  [i \in DOMAIN starts |-> coo[starts[i]]]

Merged(coo) ==
  LET starts == Scan(RunStarts(coo), LAMBDA a, b : a < b)
  IN  [i \in DOMAIN starts |->
         [coo[starts[i]] EXCEPT !.value = Total(starts[i] .. RunEnd(coo, starts[i]), LAMBDA p : coo[p].value)]]

\* The length of the last segment that starts with r, and the sums of the lengths.
SegmentLength(coo, r) ==
  LET starts == {p \in SegmentStarts(coo) : coo[p].row = r}
  IN  IF starts = {} THEN 0 ELSE Cardinality(RunStarts(coo) \cap Segment(coo, Max(starts)))
Pointers(coo, dimension) == [r \in 0 .. dimension |-> Total(0 .. r - 1, LAMBDA i : SegmentLength(coo, i))]
PackedEntries(coo) == [i \in DOMAIN Merged(coo) |-> [index |-> Merged(coo)[i].col, value |-> Merged(coo)[i].value]]

\* The same code packs rows and columns: the first coordinate selects the segment.
PackCsr(coo, dimension) ==
  [row_count |-> dimension, row_pointers |-> Pointers(coo, dimension), entries |-> PackedEntries(coo)]
PackCsc(coo, dimension) ==
  [col_count |-> dimension, col_pointers |-> Pointers(coo, dimension), entries |-> PackedEntries(coo)]
PackCoo(coo, dimension) == Merged(coo)

CSR_x_CSR_COO_pack_A(coo, dimension) == PackCsr(coo, dimension)
CSR_x_CSR_COO_pack_B(coo, dimension) == PackCsr(coo, dimension)
CSR_x_CSC_COO_pack_A(coo, dimension) == PackCsr(coo, dimension)
CSR_x_CSC_COO_pack_B(coo, dimension) == PackCsc(coo, dimension)
CSR_x_COO_COO_pack_A(coo, dimension) == PackCsr(coo, dimension)
CSR_x_COO_COO_pack_B(coo, dimension) == PackCoo(coo, dimension)
CSC_x_CSR_COO_pack_A(coo, dimension) == PackCsc(coo, dimension)
CSC_x_CSR_COO_pack_B(coo, dimension) == PackCsr(coo, dimension)
CSC_x_COO_COO_pack_A(coo, dimension) == PackCsc(coo, dimension)
CSC_x_COO_COO_pack_B(coo, dimension) == PackCoo(coo, dimension)
COO_x_CSR_COO_pack_A(coo, dimension) == PackCoo(coo, dimension)
COO_x_CSR_COO_pack_B(coo, dimension) == PackCsr(coo, dimension)
COO_x_CSC_COO_pack_A(coo, dimension) == PackCoo(coo, dimension)
COO_x_CSC_COO_pack_B(coo, dimension) == PackCsc(coo, dimension)
COO_x_COO_COO_pack_A(coo, dimension) == PackCoo(coo, dimension)
COO_x_COO_COO_pack_B(coo, dimension) == PackCoo(coo, dimension)
CSR_x_CSR_CSR_pack_A(coo, dimension) == PackCsr(coo, dimension)
CSR_x_CSR_CSR_pack_B(coo, dimension) == PackCsr(coo, dimension)
CSC_x_CSC_CSC_pack_A(coo, dimension) == PackCsc(coo, dimension)
CSC_x_CSC_CSC_pack_B(coo, dimension) == PackCsc(coo, dimension)

-----------------------------------------------------------------------------
(* Walks over the operands, and what is left behind at each step.          *)

\* One entry of the output for each product, in the order of the loops.
InLoopOrder(visits) == Scan(visits, LAMBDA v, w : RowsFirst(v.from, w.from))
Coordinates(visits) == [p \in 1 .. Cardinality(visits) |-> InLoopOrder(visits)[p].at]
Products(visits) == [p \in 1 .. Cardinality(visits) |-> InLoopOrder(visits)[p].product]

\* One entry for each of the cells.
Sums(visits, cells) == [p \in DOMAIN cells |-> Total({v \in visits : v.at = cells[p]}, LAMBDA v : v.product)]

\* The cells that some product reaches, as the sorted index list of the workspace gives them.
ReachedByRow(visits) == Scan({v.at : v \in visits}, RowsFirst)
ReachedByCol(visits) == Scan({v.at : v \in visits}, ColsFirst)

Grid(rows, cols) == Scan(rows \X cols, RowsFirst)
RowsOf(coo) == {coo[p].row : p \in DOMAIN coo}

CSR_x_CSR_COO_assemble(A, B) == Coordinates(csr_x_csr(A, B))
CSR_x_CSR_COO_compute(A, B) == Products(csr_x_csr(A, B))

CSR_x_CSC_COO_assemble(A, B) == Grid(0 .. A.row_count - 1, 0 .. B.col_count - 1)
CSR_x_CSC_COO_compute(A, B) == Sums(csr_x_csc(A, B), Grid(0 .. A.row_count - 1, 0 .. B.col_count - 1))

CSR_x_COO_COO_assemble(A, B) == Coordinates(csr_x_coo(A, B))
CSR_x_COO_COO_compute(A, B) == Products(csr_x_coo(A, B))

CSC_x_CSR_COO_assemble(A, B) == Coordinates(csc_x_csr(A, B))
CSC_x_CSR_COO_compute(A, B) == Products(csc_x_csr(A, B))

CSC_x_COO_COO_assemble(A, B) == Coordinates(csc_x_coo(A, B))
CSC_x_COO_COO_compute(A, B) == Products(csc_x_coo(A, B))

COO_x_CSR_COO_assemble(A, B) == Coordinates(coo_x_csr(A, B))
COO_x_CSR_COO_compute(A, B) == Products(coo_x_csr(A, B))

\* Planted bug: cells for every row up to the last one that has an entry.
BugCOO_x_CSC_COO_assemble(A, B) ==
  Grid(0 .. Max(RowsOf(A) \cup {0}), 0 .. B.col_count - 1)

COO_x_CSC_COO_assemble(A, B) == Grid(RowsOf(A), 0 .. B.col_count - 1)
COO_x_CSC_COO_compute(A, B) == Sums(coo_x_csc(A, B), Grid(RowsOf(A), 0 .. B.col_count - 1))

COO_x_COO_COO_assemble(A, B) == Coordinates(coo_x_coo(A, B))
COO_x_COO_COO_compute(A, B) == Products(coo_x_coo(A, B))

CSR_x_CSR_CSR_assemble(A, B) == ReachedByRow(csr_x_csr(A, B))
CSR_x_CSR_CSR_compute(A, B) == Sums(csr_x_csr(A, B), ReachedByRow(csr_x_csr(A, B)))

CSC_x_CSC_CSC_assemble(A, B) == ReachedByCol(csc_x_csc(A, B))
CSC_x_CSC_CSC_compute(A, B) == Sums(csc_x_csc(A, B), ReachedByCol(csc_x_csc(A, B)))

-----------------------------------------------------------------------------
(* The output that the arrays stand for: coordinates with values.          *)

Filled(cells, vals) == [p \in DOMAIN cells |-> [row |-> cells[p][1], col |-> cells[p][2], value |-> vals[p]]]
=============================================================================
