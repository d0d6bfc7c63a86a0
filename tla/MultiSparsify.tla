--------------------------- MODULE MultiSparsify ---------------------------
(***************************************************************************)
(* multi_sparsify of src/sparse_blis.c, called for the left matrix and     *)
(* then for the right one.  Each block is packed into a dense matrix in    *)
(* the pack arena, which is cleared for the next block, and converted to   *)
(* its format; a dense block is not copied and stays in the pack arena.    *)
(***************************************************************************)
EXTENDS Formats

CONSTANT blocking  \* per side: row_count, col_count, outer_step, inner_step

VARIABLES
  matrix,         \* per side: row_count, col_count and the coordinate list coo
  block_formats,  \* per side: the format of each block, by its index
  side,           \* the matrix being blocked: "left", "right", or "done"
  at,             \* the counters of the four loops
  blocks,         \* result.blocks of each side; a dense block is only a reference to the pack arena
  pack            \* the contents of the block at the start of the pack arena

vars == <<matrix, block_formats, side, at, blocks, pack>>

Sides == {"left", "right"}
Home == [outer |-> 0, inner |-> 0, inner_i |-> 0, outer_i |-> 0]
BlocksRowCount(s) == matrix[s].row_count \div blocking[s].row_count
BlocksColCount(s) == matrix[s].col_count \div blocking[s].col_count
BlockCount(s) == BlocksRowCount(s) * BlocksColCount(s)

\* "Block size must be a factor of matrix size."
Divides(s) ==
  matrix[s].row_count % blocking[s].row_count = 0 /\ matrix[s].col_count % blocking[s].col_count = 0

None == [format |-> "MAT_NONE"]
InPack == [format |-> "MAT_DENSE"]

\* The first matrix from s on that has blocks for the loops to visit.
NextSide(s) ==
  IF s = "left" /\ BlockCount("left") > 0 THEN "left"
  ELSE IF s \in Sides /\ BlockCount("right") > 0 THEN "right"
  ELSE "done"

\* The two calls begin, with arrays of blocks of zeros.
Start ==
  /\ side' = NextSide("left") /\ at' = Home /\ pack' = None
  /\ blocks' = [s \in Sides |-> [n \in 0 .. BlockCount(s) - 1 |-> None]]
  /\ UNCHANGED <<matrix, block_formats>>

BlockRow(c) == c.inner + c.inner_i
BlockCol(c) == c.outer + c.outer_i
Index(s, c) == BlockRow(c) * BlocksColCount(s) + BlockCol(c)

\* Planted bug: the rows of the matrix and of the blocks are taken for each other.
BugPacked(s, c) ==
  PackMatrixBlock(matrix[s].coo, BlockRow(c) * blocking[s].col_count, BlockCol(c) * blocking[s].row_count,
                  blocking[s].row_count, blocking[s].col_count)

\* pack_matrix_block for the block at the loop counters.
Packed(s, c) ==
  PackMatrixBlock(matrix[s].coo, BlockRow(c) * blocking[s].row_count, BlockCol(c) * blocking[s].col_count,
                  blocking[s].row_count, blocking[s].col_count)

\* dense_to_format: the other formats are copies, a dense matrix keeps its pointer.
Converted(dense, format) == IF format = "MAT_DENSE" THEN InPack ELSE DenseToFormat(dense, format)

\* Planted bug: the groups of block columns overlap.
BugAdvance(s, c) ==
  IF c.outer_i + 1 < blocking[s].outer_step THEN [c EXCEPT !.outer_i = @ + 1]
  ELSE IF c.inner_i + 1 < blocking[s].inner_step THEN [c EXCEPT !.outer_i = 0, !.inner_i = @ + 1]
  ELSE IF c.inner + blocking[s].inner_step < BlocksRowCount(s)
  THEN [c EXCEPT !.outer_i = 0, !.inner_i = 0, !.inner = @ + blocking[s].inner_step]
  ELSE [Home EXCEPT !.outer = c.outer + 1]

\* Planted bug: the outer counter is not advanced.
BugAdvanceStuck(s, c) ==
  IF c.outer_i + 1 < blocking[s].outer_step THEN [c EXCEPT !.outer_i = @ + 1]
  ELSE IF c.inner_i + 1 < blocking[s].inner_step THEN [c EXCEPT !.outer_i = 0, !.inner_i = @ + 1]
  ELSE IF c.inner + blocking[s].inner_step < BlocksRowCount(s)
  THEN [c EXCEPT !.outer_i = 0, !.inner_i = 0, !.inner = @ + blocking[s].inner_step]
  ELSE [Home EXCEPT !.outer = c.outer]

\* The counters of the next block; the loops have ended when outer reaches the column count.
Advance(s, c) ==
  IF c.outer_i + 1 < blocking[s].outer_step THEN [c EXCEPT !.outer_i = @ + 1]
  ELSE IF c.inner_i + 1 < blocking[s].inner_step THEN [c EXCEPT !.outer_i = 0, !.inner_i = @ + 1]
  ELSE IF c.inner + blocking[s].inner_step < BlocksRowCount(s)
  THEN [c EXCEPT !.outer_i = 0, !.inner_i = 0, !.inner = @ + blocking[s].inner_step]
  ELSE [Home EXCEPT !.outer = c.outer + blocking[s].outer_step]

\* The innermost iteration: pack, convert, store, clear the pack arena.
PackBlock ==
  LET next == Advance(side, at)
      over == next.outer >= BlocksColCount(side)
  IN
  /\ side # "done" /\ Index(side, at) < BlockCount(side)
  /\ pack' = Packed(side, at)
  /\ blocks' = [blocks EXCEPT ![side][Index(side, at)] =
                  Converted(pack', block_formats[side][Index(side, at)])]
  /\ at' = IF over THEN Home ELSE next
  /\ side' = IF ~over THEN side ELSE IF side = "left" THEN NextSide("right") ELSE "done"
  /\ UNCHANGED <<matrix, block_formats>>

-----------------------------------------------------------------------------
\* What a block holds when it is read: a dense one, what the pack arena holds by then.
Block(s, n) == IF blocks[s][n] = InPack THEN [format |-> "MAT_DENSE", matrix |-> pack] ELSE blocks[s][n]

\* The cell of the matrix that is at a cell of a block.
Part(s, n, cell) ==
  LET row == (n \div BlocksColCount(s)) * blocking[s].row_count + cell[1]
      col == (n % BlocksColCount(s)) * blocking[s].col_count + cell[2]
  IN  DenseFromCoo(matrix[s].coo, matrix[s].row_count, matrix[s].col_count).values[<<row, col>>]

BlockOf(s, n) ==
  [row_count |-> blocking[s].row_count, col_count |-> blocking[s].col_count,
   values |-> [cell \in (0 .. blocking[s].row_count - 1) \X (0 .. blocking[s].col_count - 1) |-> Part(s, n, cell)]]

\* Every block the loops address exists, in the table of formats as in the result.
BlocksInBounds ==
  side # "done" =>
    BlockRow(at) < BlocksRowCount(side) /\ BlockCol(at) < BlocksColCount(side)

\* When both matrices are blocked, every block has its format and stands for its
\* part of the matrix.
\* FIXME of the code: "this will break if blocks ever need to be dense since dont' copy".
BlocksRepresent ==
  side = "done" =>
    \A s \in Sides : \A n \in 0 .. BlockCount(s) - 1 :
      /\ blocks[s][n].format = block_formats[s][n]
      /\ Represents(Block(s, n), BlockOf(s, n))
=============================================================================
