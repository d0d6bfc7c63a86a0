---------------------------- MODULE MCSparseBlis ----------------------------
(* Instances of SparseBlis for TLC. *)
EXTENDS SparseBlis

\* Formats vary over the blocks; the pair of formats whose kernel overwrites does not meet.
MCLeft  == [b \in Rows \X Inner |-> IF b[1] = b[2] THEN "MAT_CSC" ELSE "MAT_CSR"]
MCRight == [b \in Inner \X Cols |-> IF b[1] = 0 THEN "MAT_DENSE" ELSE "MAT_CSC"]

\* A COO left operand against a CSC right one.
MCLeftCOO  == [b \in Rows \X Inner |-> "MAT_COO"]
MCRightCSC == [b \in Inner \X Cols |-> "MAT_CSC"]

\* Some blocks are empty.
MCLeftNonZero  == (Rows \X Inner) \ {<<0, 1>>}
MCRightNonZero == (Inner \X Cols) \ {<<0, 0>>, <<3, 2>>}
=============================================================================
