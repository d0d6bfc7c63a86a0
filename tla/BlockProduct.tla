---------------------------- MODULE BlockProduct ----------------------------
(***************************************************************************)
(* What a blocked matrix product promises, whoever computes it in whatever *)
(* order: into every block of the output, the product of each pair of      *)
(* inner blocks that is not zero is added exactly once.                    *)
(***************************************************************************)
EXTENDS Naturals

CONSTANTS
  Rows, Cols, Inner,  \* the block indices of the output and of the inner dimension
  Terms               \* Terms[i, j]: the p whose product left[i, p] * right[p, j] is not zero

VARIABLE output       \* output[i, j][p]: how often the product at p was added to block (i, j)

Sum(terms) == [p \in Inner |-> IF p \in terms THEN 1 ELSE 0]
Reference == [b \in Rows \X Cols |-> Sum(Terms[b])]

Init == output = [b \in Rows \X Cols |-> Sum({})]

\* Products that were not added yet are added to one block of the output.
Accumulate(b, terms) ==
  /\ terms \subseteq Terms[b]
  /\ \A p \in terms : output[b][p] = 0
  /\ output' = [output EXCEPT ![b] = [p \in Inner |-> @[p] + Sum(terms)[p]]]

Next == \E b \in Rows \X Cols : \E terms \in SUBSET Inner : Accumulate(b, terms)

Spec == Init /\ [][Next]_output
=============================================================================
