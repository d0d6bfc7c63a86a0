---------------------------- MODULE CsrParallel ----------------------------
(***************************************************************************)
(* csr_x_csr_parallel of src/formats.h: the rows of the left matrix are    *)
(* divided between the threads of an OpenMP team, which all load from and  *)
(* store to one output.  Its caller is modelled in BlisMain.               *)
(***************************************************************************)
EXTENDS Kernels

CONSTANT Threads  \* the OpenMP team

VARIABLES
  left, right,  \* the operands, as Matrix_Union in MAT_CSR
  todo,         \* the rows no thread has taken
  visits,       \* per thread: the multiplications left to do in its row
  loaded,       \* per thread: the output value it has loaded, or none
  output        \* the values of the output

vars == <<left, right, todo, visits, loaded, output>>

Nothing == <<>>

\* No loop has begun.
Idle == todo = {} /\ visits = [t \in Threads |-> {}] /\ loaded = [t \in Threads |-> Nothing]

\* All rows are done: the loop's implicit barrier.
Finished == todo = {} /\ \A t \in Threads : visits[t] = {}

\* Planted bug: the output is not cleared before the product.
BugStart ==
  /\ Finished
  /\ todo' = 0 .. left.matrix.row_count - 1
  /\ UNCHANGED <<left, right, visits, loaded, output>>

\* reptest_solution's memset of the output, and the parallel loop begins.
Start ==
  /\ Finished
  /\ output' = [cell \in DOMAIN output |-> 0]
  /\ todo' = 0 .. left.matrix.row_count - 1
  /\ UNCHANGED <<left, right, visits, loaded>>

\* The multiplications of one iteration of the parallel loop.
RowVisits(row) == {v \in csr_x_csr(left.matrix, right.matrix) : v.at[1] = row}

\* Planted bug: the row stays for other threads to take.
BugTake(t, row) ==
  /\ row \in todo /\ visits[t] = {}
  /\ visits' = [visits EXCEPT ![t] = RowVisits(row)]
  /\ UNCHANGED <<left, right, todo, loaded, output>>

\* A thread takes an iteration (the schedule is OpenMP's choice).
Take(t, row) ==
  /\ row \in todo /\ visits[t] = {}
  /\ todo' = todo \ {row}
  /\ visits' = [visits EXCEPT ![t] = RowVisits(row)]
  /\ UNCHANGED <<left, right, loaded, output>>

\* The next multiplication, in the order of the two inner loops.
First(vs) == CHOOSE v \in vs : \A w \in vs : w = v \/ RowsFirst(v.from, w.from)

\* LOAD of the current value ...
Load(t) ==
  /\ visits[t] # {} /\ loaded[t] = Nothing
  /\ loaded' = [loaded EXCEPT ![t] = <<output[First(visits[t]).at]>>]
  /\ UNCHANGED <<left, right, todo, visits, output>>

\* ... FMADD and STORE of the result.
Store(t) ==
  LET v == First(visits[t]) IN
  /\ visits[t] # {} /\ loaded[t] # Nothing
  /\ output' = [output EXCEPT ![v.at] = loaded[t][1] + v.product]
  /\ visits' = [visits EXCEPT ![t] = @ \ {v}]
  /\ loaded' = [loaded EXCEPT ![t] = Nothing]
  /\ UNCHANGED <<left, right, todo>>

Step(t) == (\E row \in todo : Take(t, row)) \/ Load(t) \/ Store(t)

-----------------------------------------------------------------------------
\* A cell that a thread has loaded is stored by no other thread before it stores it:
\* only the division of the rows sees to that.
NoLostUpdate ==
  \A t \in Threads : loaded[t] # Nothing => loaded[t][1] = output[First(visits[t]).at]
=============================================================================
