---------------------------- MODULE MCTacoBench ----------------------------
(* Instances of TacoBench for TLC: graphs of up to three edges. *)
EXTENDS TacoBench

MCFile(k, s, nnz, edges) ==
  [name_k |-> k, name_s |-> s, read |-> "whole", k |-> k, s |-> s, nnz |-> nnz, edges |-> edges]

\* A file whose name asks for a graph that is not in it.
MCOther(how, k, s) == [MCFile(k, s, 0, <<>>) EXCEPT !.name_k = 1, !.name_s = 2, !.read = how]

\* Graphs of two and of four nodes, in any order of the edges, some edges more than once.
MCSmall == UNION {{MCFile(1, 2, n, e) : e \in [1 .. n -> (0 .. 1) \X (0 .. 1)]} : n \in 0 .. 3}
MCLarge == {MCFile(2, 2, 3, e) : e \in [1 .. 3 -> {<<0, 0>>, <<0, 2>>, <<2, 0>>, <<2, 3>>, <<3, 2>>}]}

\* An edge less than declared, a graph too large for some kernels, no edge at all, a graph
\* of another sample, and one too large to be wanted.
MCFiles ==
  MCSmall \cup MCLarge
  \cup {MCFile(1, 2, 3, <<<<1, 1>>, <<0, 1>>>>), MCFile(3, 2, 2, <<<<7, 2>>, <<2, 5>>>>), MCFile(0, 2, 0, <<>>),
        MCFile(1, 1, 0, <<>>), MCFile(4, 2, 0, <<>>),
        MCOther("empty", 0, 0), MCOther("missing", 0, 0), MCOther("unreadable", 0, 0), MCOther("whole", 1, 1), MCOther("whole", 4, 2)}
=============================================================================
