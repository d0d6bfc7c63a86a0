------------------------------ MODULE MCArena ------------------------------
(* Instances of Arena for TLC: pages of four bytes, reservations of a few. *)
EXTENDS Arena

MCRequests == {[size |-> 1, align |-> 1], [size |-> 3, align |-> 1],
               [size |-> 4, align |-> 2], [size |-> 0, align |-> 4]}
MCElem == [size |-> 2, align |-> 2]
=============================================================================
