----------------------------- MODULE Allocator -----------------------------
(***************************************************************************)
(* What the callers of the allocator of src/common.h rely on, with no      *)
(* offset, page or scope in it: the blocks they hold change only by        *)
(* getting new ones that touch no block they hold, by growing one in       *)
(* place, and by being given back.                                         *)
(***************************************************************************)
EXTENDS Integers

VARIABLE live   \* the blocks [lo, hi) the callers hold

Apart(b, c) == b.hi <= c.lo \/ c.hi <= b.lo

\* b shares no byte with another block of the set.
Alone(b, blocks) == \A c \in blocks \ {b} : Apart(b, c)

Init == live = {}

\* New blocks, apart from one another and from those already held.
Allocate ==
  /\ live \subseteq live'
  /\ \A b \in live' \ live : Alone(b, live')

\* One block gets longer where it stands.
Grow ==
  \E b \in live, c \in live' :
    /\ c.lo = b.lo /\ b.hi <= c.hi
    /\ live' = (live \ {b}) \cup {c}
    /\ Alone(c, live')

Release == live' \subseteq live

Next == Allocate \/ Grow \/ Release

Spec == Init /\ [][Next]_live
=============================================================================
