------------------------------- MODULE Arena -------------------------------
(***************************************************************************)
(* The bump allocator of src/common.h and the operating system calls it    *)
(* stands on: one address range reserved at creation, pages committed as   *)
(* the offset grows, blocks given back in bulk by scratch scopes, by       *)
(* array_add's undo and by clearing.  Addresses are offsets from the base. *)
(*                                                                         *)
(* "live" is a history variable: the blocks the callers still hold.  The   *)
(* callers' habits that the guards state are those of this repository:     *)
(* scratch scopes nest, an arena is cleared and freed with no scope open,  *)
(* and an array is grown in the scope that started it.                     *)
(***************************************************************************)
EXTENDS Integers, Sequences, FiniteSets

CONSTANTS
  Page,        \* bytes of a page, KB(4) in the code
  ReserveArg,  \* Arena_Args.reserve_size
  CommitArg,   \* Arena_Args.commit_size
  Requests,    \* the [size, align] pairs callers ask for
  Elem,        \* the [size, align] of an element of the array under construction
  Limit,       \* bound: callers never ask for a byte at or past this offset
  MaxLive,     \* bound on blocks held at once
  MaxScratch,  \* bound on open scratch scopes
  SelfHosted   \* the Arena struct lies in the arena's own memory, as a Repetition_Series has it

\* Planted bug: the round-up forgets to add b back.
BugAlignUp(x, b) == ((x - 1) \div b) * b

\* ALIGN_POW2_UP: the least multiple of b that is at least x.
AlignUp(x, b) == ((x + b - 1) \div b) * b

Reserve == AlignUp(ReserveArg, Page)
Commit  == AlignUp(CommitArg, Page)

Request == [size : Nat, align : Nat \ {0}]

ASSUME PageAssumption == Page \in Nat \ {0}
ASSUME SizeAssumption ==
  /\ ReserveArg \in Nat
  /\ CommitArg \in Nat \ {0}   \* every caller takes ARENA_DEFAULT_COMMIT_SIZE
  /\ Commit <= Reserve         \* the ASSERT of __arena_make
ASSUME RequestAssumption ==
  /\ Requests \subseteq Request
  /\ Elem \in Request
  /\ Elem.size > 0
ASSUME BoundAssumption ==
  /\ Limit \in Nat /\ MaxLive \in Nat /\ MaxScratch \in Nat
  /\ SelfHosted \in BOOLEAN

VARIABLES
  arena,       \* the Arena struct; mapped says that base is not null
  accessible,  \* the OS side: offsets below it are readable and writable
  live,        \* the non-empty blocks [lo, hi) handed out and not given back
  scratches,   \* the open scratch scopes, innermost last: saved offset, blocks held then
  array,       \* the array array_add is growing; v is -1 while its pointer is null
  status       \* "running", "assert" (a DEBUG assertion crashed) or "fault" (inaccessible write)

vars == <<arena, accessible, live, scratches, array, status>>

Fresh == [mapped |-> TRUE, reserve_size |-> Reserve, commit_size |-> Commit, next_offset |-> 0]
Freed == [mapped |-> FALSE, reserve_size |-> 0, commit_size |-> 0, next_offset |-> 0]
NullArray == [v |-> -1, count |-> 0]

Init ==
  /\ arena = Fresh /\ accessible = Commit
  /\ live = {} /\ scratches = <<>> /\ array = NullArray
  /\ status = "running"

-----------------------------------------------------------------------------
(* arena_alloc, as a function of the struct and of the accessible prefix.  *)

Wish(a, r) == AlignUp(a.next_offset, r.align) + r.size

\* Planted bug: the new pages are counted from the base, not from the committed end.
BugCommitted(a, acc, diff) == IF diff > acc THEN diff ELSE acc

\* os_commit: mprotect reaches at most the end of the mapping; its result is not looked at.
Committed(a, acc, diff) ==
  LET top == a.commit_size + diff
      reach == IF top <= a.reserve_size THEN top ELSE a.reserve_size
  IN  IF reach > acc THEN reach ELSE acc

\* Planted bug: the total is compared, strictly.
BugEnoughReserved(a, wish) == wish < a.reserve_size

\* The ASSERT of arena_alloc: it compares the growth, not the total.
EnoughReserved(a, wish) == AlignUp(wish - a.commit_size, Page) < a.reserve_size

Alloc(a, acc, r) ==
  LET wish  == AlignUp(Wish(a, r), Page)
      grows == wish > a.commit_size
      acc2  == IF grows THEN Committed(a, acc, AlignUp(wish - a.commit_size, Page)) ELSE acc
      block == [lo |-> AlignUp(a.next_offset, r.align), hi |-> Wish(a, r)]
  IN  IF grows /\ ~EnoughReserved(a, wish)
      THEN [arena |-> a, accessible |-> acc, block |-> block, status |-> "assert"]
      ELSE [arena      |-> [a EXCEPT !.commit_size = IF grows THEN wish ELSE @,
                                     !.next_offset = Wish(a, r)],
            accessible |-> acc2,
            block      |-> block,
            status     |-> IF r.size > 0 /\ block.hi > acc2 THEN "fault" ELSE "running"]

\* Planted bug: pops down to the start of a page.
BugPopped(a, size) == [a EXCEPT !.next_offset = ((@ - size) \div Page) * Page]

\* arena_pop: by a size, through arena_pop_to.
Popped(a, size) == [a EXCEPT !.next_offset = @ - size]

Bytes(block) == IF block.lo < block.hi THEN {block} ELSE {}

Usable == status = "running" /\ arena.mapped
Fits(a, r) == Wish(a, r) <= Limit

-----------------------------------------------------------------------------
(* The operations.                                                         *)

\* arena_alloc, under the names arena_calloc, arena_new and arena_array.
ArenaAlloc(r) ==
  LET res == Alloc(arena, accessible, r) IN
  /\ Usable /\ Fits(arena, r) /\ Cardinality(live) < MaxLive
  /\ arena' = res.arena /\ accessible' = res.accessible /\ status' = res.status
  /\ live' = live \cup Bytes(res.block)
  /\ UNCHANGED <<scratches, array>>

ArrayEnd == array.v + array.count * Elem.size
ArrayBlock == [lo |-> array.v, hi |-> ArrayEnd]

\* array_add on an array whose pointer is still null.
ArrayStart ==
  LET res == Alloc(arena, accessible, Elem) IN
  /\ Usable /\ Fits(arena, Elem) /\ Cardinality(live) < MaxLive
  /\ array = NullArray
  /\ arena' = res.arena /\ accessible' = res.accessible /\ status' = res.status
  /\ live' = live \cup {res.block}
  /\ array' = [v |-> res.block.lo, count |-> 1]
  /\ UNCHANGED scratches

\* Planted bug: any element behind the array counts as contiguous.
BugContiguous(block) == block.lo >= ArrayEnd

\* The element array_add was given lies right behind the array.
Contiguous(block) == block.lo = ArrayEnd

\* array_add on an array that has elements, in the scope that started it.
ArrayAdd ==
  LET res == Alloc(arena, accessible, Elem) IN
  /\ Usable /\ Fits(arena, Elem)
  /\ array # NullArray
  /\ \A i \in DOMAIN scratches : scratches[i].offset <= array.v
  /\ accessible' = res.accessible /\ status' = res.status
  /\ IF Contiguous(res.block)
     THEN /\ arena' = res.arena
          /\ array' = [array EXCEPT !.count = @ + 1]
          /\ live' = (live \ {ArrayBlock}) \cup {[lo |-> array.v, hi |-> res.block.hi]}
     ELSE /\ arena' = Popped(res.arena, Elem.size)
          /\ UNCHANGED <<array, live>>
  /\ UNCHANGED scratches

\* The builder of the array is done with it; the elements stay allocated.
ArrayDone ==
  /\ array # NullArray /\ array' = NullArray
  /\ UNCHANGED <<arena, accessible, live, scratches, status>>

\* Planted bug: the scope saves the committed size for the offset.
BugScratchBegin ==
  /\ Usable /\ Len(scratches) < MaxScratch
  /\ scratches' = Append(scratches, [offset |-> arena.commit_size, held |-> live])
  /\ UNCHANGED <<arena, accessible, live, array, status>>

ScratchBegin ==
  /\ Usable /\ Len(scratches) < MaxScratch
  /\ scratches' = Append(scratches, [offset |-> arena.next_offset, held |-> live])
  /\ UNCHANGED <<arena, accessible, live, array, status>>

\* scratch_close, arena_pop_to: what was allocated in the scope is given back.
ScratchClose ==
  LET scratch == scratches[Len(scratches)] IN
  /\ Usable /\ scratches # <<>>
  /\ arena' = [arena EXCEPT !.next_offset = scratch.offset]
  /\ live' = scratch.held
  /\ scratches' = SubSeq(scratches, 1, Len(scratches) - 1)
  /\ array' = IF array # NullArray /\ ArrayBlock \in scratch.held THEN array ELSE NullArray
  /\ UNCHANGED <<accessible, status>>

ArenaClear ==
  /\ Usable /\ scratches = <<>>
  /\ arena' = [arena EXCEPT !.next_offset = 0]
  /\ live' = {} /\ array' = NullArray
  /\ UNCHANGED <<accessible, scratches, status>>

\* read_file_to_arena: the C copy of the name, then the buffer; a short read puts the saved struct back.
ReadFile(name, file, ok) ==
  LET path == Alloc(arena, accessible, name)
      res  == Alloc(path.arena, path.accessible, file)
      stop == path.status # "running"
      last == IF stop THEN path ELSE res
  IN
  /\ Usable /\ Fits(arena, name) /\ Fits(path.arena, file)
  /\ Cardinality(live) + 1 < MaxLive
  /\ accessible' = last.accessible /\ status' = last.status
  /\ IF ok \/ last.status # "running"
     THEN arena' = last.arena /\ live' = live \cup Bytes(path.block) \cup Bytes(last.block)
     ELSE UNCHANGED <<arena, live>>
  /\ UNCHANGED <<scratches, array>>

\* arena_free: unmap, then zero the struct, which faults when the struct was in the mapping.
ArenaFree ==
  /\ Usable /\ scratches = <<>>
  /\ accessible' = 0 /\ live' = {} /\ array' = NullArray
  /\ IF SelfHosted THEN status' = "fault" /\ UNCHANGED arena
                   ELSE arena' = Freed /\ UNCHANGED status
  /\ UNCHANGED scratches

\* __arena_make, again after a free.
ArenaMake ==
  /\ status = "running" /\ ~arena.mapped
  /\ arena' = Fresh /\ accessible' = Commit
  /\ UNCHANGED <<live, scratches, array, status>>

ByteRequests == {r \in Requests : r.align = 1}

Next ==
  \/ \E r \in Requests : ArenaAlloc(r)
  \/ ArrayStart
  \/ ArrayAdd
  \/ ArrayDone
  \/ ScratchBegin
  \/ ScratchClose
  \/ ArenaClear
  \/ \E name, file \in ByteRequests, ok \in BOOLEAN : ReadFile(name, file, ok)
  \/ ArenaFree
  \/ ArenaMake

Spec == Init /\ [][Next]_vars

-----------------------------------------------------------------------------
ArenaSet == [mapped : BOOLEAN, reserve_size : Nat, commit_size : Nat, next_offset : Nat]
BlockSet == [lo : Nat, hi : Nat]
ScratchSet == [offset : Nat, held : SUBSET BlockSet]

\* The shape of every variable.
TypeOK ==
  /\ arena \in ArenaSet
  /\ accessible \in Nat
  /\ live \subseteq BlockSet
  /\ scratches \in Seq(ScratchSet)
  /\ array \in [v : Nat, count : Nat \ {0}] \cup {NullArray}
  /\ status \in {"running", "assert", "fault"}

\* No byte belongs to two blocks a caller still holds, whatever scopes, undone
\* array_adds and rolled back file reads came between the allocations.
LiveDisjoint == \A b, c \in live : b = c \/ b.hi <= c.lo \/ c.hi <= b.lo

\* Every held byte lies below the offset the next allocation starts from and in
\* memory that the OS has made accessible, although commit_size and the OS are
\* updated apart and a failed file read rolls only commit_size back.
LiveBacked == \A b \in live : b.hi <= arena.next_offset /\ b.hi <= accessible

\* A caller that stays inside the reservation never meets an assertion nor a
\* fault: arena_alloc's ASSERT lets the last reserved byte be used.
NeverCrashes == status = "running"

\* Closing a scope gives back what was allocated since it was opened and nothing
\* else: blocks from before lie below the saved offset, those from within above.
ScopesExact ==
  \A i \in DOMAIN scratches :
    /\ scratches[i].offset <= arena.next_offset
    /\ \A b \in scratches[i].held : b \in live /\ b.hi <= scratches[i].offset
    /\ \A b \in live \ scratches[i].held : b.lo >= scratches[i].offset

\* The array under construction is one held block of count elements from v,
\* whatever was allocated between two calls of array_add.
ArrayIsOneBlock == array # NullArray => ArrayBlock \in live

\* "Not enough reserved memory in arena" (the ASSERT of arena_alloc): what is
\* committed never exceeds what was reserved.
CommitWithinReserve == arena.commit_size <= arena.reserve_size

\* The arena is an allocator: whatever the offset, the undone array_adds, the
\* scopes and the failed reads do, the callers see their blocks change only by
\* allocation apart from the others, growth in place and release.
Blocks == INSTANCE Allocator WITH live <- live
ImplementsAllocator == Blocks!Spec

-----------------------------------------------------------------------------
(* What the proofs add to make the invariants inductive.                   *)

\* A mapped arena never outgrows its reservation, and it starts with a page.
Sane(a, acc) ==
  /\ a \in ArenaSet /\ acc \in Nat
  /\ a.mapped /\ a.reserve_size = Reserve
  /\ a.next_offset <= a.commit_size /\ a.commit_size <= acc
  /\ Page <= a.commit_size /\ a.commit_size <= Reserve

\* Inner scopes saved offsets that are no smaller.
Nested == \A i, j \in DOMAIN scratches : i < j => scratches[i].offset <= scratches[j].offset

IInv ==
  /\ TypeOK
  /\ arena.mapped => Sane(arena, accessible)
  /\ ~arena.mapped => live = {} /\ scratches = <<>> /\ array = NullArray
  /\ \A b \in live : b.lo < b.hi
  /\ LiveDisjoint /\ LiveBacked /\ NeverCrashes
  /\ ScopesExact /\ Nested /\ ArrayIsOneBlock
=============================================================================
