---------------------------- MODULE ArenaProofs ----------------------------
(* What TLAPS proves about Arena, for every page size, reservation, request *)
(* set and bound.                                                           *)
EXTENDS Arena, TLAPS

LEMMA DivBounds ==
  ASSUME NEW x \in Nat, NEW b \in Nat \ {0}
  PROVE  /\ x \div b \in Nat
         /\ (x \div b) * b <= x
         /\ x < (x \div b) * b + b
  OBVIOUS

LEMMA ProductMonotone ==
  ASSUME NEW p \in Nat, NEW q \in Nat, NEW b \in Nat, p <= q
  PROVE  p * b <= q * b
  OBVIOUS

\* Rounding up reaches the number and stays within one alignment of it.
LEMMA AlignUpBounds ==
  ASSUME NEW x \in Nat, NEW b \in Nat \ {0}
  PROVE  /\ AlignUp(x, b) \in Nat
         /\ x <= AlignUp(x, b)
         /\ AlignUp(x, b) <= x + b - 1
<1>1. x + b - 1 \in Nat
  OBVIOUS
<1>2. AlignUp(x, b) \in Nat
  BY <1>1, DivBounds DEF AlignUp
<1>3. QED
  BY <1>1, <1>2, DivBounds DEF AlignUp

\* Rounding up passes no multiple of the alignment.
LEMMA AlignUpLeast ==
  ASSUME NEW x \in Nat, NEW b \in Nat \ {0}, NEW q \in Nat, x <= q * b
  PROVE  AlignUp(x, b) <= q * b
<1> DEFINE d == (x + b - 1) \div b
<1>1. x + b - 1 \in Nat
  OBVIOUS
<1>2. d \in Nat /\ d * b <= x + b - 1
  BY <1>1, DivBounds
<1> HIDE DEF d
<1>3. q * b \in Nat /\ (q + 1) * b = q * b + b
  OBVIOUS
<1>4. d * b < (q + 1) * b
  BY <1>2, <1>3
<1>5. d <= q
  <2>1. CASE q + 1 <= d
    <3>1. (q + 1) * b <= d * b
      BY <1>2, <2>1, ProductMonotone
    <3>2. QED
      BY <1>2, <1>3, <1>4, <3>1
  <2>2. QED
    BY <1>2, <2>1
<1>6. d * b <= q * b
  BY <1>2, <1>5, ProductMonotone
<1>7. QED
  BY <1>6 DEF AlignUp, d

LEMMA AlignUpPositive ==
  ASSUME NEW x \in Nat \ {0}, NEW b \in Nat \ {0}
  PROVE  b <= AlignUp(x, b)
<1> DEFINE d == (x + b - 1) \div b
<1>1. d \in Nat /\ x + b - 1 < d * b + b
  BY DivBounds
<1> HIDE DEF d
<1>2. CASE d = 0
  BY <1>1, <1>2
<1>3. CASE 1 <= d
  <2>1. 1 * b <= d * b
    BY <1>1, <1>3, ProductMonotone
  <2>2. QED
    BY <2>1 DEF AlignUp, d
<1>4. QED
  BY <1>1, <1>2, <1>3

LEMMA PageFacts ==
  /\ Page \in Nat \ {0} /\ Reserve \in Nat /\ Commit \in Nat
  /\ Page <= Commit /\ Commit <= Reserve
<1>1. ReserveArg \in Nat /\ CommitArg \in Nat \ {0} /\ Page \in Nat \ {0} /\ Commit <= Reserve
  BY PageAssumption, SizeAssumption
<1>2. QED
  BY <1>1, AlignUpBounds, AlignUpPositive DEF Reserve, Commit

\* Rounding up to pages never passes the end of the reservation.
LEMMA PageUpFits ==
  ASSUME NEW x \in Nat, x <= Reserve
  PROVE  AlignUp(x, Page) <= Reserve
<1> DEFINE q == (ReserveArg + Page - 1) \div Page
<1>1. Page \in Nat \ {0} /\ ReserveArg \in Nat
  BY PageAssumption, SizeAssumption
<1>2. q \in Nat
  BY <1>1, DivBounds
<1>3. Reserve = q * Page
  BY DEF Reserve, AlignUp
<1> HIDE DEF q
<1>4. QED
  BY <1>1, <1>2, <1>3, AlignUpLeast

\* arena_alloc on a sane arena, for a request that ends inside the reservation:
\* no assertion, no fault, and a block above everything allocated before.
LEMMA AllocFacts ==
  ASSUME NEW a, NEW acc, Sane(a, acc), NEW r \in Request, Wish(a, r) <= Reserve
  PROVE  LET res == Alloc(a, acc, r) IN
         /\ res.status = "running"
         /\ Sane(res.arena, res.accessible)
         /\ acc <= res.accessible
         /\ res.block = [lo |-> res.block.lo, hi |-> res.block.hi]
         /\ res.block.lo \in Nat /\ res.block.hi \in Nat
         /\ a.next_offset <= res.block.lo
         /\ res.block.hi = res.block.lo + r.size
         /\ res.arena.next_offset = res.block.hi
<1> DEFINE lo   == AlignUp(a.next_offset, r.align)
           hi   == Wish(a, r)
           wish == AlignUp(hi, Page)
           diff == AlignUp(wish - a.commit_size, Page)
           res  == Alloc(a, acc, r)
<1>1. /\ a.next_offset \in Nat /\ a.commit_size \in Nat /\ a.reserve_size = Reserve
      /\ r.size \in Nat /\ r.align \in Nat \ {0}
  BY DEF Sane, ArenaSet, Request
<1>2. lo \in Nat /\ a.next_offset <= lo
  BY <1>1, AlignUpBounds
<1>3. hi = lo + r.size /\ hi \in Nat /\ hi <= Reserve
  BY <1>1, <1>2 DEF Wish
<1> HIDE DEF lo, hi
<1>4. wish \in Nat /\ hi <= wish /\ wish <= Reserve
  BY <1>3, PageFacts, PageUpFits, AlignUpBounds
<1> HIDE DEF wish
<1>5. ASSUME NEW com \in Nat, NEW acc2 \in Nat,
             res = [arena      |-> [a EXCEPT !.commit_size = com, !.next_offset = hi],
                    accessible |-> acc2,
                    block      |-> [lo |-> lo, hi |-> hi],
                    status     |-> "running"],
             hi <= com, com <= acc2, acc <= acc2, Page <= com, com <= Reserve
      PROVE  /\ res.status = "running"
             /\ Sane(res.arena, res.accessible)
             /\ acc <= res.accessible
             /\ res.block = [lo |-> res.block.lo, hi |-> res.block.hi]
             /\ res.block.lo \in Nat /\ res.block.hi \in Nat
             /\ a.next_offset <= res.block.lo
             /\ res.block.hi = res.block.lo + r.size
             /\ res.arena.next_offset = res.block.hi
  <2> DEFINE new == [a EXCEPT !.commit_size = com, !.next_offset = hi]
  <2>1. /\ new \in ArenaSet /\ new.mapped /\ new.reserve_size = Reserve
        /\ new.commit_size = com /\ new.next_offset = hi
    BY <1>3 DEF Sane, ArenaSet
  <2> HIDE DEF new, res
  <2>2. Sane(new, acc2)
    BY <1>5, <2>1 DEF Sane
  <2>3. res.arena = new /\ res.accessible = acc2 /\ res.status = "running"
        /\ res.block = [lo |-> lo, hi |-> hi]
    BY <1>5 DEF new
  <2>4. QED
    BY <1>2, <1>3, <1>5, <2>1, <2>2, <2>3
<1>6. CASE wish > a.commit_size
  <2>1. wish - a.commit_size \in Nat
    BY <1>1, <1>4, <1>6
  <2>2. /\ diff \in Nat /\ wish - a.commit_size <= diff
        /\ diff <= wish - a.commit_size + Page - 1
    BY <2>1, PageFacts, AlignUpBounds
  <2> HIDE DEF diff
  <2>3. diff < a.reserve_size
    BY <1>1, <1>4, <2>2, PageFacts DEF Sane
  <2>4. Committed(a, acc, diff) \in Nat /\ wish <= Committed(a, acc, diff) /\ acc <= Committed(a, acc, diff)
    BY <1>1, <1>4, <2>2, PageFacts DEF Sane, Committed
  <2>5. EnoughReserved(a, wish)
    BY <2>3 DEF EnoughReserved, diff
  <2>6. ~(r.size > 0 /\ hi > Committed(a, acc, diff))
    BY <1>3, <1>4, <2>4
  <2>7. res = [arena      |-> [a EXCEPT !.commit_size = wish, !.next_offset = hi],
               accessible |-> Committed(a, acc, diff),
               block      |-> [lo |-> lo, hi |-> hi],
               status     |-> "running"]
    BY <1>6, <2>5, <2>6 DEF Alloc, diff, wish, hi, lo
  <2> HIDE DEF res
  <2>8. Page <= wish
    BY <1>1, <1>4, <1>6, PageFacts DEF Sane
  <2>9. QED
    BY <1>4, <1>5, <2>4, <2>7, <2>8 DEF res
<1>7. CASE ~(wish > a.commit_size)
  <2>1. ~(r.size > 0 /\ hi > acc)
    BY <1>1, <1>3, <1>4, <1>7 DEF Sane
  <2>2. res = [arena      |-> [a EXCEPT !.commit_size = a.commit_size, !.next_offset = hi],
               accessible |-> acc,
               block      |-> [lo |-> lo, hi |-> hi],
               status     |-> "running"]
    BY <1>7, <2>1 DEF Alloc, wish, hi, lo
  <2> HIDE DEF res
  <2>3. hi <= a.commit_size
    BY <1>1, <1>3, <1>4, <1>7
  <2>4. /\ a.commit_size \in Nat /\ acc \in Nat /\ a.commit_size <= acc /\ acc <= acc
        /\ Page <= a.commit_size /\ a.commit_size <= Reserve
    BY <1>1 DEF Sane
  <2>5. QED
    BY <1>5, <2>2, <2>3, <2>4 DEF res
<1>8. QED
  BY <1>6, <1>7

-----------------------------------------------------------------------------
\* The callers stay inside the reservation and keep the Arena struct elsewhere.
Fitting == Limit <= Reserve /\ ~SelfHosted

\* The types of the parts of the state.
LEMMA Parts ==
  ASSUME IInv
  PROVE  /\ arena.next_offset \in Nat /\ arena.commit_size \in Nat /\ accessible \in Nat
         /\ \A b \in live : b.lo \in Nat /\ b.hi \in Nat /\ b.lo < b.hi
         /\ \A i \in DOMAIN scratches : /\ scratches[i] \in ScratchSet
                                       /\ scratches[i].offset \in Nat
                                       /\ scratches[i].offset <= arena.next_offset
<1>1. \A i \in DOMAIN scratches : scratches[i] \in ScratchSet
  BY DEF IInv, TypeOK
<1>2. \A i \in DOMAIN scratches : scratches[i].offset \in Nat
  BY <1>1 DEF ScratchSet
<1>3. QED
  BY <1>1, <1>2 DEF IInv, TypeOK, ArenaSet, BlockSet, ScopesExact

\* A block from arena_alloc overlaps nothing that is held.
LEMMA NewBlockAbove ==
  ASSUME IInv, arena.mapped, Fitting, NEW r \in Request, Fits(arena, r)
  PROVE  LET res == Alloc(arena, accessible, r) IN
         /\ res.status = "running"
         /\ Sane(res.arena, res.accessible)
         /\ accessible <= res.accessible
         /\ res.block.hi <= res.accessible
         /\ res.block \in BlockSet
         /\ res.arena.next_offset = res.block.hi
         /\ arena.next_offset <= res.block.lo
         /\ res.block.hi = res.block.lo + r.size
         /\ res.block.lo <= res.block.hi
         /\ \A b \in live : b.hi <= res.block.lo
<1> DEFINE res == Alloc(arena, accessible, r)
<1>1. Sane(arena, accessible) /\ Wish(arena, r) <= Reserve
  <2>1. Wish(arena, r) \in Nat
    <3>1. r.size \in Nat /\ r.align \in Nat \ {0} /\ arena.next_offset \in Nat
      BY Parts DEF Request
    <3>2. AlignUp(arena.next_offset, r.align) \in Nat
      BY <3>1, AlignUpBounds
    <3>3. QED
      BY <3>1, <3>2 DEF Wish
  <2>2. QED
    BY <2>1, PageFacts, BoundAssumption DEF IInv, Fitting, Fits
<1>2. /\ res.status = "running"
      /\ Sane(res.arena, res.accessible)
      /\ accessible <= res.accessible
      /\ res.block = [lo |-> res.block.lo, hi |-> res.block.hi]
      /\ res.block.lo \in Nat /\ res.block.hi \in Nat
      /\ arena.next_offset <= res.block.lo
      /\ res.block.hi = res.block.lo + r.size
      /\ res.arena.next_offset = res.block.hi
  BY <1>1, AllocFacts
<1> HIDE DEF res
<1>3. res.block \in BlockSet /\ res.block.lo <= res.block.hi
  BY <1>2 DEF BlockSet, Request
<1>4. res.block.hi <= res.accessible
  BY <1>2 DEF Sane, ArenaSet
<1>5. \A b \in live : b.hi <= res.block.lo
  BY <1>2 DEF IInv, TypeOK, LiveBacked, ArenaSet, BlockSet
<1>6. QED
  BY <1>2, <1>3, <1>4, <1>5 DEF res

LEMMA InitIInv == Init => IInv
<1> SUFFICES ASSUME Init PROVE IInv
  OBVIOUS
<1>1. TypeOK
  BY PageFacts DEF Init, TypeOK, ArenaSet, Fresh, NullArray
<1>2. Sane(arena, accessible)
  BY PageFacts DEF Init, Sane, ArenaSet, Fresh
<1>3. QED
  BY <1>1, <1>2 DEF Init, IInv, LiveDisjoint, LiveBacked, NeverCrashes, ScopesExact, Nested,
                    ArrayIsOneBlock, NullArray, Fresh

LEMMA AllocStep ==
  ASSUME IInv, Fitting, NEW r \in Requests, ArenaAlloc(r)
  PROVE  IInv'
<1> DEFINE res == Alloc(arena, accessible, r)
<1>1. r \in Request /\ arena.mapped /\ Fits(arena, r)
  BY RequestAssumption DEF ArenaAlloc, Usable
<1>2. /\ res.status = "running"
      /\ Sane(res.arena, res.accessible)
      /\ accessible <= res.accessible
      /\ res.block.hi <= res.accessible
      /\ res.block \in BlockSet
      /\ res.arena.next_offset = res.block.hi
      /\ arena.next_offset <= res.block.lo
      /\ res.block.lo <= res.block.hi
      /\ \A b \in live : b.hi <= res.block.lo
  BY <1>1, NewBlockAbove
<1>3. /\ arena' = res.arena /\ accessible' = res.accessible /\ status' = res.status
      /\ live' = live \cup Bytes(res.block)
      /\ scratches' = scratches /\ array' = array
  BY DEF ArenaAlloc
<1> HIDE DEF res
<1>4. \A b \in live' : b \in live \/ (b = res.block /\ b.lo < b.hi)
  BY <1>3 DEF Bytes
<1>5. \A b \in live : b.lo \in Nat /\ b.hi \in Nat /\ b.lo < b.hi
  BY DEF IInv, TypeOK, BlockSet
<1>6. arena.next_offset \in Nat /\ accessible \in Nat /\ res.accessible \in Nat
      /\ res.block.lo \in Nat /\ res.block.hi \in Nat /\ res.arena \in ArenaSet
  BY <1>2 DEF IInv, TypeOK, ArenaSet, Sane, BlockSet
<1>7. TypeOK'
  BY <1>2, <1>3, <1>4, <1>6 DEF IInv, TypeOK
<1>8. (arena.mapped => Sane(arena, accessible))' /\ arena'.mapped
  BY <1>2, <1>3 DEF Sane
<1>9. LiveDisjoint' /\ LiveBacked' /\ (\A b \in live : b.lo < b.hi)'
  BY <1>2, <1>3, <1>4, <1>5, <1>6 DEF IInv, LiveDisjoint, LiveBacked
<1>10. NeverCrashes' /\ Nested' /\ ArrayIsOneBlock'
  BY <1>2, <1>3 DEF IInv, NeverCrashes, Nested, ArrayIsOneBlock, ArrayBlock, ArrayEnd
<1>11. ScopesExact'
  <2> SUFFICES ASSUME NEW i \in DOMAIN scratches
               PROVE  /\ scratches[i].offset <= res.block.hi
                      /\ \A b \in scratches[i].held : b \in live' /\ b.hi <= scratches[i].offset
                      /\ \A b \in live' \ scratches[i].held : b.lo >= scratches[i].offset
    BY <1>2, <1>3 DEF ScopesExact
  <2>1. scratches[i].offset \in Nat /\ scratches[i].offset <= arena.next_offset
    BY Parts
  <2>2. QED
    BY <1>2, <1>3, <1>4, <1>6, <2>1 DEF IInv, ScopesExact
<1>12. QED
  BY <1>7, <1>8, <1>9, <1>10, <1>11 DEF IInv

LEMMA ElemFacts == Elem \in Request /\ Elem.size \in Nat \ {0}
  BY RequestAssumption DEF Request

LEMMA ArrayStartStep ==
  ASSUME IInv, Fitting, ArrayStart
  PROVE  IInv'
<1> DEFINE res == Alloc(arena, accessible, Elem)
<1>1. arena.mapped /\ Fits(arena, Elem)
  BY DEF ArrayStart, Usable
<1>2. /\ res.status = "running"
      /\ Sane(res.arena, res.accessible)
      /\ accessible <= res.accessible
      /\ res.block.hi <= res.accessible
      /\ res.block \in BlockSet
      /\ res.arena.next_offset = res.block.hi
      /\ arena.next_offset <= res.block.lo
      /\ res.block.hi = res.block.lo + Elem.size
      /\ \A b \in live : b.hi <= res.block.lo
  BY <1>1, ElemFacts, NewBlockAbove
<1>3. /\ arena' = res.arena /\ accessible' = res.accessible /\ status' = res.status
      /\ live' = live \cup {res.block}
      /\ scratches' = scratches
      /\ array' = [v |-> res.block.lo, count |-> 1]
  BY DEF ArrayStart
<1> HIDE DEF res
<1>4. /\ res.arena \in ArenaSet /\ res.accessible \in Nat
      /\ res.block.lo \in Nat /\ res.block.hi \in Nat /\ res.block.lo < res.block.hi
      /\ res.block = [lo |-> res.block.lo, hi |-> res.block.hi]
  BY <1>2, ElemFacts DEF Sane, BlockSet
<1>5. TypeOK'
  BY <1>2, <1>3, <1>4 DEF IInv, TypeOK
<1>6. (arena.mapped => Sane(arena, accessible))' /\ arena'.mapped
  BY <1>2, <1>3 DEF Sane
<1>7. LiveDisjoint' /\ LiveBacked' /\ (\A b \in live : b.lo < b.hi)'
  BY <1>2, <1>3, <1>4, Parts DEF IInv, LiveDisjoint, LiveBacked
<1>8. NeverCrashes' /\ Nested'
  BY <1>2, <1>3 DEF IInv, NeverCrashes, Nested
<1>9. ArrayIsOneBlock'
  BY <1>2, <1>3, <1>4, ElemFacts DEF ArrayIsOneBlock, ArrayBlock, ArrayEnd
<1>10. ScopesExact'
  <2> SUFFICES ASSUME NEW i \in DOMAIN scratches
               PROVE  /\ scratches[i].offset <= res.block.hi
                      /\ \A b \in scratches[i].held : b \in live' /\ b.hi <= scratches[i].offset
                      /\ \A b \in live' \ scratches[i].held : b.lo >= scratches[i].offset
    BY <1>2, <1>3 DEF ScopesExact
  <2>1. QED
    BY <1>2, <1>3, <1>4, Parts DEF IInv, ScopesExact
<1>11. QED
  BY <1>5, <1>6, <1>7, <1>8, <1>9, <1>10 DEF IInv

\* The array, while it is growing, is a held block that ends at ArrayEnd.
LEMMA ArrayParts ==
  ASSUME IInv, array # NullArray
  PROVE  /\ array.v \in Nat /\ array.count \in Nat \ {0}
         /\ ArrayEnd \in Nat /\ array.v < ArrayEnd
         /\ ArrayBlock \in live /\ ArrayBlock.lo = array.v /\ ArrayBlock.hi = ArrayEnd
         /\ array.v + (array.count + 1) * Elem.size = ArrayEnd + Elem.size
<1>1. array.v \in Nat /\ array.count \in Nat \ {0}
  BY DEF IInv, TypeOK
<1>2. /\ array.count * Elem.size \in Nat
      /\ (array.count + 1) * Elem.size = array.count * Elem.size + Elem.size
  BY <1>1, ElemFacts
<1>3. ArrayBlock \in live /\ ArrayBlock.lo = array.v /\ ArrayBlock.hi = ArrayEnd
  BY DEF IInv, ArrayIsOneBlock, ArrayBlock
<1>4. ArrayBlock.lo < ArrayBlock.hi
  BY <1>3, Parts
<1>5. QED
  BY <1>1, <1>2, <1>3, <1>4, ElemFacts DEF ArrayEnd

LEMMA ArrayAddStep ==
  ASSUME IInv, Fitting, ArrayAdd
  PROVE  IInv'
<1> DEFINE res == Alloc(arena, accessible, Elem)
<1>1. arena.mapped /\ Fits(arena, Elem) /\ array # NullArray
      /\ \A i \in DOMAIN scratches : scratches[i].offset <= array.v
  BY DEF ArrayAdd, Usable
<1>2. /\ res.status = "running"
      /\ Sane(res.arena, res.accessible)
      /\ accessible <= res.accessible
      /\ res.block.hi <= res.accessible
      /\ res.block \in BlockSet
      /\ res.arena.next_offset = res.block.hi
      /\ arena.next_offset <= res.block.lo
      /\ res.block.hi = res.block.lo + Elem.size
      /\ \A b \in live : b.hi <= res.block.lo
  BY <1>1, ElemFacts, NewBlockAbove
<1>3. /\ accessible' = res.accessible /\ status' = res.status /\ scratches' = scratches
      /\ \/ /\ Contiguous(res.block)
            /\ arena' = res.arena
            /\ array' = [array EXCEPT !.count = @ + 1]
            /\ live' = (live \ {ArrayBlock}) \cup {[lo |-> array.v, hi |-> res.block.hi]}
         \/ /\ arena' = Popped(res.arena, Elem.size)
            /\ array' = array /\ live' = live
  BY DEF ArrayAdd
<1> HIDE DEF res
<1>4. /\ res.arena \in ArenaSet /\ res.accessible \in Nat
      /\ res.block.lo \in Nat /\ res.block.hi \in Nat /\ res.block.lo < res.block.hi
  BY <1>2, ElemFacts DEF Sane, BlockSet
<1>5. CASE /\ Contiguous(res.block)
           /\ arena' = res.arena
           /\ array' = [array EXCEPT !.count = @ + 1]
           /\ live' = (live \ {ArrayBlock}) \cup {[lo |-> array.v, hi |-> res.block.hi]}
  <2> DEFINE grown == [lo |-> array.v, hi |-> res.block.hi]
  <2>1. res.block.lo = ArrayEnd /\ array.v \in Nat /\ array.v < res.block.hi
    BY <1>1, <1>2, <1>4, <1>5, ArrayParts DEF Contiguous
  <2>2. grown \in BlockSet /\ grown.lo = array.v /\ grown.hi = res.block.hi
    BY <1>4, <2>1 DEF BlockSet
  <2> HIDE DEF grown
  <2>3. live' = (live \ {ArrayBlock}) \cup {grown}
    BY <1>5 DEF grown
  <2>4. array' \in [v : Nat, count : Nat \ {0}] /\ array'.v = array.v /\ array'.count = array.count + 1
    BY <1>1, <1>5 DEF IInv, TypeOK
  <2>5. TypeOK'
    BY <1>2, <1>3, <1>4, <1>5, <2>2, <2>3, <2>4 DEF IInv, TypeOK
  <2>6. (arena.mapped => Sane(arena, accessible))' /\ arena'.mapped
    BY <1>2, <1>3, <1>5 DEF Sane
  <2>7. \A b \in live \ {ArrayBlock} : b.hi <= grown.lo
    <3> SUFFICES ASSUME NEW b \in live, b # ArrayBlock PROVE b.hi <= array.v
      BY <2>2
    <3>1. b.hi <= array.v \/ ArrayEnd <= b.lo
      BY <1>1, ArrayParts DEF IInv, LiveDisjoint
    <3>2. b.lo < b.hi /\ b.hi <= ArrayEnd /\ b.lo \in Nat /\ b.hi \in Nat
      BY <1>2, <2>1, Parts
    <3>3. QED
      BY <1>1, <3>1, <3>2, ArrayParts
  <2>8. LiveDisjoint' /\ (\A b \in live : b.lo < b.hi)'
    BY <2>1, <2>2, <2>3, <2>7 DEF IInv, LiveDisjoint
  <2>9. LiveBacked'
    BY <1>2, <1>3, <1>4, <1>5, <2>2, <2>3, Parts DEF IInv, LiveBacked
  <2>10. NeverCrashes' /\ Nested'
    BY <1>2, <1>3 DEF IInv, NeverCrashes, Nested
  <2>11. ArrayIsOneBlock'
    <3>1. ArrayEnd' = res.block.hi
      BY <1>1, <1>2, <2>1, <2>4, ArrayParts DEF ArrayEnd
    <3>2. ArrayBlock' = grown
      BY <2>4, <3>1 DEF ArrayBlock, grown
    <3>3. QED
      BY <2>3, <3>2 DEF ArrayIsOneBlock
  <2>12. ScopesExact'
    <3> SUFFICES ASSUME NEW i \in DOMAIN scratches
                 PROVE  /\ scratches[i].offset <= res.block.hi
                        /\ \A b \in scratches[i].held : b \in live' /\ b.hi <= scratches[i].offset
                        /\ \A b \in live' \ scratches[i].held : b.lo >= scratches[i].offset
      BY <1>2, <1>3, <1>5 DEF ScopesExact
    <3>1. scratches[i].offset \in Nat /\ scratches[i].offset <= array.v
      BY <1>1, Parts
    <3>2. ArrayBlock \notin scratches[i].held
      BY <1>1, <3>1, ArrayParts DEF IInv, ScopesExact
    <3>3. QED
      BY <1>4, <2>1, <2>2, <2>3, <3>1, <3>2 DEF IInv, ScopesExact
  <2>13. QED
    BY <2>5, <2>6, <2>8, <2>9, <2>10, <2>11, <2>12 DEF IInv
<1>6. CASE arena' = Popped(res.arena, Elem.size) /\ array' = array /\ live' = live
  <2>1. /\ arena' \in ArenaSet /\ arena'.next_offset = res.block.lo
        /\ Sane(arena', accessible') /\ arena'.mapped
    BY <1>2, <1>3, <1>4, <1>6, ElemFacts DEF Popped, Sane, ArenaSet
  <2>2. TypeOK'
    BY <1>2, <1>3, <1>4, <1>6, <2>1 DEF IInv, TypeOK
  <2>3. LiveDisjoint' /\ (\A b \in live : b.lo < b.hi)' /\ NeverCrashes' /\ Nested' /\ ArrayIsOneBlock'
    BY <1>2, <1>3, <1>6 DEF IInv, LiveDisjoint, NeverCrashes, Nested, ArrayIsOneBlock, ArrayBlock, ArrayEnd
  <2>4. LiveBacked'
    BY <1>2, <1>3, <1>4, <1>6, <2>1, Parts DEF IInv, LiveBacked
  <2>5. ScopesExact'
    BY <1>2, <1>3, <1>4, <1>6, <2>1, Parts DEF IInv, ScopesExact
  <2>6. QED
    BY <2>1, <2>2, <2>3, <2>4, <2>5 DEF IInv
<1>7. QED
  BY <1>3, <1>5, <1>6

LEMMA ArrayDoneStep ==
  ASSUME IInv, ArrayDone
  PROVE  IInv'
  BY DEF ArrayDone, IInv, TypeOK, LiveDisjoint, LiveBacked, NeverCrashes, ScopesExact, Nested,
         ArrayIsOneBlock

LEMMA ScratchBeginStep ==
  ASSUME IInv, ScratchBegin
  PROVE  IInv'
<1> DEFINE scope == [offset |-> arena.next_offset, held |-> live]
           n == Len(scratches)
<1>1. /\ scratches' = Append(scratches, scope)
      /\ arena' = arena /\ accessible' = accessible /\ live' = live
      /\ array' = array /\ status' = status /\ arena.mapped
  BY DEF ScratchBegin, Usable
<1>2. scope \in ScratchSet /\ scratches \in Seq(ScratchSet) /\ n \in Nat
  BY Parts DEF IInv, TypeOK, ScratchSet
<1>3. /\ scratches' \in Seq(ScratchSet)
      /\ DOMAIN scratches' = 1 .. (n + 1)
      /\ DOMAIN scratches = 1 .. n
      /\ scratches'[n + 1] = scope
      /\ \A i \in 1 .. n : scratches'[i] = scratches[i]
  BY <1>1, <1>2
<1> HIDE DEF n
<1>4. scope.offset = arena.next_offset /\ scope.held = live
  OBVIOUS
<1> HIDE DEF scope
<1>5. \A i \in DOMAIN scratches' : i \in DOMAIN scratches \/ i = n + 1
  BY <1>2, <1>3
<1>6. ScopesExact'
  <2> SUFFICES ASSUME NEW i \in DOMAIN scratches'
               PROVE  /\ scratches'[i].offset <= arena.next_offset
                      /\ \A b \in scratches'[i].held : b \in live /\ b.hi <= scratches'[i].offset
                      /\ \A b \in live \ scratches'[i].held : b.lo >= scratches'[i].offset
    BY <1>1 DEF ScopesExact
  <2>1. CASE i \in DOMAIN scratches
    BY <1>3, <2>1 DEF IInv, ScopesExact
  <2>2. CASE i = n + 1
    BY <1>3, <1>4, <2>2, Parts DEF IInv, LiveBacked
  <2>3. QED
    BY <1>5, <2>1, <2>2
<1>7. Nested'
  <2> SUFFICES ASSUME NEW i \in DOMAIN scratches', NEW j \in DOMAIN scratches', i < j
               PROVE  scratches'[i].offset <= scratches'[j].offset
    BY DEF Nested
  <2>1. i \in DOMAIN scratches
    BY <1>2, <1>3, <1>5
  <2>2. CASE j \in DOMAIN scratches
    BY <1>3, <2>1, <2>2 DEF IInv, Nested
  <2>3. CASE j = n + 1
    BY <1>3, <1>4, <2>1, <2>3, Parts
  <2>4. QED
    BY <1>5, <2>2, <2>3
<1>8. TypeOK'
  BY <1>1, <1>3 DEF IInv, TypeOK
<1>9. LiveDisjoint' /\ LiveBacked' /\ NeverCrashes' /\ ArrayIsOneBlock'
  BY <1>1 DEF IInv, LiveDisjoint, LiveBacked, NeverCrashes, ArrayIsOneBlock, ArrayBlock, ArrayEnd
<1>10. QED
  BY <1>1, <1>6, <1>7, <1>8, <1>9 DEF IInv

LEMMA ScratchCloseStep ==
  ASSUME IInv, ScratchClose
  PROVE  IInv'
<1> DEFINE n == Len(scratches)
           scope == scratches[n]
<1>1. /\ scratches \in Seq(ScratchSet) /\ scratches # <<>> /\ arena.mapped
      /\ arena' = [arena EXCEPT !.next_offset = scope.offset]
      /\ live' = scope.held
      /\ scratches' = SubSeq(scratches, 1, n - 1)
      /\ array' = IF array # NullArray /\ ArrayBlock \in scope.held THEN array ELSE NullArray
      /\ accessible' = accessible /\ status' = status
  BY DEF ScratchClose, Usable, IInv, TypeOK
<1>2. n \in Nat \ {0} /\ DOMAIN scratches = 1 .. n /\ n \in DOMAIN scratches
  BY <1>1
<1>3. /\ scratches' \in Seq(ScratchSet) /\ DOMAIN scratches' = 1 .. (n - 1)
      /\ \A i \in 1 .. (n - 1) : scratches'[i] = scratches[i]
  BY <1>1, <1>2
<1> HIDE DEF n
<1>4. /\ scope.offset \in Nat /\ scope.offset <= arena.next_offset
      /\ scope.held \subseteq live
      /\ \A b \in scope.held : b.hi <= scope.offset
      /\ \A b \in live \ scope.held : b.lo >= scope.offset
  BY <1>2, Parts DEF IInv, ScopesExact
<1>5. \A i \in DOMAIN scratches' : i \in DOMAIN scratches /\ i < n /\ scratches'[i] = scratches[i]
  BY <1>2, <1>3
<1>6. \A i \in DOMAIN scratches' : scratches[i].offset <= scope.offset
  BY <1>2, <1>5 DEF IInv, Nested
<1> HIDE DEF scope
<1>7. TypeOK'
  BY <1>1, <1>3, <1>4 DEF IInv, TypeOK, ArenaSet
<1>8. (arena.mapped => Sane(arena, accessible))' /\ arena'.mapped
  BY <1>1, <1>4, Parts DEF IInv, Sane, ArenaSet
<1>9. LiveDisjoint' /\ (\A b \in live : b.lo < b.hi)'
  BY <1>1, <1>4 DEF IInv, LiveDisjoint
<1>10. LiveBacked'
  BY <1>1, <1>4 DEF IInv, LiveBacked, TypeOK, ArenaSet
<1>11. ScopesExact'
  <2> SUFFICES ASSUME NEW i \in DOMAIN scratches'
               PROVE  /\ scratches[i].offset <= scope.offset
                      /\ \A b \in scratches[i].held : b \in scope.held /\ b.hi <= scratches[i].offset
                      /\ \A b \in scope.held \ scratches[i].held : b.lo >= scratches[i].offset
    BY <1>1, <1>5, <1>4 DEF ScopesExact, IInv, TypeOK, ArenaSet
  <2>1. i \in DOMAIN scratches /\ scratches[i].offset <= scope.offset /\ scratches[i].offset \in Nat
    BY <1>5, <1>6, Parts
  <2>2. \A b \in scratches[i].held : b \in live /\ b.hi <= scratches[i].offset
    BY <2>1 DEF IInv, ScopesExact
  <2>3. \A b \in scratches[i].held : b \in scope.held
    BY <1>4, <2>1, <2>2, Parts
  <2>4. \A b \in scope.held \ scratches[i].held : b.lo >= scratches[i].offset
    BY <1>4, <2>1 DEF IInv, ScopesExact
  <2>5. QED
    BY <2>1, <2>2, <2>3, <2>4
<1>12. Nested'
  BY <1>5 DEF IInv, Nested
<1>13. NeverCrashes' /\ ArrayIsOneBlock'
  BY <1>1 DEF IInv, NeverCrashes, ArrayIsOneBlock, ArrayBlock, ArrayEnd
<1>14. QED
  BY <1>7, <1>8, <1>9, <1>10, <1>11, <1>12, <1>13 DEF IInv

LEMMA ArenaClearStep ==
  ASSUME IInv, ArenaClear
  PROVE  IInv'
<1>1. /\ arena' = [arena EXCEPT !.next_offset = 0] /\ live' = {} /\ array' = NullArray
      /\ arena.mapped /\ scratches = <<>>
      /\ scratches' = scratches /\ accessible' = accessible /\ status' = status
  BY DEF ArenaClear, Usable
<1>2. TypeOK' /\ (arena.mapped => Sane(arena, accessible))' /\ arena'.mapped
  BY <1>1, Parts DEF IInv, TypeOK, ArenaSet, Sane
<1>3. QED
  BY <1>1, <1>2 DEF IInv, LiveDisjoint, LiveBacked, NeverCrashes, ScopesExact, Nested, ArrayIsOneBlock

\* A second block is allocated above the first: what NewBlockAbove says of one, of two.
LEMMA ReadFileStep ==
  ASSUME IInv, Fitting, NEW name \in Requests, NEW file \in Requests, NEW ok \in BOOLEAN,
         ReadFile(name, file, ok)
  PROVE  IInv'
<1> DEFINE path == Alloc(arena, accessible, name)
           res  == Alloc(path.arena, path.accessible, file)
<1>1. name \in Request /\ file \in Request /\ arena.mapped /\ Fits(arena, name) /\ Fits(path.arena, file)
  BY RequestAssumption DEF ReadFile, Usable
<1>2. /\ path.status = "running"
      /\ Sane(path.arena, path.accessible)
      /\ accessible <= path.accessible
      /\ path.block.hi <= path.accessible
      /\ path.block \in BlockSet
      /\ path.arena.next_offset = path.block.hi
      /\ arena.next_offset <= path.block.lo
      /\ path.block.lo <= path.block.hi
      /\ \A b \in live : b.hi <= path.block.lo
  BY <1>1, NewBlockAbove
<1>3. /\ accessible' = (IF path.status # "running" THEN path ELSE res).accessible
      /\ status' = (IF path.status # "running" THEN path ELSE res).status
      /\ \/ /\ arena' = (IF path.status # "running" THEN path ELSE res).arena
            /\ live' = live \cup Bytes(path.block)
                            \cup Bytes((IF path.status # "running" THEN path ELSE res).block)
         \/ arena' = arena /\ live' = live
      /\ scratches' = scratches /\ array' = array
  BY DEF ReadFile
<1> HIDE DEF path
<1>4. path.arena.next_offset \in Nat
  BY <1>2 DEF Sane, ArenaSet
<1>5. Wish(path.arena, file) <= Reserve
  <2>1. file.size \in Nat /\ file.align \in Nat \ {0}
    BY <1>1 DEF Request
  <2>2. AlignUp(path.arena.next_offset, file.align) \in Nat
    BY <1>4, <2>1, AlignUpBounds
  <2>3. QED
    BY <1>1, <2>1, <2>2, PageFacts, BoundAssumption DEF Wish, Fits, Fitting
<1>6. /\ res.status = "running"
      /\ Sane(res.arena, res.accessible)
      /\ path.accessible <= res.accessible
      /\ res.block = [lo |-> res.block.lo, hi |-> res.block.hi]
      /\ res.block.lo \in Nat /\ res.block.hi \in Nat
      /\ path.arena.next_offset <= res.block.lo
      /\ res.block.hi = res.block.lo + file.size
      /\ res.arena.next_offset = res.block.hi
  BY <1>1, <1>2, <1>5, AllocFacts
<1> HIDE DEF res
<1>7. /\ accessible' = res.accessible /\ status' = "running"
      /\ \/ /\ arena' = res.arena
            /\ live' = live \cup Bytes(path.block) \cup Bytes(res.block)
         \/ arena' = arena /\ live' = live
  BY <1>2, <1>3, <1>6
<1>8. /\ path.block.lo \in Nat /\ path.block.hi \in Nat
      /\ res.block.lo \in Nat /\ res.block.hi \in Nat
      /\ path.accessible \in Nat /\ res.accessible \in Nat
      /\ res.arena \in ArenaSet /\ res.block \in BlockSet
      /\ path.block.hi <= res.block.lo /\ res.block.lo <= res.block.hi
      /\ res.block.hi <= res.accessible /\ accessible <= res.accessible
      /\ arena.next_offset <= res.block.hi
      /\ path.block.lo <= res.block.lo /\ arena.next_offset <= res.block.lo
  <2>1. file.size \in Nat
    BY <1>1 DEF Request
  <2>2. QED
    BY <1>2, <1>6, <2>1, Parts DEF Sane, ArenaSet, BlockSet
<1>9. CASE arena' = arena /\ live' = live
  <2>1. TypeOK' /\ (arena.mapped => Sane(arena, accessible))' /\ arena'.mapped
    BY <1>1, <1>3, <1>7, <1>8, <1>9, Parts DEF IInv, TypeOK, Sane
  <2>2. LiveBacked'
    BY <1>7, <1>8, <1>9, Parts DEF IInv, LiveBacked
  <2>3. QED
    BY <1>3, <1>7, <1>9, <2>1, <2>2
       DEF IInv, LiveDisjoint, NeverCrashes, ScopesExact, Nested, ArrayIsOneBlock, ArrayBlock, ArrayEnd
<1>10. CASE arena' = res.arena /\ live' = live \cup Bytes(path.block) \cup Bytes(res.block)
  <2>1. \A b \in live' : \/ b \in live
                         \/ b = path.block /\ b.lo < b.hi
                         \/ b = res.block /\ b.lo < b.hi
    BY <1>10 DEF Bytes
  <2>2. live \subseteq live' /\ live' \subseteq BlockSet
    BY <1>2, <1>8, <1>10, <2>1 DEF IInv, TypeOK
  <2>3. TypeOK'
    BY <1>3, <1>7, <1>8, <1>10, <2>2 DEF IInv, TypeOK
  <2>4. (arena.mapped => Sane(arena, accessible))' /\ arena'.mapped
    BY <1>6, <1>7, <1>10 DEF Sane
  <2>5. LiveDisjoint' /\ (\A b \in live : b.lo < b.hi)'
    <3>1. \A b \in live : b.hi <= path.block.lo /\ b.hi <= res.block.lo
      <4> SUFFICES ASSUME NEW b \in live
                   PROVE  b.hi <= path.block.lo /\ b.hi <= res.block.lo
        OBVIOUS
      <4>1. b.hi \in Nat /\ b.hi <= path.block.lo
        BY <1>2, Parts
      <4>2. QED
        BY <1>8, <4>1
    <3>2. QED
      BY <1>8, <2>1, <3>1 DEF IInv, LiveDisjoint
  <2>6. LiveBacked'
    <3>1. \A b \in live : b.hi <= res.block.hi /\ b.hi <= res.accessible
      <4> SUFFICES ASSUME NEW b \in live
                   PROVE  b.hi <= res.block.hi /\ b.hi <= res.accessible
        OBVIOUS
      <4>1. b.hi \in Nat /\ b.hi <= arena.next_offset /\ b.hi <= accessible
        BY Parts DEF IInv, LiveBacked
      <4>2. QED
        BY <1>8, <4>1, Parts
    <3>2. QED
      BY <1>6, <1>7, <1>8, <1>10, <2>1, <3>1 DEF LiveBacked
  <2>7. NeverCrashes' /\ Nested' /\ ArrayIsOneBlock'
    BY <1>3, <1>7, <2>2 DEF IInv, NeverCrashes, Nested, ArrayIsOneBlock, ArrayBlock, ArrayEnd
  <2>8. ScopesExact'
    <3> SUFFICES ASSUME NEW i \in DOMAIN scratches
                 PROVE  /\ scratches[i].offset <= res.block.hi
                        /\ \A b \in scratches[i].held : b \in live' /\ b.hi <= scratches[i].offset
                        /\ \A b \in live' \ scratches[i].held : b.lo >= scratches[i].offset
      BY <1>3, <1>6, <1>10 DEF ScopesExact
    <3>1. /\ scratches[i].offset \in Nat /\ scratches[i].offset <= arena.next_offset
          /\ arena.next_offset \in Nat
      BY Parts
    <3>2. /\ scratches[i].offset <= path.block.lo /\ scratches[i].offset <= res.block.lo
          /\ scratches[i].offset <= res.block.hi
      <4>1. arena.next_offset <= path.block.lo
        BY <1>2
      <4>2. QED
        BY <1>8, <3>1, <4>1
    <3>3. QED
      BY <1>8, <2>1, <2>2, <3>1, <3>2 DEF IInv, ScopesExact
  <2>9. QED
    BY <2>1, <2>3, <2>4, <2>5, <2>6, <2>7, <2>8 DEF IInv
<1>11. QED
  BY <1>7, <1>9, <1>10

LEMMA FreeMakeStep ==
  ASSUME IInv, Fitting, ArenaFree \/ ArenaMake
  PROVE  IInv'
<1>1. CASE ArenaFree
  <2>1. /\ arena' = Freed /\ accessible' = 0 /\ live' = {} /\ array' = NullArray
        /\ scratches = <<>> /\ scratches' = scratches /\ status' = status
    BY <1>1 DEF ArenaFree, Fitting
  <2>2. TypeOK' /\ ~arena'.mapped
    BY <2>1 DEF IInv, TypeOK, Freed, ArenaSet
  <2>3. QED
    BY <2>1, <2>2 DEF IInv, LiveDisjoint, LiveBacked, NeverCrashes, ScopesExact, Nested, ArrayIsOneBlock
<1>2. CASE ArenaMake
  <2>1. /\ arena' = Fresh /\ accessible' = Commit /\ live = {} /\ array = NullArray
        /\ scratches = <<>> /\ scratches' = scratches /\ status' = status
        /\ live' = live /\ array' = array
    BY <1>2 DEF ArenaMake, IInv
  <2>2. TypeOK' /\ Sane(arena', accessible') /\ arena'.mapped
    BY <2>1, PageFacts DEF IInv, TypeOK, Fresh, ArenaSet, Sane
  <2>3. QED
    BY <2>1, <2>2 DEF IInv, LiveDisjoint, LiveBacked, NeverCrashes, ScopesExact, Nested, ArrayIsOneBlock
<1>3. QED
  BY <1>1, <1>2

LEMMA Inductive == IInv /\ Fitting /\ [Next]_vars => IInv'
<1> SUFFICES ASSUME IInv, Fitting, [Next]_vars PROVE IInv'
  OBVIOUS
<1>1. ASSUME NEW r \in Requests, ArenaAlloc(r) PROVE IInv'
  BY <1>1, AllocStep
<1>2. CASE ArrayStart
  BY <1>2, ArrayStartStep
<1>3. CASE ArrayAdd
  BY <1>3, ArrayAddStep
<1>4. CASE ArrayDone
  BY <1>4, ArrayDoneStep
<1>5. CASE ScratchBegin
  BY <1>5, ScratchBeginStep
<1>6. CASE ScratchClose
  BY <1>6, ScratchCloseStep
<1>7. CASE ArenaClear
  BY <1>7, ArenaClearStep
<1>8. ASSUME NEW name \in ByteRequests, NEW file \in ByteRequests, NEW ok \in BOOLEAN,
             ReadFile(name, file, ok)
      PROVE  IInv'
  BY <1>8, ReadFileStep DEF ByteRequests
<1>9. CASE ArenaFree \/ ArenaMake
  BY <1>9, FreeMakeStep
<1>10. CASE UNCHANGED vars
  BY <1>10 DEF vars, IInv, TypeOK, LiveDisjoint, LiveBacked, NeverCrashes, ScopesExact, Nested,
               ArrayIsOneBlock, ArrayBlock, ArrayEnd
<1>11. QED
  BY <1>1, <1>2, <1>3, <1>4, <1>5, <1>6, <1>7, <1>8, <1>9, <1>10 DEF Next

\* While every request ends inside the reservation, whatever the page size,
\* sizes, alignments and scopes: the variables keep their types.
THEOREM ArenaTypes == ASSUME Fitting PROVE Spec => []TypeOK
<1>1. IInv => TypeOK
  BY DEF IInv
<1>2. IInv /\ [Next]_vars => IInv'
  BY Inductive
<1>3. QED
  BY <1>1, <1>2, InitIInv, PTL DEF Spec

\* Held blocks never share a byte.
THEOREM ArenaBlocksSafe == ASSUME Fitting PROVE Spec => []LiveDisjoint
<1>1. IInv => LiveDisjoint
  BY DEF IInv
<1>2. IInv /\ [Next]_vars => IInv'
  BY Inductive
<1>3. QED
  BY <1>1, <1>2, InitIInv, PTL DEF Spec

\* Held blocks lie below the offset and in memory the OS made accessible, whatever
\* failed file reads did to the committed size.
THEOREM ArenaLiveBacked == ASSUME Fitting PROVE Spec => []LiveBacked
<1>1. IInv => LiveBacked
  BY DEF IInv
<1>2. IInv /\ [Next]_vars => IInv'
  BY Inductive
<1>3. QED
  BY <1>1, <1>2, InitIInv, PTL DEF Spec

\* Neither arena_alloc's ASSERT nor the zeroing of a block crashes the program.
THEOREM ArenaNeverCrashes == ASSUME Fitting PROVE Spec => []NeverCrashes
<1>1. IInv => NeverCrashes
  BY DEF IInv
<1>2. IInv /\ [Next]_vars => IInv'
  BY Inductive
<1>3. QED
  BY <1>1, <1>2, InitIInv, PTL DEF Spec

\* Scratch scopes give back exactly their own blocks.
THEOREM ArenaScopesExact == ASSUME Fitting PROVE Spec => []ScopesExact
<1>1. IInv => ScopesExact
  BY DEF IInv
<1>2. IInv /\ [Next]_vars => IInv'
  BY Inductive
<1>3. QED
  BY <1>1, <1>2, InitIInv, PTL DEF Spec

\* The array that array_add grows stays one held block of all its elements.
THEOREM ArenaArrayIsOneBlock == ASSUME Fitting PROVE Spec => []ArrayIsOneBlock
<1>1. IInv => ArrayIsOneBlock
  BY DEF IInv
<1>2. IInv /\ [Next]_vars => IInv'
  BY Inductive
<1>3. QED
  BY <1>1, <1>2, InitIInv, PTL DEF Spec

-----------------------------------------------------------------------------
(* The refinement: every step of the arena is a step of Allocator.         *)

\* Blocks that keep apart and include the old ones are an allocation.
LEMMA MoreBlocks ==
  ASSUME LiveDisjoint', live \subseteq live'
  PROVE  Blocks!Allocate
  BY DEF LiveDisjoint, Blocks!Allocate, Blocks!Alone, Blocks!Apart

\* array_add either extends the array's block or leaves the blocks alone.
LEMMA ArrayAddGrows ==
  ASSUME IInv, Fitting, ArrayAdd
  PROVE  Blocks!Grow \/ live' = live
<1> DEFINE res == Alloc(arena, accessible, Elem)
           new == [lo |-> array.v, hi |-> res.block.hi]
<1>1. LiveDisjoint'
  BY ArrayAddStep DEF IInv
<1>2. CASE Contiguous(res.block)
  <2>1. arena.mapped /\ Fits(arena, Elem) /\ array # NullArray
    BY DEF ArrayAdd, Usable
  <2>2. res.block.lo <= res.block.hi /\ res.block.lo \in Nat /\ res.block.hi \in Nat
    BY <2>1, ElemFacts, NewBlockAbove DEF BlockSet
  <2>3. live' = (live \ {ArrayBlock}) \cup {new}
    BY <1>2 DEF ArrayAdd
  <2>4. ArrayBlock \in live /\ ArrayBlock.lo = array.v /\ ArrayBlock.hi = ArrayEnd
    BY <2>1 DEF IInv, ArrayIsOneBlock, ArrayBlock
  <2>5. ArrayEnd = res.block.lo
    BY <1>2 DEF Contiguous
  <2>6. new.lo = ArrayBlock.lo /\ ArrayBlock.hi <= new.hi /\ new \in live'
    BY <2>2, <2>3, <2>4, <2>5
  <2> HIDE DEF new
  <2>7. Blocks!Alone(new, live')
    BY <1>1, <2>6 DEF LiveDisjoint, Blocks!Alone, Blocks!Apart
  <2>8. QED
    BY <2>3, <2>4, <2>6, <2>7 DEF Blocks!Grow
<1>3. CASE ~Contiguous(res.block)
  BY <1>3 DEF ArrayAdd
<1>4. QED
  BY <1>2, <1>3

LEMMA StepRefines ==
  ASSUME IInv, Fitting, [Next]_vars
  PROVE  [Blocks!Next]_live
<1>1. LiveDisjoint'
  BY Inductive DEF IInv
<1>2. ASSUME NEW r \in Requests, ArenaAlloc(r) PROVE Blocks!Next
  BY <1>1, <1>2, MoreBlocks DEF ArenaAlloc, Blocks!Next
<1>3. CASE ArrayStart
  BY <1>1, <1>3, MoreBlocks DEF ArrayStart, Blocks!Next
<1>4. CASE ArrayAdd
  BY <1>4, ArrayAddGrows DEF Blocks!Next
<1>5. CASE ScratchClose
  <2>1. scratches # <<>> /\ live' = scratches[Len(scratches)].held
    BY <1>5 DEF ScratchClose
  <2>2. Len(scratches) \in DOMAIN scratches
    BY <2>1 DEF IInv, TypeOK
  <2>3. live' \subseteq live
    BY <2>1, <2>2 DEF IInv, ScopesExact
  <2>4. QED
    BY <2>3 DEF Blocks!Next, Blocks!Release
<1>6. CASE ArenaClear \/ ArenaFree
  BY <1>6 DEF ArenaClear, ArenaFree, Blocks!Next, Blocks!Release
<1>7. ASSUME NEW name \in ByteRequests, NEW file \in ByteRequests, NEW ok \in BOOLEAN,
             ReadFile(name, file, ok)
      PROVE  Blocks!Next \/ live' = live
  <2>1. live \subseteq live'
    BY <1>7 DEF ReadFile
  <2>2. QED
    BY <1>1, <2>1, MoreBlocks DEF Blocks!Next
<1>8. CASE ArrayDone \/ ScratchBegin \/ ArenaMake \/ UNCHANGED vars
  BY <1>8 DEF ArrayDone, ScratchBegin, ArenaMake, vars
<1>9. QED
  BY <1>2, <1>3, <1>4, <1>5, <1>6, <1>7, <1>8 DEF Next

\* Scopes, undone additions, rolled back reads and page commits together behave
\* to the callers as Allocator says.
THEOREM ArenaImplementsAllocator == ASSUME Fitting PROVE Spec => ImplementsAllocator
<1>1. Init => Blocks!Init
  BY DEF Init, Blocks!Init
<1>2. IInv /\ [Next]_vars => IInv'
  BY Inductive
<1>3. IInv /\ [Next]_vars => [Blocks!Next]_live
  BY StepRefines
<1>4. QED
  BY <1>1, <1>2, <1>3, InitIInv, PTL DEF Spec, ImplementsAllocator, Blocks!Spec
=============================================================================
