----------------------- MODULE RepetitionTesterProofs -----------------------
(* What TLAPS proves about RepetitionTester: for every modulus of the timer, *)
(* every number of blocks, tests and waves, and every frequency.             *)
EXTENDS RepetitionTester, TLAPS

LEMMA BoundFacts ==
  /\ W \in Nat \ {0} /\ MaxTick \in Nat /\ MaxBlocks \in Nat /\ MaxCount \in 0 .. W - 1
  /\ Seconds \in Nat /\ Frequencies \subseteq Nat
<1>1. MaxCount \in 0 .. W - 1 /\ W \in Nat
  BY BoundAssumption
<1>2. W # 0
  BY <1>1
<1>3. QED
  BY <1>1, <1>2, BoundAssumption

-----------------------------------------------------------------------------
(* Arithmetic of a timer that wraps.                                       *)

LEMMA ModInWord == ASSUME NEW x \in Int PROVE x % W \in Word
  BY BoundFacts DEF Word

\* A remainder differs from the number by a multiple of W.
LEMMA ModQuotient == ASSUME NEW x \in Int PROVE \E k \in Int : x % W = x + k * W
<1>1. x = W * (x \div W) + (x % W) /\ x \div W \in Int
  BY BoundFacts
<1>2. x % W = x + (-(x \div W)) * W
  BY <1>1, BoundFacts
<1>3. QED
  BY <1>1, <1>2

\* Two words that differ by a multiple of W are the same.
LEMMA WordsEqual ==
  ASSUME NEW x \in Word, NEW y \in Word, NEW k \in Int, x = y + k * W
  PROVE  x = y
<1>1. CASE k >= 1
  <2>1. k * W >= W
    BY <1>1, BoundFacts
  <2>2. QED
    BY <2>1, BoundFacts DEF Word
<1>2. CASE k <= -1
  <2>1. k * W <= -W
    BY <1>2, BoundFacts
  <2>2. QED
    BY <2>1, BoundFacts DEF Word
<1>3. CASE k = 0
  BY <1>3, BoundFacts DEF Word
<1>4. QED
  BY <1>1, <1>2, <1>3

\* o open blocks: while the timer goes on for dt ticks, the lag of the accumulator a behind the
\* time s grows with it; e more blocks are open afterwards (or one less, if e is -1).
LEMMA Lag ==
  ASSUME NEW o \in Int, NEW s \in Int, NEW a \in Int, NEW c \in Int, NEW dt \in Int, NEW e \in Int,
         Lags(a, s, o, c)
  PROVE  Lags((a - e * Plus(c, dt)) % W, s + dt * o, o + e, Plus(c, dt))
<1> DEFINE d == Plus(c, dt)
<1>0. W \in Int
  BY BoundFacts
<1>1. PICK k \in Int : a = s - o * c + k * W
  BY DEF Lags
<1>2. PICK q \in Int : d = (c + dt) + q * W
  BY ModQuotient DEF Plus
<1>3. d \in Int
  BY <1>0, <1>2
<1> HIDE DEF d
<1>4. PICK r \in Int : (a - e * d) % W = (a - e * d) + r * W
  BY <1>3, ModQuotient
<1>5. o * d = o * c + dt * o + (o * q) * W
  BY <1>0, <1>2
<1>6. (o + e) * d = o * d + e * d
  BY <1>3
<1>7. (a - e * d) + r * W = (s + dt * o) - (o + e) * d + (k + r + o * q) * W
  BY <1>0, <1>1, <1>3, <1>5, <1>6
<1>8. k + r + o * q \in Int
  OBVIOUS
<1>9. QED
  BY <1>4, <1>7, <1>8 DEF d, Lags

LEMMA ElapsedZero == ASSUME NEW c \in Word PROVE Minus(c, c) = 0
  BY BoundFacts DEF Minus, Word

\* The time since a start is read from the timer, unless it is too long ago.
LEMMA ElapsedExact ==
  ASSUME NEW c \in Word, NEW start \in Word, NEW dt \in Nat, NEW q \in Nat,
         Minus(c, start) = q, q + dt < W
  PROVE  Minus(Plus(c, dt), start) = q + dt
<1>0. W \in Int /\ c \in Int /\ start \in Int /\ c - start \in Int /\ c + dt \in Int
  BY BoundFacts DEF Word
<1>1. PICK k \in Int : (c - start) % W = (c - start) + k * W
  BY <1>0, ModQuotient
<1>2. PICK l \in Int : (c + dt) % W = (c + dt) + l * W
  BY <1>0, ModQuotient
<1>3. Plus(c, dt) \in Int /\ Plus(c, dt) - start \in Int
  BY <1>0, <1>2 DEF Plus
<1>4. PICK m \in Int : (Plus(c, dt) - start) % W = (Plus(c, dt) - start) + m * W
  BY <1>3, ModQuotient
<1>5. Minus(Plus(c, dt), start) = (q + dt) + (l + m - k) * W
  BY <1>0, <1>1, <1>2, <1>3, <1>4 DEF Minus, Plus
<1>6. Minus(Plus(c, dt), start) \in Word
  BY <1>3, ModInWord DEF Minus
<1>7. q + dt \in Word
  BY BoundFacts DEF Word
<1>8. QED
  BY <1>5, <1>6, <1>7, WordsEqual

-----------------------------------------------------------------------------
(* The bounds of a test.                                                   *)

LEMMA SpentFits ==
  ASSUME NEW n \in Nat, n <= 2 * MaxBlocks
  PROVE  (MaxTick * MaxBlocks) * n < W - 1
<1>1. MaxTick * MaxBlocks \in Nat
  BY BoundFacts
<1>2. (MaxTick * MaxBlocks) * n <= (MaxTick * MaxBlocks) * (2 * MaxBlocks)
  BY <1>1, BoundFacts
<1>3. (MaxTick * MaxBlocks) * (2 * MaxBlocks) = 2 * MaxTick * MaxBlocks * MaxBlocks
  BY BoundFacts
<1>4. QED
  BY <1>1, <1>2, <1>3, BoundFacts, TimerAssumption

\* What the fields of TypeOK are.
LEMMA Fields ==
  ASSUME TypeOK
  PROVE  /\ clock \in Word /\ clock \in Int
         /\ current.accum \in Values /\ current.accum.time \in Word /\ current.accum.count \in Word
         /\ current.begin_block_count \in Nat /\ current.close_block_count \in Nat
         /\ Open \in Int
         /\ ghost.spent \in Nat /\ ghost.counted \in Nat /\ ghost.tests \in Nat /\ ghost.quiet \in Nat
  BY BoundFacts DEF TypeOK, Values, Word, Open

\* A block begins or closes after dt ticks: the time spent so far stays small enough to be exact.
LEMMA SpentGrows ==
  ASSUME TypeOK, TimeInv, NEW dt \in 0 .. MaxTick,
         current.begin_block_count + current.close_block_count + 1 <= 2 * MaxBlocks
  PROVE  /\ ghost.spent + dt * Open \in Nat
         /\ ghost.spent + dt * Open <=
              (MaxTick * MaxBlocks) * (current.begin_block_count + current.close_block_count + 1)
         /\ UpToW(ghost.spent + dt * Open) = ghost.spent + dt * Open
<1> DEFINE K == MaxTick * MaxBlocks
           n == current.begin_block_count + current.close_block_count
<1>1. /\ n \in Nat /\ Open \in 0 .. MaxBlocks /\ ghost.spent \in Nat
  BY Fields, BoundFacts DEF TimeInv, Open
<1>2. K \in Nat /\ dt \in Nat /\ dt <= MaxTick
  BY BoundFacts
<1>3. dt * Open \in Nat /\ dt * Open <= K
  <2>1. dt * Open <= dt * MaxBlocks
    BY <1>1, <1>2, BoundFacts
  <2>2. dt * MaxBlocks <= MaxTick * MaxBlocks
    BY <1>2, BoundFacts
  <2>3. QED
    BY <1>1, <1>2, <2>1, <2>2, BoundFacts
<1>4. ghost.spent <= K * n
  BY DEF TimeInv, MaxSpent
<1> HIDE DEF K, n
<1>5. K * (n + 1) = K * n + K
  BY <1>1, <1>2
<1>6. ghost.spent + dt * Open <= K * (n + 1)
  BY <1>1, <1>2, <1>3, <1>4, <1>5
<1>7. K * (n + 1) < W - 1
  BY <1>1, SpentFits DEF K, n
<1>8. ghost.spent + dt * Open \in Nat
  BY <1>1, <1>3
<1>9. UpToW(ghost.spent + dt * Open) = ghost.spent + dt * Open
  BY <1>1, <1>2, <1>6, <1>7, <1>8, BoundFacts DEF UpToW
<1>10. QED
  BY <1>6, <1>8, <1>9 DEF K, n

LEMMA UpToWNat == ASSUME NEW x \in Nat PROVE UpToW(x) \in Nat
  BY BoundFacts DEF UpToW

\* dt ticks pass for the wave.
LEMMA QuietKept ==
  ASSUME TypeOK, QuietInv, NEW dt \in Nat, Tick(dt), wave' = wave, ghost'.quiet = UpToW(ghost.quiet + dt)
  PROVE  QuietInv'
<1>1. clock \in Word /\ wave.start \in Word /\ ghost.quiet \in Nat
  BY DEF TypeOK
<1>2. clock' = Plus(clock, dt)
  BY DEF Tick
<1>3. CASE ghost.quiet + dt >= W
  <2>1. ghost'.quiet >= W
    BY <1>1, <1>3, BoundFacts DEF UpToW
  <2>2. QED
    BY <2>1 DEF QuietInv
<1>4. CASE ghost.quiet + dt < W
  <2>1. ghost'.quiet = ghost.quiet + dt
    BY <1>1, <1>4, BoundFacts DEF UpToW
  <2>2. Minus(clock, wave.start) = ghost.quiet
    BY <1>1, <1>4, BoundFacts DEF QuietInv
  <2>3. Minus(Plus(clock, dt), wave.start) = ghost.quiet + dt
    BY <1>1, <1>4, <2>2, ElapsedExact
  <2>4. QED
    BY <1>2, <2>1, <2>3 DEF QuietInv, Minus
<1>5. QED
  BY <1>1, <1>3, <1>4, BoundFacts

-----------------------------------------------------------------------------
(* The invariant is inductive.                                             *)

LEMMA InitIInv == Init => IInv
<1> SUFFICES ASSUME Init PROVE IInv
  OBVIOUS
<1>1. W - 1 \in Word /\ 0 \in Word
  BY BoundFacts DEF Word
<1>2. Zero \in Values /\ Zero = [time |-> 0, count |-> 0]
  BY <1>1 DEF Zero, Values
<1>3. NoTest = [accum |-> Zero, begin_block_count |-> 0, close_block_count |-> 0]
  BY DEF NoTest
<1>4. TypeOK
  BY <1>1, <1>2, <1>3 DEF Init, TypeOK
<1>5. Open = 0 /\ current.accum.time = 0 /\ current.accum.count = 0
  BY <1>2, <1>3 DEF Init, Open
<1>6. TimeInv
  <2>1. current.accum.time = ghost.spent - Open * clock + 0 * W
    BY <1>1, <1>5, BoundFacts DEF Init, Word
  <2>2. QED
    BY <1>1, <1>3, <1>5, <2>1, BoundFacts DEF Init, TimeInv, MaxSpent, Lags
<1>7. QED
  BY <1>2, <1>4, <1>5, <1>6, BoundFacts
  DEF Init, IInv, CountInv, BetweenTests, NoTestYet, OnlyTimedCounted, Extremes

\* A step inside a test leaves the results and what they are compared with alone.
LEMMA InsideTest ==
  ASSUME IInv, mode = "TESTING", mode' = "TESTING", results' = results, wave' = wave,
         ghost'.tests = ghost.tests, ghost'.seen = ghost.seen, ghost'.total = ghost.total,
         TypeOK', TimeInv', CountInv', QuietInv'
  PROVE  IInv'
<1>1. OnlyTimedCounted' /\ Extremes'
  BY DEF IInv, OnlyTimedCounted, Extremes
<1>2. ghost'.tests = 0 => NoTestYet'
  BY DEF IInv, NoTestYet
<1>3. wave'.try < W
  BY DEF IInv
<1>4. QED
  BY <1>1, <1>2, <1>3 DEF IInv

LEMMA TickWord == ASSUME clock \in Int, NEW dt \in Nat, Tick(dt) PROVE clock' \in Word
<1>1. clock + dt \in Int
  OBVIOUS
<1>2. QED
  BY <1>1, ModInWord DEF Tick, Plus

\* What a step does to the history while the ticks pass.
LEMMA PassFields ==
  ASSUME TypeOK, NEW dt \in Nat, ghost' = Pass(dt, ghost), UpToW(ghost.spent + dt * Open) \in Nat
  PROVE  /\ ghost' \in [waves : Nat, spent : Nat, counted : Nat, tests : Nat, total : Values,
                        seen : SUBSET [time : Nat, count : Nat], quiet : Nat]
         /\ ghost'.spent = UpToW(ghost.spent + dt * Open)
         /\ ghost'.quiet = UpToW(ghost.quiet + dt)
         /\ ghost'.counted = ghost.counted /\ ghost'.tests = ghost.tests
         /\ ghost'.seen = ghost.seen /\ ghost'.total = ghost.total
<1>1. ghost' = [waves |-> ghost.waves, spent |-> UpToW(ghost.spent + dt * Open),
                counted |-> ghost.counted, tests |-> ghost.tests, total |-> ghost.total,
                seen |-> ghost.seen, quiet |-> UpToW(ghost.quiet + dt)]
  BY DEF TypeOK, Pass
<1>2. UpToW(ghost.quiet + dt) \in Nat
  BY UpToWNat DEF TypeOK
<1>3. QED
  BY <1>1, <1>2 DEF TypeOK

\* A block begins (e = 1) or closes (e = -1).
LEMMA BlockKeeps ==
  ASSUME IInv, mode = "TESTING", mode' = "TESTING", results' = results, wave' = wave,
         NEW dt \in 0 .. MaxTick, Tick(dt), ghost' = Pass(dt, ghost), NEW e \in {1, -1},
         current.begin_block_count + current.close_block_count + 1 <= 2 * MaxBlocks,
         NEW b \in Nat, NEW l \in Nat, l <= b, b <= MaxBlocks, b - l = Open + e,
         b + l = current.begin_block_count + current.close_block_count + 1,
         current' = [accum |-> [time |-> (current.accum.time - e * clock') % W,
                                count |-> current.accum.count],
                     begin_block_count |-> b, close_block_count |-> l]
  PROVE  IInv'
<1>1. TypeOK /\ TimeInv /\ CountInv /\ QuietInv
  BY DEF IInv
<1>2. dt \in Nat /\ W \in Nat
  BY BoundFacts
<1>3. /\ clock \in Int /\ Open \in Int /\ current.accum.time \in Int /\ ghost.spent \in Int
      /\ current.accum.count \in Word
  BY <1>1, Fields, BoundFacts DEF Word
<1>4. clock' \in Word /\ clock' \in Int
  BY <1>2, <1>3, TickWord, BoundFacts DEF Word
<1>5. UpToW(ghost.spent + dt * Open) = ghost.spent + dt * Open /\ ghost.spent + dt * Open \in Nat
  BY <1>1, SpentGrows
<1>6. /\ ghost' \in [waves : Nat, spent : Nat, counted : Nat, tests : Nat, total : Values,
                     seen : SUBSET [time : Nat, count : Nat], quiet : Nat]
      /\ ghost'.spent = ghost.spent + dt * Open
      /\ ghost'.quiet = UpToW(ghost.quiet + dt)
      /\ ghost'.counted = ghost.counted /\ ghost'.tests = ghost.tests
      /\ ghost'.seen = ghost.seen /\ ghost'.total = ghost.total
  BY <1>1, <1>2, <1>5, PassFields
<1>7. (current.accum.time - e * clock') % W \in Word
  <2>1. current.accum.time - e * clock' \in Int
    BY <1>3, <1>4
  <2>2. QED
    BY <2>1, ModInWord
<1>8. TypeOK'
  BY <1>1, <1>3, <1>4, <1>6, <1>7 DEF TypeOK, Values
<1>9. Open' = Open + e
  BY DEF Open
<1>10. Lags(current.accum.time, ghost.spent, Open, clock)'
  <2>1. Lags(current.accum.time, ghost.spent, Open, clock)
    BY <1>1 DEF TimeInv
  <2>2. clock' = Plus(clock, dt)
    BY DEF Tick
  <2>3. Lags((current.accum.time - e * Plus(clock, dt)) % W, ghost.spent + dt * Open,
             Open + e, Plus(clock, dt))
    BY <1>2, <1>3, <2>1, Lag
  <2>4. Lags(current'.accum.time, ghost'.spent, Open', clock')
    BY <1>6, <1>9, <2>2, <2>3
  <2>5. QED
    BY <2>4 DEF Lags
<1>11. ghost'.spent <= MaxSpent'
  BY <1>1, <1>6, SpentGrows DEF MaxSpent
<1>12. TimeInv'
  BY <1>10, <1>11 DEF TimeInv
<1>13. CountInv'
  BY <1>1, <1>6 DEF CountInv
<1>14. QuietInv'
  BY <1>1, <1>2, <1>6, QuietKept
<1>15. QED
  BY <1>6, <1>8, <1>12, <1>13, <1>14, InsideTest

LEMMA BeginTimeIInv ==
  ASSUME IInv, NEW dt \in 0 .. MaxTick, BeginTime(dt)
  PROVE  IInv'
<1>1. TypeOK /\ TimeInv /\ mode = "TESTING" /\ current.begin_block_count < MaxBlocks
  BY DEF IInv, BeginTime
<1>2. /\ current.begin_block_count \in Nat /\ current.close_block_count \in Nat
      /\ current.accum.time \in Int /\ clock' \in Int
  BY <1>1, Fields, TickWord, BoundFacts DEF Word, BeginTime
<1> DEFINE b == current.begin_block_count + 1
           l == current.close_block_count
<1>3. /\ b \in Nat /\ l \in Nat /\ l <= b /\ b <= MaxBlocks /\ b - l = Open + 1
      /\ b + l = current.begin_block_count + current.close_block_count + 1
      /\ b + l <= 2 * MaxBlocks
  BY <1>1, <1>2, BoundFacts DEF TimeInv, Open
<1>4. current' = [accum |-> [time |-> (current.accum.time - 1 * clock') % W,
                             count |-> current.accum.count],
                  begin_block_count |-> b, close_block_count |-> l]
  <2>1. Minus(current.accum.time, clock') = (current.accum.time - 1 * clock') % W
    BY <1>2 DEF Minus
  <2>2. current' = [accum |-> [time |-> Minus(current.accum.time, clock'),
                               count |-> current.accum.count],
                    begin_block_count |-> b, close_block_count |-> l]
    BY <1>1 DEF BeginTime, TypeOK, Values
  <2>3. QED
    BY <2>1, <2>2
<1>5. Tick(dt) /\ ghost' = Pass(dt, ghost) /\ mode' = "TESTING" /\ results' = results /\ wave' = wave
  BY <1>1 DEF BeginTime
<1> HIDE DEF b, l
<1>6. QED
  BY <1>1, <1>3, <1>4, <1>5, BlockKeeps

LEMMA CloseTimeIInv ==
  ASSUME IInv, NEW dt \in 0 .. MaxTick, CloseTime(dt)
  PROVE  IInv'
<1>1. TypeOK /\ TimeInv /\ mode = "TESTING" /\ Open > 0
  BY DEF IInv, CloseTime
<1>2. /\ current.begin_block_count \in Nat /\ current.close_block_count \in Nat
      /\ current.accum.time \in Int /\ clock' \in Int
  BY <1>1, Fields, TickWord, BoundFacts DEF Word, CloseTime
<1> DEFINE b == current.begin_block_count
           l == current.close_block_count + 1
<1>3. /\ b \in Nat /\ l \in Nat /\ l <= b /\ b <= MaxBlocks /\ b - l = Open + (-1)
      /\ b + l = current.begin_block_count + current.close_block_count + 1
      /\ b + l <= 2 * MaxBlocks
  BY <1>1, <1>2, BoundFacts DEF TimeInv, Open
<1>4. current' = [accum |-> [time |-> (current.accum.time - (-1) * clock') % W,
                             count |-> current.accum.count],
                  begin_block_count |-> b, close_block_count |-> l]
  <2>1. Plus(current.accum.time, clock') = (current.accum.time - (-1) * clock') % W
    BY <1>2 DEF Plus
  <2>2. current' = [accum |-> [time |-> Plus(current.accum.time, clock'),
                               count |-> current.accum.count],
                    begin_block_count |-> b, close_block_count |-> l]
    BY <1>1 DEF CloseTime, TypeOK, Values
  <2>3. QED
    BY <2>1, <2>2
<1>5. Tick(dt) /\ ghost' = Pass(dt, ghost) /\ mode' = "TESTING" /\ results' = results /\ wave' = wave
  BY <1>1 DEF CloseTime
<1> HIDE DEF b, l
<1>6. QED
  BY <1>1, <1>3, <1>4, <1>5, BlockKeeps

LEMMA CountIInv ==
  ASSUME IInv, Count
  PROVE  IInv'
<1>1. TypeOK /\ TimeInv /\ CountInv /\ QuietInv /\ mode = "TESTING"
  BY DEF IInv, Count
<1>2. ghost.counted + 1 <= MaxCount
  <2>1. ghost.total.count \in Nat /\ ghost.counted \in Nat
    BY <1>1, BoundFacts DEF TypeOK, Values, Word
  <2>2. ghost.total.count + ghost.counted < MaxCount
    BY DEF Count
  <2>3. QED
    BY <2>1, <2>2, BoundFacts
<1>3. Plus(current.accum.count, 1) = ghost.counted + 1 /\ ghost.counted + 1 \in Word
  BY <1>1, <1>2, Fields, BoundFacts DEF CountInv, Plus, Word
<1>4. current' = [accum |-> [time |-> current.accum.time, count |-> ghost.counted + 1],
                  begin_block_count |-> current.begin_block_count,
                  close_block_count |-> current.close_block_count]
  BY <1>1, <1>3 DEF Count, TypeOK, Values
<1>5. ghost' = [waves |-> ghost.waves, spent |-> ghost.spent, counted |-> ghost.counted + 1,
                tests |-> ghost.tests, total |-> ghost.total, seen |-> ghost.seen, quiet |-> ghost.quiet]
  BY <1>1 DEF Count, TypeOK
<1>6. clock' = clock /\ mode' = mode /\ wave' = wave /\ results' = results
  BY DEF Count
<1>7. TypeOK'
  BY <1>1, <1>3, <1>4, <1>5, <1>6 DEF TypeOK, Values
<1>8. TimeInv'
  BY <1>1, <1>4, <1>5, <1>6 DEF TimeInv, MaxSpent, Open, Lags
<1>9. CountInv'
  BY <1>2, <1>4, <1>5 DEF CountInv
<1>10. QuietInv'
  BY <1>1, <1>5, <1>6 DEF QuietInv, Minus
<1>11. QED
  BY <1>1, <1>5, <1>6, <1>7, <1>8, <1>9, <1>10, InsideTest

LEMMA IsTestingUnevenIInv ==
  ASSUME IInv, NEW dt \in 1 .. MaxTick, IsTestingUneven(dt)
  PROVE  IInv'
<1>1. TypeOK /\ TimeInv /\ CountInv /\ mode = "TESTING" /\ Open # 0
  BY DEF IInv, IsTestingUneven
<1>2. dt \in Nat /\ Open \in Nat /\ clock \in Int /\ ghost.spent \in Nat
  BY <1>1, Fields, BoundFacts DEF TimeInv, Open
<1>3. UpToW(ghost.spent + dt * Open) \in Nat
  <2>1. ghost.spent + dt * Open \in Nat
    BY <1>2
  <2>2. QED
    BY <2>1, UpToWNat
<1>4. /\ current' = current /\ results' = results /\ wave' = wave /\ mode' = "ERROR" /\ Open' = Open
      /\ Tick(dt) /\ ghost' = Pass(dt, ghost)
  BY DEF IsTestingUneven, Open
<1>5. /\ ghost' \in [waves : Nat, spent : Nat, counted : Nat, tests : Nat, total : Values,
                     seen : SUBSET [time : Nat, count : Nat], quiet : Nat]
      /\ ghost'.counted = ghost.counted /\ ghost'.tests = ghost.tests
      /\ ghost'.seen = ghost.seen /\ ghost'.total = ghost.total
  BY <1>1, <1>2, <1>3, <1>4, PassFields
<1>6. clock' \in Word
  BY <1>2, <1>4, TickWord
<1>7. TypeOK'
  BY <1>1, <1>4, <1>5, <1>6 DEF TypeOK
<1>8. CountInv' /\ OnlyTimedCounted' /\ Extremes'
  BY <1>1, <1>4, <1>5 DEF IInv, CountInv, OnlyTimedCounted, Extremes
<1>9. ghost'.tests = 0 => NoTestYet'
  BY <1>1, <1>4, <1>5 DEF IInv, NoTestYet
<1>10. QED
  BY <1>1, <1>4, <1>7, <1>8, <1>9 DEF IInv

LEMMA IsTestingUntimedIInv ==
  ASSUME IInv, NEW dt \in 1 .. MaxTick, IsTestingUntimed(dt)
  PROVE  IInv'
<1>1. /\ TypeOK /\ TimeInv /\ CountInv /\ QuietInv /\ mode = "TESTING"
      /\ current.begin_block_count = 0 /\ ghost.counted = 0
  BY DEF IInv, IsTestingUntimed
<1>2. dt \in Nat /\ clock \in Int /\ ghost.spent \in Nat /\ current.close_block_count = 0
  BY <1>1, Fields, BoundFacts DEF TimeInv
<1>3. ghost.spent = 0
  <2>1. MaxTick * MaxBlocks \in Nat
    BY BoundFacts
  <2>2. (MaxTick * MaxBlocks) * (0 + 0) = 0
    BY <2>1
  <2>3. QED
    BY <1>1, <1>2, <2>2 DEF TimeInv, MaxSpent
<1>4. ghost' = [waves |-> ghost.waves, spent |-> 0, counted |-> 0, tests |-> ghost.tests,
                total |-> ghost.total, seen |-> ghost.seen, quiet |-> UpToW(ghost.quiet + dt)]
  BY <1>1 DEF IsTestingUntimed, NextTest, Pass, TypeOK
<1>5. /\ current' = current /\ results' = results /\ wave' = wave /\ mode' = mode /\ Tick(dt)
  BY DEF IsTestingUntimed
<1>6. clock' \in Word /\ clock' \in Int
  BY <1>2, <1>5, TickWord, BoundFacts DEF Word
<1>7. UpToW(ghost.quiet + dt) \in Nat
  BY <1>1, <1>2, UpToWNat DEF TypeOK
<1>8. TypeOK'
  BY <1>1, <1>4, <1>5, <1>6, <1>7 DEF TypeOK
<1>9. TimeInv'
  <2>1. Open = 0 /\ Open' = 0
    BY <1>1, <1>2, <1>5 DEF Open
  <2>2. PICK k \in Int : current.accum.time = 0 - 0 * clock + k * W
    BY <1>1, <1>3, <2>1 DEF TimeInv, Lags
  <2>3. current.accum.time = 0 - 0 * clock' + k * W
    BY <1>2, <1>6, <2>2
  <2>4. Lags(current'.accum.time, ghost'.spent, Open', clock')
    BY <1>4, <1>5, <2>1, <2>3 DEF Lags
  <2>5. ghost'.spent <= MaxSpent'
    BY <1>1, <1>3, <1>4, <1>5 DEF TimeInv, MaxSpent
  <2>6. QED
    BY <1>1, <1>5, <2>4, <2>5 DEF TimeInv, Lags
<1>10. CountInv'
  BY <1>1, <1>4, <1>5 DEF CountInv
<1>11. QuietInv'
  BY <1>1, <1>2, <1>4, <1>5, QuietKept
<1>12. QED
  BY <1>1, <1>4, <1>5, <1>8, <1>9, <1>10, <1>11, InsideTest

LEMMA NewWaveIInv ==
  ASSUME IInv, NEW frequency \in Frequencies, NEW pmc \in BOOLEAN, NewWave(frequency, pmc)
  PROVE  IInv'
<1>1. TypeOK /\ CountInv /\ OnlyTimedCounted /\ Extremes /\ mode # "TESTING"
  BY DEF IInv, NewWave
<1>2. /\ clock' = clock /\ current' = current /\ Open' = Open
      /\ wave' = [frequency |-> IF mode = "UNINITIALIZED" THEN frequency ELSE wave.frequency,
                  try |-> Seconds * frequency, start |-> clock]
      /\ results' = IF mode = "UNINITIALIZED"
                    THEN [results EXCEPT !.min = [time |-> W - 1, count |-> results.min.count]] ELSE results
  BY <1>1 DEF NewWave, Open, TypeOK, Values
<1>3. ghost' = [waves |-> ghost.waves + 1, spent |-> ghost.spent, counted |-> ghost.counted,
                tests |-> ghost.tests, total |-> ghost.total, seen |-> ghost.seen, quiet |-> 0]
  BY <1>1 DEF NewWave, TypeOK
<1>4. Seconds * frequency \in Nat /\ Seconds * frequency < W
  <2>1. frequency \in Nat /\ Seconds * frequency \in Nat
    BY BoundFacts
  <2>2. MaxTick * (2 * MaxBlocks + MaxCount + 1) \in Nat
    BY BoundFacts
  <2>3. Seconds * frequency + MaxTick * (2 * MaxBlocks + MaxCount + 1) < W
    BY TimerAssumption
  <2>4. QED
    BY <2>1, <2>2, <2>3, BoundFacts
<1>5. /\ mode' \in {"TESTING", "ERROR"}
      /\ mode' = "TESTING" => mode \in {"UNINITIALIZED", "COMPLETE"}
  <2>1. CASE mode = "UNINITIALIZED"
    BY <2>1 DEF NewWave
  <2>2. CASE mode = "COMPLETE"
    BY <2>2 DEF NewWave
  <2>3. CASE mode = "ERROR"
    <3>1. mode' = mode
      BY <2>3 DEF NewWave
    <3>2. QED
      BY <2>3, <3>1
  <2>4. QED
    BY <1>1, <2>1, <2>2, <2>3 DEF TypeOK
<1>6. W - 1 \in Word
  BY BoundFacts DEF Word
<1>7. TypeOK'
  <2>1. wave' \in [frequency : Nat, try : Nat, start : Word]
    BY <1>1, <1>2, <1>4, BoundFacts DEF TypeOK
  <2>2. results' \in [test_count : Nat, min : Values, max : Values, total : Values]
    BY <1>1, <1>2, <1>6 DEF TypeOK, Values
  <2>3. QED
    BY <1>1, <1>2, <1>3, <1>5, <2>1, <2>2 DEF TypeOK
<1>8. mode' = "TESTING" \/ Open' = 0 => TimeInv'
  <2>1. SUFFICES ASSUME mode' = "TESTING" \/ Open' = 0 PROVE TimeInv'
    OBVIOUS
  <2>2. Open = 0
    BY <1>2, <1>5, <2>1 DEF IInv, BetweenTests, NoTest, Open
  <2>3. TimeInv
    BY <2>2 DEF IInv
  <2>4. QED
    BY <1>2, <1>3, <2>3 DEF TimeInv, MaxSpent, Lags
<1>9. CountInv'
  BY <1>1, <1>2, <1>3 DEF CountInv
<1>10. ghost'.tests = 0 => NoTestYet'
  <2>1. SUFFICES ASSUME ghost'.tests = 0 PROVE NoTestYet'
    OBVIOUS
  <2>2. NoTestYet
    BY <1>3, <2>1 DEF IInv
  <2>3. results'.max = Zero /\ results'.min.time = W - 1
    BY <1>1, <1>2, <2>2 DEF NoTestYet, TypeOK
  <2>4. QED
    BY <1>3, <2>2, <2>3 DEF NoTestYet
<1>11. wave'.try < W /\ QuietInv'
  <2>1. clock \in Word
    BY <1>1 DEF TypeOK
  <2>2. Minus(clock, clock) = 0
    BY <2>1, ElapsedZero
  <2>3. QED
    BY <1>2, <1>3, <1>4, <2>2 DEF QuietInv, Minus
<1>12. OnlyTimedCounted' /\ Extremes'
  <2>1. CASE mode = "UNINITIALIZED"
    <3>1. ghost.tests = 0
      BY <2>1 DEF IInv
    <3>2. results'.test_count = results.test_count /\ results'.total = results.total
      BY <1>1, <1>2 DEF TypeOK
    <3>3. QED
      BY <1>1, <1>3, <3>1, <3>2 DEF OnlyTimedCounted, Extremes
  <2>2. CASE mode # "UNINITIALIZED"
    BY <1>1, <1>2, <1>3, <2>2 DEF OnlyTimedCounted, Extremes
  <2>3. QED
    BY <2>1, <2>2
<1>13. QED
  BY <1>5, <1>7, <1>8, <1>9, <1>10, <1>11, <1>12 DEF IInv

\* A test that is even is recorded as it was: its accumulator is what really happened in it.
LEMMA TestExact ==
  ASSUME TypeOK, TimeInv, CountInv, Open = 0
  PROVE  /\ current.accum = [time |-> ghost.spent, count |-> ghost.counted]
         /\ ghost.spent < W - 1
<1>1. /\ current.accum \in Values /\ current.accum.time \in Word /\ ghost.spent \in Nat
      /\ current.begin_block_count \in Nat /\ current.close_block_count \in Nat /\ clock \in Int
  BY Fields
<1>2. current.begin_block_count + current.close_block_count <= 2 * MaxBlocks
  BY <1>1, BoundFacts DEF TimeInv
<1>3. ghost.spent < W - 1
  <2>1. MaxSpent < W - 1
    BY <1>1, <1>2, SpentFits DEF MaxSpent
  <2>2. MaxSpent \in Int
    BY <1>1, BoundFacts DEF MaxSpent
  <2>3. QED
    BY <1>1, <2>1, <2>2, BoundFacts DEF TimeInv
<1>4. ghost.spent \in Word
  BY <1>1, <1>3, BoundFacts DEF Word
<1>5. PICK k \in Int : current.accum.time = ghost.spent - Open * clock + k * W
  BY DEF TimeInv, Lags
<1>6. current.accum.time = ghost.spent + k * W
  BY <1>1, <1>5, BoundFacts
<1>7. current.accum.time = ghost.spent
  BY <1>1, <1>4, <1>6, WordsEqual
<1>8. QED
  BY <1>1, <1>3, <1>7 DEF CountInv, Values

LEMMA SumValues ==
  ASSUME NEW a \in Values, NEW b \in Values
  PROVE  Sum(a, b) \in Values
<1>1. /\ a.time + b.time \in Int /\ a.count + b.count \in Int
  BY BoundFacts DEF Values, Word
<1>2. Plus(a.time, b.time) \in Word /\ Plus(a.count, b.count) \in Word
  BY <1>1, ModInWord DEF Plus
<1>3. QED
  BY <1>2 DEF Sum, Values

\* What the history says of a test that has come to an end.
LEMMA RecordFields ==
  ASSUME TypeOK, TimeInv, CountInv, Open = 0, NEW dt \in Nat
  PROVE  Record(Pass(dt, ghost)) =
           [waves |-> ghost.waves, spent |-> ghost.spent, counted |-> ghost.counted,
            tests |-> ghost.tests + 1, total |-> Sum(ghost.total, current.accum),
            seen |-> Ends(ghost.seen \cup {current.accum}), quiet |-> UpToW(ghost.quiet + dt)]
<1> DEFINE g == Pass(dt, ghost)
<1>1. ghost.spent \in Nat /\ ghost.spent < W - 1
  BY Fields, TestExact
<1>2. UpToW(ghost.spent + dt * Open) = ghost.spent
  BY <1>1, BoundFacts DEF UpToW
<1>3. Pass(dt, ghost) = [ghost EXCEPT !.spent = ghost.spent, !.quiet = UpToW(ghost.quiet + dt)]
  BY <1>2 DEF Pass
<1>4. g = [waves |-> ghost.waves, spent |-> ghost.spent,
           counted |-> ghost.counted, tests |-> ghost.tests, total |-> ghost.total,
           seen |-> ghost.seen, quiet |-> UpToW(ghost.quiet + dt)]
  <2> SUFFICES ASSUME NEW h, h = Pass(dt, ghost)
               PROVE  h = [waves |-> ghost.waves, spent |-> ghost.spent,
                           counted |-> ghost.counted, tests |-> ghost.tests, total |-> ghost.total,
                           seen |-> ghost.seen, quiet |-> UpToW(ghost.quiet + dt)]
    OBVIOUS
  <2>1. QED
    BY <1>3 DEF TypeOK
<1>5. [time |-> g.spent, count |-> g.counted] = current.accum
  BY <1>4, TestExact
<1> HIDE DEF g
<1>6. Record(g) = [g EXCEPT !.tests = @ + 1, !.total = Sum(@, current.accum),
                            !.seen = Ends(@ \cup {current.accum})]
  BY <1>5 DEF Record
<1>7. [g EXCEPT !.tests = @ + 1, !.total = Sum(@, current.accum), !.seen = Ends(@ \cup {current.accum})]
      = [waves |-> ghost.waves, spent |-> ghost.spent, counted |-> ghost.counted,
         tests |-> ghost.tests + 1, total |-> Sum(ghost.total, current.accum),
         seen |-> Ends(ghost.seen \cup {current.accum}), quiet |-> UpToW(ghost.quiet + dt)]
  <2> SUFFICES ASSUME NEW h, h = [g EXCEPT !.tests = @ + 1, !.total = Sum(@, current.accum),
                                           !.seen = Ends(@ \cup {current.accum})]
               PROVE  h = [waves |-> ghost.waves, spent |-> ghost.spent, counted |-> ghost.counted,
                           tests |-> ghost.tests + 1, total |-> Sum(ghost.total, current.accum),
                           seen |-> Ends(ghost.seen \cup {current.accum}),
                           quiet |-> UpToW(ghost.quiet + dt)]
    OBVIOUS
  <2>1. /\ g.tests = ghost.tests /\ g.total = ghost.total /\ g.seen = ghost.seen
    BY <1>4
  <2>2. h = [g EXCEPT !.tests = ghost.tests + 1, !.total = Sum(ghost.total, current.accum),
                      !.seen = Ends(ghost.seen \cup {current.accum})]
    BY <2>1
  <2>3. QED
    BY <1>4, <2>2
<1>8. QED
  BY <1>6, <1>7 DEF g

\* The extremes of the tests stay the extremes when a test is merged.
LEMMA MergeExtremes ==
  ASSUME IInv, mode = "TESTING", Open = 0
  PROVE  LET r == Merge(results, current.accum)
             seen == Ends(ghost.seen \cup {current.accum})
         IN  /\ r.min \in seen
             /\ r.max \in seen \cup {Zero}
             /\ \A t \in seen : r.min.time <= t.time /\ t.time <= r.max.time
<1> DEFINE r == Merge(results, current.accum)
           test == current.accum
           tests == ghost.seen \cup {test}
           seen == Ends(tests)
<1> SUFFICES /\ r.min \in seen
             /\ r.max \in seen \cup {Zero}
             /\ \A t \in seen : r.min.time <= t.time /\ t.time <= r.max.time
  OBVIOUS
<1>1. TypeOK /\ TimeInv /\ CountInv
  BY DEF IInv
<1>2. /\ test.time \in Nat /\ test.time < W - 1 /\ W \in Nat
      /\ \A t \in ghost.seen : t.time \in Nat
      /\ results.min.time \in Nat /\ results.max.time \in Nat
  BY <1>1, TestExact, BoundFacts DEF TypeOK, Values, Word
<1>3. /\ r.max = IF test.time > results.max.time THEN test ELSE results.max
      /\ r.min = IF test.time < results.min.time THEN test ELSE results.min
  BY DEF Merge
<1>4. Zero.time = 0
  BY DEF Zero
<1> HIDE DEF r
<1>5. CASE ghost.tests = 0
  <2>1. ghost.seen = {} /\ results.max = Zero /\ results.min.time = W - 1
    BY <1>5 DEF IInv, NoTestYet
  <2>2. seen = {test}
    BY <1>2, <2>1 DEF Ends
  <2>3. r.min = test
    BY <1>2, <1>3, <2>1
  <2>4. r.max \in {test, Zero} /\ test.time <= r.max.time
    BY <1>2, <1>3, <1>4, <2>1
  <2>5. r.max \in seen \cup {Zero}
    BY <2>2, <2>4
  <2> HIDE DEF seen, test
  <2>6. \A t \in seen : t = test
    BY <2>2
  <2>7. test.time <= test.time
    BY <1>2
  <2>8. QED
    BY <2>2, <2>3, <2>4, <2>5, <2>6, <2>7
<1>6. CASE ghost.tests # 0
  <2>1. /\ results.min \in ghost.seen /\ results.max \in ghost.seen \cup {Zero}
        /\ \A t \in ghost.seen : results.min.time <= t.time /\ t.time <= results.max.time
    BY <1>1, <1>6 DEF IInv, Extremes, TypeOK
  <2>2. r.min \in tests /\ \A u \in tests : r.min.time <= u.time
    BY <1>2, <1>3, <2>1
  <2>3. r.max \in tests \cup {Zero} /\ \A u \in tests : r.max.time >= u.time
    BY <1>2, <1>3, <2>1
  <2>4. r.min \in seen
    BY <2>2 DEF Ends
  <2>5. r.max \in seen \cup {Zero}
    BY <2>3 DEF Ends
  <2>6. \A t \in seen : t \in tests
    BY DEF Ends
  <2>7. \A t \in seen : t.time \in Nat
    BY <1>2, <2>6
  <2>8. QED
    BY <2>2, <2>3, <2>4, <2>5, <2>6
<1>7. QED
  BY <1>1, <1>5, <1>6

\* What is_testing does with an even test.
LEMMA EvenFields ==
  ASSUME IInv, NEW dt \in 1 .. MaxTick, IsTestingEven(dt)
  PROVE  LET accum == current.accum
             start == IF Restart(accum) THEN clock' ELSE wave.start
             quiet == IF Restart(accum) THEN 0 ELSE UpToW(ghost.quiet + dt)
         IN  /\ Tick(dt) /\ results' = Merge(results, accum) /\ current' = NoTest
             /\ mode' \in {"TESTING", "COMPLETE"}
             /\ wave' = [frequency |-> wave.frequency, try |-> wave.try, start |-> start]
             /\ ghost' = [waves |-> ghost.waves, spent |-> 0, counted |-> 0, tests |-> ghost.tests + 1,
                          total |-> Sum(ghost.total, accum), seen |-> Ends(ghost.seen \cup {accum}),
                          quiet |-> quiet]
             /\ QuietInv'
<1> DEFINE accum == current.accum
           start == IF Restart(accum) THEN clock' ELSE wave.start
           quiet == IF Restart(accum) THEN 0 ELSE UpToW(ghost.quiet + dt)
<1>1. /\ TypeOK /\ TimeInv /\ CountInv /\ OnlyTimedCounted /\ QuietInv
      /\ mode = "TESTING" /\ Open = 0
  BY DEF IInv, IsTestingEven
<1>2. dt \in Nat /\ clock \in Int /\ accum \in Values
  BY <1>1, Fields, BoundFacts
<1>3. accum = [time |-> ghost.spent, count |-> ghost.counted]
  BY <1>1, TestExact
<1>4. /\ Tick(dt) /\ results' = Merge(results, accum) /\ current' = NoTest
      /\ mode' \in {"TESTING", "COMPLETE"}
  BY <1>1 DEF IsTestingEven, Reset
<1>5. clock' \in Word /\ clock' \in Int
  BY <1>2, <1>4, TickWord, BoundFacts DEF Word
<1>6. wave' = [frequency |-> wave.frequency, try |-> wave.try, start |-> start]
  BY <1>1 DEF IsTestingEven, TypeOK
<1>7. ghost' = [waves |-> ghost.waves, spent |-> 0, counted |-> 0, tests |-> ghost.tests + 1,
                total |-> Sum(ghost.total, accum), seen |-> Ends(ghost.seen \cup {accum}),
                quiet |-> quiet]
  <2> DEFINE g == Record(Pass(dt, ghost))
  <2>1. g = [waves |-> ghost.waves, spent |-> ghost.spent, counted |-> ghost.counted,
             tests |-> ghost.tests + 1, total |-> Sum(ghost.total, accum),
             seen |-> Ends(ghost.seen \cup {accum}), quiet |-> UpToW(ghost.quiet + dt)]
    BY <1>1, <1>2, RecordFields
  <2>2. ghost' = NextTest(IF Restart(accum) THEN [g EXCEPT !.quiet = 0] ELSE g)
    BY DEF IsTestingEven, Restart
  <2> HIDE DEF g, accum
  <2>3. CASE Restart(accum)
    BY <2>1, <2>2, <2>3 DEF NextTest
  <2>4. CASE ~Restart(accum)
    BY <2>1, <2>2, <2>4 DEF NextTest
  <2>5. QED
    BY <2>3, <2>4
<1>8. QuietInv'
  <2>1. CASE Restart(accum)
    <3>1. Minus(clock', clock') = 0
      BY <1>5, ElapsedZero
    <3>2. wave'.start = clock' /\ ghost'.quiet = 0
      BY <1>6, <1>7, <2>1
    <3>3. Minus(clock', wave'.start) = ghost'.quiet
      BY <3>1, <3>2
    <3>4. QED
      BY <3>3 DEF QuietInv, Minus
  <2>2. CASE ~Restart(accum)
    <3>1. wave' = wave
      BY <1>1, <1>6, <2>2 DEF TypeOK
    <3>2. ghost'.quiet = UpToW(ghost.quiet + dt)
      BY <1>7, <2>2
    <3>3. QED
      BY <1>1, <1>2, <1>4, <3>1, <3>2, QuietKept
  <2>3. QED
    BY <2>1, <2>2
<1>9. QED
  BY <1>4, <1>6, <1>7, <1>8

LEMMA IsTestingEvenIInv ==
  ASSUME IInv, NEW dt \in 1 .. MaxTick, IsTestingEven(dt)
  PROVE  IInv'
<1> DEFINE accum == current.accum
           start == IF Restart(accum) THEN clock' ELSE wave.start
           quiet == IF Restart(accum) THEN 0 ELSE UpToW(ghost.quiet + dt)
<1>1. /\ TypeOK /\ TimeInv /\ CountInv /\ OnlyTimedCounted /\ QuietInv
      /\ mode = "TESTING" /\ Open = 0
  BY DEF IInv, IsTestingEven
<1>2. dt \in Nat /\ clock \in Int /\ accum \in Values
  BY <1>1, Fields, BoundFacts
<1>3. accum = [time |-> ghost.spent, count |-> ghost.counted]
  BY <1>1, TestExact
<1>4. /\ Tick(dt) /\ results' = Merge(results, accum) /\ current' = NoTest
      /\ mode' \in {"TESTING", "COMPLETE"}
  BY EvenFields
<1>5. clock' \in Word /\ clock' \in Int
  BY <1>2, <1>4, TickWord, BoundFacts DEF Word
<1>6. wave' = [frequency |-> wave.frequency, try |-> wave.try, start |-> start]
  BY EvenFields
<1>7. ghost' = [waves |-> ghost.waves, spent |-> 0, counted |-> 0, tests |-> ghost.tests + 1,
                total |-> Sum(ghost.total, accum), seen |-> Ends(ghost.seen \cup {accum}),
                quiet |-> quiet]
  BY EvenFields
<1>8. /\ results'.test_count = results.test_count + 1 /\ results'.total = Sum(results.total, accum)
      /\ results'.min = (IF accum.time < results.min.time THEN accum ELSE results.min)
      /\ results'.max = (IF accum.time > results.max.time THEN accum ELSE results.max)
      /\ results' \in [test_count : Nat, min : Values, max : Values, total : Values]
  <2>1. Sum(results.total, accum) \in Values
    BY <1>1, <1>2, SumValues DEF TypeOK
  <2>2. QED
    BY <1>1, <1>2, <1>4, <2>1 DEF Merge, TypeOK
<1>9. start \in Word /\ quiet \in Nat
  <2>1. wave.start \in Word /\ ghost.quiet + dt \in Nat
    BY <1>1, <1>2 DEF TypeOK
  <2>2. QED
    BY <1>5, <2>1, UpToWNat
<1>10. current' = [accum |-> Zero, begin_block_count |-> 0, close_block_count |-> 0]
  BY <1>4 DEF NoTest
<1>11. Zero \in Values /\ Zero.time = 0 /\ Zero.count = 0
  BY BoundFacts DEF Zero, Values, Word
<1>12. TypeOK'
  <2>1. wave' \in [frequency : Nat, try : Nat, start : Word]
    BY <1>1, <1>6, <1>9 DEF TypeOK
  <2>2. current' \in [accum : Values, begin_block_count : Nat, close_block_count : Nat]
    BY <1>10, <1>11
  <2>3. Sum(ghost.total, accum) \in Values
    BY <1>1, <1>2, SumValues DEF TypeOK
  <2>4. Ends(ghost.seen \cup {accum}) \in SUBSET [time : Nat, count : Nat]
    <3>1. accum \in [time : Nat, count : Nat]
      BY <1>1, <1>3, Fields
    <3>2. ghost.seen \cup {accum} \subseteq [time : Nat, count : Nat]
      BY <1>1, <3>1 DEF TypeOK
    <3>3. QED
      BY <3>2 DEF Ends
  <2>5. ghost.waves \in Nat /\ ghost.tests + 1 \in Nat
    BY <1>1 DEF TypeOK
  <2> HIDE DEF accum, quiet
  <2>6. ghost' \in [waves : Nat, spent : Nat, counted : Nat, tests : Nat, total : Values,
                    seen : SUBSET [time : Nat, count : Nat], quiet : Nat]
    BY <1>7, <1>9, <2>3, <2>4, <2>5
  <2>7. QED
    BY <1>4, <1>5, <1>8, <2>1, <2>2, <2>6 DEF TypeOK
<1>13. TimeInv'
  <2>1. Open' = 0
    BY <1>10 DEF Open
  <2>2. current'.accum.time = 0 - 0 * clock' + 0 * W
    BY <1>5, <1>10, <1>11, BoundFacts
  <2>3. Lags(current.accum.time, ghost.spent, Open, clock)'
    <3>1. Lags(current'.accum.time, ghost'.spent, Open', clock')
      BY <1>7, <2>1, <2>2 DEF Lags
    <3>2. QED
      BY <3>1 DEF Lags
  <2>4. (MaxTick * MaxBlocks) * (0 + 0) = 0
    BY BoundFacts
  <2>5. ghost'.spent <= MaxSpent'
    BY <1>7, <1>10, <2>4 DEF MaxSpent
  <2>6. QED
    BY <1>10, <2>3, <2>5, BoundFacts DEF TimeInv
<1>14. CountInv' /\ BetweenTests'
  BY <1>4, <1>7, <1>10, <1>11, BoundFacts DEF CountInv, BetweenTests
<1>15. ghost'.tests # 0
  BY <1>1, <1>7 DEF TypeOK
<1>16. wave'.try < W
  BY <1>1, <1>6 DEF IInv
<1>17. QuietInv'
  BY EvenFields
<1>18. OnlyTimedCounted'
  BY <1>1, <1>7, <1>8 DEF OnlyTimedCounted
<1>19. Extremes'
  BY <1>1, <1>4, <1>7, MergeExtremes DEF Extremes
<1>20. QED
  BY <1>4, <1>12, <1>13, <1>14, <1>15, <1>16, <1>17, <1>18, <1>19 DEF IInv

LEMMA NextIInv ==
  ASSUME IInv, [Next]_vars
  PROVE  IInv'
<1>1. ASSUME NEW dt \in 0 .. MaxTick, BeginTime(dt) PROVE IInv'
  BY <1>1, BeginTimeIInv
<1>2. ASSUME NEW dt \in 0 .. MaxTick, CloseTime(dt) PROVE IInv'
  BY <1>2, CloseTimeIInv
<1>3. ASSUME NEW dt \in 1 .. MaxTick, IsTestingEven(dt) PROVE IInv'
  BY <1>3, IsTestingEvenIInv
<1>4. ASSUME NEW dt \in 1 .. MaxTick, IsTestingUneven(dt) PROVE IInv'
  BY <1>4, IsTestingUnevenIInv
<1>5. ASSUME NEW dt \in 1 .. MaxTick, IsTestingUntimed(dt) PROVE IInv'
  BY <1>5, IsTestingUntimedIInv
<1>6. ASSUME Count PROVE IInv'
  BY <1>6, CountIInv
<1>7. ASSUME NEW frequency \in Frequencies, NEW pmc \in BOOLEAN, NewWave(frequency, pmc) PROVE IInv'
  BY <1>7, NewWaveIInv
<1>8. CASE UNCHANGED vars
  BY <1>8 DEF vars, IInv, TypeOK, TimeInv, MaxSpent, Open, Lags, CountInv, BetweenTests, NoTestYet,
              QuietInv, Minus, OnlyTimedCounted, Extremes
<1>9. QED
  BY <1>1, <1>2, <1>3, <1>4, <1>5, <1>6, <1>7, <1>8 DEF Next, Run, Done

LEMMA Invariance == Spec => []IInv
<1>1. Init => IInv
  BY InitIInv
<1>2. IInv /\ [Next]_vars => IInv'
  BY NextIInv
<1>3. QED
  BY <1>1, <1>2, PTL DEF Spec

-----------------------------------------------------------------------------
\* An even test has accumulated exactly the ticks spent in its blocks, for every modulus of the
\* timer in which a test fits, however often it wraps and however blocks follow or enclose each
\* other (repetition_tester_begin_time and _close_time).
THEOREM RepetitionTesterTimesExact == Spec => []TimesExact
<1>1. IInv => TimesExact
  <2> SUFFICES ASSUME IInv, Open = 0 PROVE current.accum.time = ghost.spent
    BY DEF TimesExact
  <2>1. TypeOK /\ TimeInv /\ CountInv
    BY DEF IInv
  <2>2. QED
    BY <2>1, TestExact
<1>2. QED
  BY <1>1, Invariance, PTL

\* The minimum and the maximum of repetition_tester_is_testing are whole tests that were run, and
\* no test was faster or slower, over all waves of a tester.
THEOREM RepetitionTesterExtremes == Spec => []Extremes
<1>1. IInv => Extremes
  BY DEF IInv
<1>2. QED
  BY <1>1, Invariance, PTL

\* The totals and the number of tests are those of the tests that had timing blocks.
THEOREM RepetitionTesterOnlyTimedCounted == Spec => []OnlyTimedCounted
<1>1. IInv => OnlyTimedCounted
  BY DEF IInv
<1>2. QED
  BY <1>1, Invariance, PTL

\* A wave completes only when no new minimum came up for the time to try, for every frequency
\* whose time to try fits the timer.
THEOREM RepetitionTesterQuiet == Spec => QuietBeforeComplete
<1>1. IInv /\ [Next]_vars => [mode' = "COMPLETE" /\ mode # "COMPLETE" => ghost'.quiet > wave.try]_vars
  <2> SUFFICES ASSUME IInv, [Next]_vars, mode' = "COMPLETE", mode # "COMPLETE"
               PROVE  ghost'.quiet > wave.try
    OBVIOUS
  <2>1. PICK dt \in 1 .. MaxTick : IsTestingEven(dt)
    BY DEF Next, Run, Done, BeginTime, CloseTime, IsTestingUneven, IsTestingUntimed, Count, NewWave, vars
  <2>2. QuietInv' /\ wave' = [frequency |-> wave.frequency, try |-> wave.try,
                              start |-> IF Restart(current.accum) THEN clock' ELSE wave.start]
    BY <2>1, EvenFields
  <2>3. Minus(clock', wave'.start) > wave.try
    BY <2>1, <2>2 DEF IsTestingEven
  <2>4. wave.try < W /\ wave.try \in Nat /\ ghost'.quiet \in Nat
    <3>1. mode = "TESTING"
      BY <2>1 DEF IsTestingEven
    <3>2. IInv'
      BY NextIInv
    <3>3. QED
      BY <3>1, <3>2 DEF IInv, TypeOK
  <2>5. QED
    BY <2>2, <2>3, <2>4, BoundFacts DEF QuietInv, Minus
<1>2. QED
  BY <1>1, Invariance, PTL DEF Spec, QuietBeforeComplete
=============================================================================
