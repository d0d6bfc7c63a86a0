-------------------------- MODULE RepetitionTester --------------------------
(***************************************************************************)
(* The repetition tester of src/benchmark/repetition_test.c: a test is run *)
(* again and again until its least time has not improved for a while.      *)
(* Timer values are unsigned and wrap: begin_time subtracts the timer from *)
(* the accumulator and close_time adds it, so the accumulator is out of    *)
(* range between the two.  Of the values of a test, "time" stands for      *)
(* those accumulated by differences (time, page faults) and "count" for    *)
(* those the caller adds (bytes, flops, memops).                           *)
(***************************************************************************)
EXTENDS Integers, FiniteSets

CONSTANTS
  W,           \* the modulus of the timer, 2^64 in the code
  MaxTick,     \* bound on the timer ticks between two calls
  MaxBlocks,   \* bound on the timing blocks of a test
  MaxCount,    \* bound on what all tests count
  MaxWaves,    \* bound on the calls of new_wave
  MaxTests,    \* bound on the tests of a wave that another one follows
  Frequencies, \* the cpu_timer_frequency arguments
  Seconds      \* seconds_to_try_for_min

ASSUME BoundAssumption ==
  /\ W \in Nat /\ MaxTick \in Nat \ {0} /\ MaxBlocks \in Nat \ {0}
  /\ MaxCount \in 0 .. W - 1 /\ MaxWaves \in Nat /\ MaxTests \in Nat
  /\ Frequencies \subseteq Nat /\ Seconds \in Nat
\* One test and the time to try fit the timer, as they do in 64 bits.
ASSUME TimerAssumption ==
  /\ 2 * MaxTick * MaxBlocks * MaxBlocks < W - 1
  /\ \A f \in Frequencies : Seconds * f + MaxTick * (2 * MaxBlocks + MaxCount + 1) < W

VARIABLES
  clock,    \* what read_cpu_timer would return
  mode,     \* Repetition_Tester_Mode
  wave,     \* the frequency, try_for_min_time and tests_start_time
  current,  \* current_test
  results,  \* results
  ghost     \* history: what really happened, in integers that do not wrap

vars == <<clock, mode, wave, current, results, ghost>>

Zero == [time |-> 0, count |-> 0]
NoTest == [accum |-> Zero, begin_block_count |-> 0, close_block_count |-> 0]

Init ==
  /\ clock = W - 1   \* any value would do: the timer is about to wrap
  /\ mode = "UNINITIALIZED"
  /\ wave = [frequency |-> 0, try |-> 0, start |-> 0]
  /\ current = NoTest
  /\ results = [test_count |-> 0, min |-> Zero, max |-> Zero, total |-> Zero]
  /\ ghost = [waves |-> 0,    \* calls of new_wave
              spent |-> 0,    \* ticks inside the timing blocks of the current test
              counted |-> 0,  \* what the current test has counted
              tests |-> 0,    \* tests with timing blocks that came to an end
              total |-> Zero, \* their sum, which wraps as well
              seen |-> {},    \* the fastest and the slowest of them
              quiet |-> 0]    \* ticks since the wave's start or the last new minimum

Minus(a, b) == (a - b) % W
Plus(a, b) == (a + b) % W
Open == current.begin_block_count - current.close_block_count

\* Bound: past W, nothing below tells two histories apart.
UpToW(x) == IF x > W THEN W ELSE x

\* dt ticks pass, all of them inside the Open timing blocks.
Pass(dt, g) == [g EXCEPT !.spent = UpToW(@ + dt * Open), !.quiet = UpToW(@ + dt)]
Tick(dt) == clock' = Plus(clock, dt)

\* Planted bug: the accumulator is set, not decreased: an earlier block is lost.
BugBeginTime(dt) ==
  /\ mode = "TESTING" /\ current.begin_block_count < MaxBlocks
  /\ Tick(dt)
  /\ current' = [current EXCEPT !.accum.time = Minus(0, clock'), !.begin_block_count = @ + 1]
  /\ ghost' = Pass(dt, ghost)
  /\ UNCHANGED <<mode, wave, results>>

\* repetition_tester_begin_time; the callers call it while is_testing says so.
BeginTime(dt) ==
  /\ mode = "TESTING" /\ current.begin_block_count < MaxBlocks
  /\ Tick(dt)
  /\ current' = [current EXCEPT !.accum.time = Minus(@, clock'), !.begin_block_count = @ + 1]
  /\ ghost' = Pass(dt, ghost)
  /\ UNCHANGED <<mode, wave, results>>

\* repetition_tester_close_time.
CloseTime(dt) ==
  /\ mode = "TESTING" /\ Open > 0
  /\ Tick(dt)
  /\ current' = [current EXCEPT !.accum.time = Plus(@, clock'), !.close_block_count = @ + 1]
  /\ ghost' = Pass(dt, ghost)
  /\ UNCHANGED <<mode, wave, results>>

\* repetition_tester_count_bytes, _flops and _memops; the callers count what they have timed.
Count ==
  /\ mode = "TESTING" /\ ghost.total.count + ghost.counted < MaxCount
  /\ Open = 0 /\ current.begin_block_count > 0
  /\ current' = [current EXCEPT !.accum.count = Plus(@, 1)]
  /\ ghost' = [ghost EXCEPT !.counted = @ + 1]
  /\ UNCHANGED <<clock, mode, wave, results>>

MayFollow == ghost.waves < MaxWaves /\ ghost.tests <= MaxTests

\* repetition_tester_new_wave, once the loop of an earlier wave is over; pmc says that both
\* event counters could be opened.
NewWave(frequency, pmc) ==
  /\ mode # "TESTING" /\ MayFollow
  /\ mode' = CASE mode = "UNINITIALIZED" -> IF pmc THEN "TESTING" ELSE "ERROR"
               [] mode = "COMPLETE" -> IF frequency = wave.frequency THEN "TESTING" ELSE "ERROR"
               [] OTHER -> mode
  /\ wave' = [frequency |-> IF mode = "UNINITIALIZED" THEN frequency ELSE wave.frequency,
              try |-> Seconds * frequency, start |-> clock]
  /\ results' = IF mode = "UNINITIALIZED" THEN [results EXCEPT !.min.time = W - 1] ELSE results
  /\ ghost' = [ghost EXCEPT !.waves = @ + 1, !.quiet = 0]
  /\ UNCHANGED <<clock, current>>

Sum(a, b) == [time |-> Plus(a.time, b.time), count |-> Plus(a.count, b.count)]

\* Planted bug: a test that sets the maximum is not looked at for the minimum.
BugMerge(r, accum) ==
  [test_count |-> r.test_count + 1,
   total |-> Sum(r.total, accum),
   max |-> IF accum.time > r.max.time THEN accum ELSE r.max,
   min |-> IF accum.time <= r.max.time /\ accum.time < r.min.time THEN accum ELSE r.min]

Merge(r, accum) ==
  [test_count |-> r.test_count + 1,
   total |-> Sum(r.total, accum),
   max |-> IF accum.time > r.max.time THEN accum ELSE r.max,
   min |-> IF accum.time < r.min.time THEN accum ELSE r.min]

\* Planted bug: a new minimum does not restart the time.
BugRestartNever(accum) == accum.time > W

\* A new minimum restarts the time to find the next.
Restart(accum) == accum.time < results.min.time

\* The fastest and the slowest of some tests.
Ends(tests) ==
  {t \in tests : \/ \A u \in tests : t.time <= u.time
                 \/ \A u \in tests : t.time >= u.time}

\* What really happened in a test that has come to an end; without a timing block it is forgotten.
Record(g) ==
  LET test == [time |-> g.spent, count |-> g.counted]
  IN  [g EXCEPT !.tests = @ + 1, !.total = Sum(@, test), !.seen = Ends(@ \cup {test})]
NextTest(g) == [g EXCEPT !.spent = 0, !.counted = 0]

\* Planted bug: the counts of a test stay for the next one.
BugReset(c) == [NoTest EXCEPT !.accum.count = c.accum.count]

\* current_test = {0}.
Reset(c) == NoTest

\* repetition_tester_is_testing, when the test had timing blocks and they are even.
IsTestingEven(dt) ==
  LET accum == current.accum
      start == IF Restart(accum) THEN clock' ELSE wave.start
      g == Record(Pass(dt, ghost))
  IN
  /\ mode = "TESTING" /\ current.begin_block_count > 0 /\ Open = 0
  /\ Tick(dt)
  /\ results' = Merge(results, accum)
  /\ wave' = [wave EXCEPT !.start = start]
  /\ current' = Reset(current)
  /\ mode' = IF Minus(clock', start) > wave.try THEN "COMPLETE" ELSE mode
  /\ ghost' = NextTest(IF accum.time < results.min.time THEN [g EXCEPT !.quiet = 0] ELSE g)

\* Planted bug: the test is dropped, before the timer is read, and no error is noted.
BugIsTestingUneven(dt) ==
  /\ mode = "TESTING" /\ Open # 0 /\ current.begin_block_count > 0
  /\ current' = NoTest
  /\ UNCHANGED <<clock, mode, wave, results, ghost>>

\* ... when a block was left open: the error ends the tests.
IsTestingUneven(dt) ==
  /\ mode = "TESTING" /\ Open # 0 /\ current.begin_block_count > 0
  /\ Tick(dt)
  /\ mode' = "ERROR"
  /\ ghost' = Pass(dt, ghost)
  /\ UNCHANGED <<wave, current, results>>

\* ... when there was no timing block: nothing is counted, and nothing is reset.
\* Bound: such tests do not take the wave beyond the timer's range.
IsTestingUntimed(dt) ==
  /\ ghost.counted = 0 /\ ghost.quiet + MaxTick * (2 * MaxBlocks + 2) < W
  /\ mode = "TESTING" /\ current.begin_block_count = 0
  /\ Tick(dt)
  /\ ghost' = NextTest(Pass(dt, ghost))
  /\ UNCHANGED <<mode, wave, current, results>>

\* The caller's loop is over and no wave is left to start.
Done == mode # "TESTING" /\ ~MayFollow /\ UNCHANGED vars

Run ==
  \/ \E dt \in 0 .. MaxTick : BeginTime(dt) \/ CloseTime(dt)
  \/ \E dt \in 1 .. MaxTick : IsTestingEven(dt) \/ IsTestingUneven(dt)

Next ==
  \/ Run
  \/ Count
  \/ \E dt \in 1 .. MaxTick : IsTestingUntimed(dt)
  \/ \E frequency \in Frequencies, pmc \in BOOLEAN : NewWave(frequency, pmc)
  \/ Done

Spec == Init /\ [][Next]_vars

\* The loop "while (is_testing) { begin; kernel; close }" runs on: kernels return, and
\* every caller times what it runs.
FairSpec == Spec /\ WF_vars(Run)

-----------------------------------------------------------------------------
\* However often the timer wraps and however blocks follow or enclose each other,
\* an even test has accumulated the ticks spent in its blocks, those within two twice.
TimesExact == Open = 0 => current.accum.time = ghost.spent

\* The minimum and the maximum are whole tests that were run, no test was faster
\* or slower, and their counts are of the same test as their time.
Extremes ==
  ghost.tests > 0 =>
    /\ results.min \in ghost.seen
    /\ results.max \in ghost.seen \cup {Zero}
    /\ \A test \in ghost.seen : results.min.time <= test.time /\ test.time <= results.max.time

\* "Only tests that have timing blocks get counted": the totals and the number
\* of tests, from which the average is printed, are those of the tests with blocks.
OnlyTimedCounted ==
  /\ results.test_count = ghost.tests
  /\ results.total = ghost.total

\* A wave completes only if no new minimum came up for the time to try.
QuietBeforeComplete == [][mode' = "COMPLETE" /\ mode # "COMPLETE" => ghost'.quiet > wave.try]_vars

\* A loop over is_testing ends: minima cannot improve for ever.
Completes == mode = "TESTING" ~> mode # "TESTING"
-----------------------------------------------------------------------------
(* The inductive invariant behind the properties.                          *)

Word == 0 .. W - 1
Values == [time : Word, count : Word]

TypeOK ==
  /\ clock \in Word
  /\ mode \in {"UNINITIALIZED", "TESTING", "COMPLETE", "ERROR"}
  /\ wave \in [frequency : Nat, try : Nat, start : Word]
  /\ current \in [accum : Values, begin_block_count : Nat, close_block_count : Nat]
  /\ results \in [test_count : Nat, min : Values, max : Values, total : Values]
  /\ ghost \in [waves : Nat, spent : Nat, counted : Nat, tests : Nat, total : Values,
                seen : SUBSET [time : Nat, count : Nat], quiet : Nat]

\* Every call of a timing block happens with at most all blocks of the test open.
MaxSpent == (MaxTick * MaxBlocks) * (current.begin_block_count + current.close_block_count)

\* Modulo W, an accumulator lags behind the time spent by the timer for every block that is open.
Lags(accum, spent, open, timer) == \E k \in Int : accum = spent - open * timer + k * W

TimeInv ==
  /\ current.close_block_count <= current.begin_block_count
  /\ current.begin_block_count <= MaxBlocks
  /\ ghost.spent <= MaxSpent
  /\ Lags(current.accum.time, ghost.spent, Open, clock)

CountInv == current.accum.count = ghost.counted /\ ghost.counted <= MaxCount

\* Between two tests nothing is left of the first.
BetweenTests == current = NoTest /\ ghost.spent = 0 /\ ghost.counted = 0

\* Without a test, the minimum is the greatest time there is.
NoTestYet ==
  /\ ghost.seen = {} /\ results.max = Zero
  /\ mode # "UNINITIALIZED" => results.min.time = W - 1

\* The timer says how long ago the wave began or a minimum was found, as long as it does not wrap.
QuietInv == ghost.quiet >= W \/ Minus(clock, wave.start) = ghost.quiet

IInv ==
  /\ TypeOK
  /\ mode = "TESTING" \/ Open = 0 => TimeInv
  /\ CountInv
  /\ mode \in {"UNINITIALIZED", "COMPLETE"} => BetweenTests
  /\ mode = "UNINITIALIZED" => ghost.tests = 0
  /\ ghost.tests = 0 => NoTestYet
  /\ mode = "TESTING" => QuietInv /\ wave.try < W
  /\ OnlyTimedCounted
  /\ Extremes
=============================================================================
