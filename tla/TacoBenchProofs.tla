-------------------------- MODULE TacoBenchProofs --------------------------
(* What TLAPS proves about TacoBench, for every folder of graphs, every      *)
(* choice of options and every number of descriptors.                        *)
EXTENDS TacoBench, KernelProofs, SequenceTheorems

LEMMA Kernels == Len(test_entries) = 10 /\ DOMAIN test_entries = 1 .. 10
  BY DEF test_entries

-----------------------------------------------------------------------------
(* The graphs.                                                             *)

LEMMA NextReadsGraphs ==
  ASSUME NothingIsNotWanted PROVE GraphsWereRead /\ [Next]_vars => GraphsWereRead'
<1> SUFFICES ASSUME GraphsWereRead, [Next]_vars PROVE GraphsWereRead'
  OBVIOUS
<1>1. ASSUME NEW f \in Files, LoadKron(f) PROVE GraphsWereRead'
  <2>1. CASE Aborts(f)
    BY <1>1, <2>1 DEF LoadKron, GraphsWereRead
  <2>2. CASE ~Aborts(f) /\ Valid(f) /\ Wanted(Parsed(f).k, Parsed(f).s)
    <3>1. kron_coo' = Parsed(f) /\ read' = f.read
      BY <1>1, <2>2 DEF LoadKron
    <3>2. CASE f.read = "whole"
      BY <2>2, <3>1, <3>2 DEF Valid, Within, Parsed, GraphsWereRead
    <3>3. CASE f.read # "whole"
      BY <2>2, <3>3 DEF Parsed, NothingIsNotWanted
    <3>4. QED
      BY <3>2, <3>3
  <2>3. CASE ~Aborts(f) /\ ~(Valid(f) /\ Wanted(Parsed(f).k, Parsed(f).s))
    BY <1>1, <2>3 DEF LoadKron, GraphsWereRead
  <2>4. QED
    BY <2>1, <2>2, <2>3
<1>2. CASE Skip
  BY <1>2 DEF Skip, GraphsWereRead
<1>3. CASE PackA
  BY <1>3 DEF PackA, GraphsWereRead
<1>4. CASE PackB
  BY <1>4 DEF PackB, GraphsWereRead
<1>5. CASE Assemble
  BY <1>5 DEF Assemble, GraphsWereRead
<1>6. CASE SetFields
  BY <1>6 DEF SetFields, GraphsWereRead
<1>7. CASE Compute
  BY <1>7 DEF Compute, GraphsWereRead
<1>8. CASE FreeTensors
  BY <1>8 DEF FreeTensors, GraphsWereRead
<1>9. CASE SaveCsv
  BY <1>9 DEF SaveCsv, GraphsWereRead
<1>10. CASE UNCHANGED vars
  BY <1>10 DEF vars, GraphsWereRead
<1>11. QED
  BY <1>1, <1>2, <1>3, <1>4, <1>5, <1>6, <1>7, <1>8, <1>9, <1>10 DEF Next, Done

\* Unless the options ask for the graph k = 0, s = 0, which is also what an empty or missing file
\* comes out as, every graph that is benchmarked was read from its file and is of a wanted size.
THEOREM TacoBenchGraphsWereRead == ASSUME NothingIsNotWanted PROVE Spec => []GraphsWereRead
<1>1. Init => GraphsWereRead
  BY DEF Init, GraphsWereRead
<1>2. QED
  BY <1>1, NextReadsGraphs, PTL DEF Spec

-----------------------------------------------------------------------------
(* The series and the file of results.                                     *)

LEMMA InitCounts == Init => CountsInv
<1> SUFFICES ASSUME Init PROVE CountsInv
  OBVIOUS
<1>1. limit \in Nat
  BY LimitsAssumption DEF Init
<1>2. /\ ran = <<>> /\ phase = "load" /\ files = 0 /\ func_idx = 1 /\ events = 0
      /\ kron_coo.k = 0 /\ kron_coo.nnz = 0
  BY DEF Init
<1>3. ran \in Seq(RunRecord)
  BY <1>2
<1>4. events \in 0 .. limit /\ files \in Nat /\ func_idx \in 1 .. 11
  BY <1>1, <1>2
<1>5. in_error \in BOOLEAN /\ ~in_error
  BY Zenon DEF Init
<1>6. QED
  BY <1>1, <1>2, <1>3, <1>4, <1>5, Kernels DEF CountsInv, Running

\* What a step of a kernel does to the counters that it leaves alone.
LEMMA SameCounts ==
  ASSUME CountsInv, UNCHANGED <<limit, events, in_error, files, func_idx, kron_coo, ran>>,
         phase \in Running, phase' \in Running
  PROVE  CountsInv'
  BY Kernels DEF CountsInv, Running

LEMMA NextCounts == CountsInv /\ [Next]_vars => CountsInv'
<1> SUFFICES ASSUME CountsInv, [Next]_vars PROVE CountsInv'
  OBVIOUS
<1>1. ASSUME NEW f \in Files, LoadKron(f) PROVE CountsInv'
  <2>1. phase = "load" /\ files' = files + 1 /\ UNCHANGED <<limit, events, in_error, ran>>
    BY <1>1 DEF LoadKron, seriesVars
  <2>2. \/ phase' = "aborted" /\ UNCHANGED <<kron_coo, func_idx>>
        \/ phase' = "kernel" /\ func_idx' = 1 /\ kron_coo' = Parsed(f)
        \/ UNCHANGED <<kron_coo, phase, func_idx>>
    BY <1>1 DEF LoadKron
  <2>3. /\ kron_coo'.k \in {g.k : g \in Files} \cup {0}
        /\ kron_coo'.nnz \in {g.nnz : g \in Files} \cup {0}
    BY <2>2 DEF CountsInv, Parsed
  <2>4. files' \in Nat /\ func_idx' \in 1 .. 11
    BY <2>1, <2>2, Kernels DEF CountsInv
  <2>5. phase' \in {"kernel", "load", "aborted"}
    BY <2>1, <2>2
  <2>6. QED
    BY <2>1, <2>3, <2>4, <2>5, Kernels DEF CountsInv, Running
<1>2. CASE Skip
  <2>1. /\ phase = "kernel" /\ phase' = "kernel" /\ func_idx \in 1 .. 10 /\ func_idx' = func_idx + 1
        /\ UNCHANGED <<limit, events, in_error, files, kron_coo, ran>>
    BY <1>2, Kernels DEF Skip, seriesVars
  <2>2. QED
    BY <2>1, Kernels DEF CountsInv, Running
<1>3. CASE PackA
  <2> DEFINE r == [k |-> kron_coo.k, function |-> func_idx, kron_nnz |-> kron_coo.nnz, file |-> files]
  <2>1. /\ phase = "kernel" /\ phase' = "pack_a" /\ func_idx \in 1 .. 10
        /\ ran' = Append(ran, r)
        /\ UNCHANGED <<limit, events, in_error, files, func_idx, kron_coo>>
    BY <1>3, Kernels DEF PackA
  <2>2. r \in RunRecord /\ ran \in Seq(RunRecord)
    BY <2>1, Kernels DEF RunRecord, CountsInv
  <2> HIDE DEF r
  <2>3. ran' \in Seq(RunRecord) /\ Len(ran') = Len(ran) + 1 /\ Len(ran) \in Nat
    BY <2>1, <2>2
  <2>4. QED
    BY <2>1, <2>3, Kernels DEF CountsInv, Running
<1>4. CASE PackB
  BY <1>4, SameCounts DEF PackB, seriesVars, Running
<1>5. CASE Assemble
  BY <1>5, SameCounts DEF Assemble, seriesVars, Running
<1>6. CASE SetFields
  <2>1. /\ phase = "assembled" /\ phase' = "testing" /\ in_error' = (events + 2 > limit)
        /\ events' = Min({events + 2, limit})
        /\ UNCHANGED <<limit, files, func_idx, kron_coo, ran>>
    BY <1>6 DEF SetFields
  <2>2. events' = IF events + 2 <= limit THEN events + 2 ELSE limit
    <3>1. events + 2 \in Nat /\ limit \in Nat
      BY DEF CountsInv
    <3>2. QED
      BY <2>1, <3>1, MinOfTwo
  <2>3. events' \in 0 .. limit /\ in_error' \in BOOLEAN /\ (in_error' => events' = limit)
    BY <2>1, <2>2 DEF CountsInv
  <2>4. QED
    BY <2>1, <2>3, Kernels DEF CountsInv, Running
<1>7. CASE Compute
  BY <1>7, SameCounts DEF Compute, seriesVars, Running
<1>8. CASE FreeTensors
  <2>1. /\ phase \in Running /\ phase' = "kernel" /\ func_idx' = func_idx + 1
        /\ UNCHANGED <<limit, events, in_error, files, kron_coo, ran>>
    BY <1>8 DEF FreeTensors, Running
  <2>2. func_idx' \in 1 .. 11
    BY <2>1, Kernels DEF CountsInv, Running
  <2>3. QED
    BY <2>1, <2>2, Kernels DEF CountsInv, Running
<1>9. CASE SaveCsv
  <2>1. /\ phase = "kernel" /\ func_idx \notin 1 .. 10 /\ phase' = "load" /\ func_idx' = 1
        /\ kron_coo'.k = 0 /\ kron_coo'.nnz = 0
        /\ UNCHANGED <<limit, events, files, ran>>
    BY <1>9, Kernels DEF SaveCsv
  <2>2. in_error' \in BOOLEAN /\ ~in_error'
    BY <1>9, Zenon DEF SaveCsv
  <2>3. QED
    BY <2>1, <2>2, Kernels DEF CountsInv, Running
<1>10. CASE UNCHANGED vars
  BY <1>10 DEF vars, seriesVars, CountsInv, RunRecord
<1>11. QED
  BY <1>1, <1>2, <1>3, <1>4, <1>5, <1>6, <1>7, <1>8, <1>9, <1>10 DEF Next, Done

\* While a kernel runs, its entry is the current one, and it exists.
LEMMA CurrentEntry ==
  ASSUME RunsFit, CountsInv, SeriesInv, phase \in Running
  PROVE  /\ Len(ran) \in 1 .. SeriesEntries /\ SeriesEntries \in Nat
         /\ Entry1 = Len(ran) /\ series.current_entry = Len(ran) - 1
<1>1. Len(ran) \in Nat /\ Len(ran) <= SeriesEntries /\ SeriesEntries \in Nat
  BY SeriesEntriesAssumption DEF RunsFit, CountsInv
<1>2. Len(ran) > 0 /\ series.current_entry = Len(ran) - 1
  BY <1>1 DEF SeriesInv
<1>3. QED
  BY <1>1, <1>2 DEF Entry1

\* The runs and the series stay, and so does whether a kernel runs.
LEMMA SameSeries ==
  ASSUME SeriesInv, UNCHANGED <<series, ran, events, limit>>,
         \/ phase \notin Running /\ phase' \notin Running
         \/ /\ phase \in Running /\ phase' \in Running /\ UNCHANGED <<files, kron_coo, func_idx>>
            /\ phase' \in {"testing", "computed"} => phase \in {"testing", "computed"}
  PROVE  SeriesInv'
<1>1. \A n \in 1 .. SeriesEntries : EntryFields(series'.entries[n])
  BY DEF SeriesInv
<1>2. QED
  BY <1>1 DEF SeriesInv, SameRun, ResultsOf, EntryFields

LEMMA PackASeries ==
  ASSUME CountsInv, SeriesInv, PackA PROVE SeriesInv'
<1> DEFINE r == [k |-> kron_coo.k, function |-> func_idx, kron_nnz |-> kron_coo.nnz, file |-> files]
<1>1. /\ phase = "kernel" /\ phase' = "pack_a" /\ func_idx \in 1 .. 10
      /\ ran' = Append(ran, r)
      /\ UNCHANGED <<limit, events, files, func_idx, kron_coo, series>>
  BY Kernels DEF PackA
<1>2. r \in RunRecord /\ ran \in Seq(RunRecord)
  BY <1>1, Kernels DEF RunRecord, CountsInv
<1>3. ran'[Len(ran')] = r /\ UNCHANGED <<files, func_idx, kron_coo>>
  BY <1>1, <1>2
<1> HIDE DEF r
<1>4. /\ Len(ran') = Len(ran) + 1 /\ Len(ran) \in Nat /\ ran'[Len(ran')] = r
      /\ \A n \in 1 .. Len(ran) : ran'[n] = ran[n]
  BY <1>1, <1>2
<1>5. series.current_entry = Len(ran)
  BY <1>1, <1>4 DEF SeriesInv, Running
<1>6. \A n \in 1 .. series'.current_entry :
        /\ SameRun(series'.entries[n], ran'[n])
        /\ events' = limit' \/ series'.entries[n].results = ResultsOf(ran'[n])
  BY <1>1, <1>4, <1>5 DEF SeriesInv
<1>7. phase' \in Running /\ phase' \notin {"testing", "computed"}
  BY <1>1 DEF Running
<1>8. ran'[Len(ran')] = [k |-> kron_coo'.k, function |-> func_idx', kron_nnz |-> kron_coo'.nnz, file |-> files']
  BY <1>1, <1>4 DEF r
<1>9. \A n \in 1 .. SeriesEntries : EntryFields(series'.entries[n])
  BY <1>1 DEF SeriesInv, EntryFields
<1>10. series'.current_entry = Len(ran') - 1 /\ Len(ran') > 0
  BY <1>1, <1>4, <1>5
<1>11. /\ series' = [entries |-> series'.entries, current_entry |-> series'.current_entry]
       /\ series'.entries = [n \in 1 .. SeriesEntries |-> series'.entries[n]]
  BY <1>1 DEF SeriesInv
<1>12. QED
  BY <1>6, <1>7, <1>8, <1>9, <1>10, <1>11 DEF SeriesInv, SameRun, ResultsOf, EntryFields

LEMMA SetFieldsSeries ==
  ASSUME RunsFit, CountsInv, SeriesInv, SetFields PROVE SeriesInv'
<1> DEFINE last == Len(ran)
           e == series.entries[last]
           f == [k |-> kron_coo.k, function |-> func_idx, alloc |-> log[func_idx].memory_usage,
                 kron_nnz |-> kron_coo.nnz, results |-> e.results]
<1>1. /\ phase = "assembled" /\ phase' = "testing"
      /\ events' = Min({events + 2, limit})
      /\ series' = [series EXCEPT !.entries[Entry1] =
                      [@ EXCEPT !.k = kron_coo.k, !.function = func_idx,
                                !.alloc = log[func_idx].memory_usage, !.kron_nnz = kron_coo.nnz]]
      /\ UNCHANGED <<files, kron_coo, func_idx, limit, ran>>
  BY DEF SetFields
<1>2. last \in 1 .. SeriesEntries /\ Entry1 = last /\ series.current_entry = last - 1 /\ SeriesEntries \in Nat
  BY <1>1, CurrentEntry DEF Running
<1>3. e = [k |-> e.k, function |-> e.function, alloc |-> e.alloc, kron_nnz |-> e.kron_nnz, results |-> e.results]
  BY <1>2 DEF SeriesInv, EntryFields
<1>4. [e EXCEPT !.k = kron_coo.k, !.function = func_idx,
                !.alloc = log[func_idx].memory_usage, !.kron_nnz = kron_coo.nnz] = f
  <2> DEFINE one == [e EXCEPT !.k = kron_coo.k]
             two == [one EXCEPT !.function = func_idx]
             three == [two EXCEPT !.alloc = log[func_idx].memory_usage]
  <2> HIDE DEF e, last
  <2>1. one = [k |-> kron_coo.k, function |-> e.function, alloc |-> e.alloc, kron_nnz |-> e.kron_nnz, results |-> e.results]
    BY <1>3
  <2> HIDE DEF one
  <2>2. two = [k |-> kron_coo.k, function |-> func_idx, alloc |-> e.alloc, kron_nnz |-> e.kron_nnz, results |-> e.results]
    BY <2>1
  <2> HIDE DEF two
  <2>3. three = [k |-> kron_coo.k, function |-> func_idx, alloc |-> log[func_idx].memory_usage,
                 kron_nnz |-> e.kron_nnz, results |-> e.results]
    BY <2>2
  <2> HIDE DEF three
  <2>4. [three EXCEPT !.kron_nnz = kron_coo.nnz] = f
    BY <2>3
  <2>5. QED
    BY <2>4 DEF one, two, three
<1>5. series' = [entries |-> [series.entries EXCEPT ![last] = f], current_entry |-> series.current_entry]
  <2>1. series' = [series EXCEPT !.entries[last] = f]
    BY <1>1, <1>2, <1>4
  <2>2. series = [entries |-> series.entries, current_entry |-> series.current_entry]
    BY DEF SeriesInv
  <2> HIDE DEF f, last
  <2>3. QED
    BY <2>1, <2>2
<1>6. series.entries = [n \in 1 .. SeriesEntries |-> series.entries[n]]
  BY DEF SeriesInv
<1>7. /\ series'.current_entry = last - 1
      /\ series'.entries[last] = f
      /\ \A n \in 1 .. SeriesEntries : n # last => series'.entries[n] = series.entries[n]
      /\ series'.entries = [n \in 1 .. SeriesEntries |-> series'.entries[n]]
      /\ series' = [entries |-> series'.entries, current_entry |-> series'.current_entry]
  <2> HIDE DEF f, last
  <2>1. QED
    BY <1>2, <1>5, <1>6
<1>8. events = limit => events' = limit
  <2>1. events + 2 \in Nat /\ limit \in Nat
    BY DEF CountsInv
  <2>2. QED
    BY <1>1, <2>1, MinOfTwo
<1>9. f.k = kron_coo.k /\ f.function = func_idx /\ f.kron_nnz = kron_coo.nnz /\ EntryFields(f)
  BY DEF EntryFields
<1>10. ran[last] = [k |-> kron_coo.k, function |-> func_idx, kron_nnz |-> kron_coo.nnz, file |-> files]
  BY <1>1 DEF SeriesInv, Running
<1>11. SameRun(f, ran[last])
  BY <1>9, <1>10 DEF SameRun
<1>12. \A n \in 1 .. SeriesEntries : EntryFields(series'.entries[n])
  <2>1. \A n \in 1 .. SeriesEntries : n # last => EntryFields(series'.entries[n])
    BY <1>7 DEF SeriesInv, EntryFields
  <2>2. EntryFields(series'.entries[last])
    BY <1>1, <1>7, <1>9 DEF EntryFields
  <2>3. QED
    BY <2>1, <2>2
<1>13. \A n \in 1 .. series'.current_entry :
         /\ SameRun(series'.entries[n], ran'[n])
         /\ events' = limit' \/ series'.entries[n].results = ResultsOf(ran'[n])
  <2> HIDE DEF f, last
  <2>1. \A n \in 1 .. last - 1 : n \in 1 .. SeriesEntries /\ n # last
    BY <1>2
  <2>2. QED
    BY <1>1, <1>2, <1>7, <1>8, <2>1 DEF SeriesInv
<1>14. /\ ran'[Len(ran')] = [k |-> kron_coo'.k, function |-> func_idx', kron_nnz |-> kron_coo'.nnz, file |-> files']
       /\ SameRun(series'.entries[Len(ran')], ran'[Len(ran')])
       /\ Len(ran') > 0 /\ series'.current_entry = Len(ran') - 1
  BY <1>1, <1>2, <1>7, <1>10, <1>11
<1>15. phase' \in Running
  BY <1>1 DEF Running
<1>16. QED
  BY <1>7, <1>12, <1>13, <1>14, <1>15 DEF SeriesInv, SameRun, ResultsOf, EntryFields

LEMMA FreeTensorsSeries ==
  ASSUME RunsFit, CountsInv, SeriesInv, FreeTensors PROVE SeriesInv'
<1> DEFINE last == Len(ran)
           e == series.entries[last]
           f == [k |-> e.k, function |-> e.function, alloc |-> e.alloc, kron_nnz |-> e.kron_nnz, results |-> Results]
<1>1. /\ phase \in {"testing", "computed"} /\ phase' = "kernel" /\ (phase = "testing" <=> in_error)
      /\ series' = Saved(Results)
      /\ UNCHANGED <<limit, events, ran>>
  BY DEF FreeTensors
<1>2. last \in 1 .. SeriesEntries /\ Entry1 = last /\ series.current_entry = last - 1 /\ SeriesEntries \in Nat
  BY <1>1, CurrentEntry DEF Running
<1>3. e = [k |-> e.k, function |-> e.function, alloc |-> e.alloc, kron_nnz |-> e.kron_nnz, results |-> e.results]
  BY <1>2 DEF SeriesInv, EntryFields
<1>4. [e EXCEPT !.results = Results] = f
  <2> SUFFICES ASSUME NEW h, h = e
               PROVE  [h EXCEPT !.results = Results]
                      = [k |-> h.k, function |-> h.function, alloc |-> h.alloc, kron_nnz |-> h.kron_nnz, results |-> Results]
    OBVIOUS
  <2>1. h = [k |-> h.k, function |-> h.function, alloc |-> h.alloc, kron_nnz |-> h.kron_nnz, results |-> h.results]
    BY <1>3
  <2> HIDE DEF e
  <2>2. QED
    BY <2>1
<1>5. series' = [entries |-> [series.entries EXCEPT ![last] = f], current_entry |-> last]
  <2>1. series' = [entries |-> [series.entries EXCEPT ![last] = [e EXCEPT !.results = Results]], current_entry |-> last]
    BY <1>1, <1>2 DEF Saved
  <2>2. QED
    BY <1>4, <2>1
<1>6. series.entries = [n \in 1 .. SeriesEntries |-> series.entries[n]]
  BY DEF SeriesInv
<1>7. /\ series'.current_entry = last
      /\ series'.entries[last] = f
      /\ \A n \in 1 .. SeriesEntries : n # last => series'.entries[n] = series.entries[n]
      /\ series'.entries = [n \in 1 .. SeriesEntries |-> series'.entries[n]]
      /\ series' = [entries |-> series'.entries, current_entry |-> series'.current_entry]
  <2> HIDE DEF f, last
  <2>1. QED
    BY <1>2, <1>5, <1>6
<1>8. ran[last].file = files /\ ran[last].function = func_idx /\ SameRun(e, ran[last])
  BY <1>1 DEF SeriesInv, Running
<1>9. SameRun(f, ran[last]) /\ EntryFields(f) /\ f.results = Results
  BY <1>8 DEF SameRun, EntryFields
<1>10. events' = limit' \/ f.results = ResultsOf(ran[last])
  <2>1. CASE in_error
    BY <1>1, <2>1 DEF CountsInv
  <2>2. CASE ~in_error
    BY <1>8, <1>9, <2>2 DEF Results, ResultsOf
  <2>3. QED
    BY <2>1, <2>2
<1>11. \A n \in 1 .. SeriesEntries : EntryFields(series'.entries[n])
  <2>1. \A n \in 1 .. SeriesEntries : n # last => EntryFields(series'.entries[n])
    BY <1>7 DEF SeriesInv, EntryFields
  <2>2. EntryFields(series'.entries[last])
    BY <1>1, <1>7, <1>9 DEF EntryFields
  <2>3. QED
    BY <2>1, <2>2
<1>12. \A n \in 1 .. series'.current_entry :
         /\ SameRun(series'.entries[n], ran'[n])
         /\ events' = limit' \/ series'.entries[n].results = ResultsOf(ran'[n])
  <2> HIDE DEF f, last
  <2>1. \A n \in 1 .. last : n = last \/ (n \in 1 .. last - 1 /\ n \in 1 .. SeriesEntries /\ n # last)
    BY <1>2
  <2>2. \A n \in 1 .. last - 1 :
          /\ SameRun(series.entries[n], ran[n])
          /\ events = limit \/ series.entries[n].results = ResultsOf(ran[n])
    BY <1>2 DEF SeriesInv
  <2>3. QED
    BY <1>1, <1>7, <1>9, <1>10, <2>1, <2>2
<1>13. phase' \notin Running /\ series'.current_entry = Len(ran')
  BY <1>1, <1>7 DEF Running
<1>14. QED
  BY <1>2, <1>7, <1>11, <1>12, <1>13 DEF SeriesInv, SameRun, ResultsOf, EntryFields

LEMMA InitSeries == Init => SeriesInv /\ CsvInv
<1> SUFFICES ASSUME Init PROVE SeriesInv /\ CsvInv
  OBVIOUS
<1>1. /\ series = [entries |-> [i \in 1 .. SeriesEntries |-> EmptyEntry], current_entry |-> 0]
      /\ ran = <<>> /\ csv = <<>> /\ phase = "load"
  BY DEF Init
<1>2. series.entries = [i \in 1 .. SeriesEntries |-> EmptyEntry] /\ series.current_entry = 0
  BY <1>1
<1>3. \A n \in 1 .. SeriesEntries : series.entries[n] = EmptyEntry
  BY <1>2
<1>4. EntryFields(EmptyEntry)
  BY DEF EntryFields, EmptyEntry
<1>5. \A n \in 1 .. SeriesEntries : EntryFields(series.entries[n])
  BY <1>3, <1>4
<1>6. /\ series = [entries |-> series.entries, current_entry |-> series.current_entry]
      /\ series.entries = [n \in 1 .. SeriesEntries |-> series.entries[n]]
  <2> HIDE DEF EmptyEntry
  <2>1. QED
    BY <1>1, <1>2
<1>7. Len(ran) = 0 /\ phase \notin Running
  BY <1>1 DEF Running
<1>8. SeriesInv
  <2>1. series.current_entry = Len(ran) - (IF phase \in Running THEN 1 ELSE 0)
    <3>1. (IF phase \in Running THEN 1 ELSE 0) = 0
      BY <1>7, Zenon
    <3>2. series.current_entry = 0
      BY <1>2
    <3>3. series.current_entry = Len(ran) - 0
      BY <1>7, <3>2
    <3>4. QED
      BY <3>1, <3>3, Zenon
  <2>2. 1 .. series.current_entry = {}
    BY <1>2
  <2>3. QED
    BY <1>5, <1>6, <1>7, <2>1, <2>2 DEF SeriesInv
<1>9. CsvInv
  BY <1>1 DEF CsvInv
<1>10. QED
  BY <1>8, <1>9

LEMMA NextSeries == RunsFit /\ CountsInv /\ SeriesInv /\ [Next]_vars => SeriesInv'
<1> SUFFICES ASSUME RunsFit, CountsInv, SeriesInv, [Next]_vars PROVE SeriesInv'
  OBVIOUS
<1>1. ASSUME NEW f \in Files, LoadKron(f) PROVE SeriesInv'
  <2>1. phase \notin Running /\ phase' \notin Running /\ UNCHANGED <<series, ran, events, limit>>
    BY <1>1 DEF LoadKron, seriesVars, Running
  <2>2. QED
    BY <2>1, SameSeries
<1>2. CASE Skip
  BY <1>2, SameSeries DEF Skip, seriesVars, Running
<1>3. CASE PackA
  BY <1>3, PackASeries
<1>4. CASE PackB
  BY <1>4, SameSeries DEF PackB, seriesVars, Running
<1>5. CASE Assemble
  BY <1>5, SameSeries DEF Assemble, seriesVars, Running
<1>6. CASE SetFields
  BY <1>6, SetFieldsSeries
<1>7. CASE Compute
  BY <1>7, SameSeries DEF Compute, seriesVars, Running
<1>8. CASE FreeTensors
  BY <1>8, FreeTensorsSeries
<1>9. CASE SaveCsv
  BY <1>9, SameSeries DEF SaveCsv, Running
<1>10. CASE UNCHANGED vars
  BY <1>10, SameSeries DEF vars, seriesVars
<1>11. QED
  BY <1>1, <1>2, <1>3, <1>4, <1>5, <1>6, <1>7, <1>8, <1>9, <1>10 DEF Next, Done

\* The first entries of a sequence.
LEMMA FirstEntries ==
  ASSUME NEW m \in Nat, NEW s, s = [n \in 1 .. m |-> s[n]], NEW count \in 0 .. m
  PROVE  /\ Len(SubSeq(s, 1, count)) = count /\ DOMAIN SubSeq(s, 1, count) = 1 .. count
         /\ \A n \in 1 .. count : SubSeq(s, 1, count)[n] = s[n]
<1> DEFINE E == {s[n] : n \in 1 .. m}
<1>1. \A n \in 1 .. m : s[n] \in E
  OBVIOUS
<1>2. s \in [1 .. m -> E]
  BY <1>1
<1> HIDE DEF E
<1>3. s \in Seq(E) /\ Len(s) = m
  BY <1>2
<1>4. QED
  BY <1>3

\* The rows that are there stay, and so do the runs that they are from.
LEMMA SameCsv ==
  ASSUME CountsInv, CsvInv, UNCHANGED <<csv, ran, limit>>, phase' = "load" => phase = "load" /\ UNCHANGED events
  PROVE  CsvInv'
  BY DEF CsvInv, SameRun, ResultsOf

LEMMA NextCsv == RunsFit /\ CountsInv /\ SeriesInv /\ CsvInv /\ [Next]_vars => CsvInv'
<1> SUFFICES ASSUME RunsFit, CountsInv, SeriesInv, CsvInv, [Next]_vars PROVE CsvInv'
  OBVIOUS
<1>1. ASSUME NEW f \in Files, LoadKron(f) PROVE CsvInv'
  BY <1>1, SameCsv DEF LoadKron, seriesVars
<1>2. CASE Skip
  BY <1>2, SameCsv DEF Skip, seriesVars
<1>3. CASE PackA
  <2> DEFINE r == [k |-> kron_coo.k, function |-> func_idx, kron_nnz |-> kron_coo.nnz, file |-> files]
  <2>1. phase' = "pack_a" /\ ran' = Append(ran, r) /\ UNCHANGED csv /\ func_idx \in 1 .. 10
    BY <1>3, Kernels DEF PackA
  <2>2. r \in RunRecord /\ ran \in Seq(RunRecord)
    BY <2>1, Kernels DEF RunRecord, CountsInv
  <2> HIDE DEF r
  <2>3. Len(ran') = Len(ran) + 1 /\ Len(ran) \in Nat /\ \A n \in 1 .. Len(ran) : ran'[n] = ran[n]
    BY <2>1, <2>2
  <2>4. \A n \in DOMAIN csv : n \in 1 .. Len(ran)
    BY <2>3 DEF CsvInv
  <2>5. \A n \in DOMAIN csv' : SameRun(csv'[n], ran'[n]) /\ csv'[n].results = ResultsOf(ran'[n])
    BY <2>1, <2>3, <2>4 DEF CsvInv
  <2>6. QED
    BY <2>1, <2>3, <2>5 DEF CsvInv, SameRun, ResultsOf
<1>4. CASE PackB
  BY <1>4, SameCsv DEF PackB, seriesVars
<1>5. CASE Assemble
  BY <1>5, SameCsv DEF Assemble, seriesVars
<1>6. CASE SetFields
  BY <1>6, SameCsv DEF SetFields
<1>7. CASE Compute
  BY <1>7, SameCsv DEF Compute, seriesVars
<1>8. CASE FreeTensors
  BY <1>8, SameCsv DEF FreeTensors
<1>9. CASE SaveCsv
  <2> DEFINE saved == SubSeq(series.entries, 1, Len(ran))
  <2>1. /\ phase = "kernel" /\ func_idx \notin 1 .. 10 /\ phase' = "load"
        /\ csv' = IF events < limit THEN SubSeq(series.entries, 1, series.current_entry) ELSE csv
        /\ UNCHANGED <<events, limit, ran>>
    BY <1>9, Kernels DEF SaveCsv
  <2>2. Len(ran) \in 0 .. SeriesEntries /\ SeriesEntries \in Nat
    BY SeriesEntriesAssumption DEF RunsFit, CountsInv
  <2>3. series.current_entry = Len(ran)
    BY <2>1, <2>2 DEF SeriesInv, Running
  <2>4. CASE events < limit
    <3>1. csv' = saved
      BY <2>1, <2>3, <2>4
    <3>2. series.entries = [n \in 1 .. SeriesEntries |-> series.entries[n]]
      BY DEF SeriesInv
    <3>3. /\ Len(saved) = Len(ran) /\ DOMAIN saved = 1 .. Len(ran)
          /\ \A n \in 1 .. Len(ran) : saved[n] = series.entries[n]
      BY <2>2, <3>2, FirstEntries
    <3>4. \A n \in 1 .. Len(ran) : SameRun(series.entries[n], ran[n]) /\ series.entries[n].results = ResultsOf(ran[n])
      <4>1. events # limit
        <5>1. limit \in Nat
          BY DEF CountsInv
        <5>2. QED
          BY <2>4, <5>1
      <4>2. QED
        BY <2>3, <4>1 DEF SeriesInv
    <3> HIDE DEF saved
    <3>5. \A n \in DOMAIN csv' : SameRun(csv'[n], ran'[n]) /\ csv'[n].results = ResultsOf(ran'[n])
      BY <2>1, <3>1, <3>3, <3>4
    <3>6. Len(csv') \in 0 .. Len(ran') /\ DOMAIN csv' = 1 .. Len(csv') /\ Len(csv') = Len(ran')
      <4>1. Len(csv') = Len(ran) /\ DOMAIN csv' = 1 .. Len(ran) /\ Len(ran') = Len(ran)
        BY <2>1, <3>1, <3>3
      <4>2. QED
        BY <2>2, <4>1
    <3>7. QED
      BY <3>5, <3>6 DEF CsvInv, SameRun, ResultsOf
  <2>5. CASE ~(events < limit)
    BY <2>1, <2>5 DEF CsvInv, SameRun, ResultsOf
  <2>6. QED
    BY <2>4, <2>5
<1>10. CASE UNCHANGED vars
  BY <1>10, SameCsv DEF vars, seriesVars
<1>11. QED
  BY <1>1, <1>2, <1>3, <1>4, <1>5, <1>6, <1>7, <1>8, <1>9, <1>10 DEF Next, Done

LEMMA InitRuns == Init => RunsInv
<1>1. Init => ran = <<>>
  BY DEF Init
<1>2. ran = <<>> => RunsInv
  BY DEF RunsInv
<1>3. QED
  BY <1>1, <1>2

\* A step that adds no run: the file and the kernel stay, or the next kernel or file begins.
LEMMA SameRuns ==
  ASSUME CountsInv, RunsInv, UNCHANGED ran,
         \/ /\ UNCHANGED <<files, func_idx>>
            /\ phase \in Running => phase' \in Running
            /\ phase' \in Running \cup {"kernel"} => phase \in Running \cup {"kernel"}
         \/ phase \in Running \cup {"kernel"} /\ files' = files /\ func_idx' = func_idx + 1 /\ phase' = "kernel"
         \/ files' = files + 1
         \/ phase' \notin Running \cup {"kernel"} /\ files' = files
  PROVE  RunsInv'
<1>1. files \in Nat /\ func_idx \in Nat
  BY Kernels DEF CountsInv
<1>2. \A n \in DOMAIN ran : ran[n].file \in Nat /\ ran[n].function \in Nat
  <2>1. \A n \in DOMAIN ran : ran[n] \in RunRecord
    BY DEF CountsInv
  <2>2. QED
    BY <2>1, Kernels DEF RunRecord
<1>3. "kernel" \notin Running
  BY DEF Running
<1>4. \A m, n \in DOMAIN ran' : ResultsOf(ran'[m]) = ResultsOf(ran'[n]) => m = n
  BY DEF RunsInv, ResultsOf
<1>5. ASSUME NEW n \in DOMAIN ran'
      PROVE  /\ ran'[n].file <= files'
             /\ phase' \in Running \cup {"kernel"} /\ ran'[n].file = files' =>
                  ran'[n].function < func_idx' \/ (phase' \in Running /\ ran'[n].function = func_idx')
  <2>1. PICK r : r = ran[n] /\ r = ran'[n] /\ r.file \in Nat /\ r.function \in Nat
    BY <1>2
  <2>2. /\ r.file <= files
        /\ phase \in Running \cup {"kernel"} /\ r.file = files =>
             r.function < func_idx \/ (phase \in Running /\ r.function = func_idx)
    BY <2>1 DEF RunsInv
  <2>3. QED
    BY <1>1, <1>3, <2>1, <2>2
<1>6. QED
  BY <1>4, <1>5 DEF RunsInv, ResultsOf

LEMMA NextRuns == CountsInv /\ RunsInv /\ [Next]_vars => RunsInv'
<1> SUFFICES ASSUME CountsInv, RunsInv, [Next]_vars PROVE RunsInv'
  OBVIOUS
<1>1. ASSUME NEW f \in Files, LoadKron(f) PROVE RunsInv'
  BY <1>1, SameRuns DEF LoadKron, seriesVars
<1>2. CASE PackA
  <2> DEFINE r == [k |-> kron_coo.k, function |-> func_idx, kron_nnz |-> kron_coo.nnz, file |-> files]
  <2>1. /\ phase = "kernel" /\ phase' = "pack_a" /\ ran' = Append(ran, r)
        /\ UNCHANGED <<files, func_idx>> /\ func_idx \in 1 .. 10
    BY <1>2, Kernels DEF PackA
  <2>2. r \in RunRecord /\ ran \in Seq(RunRecord) /\ files \in Nat
    BY <2>1, Kernels DEF RunRecord, CountsInv
  <2>3. r.file = files /\ r.function = func_idx /\ ResultsOf(r) = <<files, func_idx>>
    BY DEF ResultsOf
  <2> HIDE DEF r
  <2>4. /\ Len(ran) \in Nat /\ DOMAIN ran = 1 .. Len(ran) /\ DOMAIN ran' = 1 .. Len(ran) + 1
        /\ ran'[Len(ran) + 1] = r /\ \A n \in 1 .. Len(ran) : ran'[n] = ran[n]
    BY <2>1, <2>2
  <2>5. \A n \in 1 .. Len(ran) :
          /\ ran[n].file <= files /\ (ran[n].file = files => ran[n].function < func_idx)
          /\ ran[n].function \in Nat
    <3>1. \A n \in 1 .. Len(ran) : ran[n] \in RunRecord
      BY <2>2
    <3>2. \A n \in 1 .. Len(ran) : ran[n].function \in Nat
      BY <3>1, Kernels DEF RunRecord
    <3>3. QED
      BY <2>1, <2>4, <3>2 DEF RunsInv, Running
  <2>6. \A n \in DOMAIN ran' :
          ran'[n].file <= files' /\ (ran'[n].file = files' => ran'[n].function < func_idx' \/ ran'[n].function = func_idx')
    BY <2>1, <2>2, <2>3, <2>4, <2>5
  <2>7. \A n \in 1 .. Len(ran) : ResultsOf(ran[n]) # ResultsOf(r)
    BY <2>1, <2>3, <2>5 DEF ResultsOf
  <2>8. \A m, n \in 1 .. Len(ran) : ResultsOf(ran[m]) = ResultsOf(ran[n]) => m = n
    BY <2>4 DEF RunsInv
  <2>9. \A m, n \in DOMAIN ran' : ResultsOf(ran'[m]) = ResultsOf(ran'[n]) => m = n
    <3>1. \A n \in DOMAIN ran' : n \in 1 .. Len(ran) \/ n = Len(ran) + 1
      BY <2>4
    <3>2. QED
      BY <2>4, <2>7, <2>8, <3>1
  <2>10. phase' \in Running
    BY <2>1 DEF Running
  <2>11. QED
    BY <2>6, <2>9, <2>10 DEF RunsInv, ResultsOf
<1>3. CASE Skip
  BY <1>3, SameRuns DEF Skip, seriesVars
<1>4. CASE PackB \/ Assemble \/ SetFields \/ Compute
  <2>1. phase \in Running /\ phase' \in Running /\ UNCHANGED <<files, func_idx, ran>>
    BY <1>4 DEF PackB, Assemble, SetFields, Compute, seriesVars, Running
  <2>2. QED
    BY <2>1, SameRuns
<1>5. CASE FreeTensors
  BY <1>5, SameRuns DEF FreeTensors, Running
<1>6. CASE SaveCsv
  BY <1>6, SameRuns DEF SaveCsv, Running
<1>7. CASE UNCHANGED vars
  BY <1>7, SameRuns DEF vars, seriesVars
<1>8. QED
  BY <1>1, <1>2, <1>3, <1>4, <1>5, <1>6, <1>7 DEF Next, Done

\* Runs are added and never taken away: if they fit now, they did before.
LEMMA FitBefore == CountsInv /\ [Next]_vars /\ RunsFit' => RunsFit
<1> SUFFICES ASSUME CountsInv, [Next]_vars PROVE RunsFit' => RunsFit
  OBVIOUS
<1>1. CASE PackA
  <2> DEFINE r == [k |-> kron_coo.k, function |-> func_idx, kron_nnz |-> kron_coo.nnz, file |-> files]
  <2>1. ran' = Append(ran, r) /\ r \in RunRecord /\ ran \in Seq(RunRecord)
    BY <1>1, Kernels DEF PackA, RunRecord, CountsInv
  <2> HIDE DEF r
  <2>2. Len(ran') = Len(ran) + 1 /\ Len(ran) \in Nat
    BY <2>1
  <2>3. QED
    BY <2>2, SeriesEntriesAssumption DEF RunsFit
<1>2. CASE ~PackA
  <2>1. ran' = ran
    BY <1>2 DEF Next, LoadKron, Skip, PackB, Assemble, SetFields, Compute, FreeTensors, SaveCsv, Done, vars, seriesVars
  <2>2. QED
    BY <2>1 DEF RunsFit
<1>3. QED
  BY <1>1, <1>2

LEMMA FirstNumbers == \A count \in Nat : IsFiniteSet(1 .. count) /\ Cardinality(1 .. count) = count
<1> SUFFICES ASSUME NEW count \in Nat PROVE IsFiniteSet(1 .. count) /\ Cardinality(1 .. count) = count
  OBVIOUS
<1>1. IsFiniteSet(1 .. count) /\ Cardinality(1 .. count) = IF 1 > count THEN 0 ELSE count - 1 + 1
  BY FS_Interval
<1>2. QED
  BY <1>1

\* A graph has at most one run for each kernel, so that room for the graphs is room for the runs.
LEMMA GraphsFit == CountsInv /\ RunsInv /\ SeriesHasRoom => RunsFit
<1> SUFFICES ASSUME CountsInv, RunsInv, SeriesHasRoom PROVE RunsFit
  OBVIOUS
<1>1. ran \in Seq(RunRecord) /\ Len(ran) \in Nat /\ DOMAIN ran = 1 .. Len(ran) /\ files \in Nat
  BY DEF CountsInv
<1>2. \A n \in 1 .. Len(ran) : ran[n].file \in 0 .. files /\ ran[n].function \in 1 .. 10
  <2>1. \A n \in 1 .. Len(ran) : ran[n] \in RunRecord
    BY <1>1
  <2>2. \A n \in 1 .. Len(ran) : ran[n].file \in Nat /\ ran[n].function \in 1 .. 10
    BY <2>1, Kernels DEF RunRecord
  <2>3. QED
    BY <1>1, <2>2 DEF RunsInv
<1>3. IsFiniteSet(GraphsRun) /\ Cardinality(GraphsRun) \in Nat
  <2>1. GraphsRun \in SUBSET (0 .. files)
    BY <1>1, <1>2 DEF GraphsRun
  <2>2. IsFiniteSet(0 .. files)
    BY <1>1, FS_Interval
  <2>3. QED
    BY <2>1, <2>2, FS_Subset, FS_CardinalityType
<1> DEFINE Numbers == 1 .. 10
           f == [n \in 1 .. Len(ran) |-> ResultsOf(ran[n])]
<1>4. IsFiniteSet(Numbers) /\ Cardinality(Numbers) = 10
  BY FirstNumbers
<1>5. IsFiniteSet(GraphsRun \X Numbers) /\ Cardinality(GraphsRun \X Numbers) = Cardinality(GraphsRun) * 10
  BY <1>3, <1>4, FS_Product
<1>6. f \in Injection(1 .. Len(ran), GraphsRun \X Numbers)
  <2>1. \A n \in 1 .. Len(ran) : f[n] \in GraphsRun \X Numbers
    BY <1>1, <1>2 DEF GraphsRun, ResultsOf
  <2>2. \A m, n \in 1 .. Len(ran) : f[m] = f[n] => m = n
    BY <1>1 DEF RunsInv
  <2>3. QED
    BY <2>1, <2>2 DEF Injection, IsInjective
<1>7. Cardinality(1 .. Len(ran)) <= Cardinality(GraphsRun \X Numbers)
  <2> HIDE DEF f, Numbers
  <2>1. QED
    BY <1>5, <1>6, FS_Injection
<1>8. Cardinality(1 .. Len(ran)) = Len(ran)
  BY <1>1, FirstNumbers
<1>9. QED
  BY <1>1, <1>3, <1>5, <1>7, <1>8, SeriesEntriesAssumption, Kernels DEF SeriesHasRoom, RunsFit

\* As long as the series has an entry for every kernel of every graph that has run, however many
\* files of the folder were passed over before, between and after them, the saved rows are the runs,
\* row by row, none with the results of a tester in error, and all of them after a graph while there
\* is a descriptor for the file (repetition_series_set_fields, repetition_series_is_testing, main).
THEOREM TacoBenchSavedRowsAreRuns == Spec => [](SeriesHasRoom => SavedRowsAreRuns)
<1>1. Init => SavedInv
  BY InitCounts, InitRuns, InitSeries DEF SavedInv
<1>2. SavedInv /\ [Next]_vars => SavedInv'
  BY NextCounts, NextRuns, FitBefore, NextSeries, NextCsv DEF SavedInv
<1>3. SavedInv => (SeriesHasRoom => SavedRowsAreRuns)
  <2>1. CsvInv => SavedRowsAreRuns
    BY DEF CsvInv, SavedRowsAreRuns, SameRun, ResultsOf
  <2>2. QED
    BY <2>1, GraphsFit DEF SavedInv
<1>4. QED
  BY <1>1, <1>2, <1>3, PTL DEF Spec

-----------------------------------------------------------------------------
(* Sequences in order.                                                     *)

\* Sets whose elements correspond one to one.
LEMMA SameSize ==
  ASSUME NEW S, IsFiniteSet(S), NEW T, NEW f \in [S -> T],
         \A y \in T : \E x \in S : f[x] = y, \A x, y \in S : f[x] = f[y] => x = y
  PROVE  IsFiniteSet(T) /\ Cardinality(T) = Cardinality(S)
<1>1. f \in Injection(S, T)
  BY DEF Injection, IsInjective
<1>2. f \in Surjection(S, T)
  BY DEF Surjection
<1>3. f \in Bijection(S, T)
  BY <1>1, <1>2 DEF Bijection
<1>4. QED
  BY <1>3, FS_Bijection DEF ExistsBijection

\* The elements of S in order: no other sequence has each of them, the earlier ones first.
LEMMA InOrderIs ==
  ASSUME NEW S, IsFiniteSet(S), NEW R, Orders(R, S), NEW m \in Nat, NEW t \in [1 .. m -> S],
         \A x \in S : \E i \in 1 .. m : t[i] = x,
         \A i, j \in 1 .. m : <<t[i], t[j]>> \in R <=> i < j
  PROVE  m = Cardinality(S) /\ t = InOrder(R, S)
<1>1. \A i, j \in 1 .. m : t[i] = t[j] => i = j
  <2> SUFFICES ASSUME NEW i \in 1 .. m, NEW j \in 1 .. m, t[i] = t[j] PROVE i = j
    OBVIOUS
  <2>1. ~(<<t[i], t[j]>> \in R) /\ ~(<<t[j], t[i]>> \in R)
    BY DEF Orders
  <2>2. QED
    BY <2>1
<1>2. IsFiniteSet(1 .. m) /\ Cardinality(1 .. m) = m
  <2>1. 1 \in Int /\ m \in Int
    OBVIOUS
  <2>2. QED
    BY <2>1, FS_Interval
<1>3. Cardinality(S) = m
  BY <1>1, <1>2, SameSize
<1>4. ASSUME NEW i \in 1 .. m PROVE Rank(R, S, t[i]) = i - 1
  <2>1. IsFiniteSet(1 .. i - 1) /\ Cardinality(1 .. i - 1) = i - 1
    <3>1. 1 \in Int /\ i - 1 \in Int
      OBVIOUS
    <3>2. QED
      BY <3>1, FS_Interval
  <2>2. PICK E : E = Earlier(R, S, t[i])
    OBVIOUS
  <2>3. Cardinality(E) = i - 1
    <3> DEFINE f == [j \in 1 .. i - 1 |-> t[j]]
    <3>1. \A j \in 1 .. i - 1 : j \in 1 .. m /\ f[j] = t[j] /\ j < i
      OBVIOUS
    <3>2. \A j \in 1 .. i - 1 : f[j] \in E
      BY <2>2, <3>1 DEF Earlier
    <3>3. \A j, k \in 1 .. i - 1 : f[j] = f[k] => j = k
      BY <1>1, <3>1
    <3>4. ASSUME NEW x \in E PROVE \E j \in 1 .. i - 1 : f[j] = x
      <4>1. x \in S /\ <<x, t[i]>> \in R
        BY <2>2 DEF Earlier
      <4>2. PICK j \in 1 .. m : t[j] = x
        BY <4>1
      <4>3. j < i
        BY <4>1, <4>2
      <4>4. QED
        BY <4>2, <4>3
    <3>5. f \in [1 .. i - 1 -> E]
      BY <3>2
    <3> HIDE DEF f
    <3>6. QED
      BY <2>1, <3>3, <3>4, <3>5, SameSize
  <2>4. QED
    BY <2>2, <2>3 DEF Rank
<1>5. ASSUME NEW i \in 1 .. m PROVE (CHOOSE x \in S : Rank(R, S, x) = i - 1) = t[i]
  <2>1. i - 1 \in 0 .. Cardinality(S) - 1
    BY <1>3
  <2>2. PICK x \in S : Rank(R, S, x) = i - 1 /\ \A y \in S : Rank(R, S, y) = i - 1 => y = x
    BY <2>1, RankedElement
  <2>3. t[i] = x
    BY <1>4, <2>2
  <2>4. QED
    BY <1>4, <2>2, <2>3
<1>6. InOrder(R, S) = [i \in 1 .. m |-> CHOOSE x \in S : Rank(R, S, x) = i - 1]
  BY <1>3 DEF InOrder
<1>7. QED
  BY <1>3, <1>5, <1>6

\* A sequence of the cells with a value, earlier ones first, is the scan by rows.
LEMMA RowScanIs ==
  ASSUME NEW d, IsDense(d), NEW m \in Nat, NEW t \in [1 .. m -> NonZero(d)],
         \A x \in NonZero(d) : \E i \in 1 .. m : t[i] = x,
         \A i, j \in 1 .. m : RowsFirst(t[i], t[j]) <=> i < j
  PROVE  m = Cardinality(NonZero(d)) /\ t = RowScan(d)
<1>1. PICK S : S = NonZero(d)
  OBVIOUS
<1>2. PICK R : R = RowOrder(S)
  OBVIOUS
<1>3. IsFiniteSet(S) /\ Orders(R, S) /\ RowScan(d) = InOrder(R, S)
  BY <1>1, <1>2, CellFacts, CellsOrdered, Scans
<1>4. \A i, j \in 1 .. m : <<t[i], t[j]>> \in R <=> i < j
  BY <1>1, <1>2 DEF RowOrder
<1>5. QED
  BY <1>1, <1>3, <1>4, InOrderIs

LEMMA ColScanIs ==
  ASSUME NEW d, IsDense(d), NEW m \in Nat, NEW t \in [1 .. m -> NonZero(d)],
         \A x \in NonZero(d) : \E i \in 1 .. m : t[i] = x,
         \A i, j \in 1 .. m : ColsFirst(t[i], t[j]) <=> i < j
  PROVE  m = Cardinality(NonZero(d)) /\ t = ColScan(d)
<1>1. PICK S : S = NonZero(d)
  OBVIOUS
<1>2. PICK R : R = ColOrder(S)
  OBVIOUS
<1>3. IsFiniteSet(S) /\ Orders(R, S) /\ ColScan(d) = InOrder(R, S)
  BY <1>1, <1>2, CellFacts, CellsOrdered, Scans
<1>4. \A i, j \in 1 .. m : <<t[i], t[j]>> \in R <=> i < j
  BY <1>1, <1>2 DEF ColOrder
<1>5. QED
  BY <1>1, <1>3, <1>4, InOrderIs

-----------------------------------------------------------------------------
(* The runs of an ordered list: entries of one cell follow each other.     *)

\* The least number of a set, as Min chooses it.
LEMMA MinOfSet ==
  ASSUME NEW S, S \subseteq Nat, S # {}
  PROVE  Min(S) \in S /\ \A y \in S : Min(S) <= y
<1>1. \E x \in S : \A y \in S : x =< y
  BY LeastNumber
<1>2. QED
  BY <1>1, Zenon DEF Min

\* The cell of an entry.
CellOf(coo, i) == <<coo[i].row, coo[i].col>>

\* A list of n entries of a square of N rows, ordered by rows and columns; a cell may
\* come several times.
SortedList(coo, n, N) ==
  /\ n \in Nat /\ N \in Nat /\ DOMAIN coo = 1 .. n /\ Len(coo) = n
  /\ \A i \in 1 .. n : /\ coo[i].row \in 0 .. N - 1 /\ coo[i].col \in 0 .. N - 1
                       /\ coo[i].value \in Int
                       /\ coo[i] = [row |-> coo[i].row, col |-> coo[i].col, value |-> coo[i].value]
  /\ \A i, j \in 1 .. n : i < j => ~RowsFirst(CellOf(coo, j), CellOf(coo, i))

\* The entries of a cell.
PlacesAt(coo, cell) == {p \in DOMAIN coo : CellOf(coo, p) = cell}

\* The cell of i comes before that of j: by rows or, in a row, by columns.
LEMMA CellsSorted ==
  ASSUME NEW coo, NEW n, NEW N, SortedList(coo, n, N), NEW i \in 1 .. n, NEW j \in 1 .. n
  PROVE  /\ i < j /\ CellOf(coo, i) # CellOf(coo, j) => RowsFirst(CellOf(coo, i), CellOf(coo, j))
         /\ RowsFirst(CellOf(coo, i), CellOf(coo, j)) => i < j /\ CellOf(coo, i) # CellOf(coo, j)
         /\ i <= j => coo[i].row <= coo[j].row
<1>1. PICK a, b, c, d : a = coo[i].row /\ b = coo[i].col /\ c = coo[j].row /\ d = coo[j].col
  OBVIOUS
<1>2. a \in Int /\ b \in Int /\ c \in Int /\ d \in Int
  BY <1>1 DEF SortedList
<1>3. CellOf(coo, i) = <<a, b>> /\ CellOf(coo, j) = <<c, d>>
  BY <1>1 DEF CellOf
<1>4. n \in Nat
  BY DEF SortedList
<1>5. (i < j => ~RowsFirst(<<c, d>>, <<a, b>>)) /\ (j < i => ~RowsFirst(<<a, b>>, <<c, d>>))
  BY <1>3 DEF SortedList
<1>6. (RowsFirst(<<a, b>>, <<c, d>>) <=> a < c \/ (a = c /\ b < d)) /\ (RowsFirst(<<c, d>>, <<a, b>>) <=> c < a \/ (c = a /\ d < b))
  BY DEF RowsFirst
<1>7. <<a, b>> = <<c, d>> <=> a = c /\ b = d
  OBVIOUS
<1>8. i = j => a = c /\ b = d
  BY <1>1
<1>9. QED
  BY <1>1, <1>2, <1>3, <1>4, <1>5, <1>6, <1>7, <1>8

\* A run has all the entries of its cell, the first of which starts it.
LEMMA RunIs ==
  ASSUME NEW coo, NEW n, NEW N, SortedList(coo, n, N), NEW p \in RunStarts(coo)
  PROVE  /\ p \in 1 .. n /\ RunEnd(coo, p) \in p .. n
         /\ p .. RunEnd(coo, p) = PlacesAt(coo, CellOf(coo, p))
         /\ \A i \in PlacesAt(coo, CellOf(coo, p)) : p <= i
<1>1. n \in Nat /\ DOMAIN coo = 1 .. n /\ Len(coo) = n
  BY DEF SortedList
<1>2. p \in 1 .. n /\ (p = 1 \/ CellOf(coo, p - 1) # CellOf(coo, p))
  BY <1>1 DEF RunStarts, CellOf
<1>3. PICK others : others = {q \in RunStarts(coo) : q > p} \cup {n + 1}
  OBVIOUS
<1>4. others \subseteq p + 1 .. n + 1 /\ n + 1 \in others
  BY <1>1, <1>2, <1>3 DEF RunStarts
<1>5. PICK e : e = Min(others)
  OBVIOUS
<1>6. e \in others /\ \A y \in others : e <= y
  <2>1. others \subseteq Nat /\ others # {}
    BY <1>1, <1>2, <1>4
  <2>2. QED
    BY <1>5, <2>1, MinOfSet
<1>7. e \in p + 1 .. n + 1 /\ RunEnd(coo, p) = e - 1
  BY <1>1, <1>3, <1>4, <1>5, <1>6 DEF RunEnd
<1>8. ASSUME NEW q \in p .. e - 1 PROVE CellOf(coo, q) = CellOf(coo, p)
  <2> DEFINE wrong == {x \in p .. e - 1 : CellOf(coo, x) # CellOf(coo, p)}
  <2> SUFFICES ASSUME wrong # {} PROVE FALSE
    OBVIOUS
  <2>1. PICK x \in wrong : \A y \in wrong : x <= y
    <3>1. wrong \subseteq Nat
      BY <1>2
    <3> HIDE DEF wrong
    <3>2. QED
      BY <3>1, LeastNumber
  <2>2. x \in p + 1 .. e - 1 /\ CellOf(coo, x) # CellOf(coo, p)
    BY <1>2, <2>1
  <2>3. x - 1 \in p .. e - 1 /\ x - 1 \notin wrong
    BY <1>2, <1>7, <2>1, <2>2
  <2>4. CellOf(coo, x - 1) = CellOf(coo, p) /\ x \in 1 .. n
    BY <1>1, <1>2, <1>7, <2>2, <2>3
  <2>5. x \in RunStarts(coo)
    BY <1>1, <2>2, <2>4 DEF RunStarts, CellOf
  <2>6. x \in others
    BY <1>2, <1>3, <2>2, <2>5
  <2>7. QED
    BY <1>2, <1>6, <1>7, <2>2, <2>6
<1>9. ASSUME NEW q \in 1 .. n, e <= q PROVE CellOf(coo, q) # CellOf(coo, p)
  <2>1. e \in 1 .. n /\ e \in RunStarts(coo)
    <3>1. e \in 1 .. n /\ e # n + 1
      BY <1>1, <1>2, <1>7, <1>9
    <3>2. e \in {x \in RunStarts(coo) : x > p} \cup {n + 1}
      BY <1>3, <1>6
    <3>3. QED
      BY <3>1, <3>2
  <2>2. e - 1 \in p .. e - 1 /\ e - 1 \in 1 .. n /\ CellOf(coo, e - 1) # CellOf(coo, e)
    BY <1>1, <1>2, <1>7, <2>1 DEF RunStarts, CellOf
  <2>3. RowsFirst(CellOf(coo, p), CellOf(coo, e))
    BY <1>8, <2>1, <2>2, CellsSorted
  <2>4. ~RowsFirst(CellOf(coo, q), CellOf(coo, e))
    <3>1. RowsFirst(CellOf(coo, q), CellOf(coo, e)) => q < e
      BY <2>1, CellsSorted
    <3>2. ~(q < e)
      BY <1>1, <1>9, <2>1
    <3>3. QED
      BY <3>1, <3>2
  <2>5. QED
    BY <2>3, <2>4
<1>10. ASSUME NEW q \in 1 .. n, q < p PROVE CellOf(coo, q) # CellOf(coo, p)
  <2>1. p - 1 \in 1 .. n /\ CellOf(coo, p - 1) # CellOf(coo, p) /\ q <= p - 1
    BY <1>1, <1>2, <1>10
  <2>2. RowsFirst(CellOf(coo, p - 1), CellOf(coo, p))
    BY <1>2, <2>1, CellsSorted
  <2>3. ~RowsFirst(CellOf(coo, p - 1), CellOf(coo, q))
    BY <1>2, <2>1, CellsSorted
  <2>4. QED
    BY <2>2, <2>3
<1>11. p .. e - 1 = PlacesAt(coo, CellOf(coo, p))
  <2>1. ASSUME NEW q \in p .. e - 1 PROVE q \in PlacesAt(coo, CellOf(coo, p))
    BY <1>1, <1>2, <1>7, <1>8 DEF PlacesAt
  <2>2. ASSUME NEW q \in PlacesAt(coo, CellOf(coo, p)) PROVE q \in p .. e - 1
    <3>1. q \in 1 .. n /\ CellOf(coo, q) = CellOf(coo, p)
      BY <1>1 DEF PlacesAt
    <3>2. ~(e <= q) /\ ~(q < p)
      BY <1>9, <1>10, <3>1
    <3>3. QED
      BY <1>1, <1>2, <1>7, <3>1, <3>2
  <2>3. QED
    BY <2>1, <2>2
<1>12. \A i \in p .. e - 1 : p <= i
  BY <1>2, <1>7
<1>13. QED
  BY <1>1, <1>2, <1>7, <1>11, <1>12

\* Every entry is in one run.
LEMMA RunOf ==
  ASSUME NEW coo, NEW n, NEW N, SortedList(coo, n, N), NEW i \in 1 .. n
  PROVE  \E p \in RunStarts(coo) : CellOf(coo, p) = CellOf(coo, i)
<1>1. n \in Nat /\ DOMAIN coo = 1 .. n
  BY DEF SortedList
<1>2. PICK same : same = PlacesAt(coo, CellOf(coo, i))
  OBVIOUS
<1>3. same \subseteq 1 .. n /\ i \in same /\ \A q \in 1 .. n : q \in same <=> CellOf(coo, q) = CellOf(coo, i)
  BY <1>1, <1>2 DEF PlacesAt
<1>4. PICK p \in same : \A y \in same : p <= y
  <2>1. same \subseteq Nat /\ same # {}
    BY <1>1, <1>3
  <2>2. QED
    BY <2>1, LeastNumber
<1>5. p \in 1 .. n /\ CellOf(coo, p) = CellOf(coo, i)
  BY <1>3, <1>4
<1>6. p = 1 \/ (p - 1 \in 1 .. n /\ p - 1 \notin same)
  BY <1>1, <1>4, <1>5
<1>7. p \in RunStarts(coo)
  BY <1>1, <1>3, <1>5, <1>6 DEF RunStarts, CellOf
<1>8. QED
  BY <1>5, <1>7

\* Runs of one cell are one run.
LEMMA RunsApart ==
  ASSUME NEW coo, NEW n, NEW N, SortedList(coo, n, N), NEW p \in RunStarts(coo), NEW q \in RunStarts(coo),
         CellOf(coo, p) = CellOf(coo, q)
  PROVE  p = q
<1>1. p \in 1 .. n /\ q \in 1 .. n /\ n \in Nat /\ DOMAIN coo = 1 .. n
  BY RunIs DEF SortedList
<1>2. q \in PlacesAt(coo, CellOf(coo, p)) /\ p \in PlacesAt(coo, CellOf(coo, q))
  BY <1>1 DEF PlacesAt
<1>3. p <= q /\ q <= p
  BY <1>2, RunIs
<1>4. QED
  BY <1>1, <1>3

-----------------------------------------------------------------------------
(* The graph of an ordered list, and what its runs are merged to.          *)

\* The values of the entries.
ValuesOf(coo) == [p \in DOMAIN coo |-> coo[p].value]

\* The total of some entries, as a sum.
LEMMA TotalOfValues ==
  ASSUME NEW coo, NEW P, P \subseteq DOMAIN coo
  PROVE  Total(P, LAMBDA p : coo[p].value) = SumOf(ValuesOf(coo), P)
<1> DEFINE f == ValuesOf(coo)
           Read(iter) == iter = [s \in SUBSET P |-> IF s = {} THEN 0 ELSE LET x == CHOOSE x \in s : TRUE
                                                                      IN  coo[x].value + iter[s \ {x}]]
           Summed(iter) == iter = [s \in SUBSET P |-> IF s = {} THEN 0 ELSE LET x == CHOOSE x \in s : TRUE
                                                                      IN  f[x] + iter[s \ {x}]]
<1>1. \A s \in SUBSET P : s # {} => (CHOOSE x \in s : TRUE) \in P
  OBVIOUS
<1>2. \A x \in P : f[x] = coo[x].value
  BY DEF ValuesOf
<1> HIDE DEF f
<1>3. \A iter : Read(iter) <=> Summed(iter)
  BY <1>1, <1>2
<1>4. (CHOOSE iter : Read(iter)) = (CHOOSE iter : Summed(iter))
  BY <1>3, Zenon
<1>5. Total(P, LAMBDA p : coo[p].value) = (CHOOSE iter : Read(iter))[P]
  BY Zenon DEF Total, MapThenSumSet, MapThenFoldSet
<1>6. SumOf(f, P) = (CHOOSE iter : Summed(iter))[P]
  BY Zenon DEF SumOf
<1>7. QED
  BY <1>4, <1>5, <1>6, Zenon DEF f

\* The graph of a list: in each cell the sum of its entries.
Graph(coo, N) ==
  [row_count |-> N, col_count |-> N,
   values |-> [cell \in (0 .. N - 1) \X (0 .. N - 1) |-> SumOf(ValuesOf(coo), PlacesAt(coo, cell))]]

\* The cells that have an entry, whatever its value.
Occupied(coo, N) == OnesAt({CellOf(coo, i) : i \in DOMAIN coo}, N, N)

\* The graph of a list, the cells of which are stored.
LEMMA GraphIs ==
  ASSUME NEW coo, NEW n, NEW N, SortedList(coo, n, N), NEW g, g = Graph(coo, N), NEW stored, stored = Occupied(coo, N)
  PROVE  /\ Stores(stored, g) /\ g.row_count = N /\ g.col_count = N
         /\ \A i \in 1 .. n : CellOf(coo, i) \in NonZero(stored)
         /\ \A x \in NonZero(stored) : \E i \in 1 .. n : CellOf(coo, i) = x
         /\ \A x \in Cells(g) : g.values[x] = SumOf(ValuesOf(coo), PlacesAt(coo, x))
<1>1. n \in Nat /\ N \in Nat /\ DOMAIN coo = 1 .. n
  BY DEF SortedList
<1>2. g.row_count = N /\ g.col_count = N /\ Cells(g) = (0 .. N - 1) \X (0 .. N - 1)
  BY DEF Graph, Cells, Rows, Cols
<1>3. ASSUME NEW x PROVE Summable(ValuesOf(coo), PlacesAt(coo, x))
  <2>1. PlacesAt(coo, x) \in SUBSET (1 .. n)
    BY <1>1 DEF PlacesAt
  <2>2. IsFiniteSet(1 .. n)
    BY <1>1, FS_Interval
  <2>3. IsFiniteSet(PlacesAt(coo, x))
    BY <2>1, <2>2, FS_Subset
  <2>4. \A p \in 1 .. n : ValuesOf(coo)[p] \in Int
    BY <1>1 DEF ValuesOf, SortedList
  <2>5. QED
    BY <2>1, <2>3, <2>4 DEF Summable
<1>4. \A x \in Cells(g) : g.values[x] = SumOf(ValuesOf(coo), PlacesAt(coo, x))
  BY <1>2 DEF Graph
<1>5. \A x \in Cells(g) : g.values[x] \in Int
  BY <1>3, <1>4, SumStep
<1>6. IsDense(g)
  <2>1. g.values = [x \in Cells(g) |-> g.values[x]]
    BY <1>2 DEF Graph
  <2>2. g.values \in [Cells(g) -> Int]
    BY <1>5, <2>1
  <2>3. g = [row_count |-> g.row_count, col_count |-> g.col_count, values |-> g.values]
    BY DEF Graph
  <2>4. QED
    BY <1>1, <1>2, <2>2, <2>3 DEF IsDense
<1>7. PICK S : S = {CellOf(coo, i) : i \in DOMAIN coo}
  OBVIOUS
<1>8. S \subseteq (0 .. N - 1) \X (0 .. N - 1)
  BY <1>1, <1>7 DEF CellOf, SortedList
<1>9. stored = OnesAt(S, N, N) /\ stored.row_count = N /\ stored.col_count = N
  BY <1>7 DEF Occupied, OnesAt
<1>10. IsDense(stored) /\ NonZero(stored) = S
  BY <1>1, <1>8, <1>9, OnesAtIs
<1>11. ASSUME NEW x \in NonZero(g) PROVE x \in S
  <2>1. x \in Cells(g) /\ g.values[x] # 0
    BY DEF NonZero
  <2>2. PlacesAt(coo, x) # {}
    BY <1>3, <1>4, <2>1, SumStep
  <2>3. QED
    BY <1>7, <2>2 DEF PlacesAt
<1>12. Stores(stored, g)
  BY <1>2, <1>6, <1>9, <1>10, <1>11 DEF Stores
<1>13. QED
  BY <1>1, <1>2, <1>4, <1>7, <1>10, <1>12

\* The starts of the runs in ascending order.
Starting(coo) == Ascend(RunStarts(coo))

\* The runs, in their order, are the cells that have an entry, in the order of the rows.
LEMMA RunsAreCells ==
  ASSUME NEW coo, NEW n, NEW N, SortedList(coo, n, N), NEW g, g = Graph(coo, N), NEW stored, stored = Occupied(coo, N),
         NEW m, m = Cardinality(RunStarts(coo)), NEW s, s = Starting(coo)
  PROVE  /\ m \in Nat /\ s \in [1 .. m -> RunStarts(coo)] /\ m = Cardinality(NonZero(stored))
         /\ RowScan(stored) = [i \in 1 .. m |-> CellOf(coo, s[i])]
<1>1. n \in Nat /\ DOMAIN coo = 1 .. n
  BY DEF SortedList
<1>2. PICK P : P = RunStarts(coo)
  OBVIOUS
<1>3. P \in SUBSET (1 .. n) /\ IsFiniteSet(P)
  <2>1. P \in SUBSET (1 .. n)
    BY <1>1, <1>2 DEF RunStarts
  <2>2. IsFiniteSet(1 .. n)
    BY <1>1, FS_Interval
  <2>3. QED
    BY <2>1, <2>2, FS_Subset
<1>4. /\ m \in Nat /\ s \in [1 .. m -> P]
      /\ \A i, j \in 1 .. m : s[i] < s[j] <=> i < j
      /\ \A p \in P : \E i \in 1 .. m : s[i] = p
  <2>1. P \subseteq Int /\ IsFiniteSet(P)
    BY <1>1, <1>3
  <2>2. m = Cardinality(P)
    BY <1>2
  <2>3. s = Ascend(P)
    BY <1>2 DEF Starting
  <2>4. /\ m \in Nat /\ s \in [1 .. m -> P]
        /\ \A i, j \in 1 .. m : s[i] < s[j] <=> i < j
        /\ \A p \in P : \E i \in 1 .. m : s[i] = p
        /\ \A r \in Int :
             /\ Below(P, r) \in 0 .. m
             /\ \A i \in 1 .. m : s[i] < r <=> i <= Below(P, r)
    BY <2>1, <2>2, <2>3, NumbersAscend, Zenon
  <2>5. QED
    BY <2>4
<1>5. PICK t : t = [i \in 1 .. m |-> CellOf(coo, s[i])]
  OBVIOUS
<1>6. IsDense(stored)
  BY GraphIs, StoresFacts
<1>7. t \in [1 .. m -> NonZero(stored)]
  <2>1. \A i \in 1 .. m : s[i] \in 1 .. n
    BY <1>3, <1>4
  <2>2. QED
    BY <1>5, <2>1, GraphIs
<1>8. ASSUME NEW x \in NonZero(stored) PROVE \E i \in 1 .. m : t[i] = x
  <2>1. PICK i \in 1 .. n : CellOf(coo, i) = x
    BY GraphIs
  <2>2. PICK p \in P : CellOf(coo, p) = x
    BY <1>2, <2>1, RunOf
  <2>3. QED
    BY <1>4, <1>5, <2>2
<1>9. ASSUME NEW i \in 1 .. m, NEW j \in 1 .. m PROVE RowsFirst(t[i], t[j]) <=> i < j
  <2>1. PICK p, q : p = s[i] /\ q = s[j]
    OBVIOUS
  <2>2. p \in P /\ q \in P /\ p \in 1 .. n /\ q \in 1 .. n /\ (p < q <=> i < j)
    BY <1>3, <1>4, <2>1
  <2>3. t[i] = CellOf(coo, p) /\ t[j] = CellOf(coo, q)
    BY <1>5, <2>1
  <2>4. p < q => CellOf(coo, p) # CellOf(coo, q)
    BY <1>2, <2>2, RunsApart
  <2>5. RowsFirst(CellOf(coo, p), CellOf(coo, q)) <=> p < q
    BY <2>2, <2>4, CellsSorted
  <2>6. QED
    BY <2>2, <2>3, <2>5
<1>10. m = Cardinality(NonZero(stored)) /\ t = RowScan(stored)
  BY <1>4, <1>6, <1>7, <1>8, <1>9, RowScanIs
<1>11. QED
  BY <1>2, <1>4, <1>5, <1>10

\* Packing merges the entries of a cell: the list of the stored cells.
LEMMA MergedIs ==
  ASSUME NEW coo, NEW n, NEW N, SortedList(coo, n, N), NEW g, g = Graph(coo, N), NEW stored, stored = Occupied(coo, N)
  PROVE  Merged(coo) = StoredCoo(stored, g)
<1>1. PICK m, s, P : m = Cardinality(RunStarts(coo)) /\ s = Starting(coo) /\ P = RunStarts(coo)
  OBVIOUS
<1>2. m \in Nat /\ s \in [1 .. m -> P] /\ RowScan(stored) = [i \in 1 .. m |-> CellOf(coo, s[i])]
  BY <1>1, RunsAreCells
<1>3. Scan(P, LAMBDA a, b : a < b) = s
  BY <1>1 DEF Scan, Starting, Ascend
<1> DEFINE Packed(i) == [coo[s[i]] EXCEPT !.value = Total(s[i] .. RunEnd(coo, s[i]), LAMBDA p : coo[p].value)]
           Scanned(i) == [row |-> RowScan(stored)[i][1], col |-> RowScan(stored)[i][2], value |-> g.values[RowScan(stored)[i]]]
<1>4. ASSUME NEW i \in 1 .. m PROVE Packed(i) = Scanned(i)
  <2>1. PICK p : p = s[i]
    OBVIOUS
  <2>2. p \in P /\ p \in 1 .. n /\ RunEnd(coo, p) \in p .. n /\ p .. RunEnd(coo, p) = PlacesAt(coo, CellOf(coo, p))
    BY <1>1, <1>2, <2>1, RunIs
  <2>3. coo[p] = [row |-> coo[p].row, col |-> coo[p].col, value |-> coo[p].value]
    BY <2>2 DEF SortedList
  <2>4. p .. RunEnd(coo, p) \subseteq DOMAIN coo
    BY <2>2 DEF PlacesAt
  <2>5. PICK v : v = SumOf(ValuesOf(coo), p .. RunEnd(coo, p))
    OBVIOUS
  <2>6. Total(p .. RunEnd(coo, p), LAMBDA x : coo[x].value) = v
    BY <2>4, <2>5, TotalOfValues
  <2>7. RowScan(stored)[i] = CellOf(coo, p)
    BY <1>2, <2>1
  <2>8. g.values[CellOf(coo, p)] = v
    <3>1. CellOf(coo, p) \in Cells(g)
      BY <2>2, GraphIs, StoresFacts, CellFacts
    <3>2. QED
      BY <2>2, <2>5, <3>1, GraphIs
  <2>9. Packed(i) = [row |-> coo[p].row, col |-> coo[p].col, value |-> v]
    <3>1. Packed(i) = [coo[p] EXCEPT !.value = v]
      BY <2>1, <2>6
    <3>2. QED
      BY <2>3, <3>1
  <2>10. Scanned(i) = [row |-> coo[p].row, col |-> coo[p].col, value |-> v]
    BY <2>7, <2>8 DEF CellOf
  <2>11. QED
    BY <2>9, <2>10
<1>5. DOMAIN s = 1 .. m /\ DOMAIN RowScan(stored) = 1 .. m
  BY <1>2
<1>6. Merged(coo) = [i \in 1 .. m |-> Packed(i)]
  BY <1>1, <1>3, <1>5, Zenon DEF Merged
<1>7. StoredCoo(stored, g) = [i \in 1 .. m |-> Scanned(i)]
  BY <1>5, Zenon DEF StoredCoo
<1> HIDE DEF Packed, Scanned
<1>8. QED
  BY <1>4, <1>6, <1>7

-----------------------------------------------------------------------------
(* What the pack functions make of an ordered list.                        *)

\* The rows of an ordered list ascend.
LEMMA SortedRows == ASSUME NEW coo, NEW n, NEW N, SortedList(coo, n, N) PROVE RowsAscend(coo, n)
<1>1. n \in Nat /\ DOMAIN coo = 1 .. n /\ Len(coo) = n /\ \A i \in 1 .. n : coo[i].row \in Int
  BY DEF SortedList
<1>2. \A i, j \in 1 .. n : i <= j => coo[i].row <= coo[j].row
  BY CellsSorted
<1>3. QED
  BY <1>1, <1>2 DEF RowsAscend

\* The runs that are in a row.
RunsOfRow(coo, r) == {p \in RunStarts(coo) : coo[p].row = r}

\* A segment is as long as its row has runs.
LEMMA SegmentLengthIs ==
  ASSUME NEW coo, NEW n, NEW N, SortedList(coo, n, N), NEW r
  PROVE  SegmentLength(coo, r) = Cardinality(RunsOfRow(coo, r))
<1>1. n \in Nat /\ DOMAIN coo = 1 .. n /\ RowsAscend(coo, n)
  BY SortedRows DEF SortedList
<1>2. PICK starts : starts = {p \in SegmentStarts(coo) : coo[p].row = r}
  OBVIOUS
<1>3. SegmentLength(coo, r) = IF starts = {} THEN 0 ELSE Cardinality(RunStarts(coo) \cap Segment(coo, Max(starts)))
  BY <1>2 DEF SegmentLength
<1>4. RunStarts(coo) \subseteq 1 .. n
  BY <1>1 DEF RunStarts
<1>5. CASE starts = {}
  <2>1. ASSUME NEW p \in RunStarts(coo), coo[p].row = r PROVE FALSE
    <3>1. \E q \in SegmentStarts(coo) : coo[q].row = coo[p].row
      BY <1>1, <1>4, <2>1, SegmentOf
    <3>2. QED
      BY <1>2, <1>5, <2>1, <3>1
  <2>2. RunsOfRow(coo, r) = {}
    BY <2>1 DEF RunsOfRow
  <2>3. QED
    BY <1>3, <1>5, <2>2, FS_EmptySet
<1>6. CASE starts # {}
  <2>1. PICK p \in SegmentStarts(coo) : coo[p].row = r
    BY <1>2, <1>6
  <2>2. p \in 1 .. n /\ Segment(coo, p) = {i \in 1 .. n : coo[i].row = r}
    BY <1>1, <2>1, SegmentIs
  <2>3. starts = {p}
    <3>1. PICK q \in SegmentStarts(coo) : /\ coo[q].row = coo[p].row
                                          /\ \A x \in SegmentStarts(coo) : coo[x].row = coo[p].row => x = q
      BY <1>1, <2>2, SegmentOf
    <3>2. \A x \in SegmentStarts(coo) : coo[x].row = r => x = p
      BY <2>1, <3>1
    <3>3. QED
      BY <1>2, <2>1, <3>2
  <2>4. Max(starts) = p
    BY <2>2, <2>3, MaxOfOne
  <2>5. RunStarts(coo) \cap Segment(coo, p) = RunsOfRow(coo, r)
    BY <1>4, <2>2 DEF RunsOfRow
  <2>6. QED
    BY <1>3, <1>6, <2>4, <2>5
<1>7. QED
  BY <1>5, <1>6

\* The pointers count the cells of the rows before.
LEMMA PointersAre ==
  ASSUME NEW coo, NEW n, NEW N, SortedList(coo, n, N), NEW g, g = Graph(coo, N), NEW stored, stored = Occupied(coo, N), NEW r \in 0 .. N
  PROVE  Pointers(coo, N)[r] = RowsBefore(stored, r)
<1>1. n \in Nat /\ N \in Nat /\ DOMAIN coo = 1 .. n
  BY DEF SortedList
<1> DEFINE K == 0 .. r - 1
           T == {p \in RunStarts(coo) : coo[p].row < r}
           key == [p \in T |-> coo[p].row]
           f == [i \in K |-> SegmentLength(coo, i)]
<1>2. RunStarts(coo) \subseteq 1 .. n
  BY <1>1 DEF RunStarts
<1>3. IsFiniteSet(K) /\ IsFiniteSet(T)
  <2>1. IsFiniteSet(1 .. n)
    BY <1>1, FS_Interval
  <2>2. T \in SUBSET (1 .. n)
    BY <1>2
  <2>3. 0 \in Int /\ r - 1 \in Int
    BY <1>1
  <2>4. IsFiniteSet(K)
    BY <2>3, FS_Interval
  <2> HIDE DEF T
  <2>5. QED
    BY <2>1, <2>2, <2>4, FS_Subset
<1>4. CountsKeys(f, K, T, key)
  <2>1. ASSUME NEW p \in T PROVE key[p] \in K
    <3>1. p \in 1 .. n /\ coo[p].row < r
      BY <1>2
    <3>2. coo[p].row \in 0 .. N - 1
      BY <3>1 DEF SortedList
    <3>3. QED
      BY <1>1, <3>1, <3>2
  <2>2. ASSUME NEW i \in K PROVE f[i] = Cardinality({p \in T : key[p] = i})
    <3>1. \A p : p \in T <=> p \in RunStarts(coo) /\ coo[p].row < r
      OBVIOUS
    <3>2. \A p \in T : key[p] = coo[p].row
      OBVIOUS
    <3>3. i < r
      BY <1>1
    <3> HIDE DEF T, key
    <3>4. {p \in T : key[p] = i} = RunsOfRow(coo, i)
      BY <3>1, <3>2, <3>3 DEF RunsOfRow
    <3>5. f[i] = SegmentLength(coo, i)
      OBVIOUS
    <3>6. QED
      BY <3>4, <3>5, SegmentLengthIs
  <2>3. QED
    BY <2>1, <2>2 DEF CountsKeys
<1>5. Cardinality(T) = SumOf(f, K)
  <2> HIDE DEF T, K, f, key
  <2>1. QED
    BY <1>3, <1>4, CountByKey
<1>6. Total(K, LAMBDA i : SegmentLength(coo, i)) = SumOf(f, K)
  <2> DEFINE Read(iter) == iter = [s \in SUBSET K |-> IF s = {} THEN 0 ELSE LET x == CHOOSE x \in s : TRUE
                                                                       IN  SegmentLength(coo, x) + iter[s \ {x}]]
             Summed(iter) == iter = [s \in SUBSET K |-> IF s = {} THEN 0 ELSE LET x == CHOOSE x \in s : TRUE
                                                                        IN  f[x] + iter[s \ {x}]]
  <2>1. \A s \in SUBSET K : s # {} => (CHOOSE x \in s : TRUE) \in K
    OBVIOUS
  <2>2. \A x \in K : f[x] = SegmentLength(coo, x)
    OBVIOUS
  <2> HIDE DEF f, K
  <2>3. \A iter : Read(iter) <=> Summed(iter)
    BY <2>1, <2>2
  <2>4. (CHOOSE iter : Read(iter)) = (CHOOSE iter : Summed(iter))
    BY <2>3, Zenon
  <2>5. Total(K, LAMBDA i : SegmentLength(coo, i)) = (CHOOSE iter : Read(iter))[K]
    BY Zenon DEF Total, MapThenSumSet, MapThenFoldSet
  <2>6. SumOf(f, K) = (CHOOSE iter : Summed(iter))[K]
    BY Zenon DEF SumOf
  <2>7. QED
    BY <2>4, <2>5, <2>6, Zenon
<1>7. Pointers(coo, N)[r] = Total(K, LAMBDA i : SegmentLength(coo, i))
  BY DEF Pointers
<1>8. Cardinality(T) = RowsBefore(stored, r)
  <2> DEFINE before_r == {c \in NonZero(stored) : c[1] < r}
             h == [p \in T |-> CellOf(coo, p)]
  <2>1. ASSUME NEW p \in T PROVE p \in 1 .. n /\ p \in RunStarts(coo) /\ h[p] = CellOf(coo, p) /\ h[p] \in before_r
    <3>1. p \in 1 .. n /\ p \in RunStarts(coo) /\ coo[p].row < r
      BY <1>2
    <3>2. CellOf(coo, p) \in NonZero(stored)
      BY <3>1, GraphIs
    <3>3. QED
      BY <3>1, <3>2 DEF CellOf
  <2>2. ASSUME NEW p \in T, NEW q \in T, h[p] = h[q] PROVE p = q
    <3>1. p \in RunStarts(coo) /\ q \in RunStarts(coo) /\ CellOf(coo, p) = CellOf(coo, q)
      BY <2>1, <2>2
    <3>2. QED
      BY <3>1, RunsApart
  <2>3. ASSUME NEW x \in before_r PROVE \E p \in T : h[p] = x
    <3>1. PICK i \in 1 .. n : CellOf(coo, i) = x
      BY GraphIs
    <3>2. PICK p \in RunStarts(coo) : CellOf(coo, p) = x
      BY <3>1, RunOf
    <3>3. coo[p].row < r
      BY <3>2 DEF CellOf
    <3>4. p \in T /\ h[p] = x
      BY <3>2, <3>3
    <3>5. QED
      BY <3>4
  <2>4. h \in [T -> before_r]
    BY <2>1
  <2> HIDE DEF T, h
  <2>5. Cardinality(before_r) = Cardinality(T)
    <3> HIDE DEF before_r
    <3>1. QED
      BY <1>3, <2>2, <2>3, <2>4, SameSize
  <2>6. QED
    BY <2>5 DEF RowsBefore
<1>9. QED
  BY <1>5, <1>6, <1>7, <1>8

\* Packing makes the matrix of the graph in the format, of its transpose for columns.
LEMMA PackedCsr ==
  ASSUME NEW coo, NEW n, NEW N, SortedList(coo, n, N), NEW g, g = Graph(coo, N), NEW stored, stored = Occupied(coo, N)
  PROVE  PackCsr(coo, N) = StoredCsr(stored, g)
<1>1. g.row_count = N /\ g.col_count = N
  BY GraphIs
<1>2. Merged(coo) = StoredCoo(stored, g)
  BY MergedIs
<1>3. PICK s : s = RowScan(stored)
  OBVIOUS
<1>4. Merged(coo) = [i \in DOMAIN s |-> [row |-> s[i][1], col |-> s[i][2], value |-> g.values[s[i]]]]
  BY <1>2, <1>3 DEF StoredCoo
<1>5. PackedEntries(coo) = [i \in DOMAIN s |-> [index |-> s[i][2], value |-> g.values[s[i]]]]
  BY <1>4 DEF PackedEntries
<1>6. Pointers(coo, N) = [r \in 0 .. N |-> RowsBefore(stored, r)]
  <2>1. \A r \in 0 .. N : Pointers(coo, N)[r] = RowsBefore(stored, r)
    BY PointersAre
  <2>2. Pointers(coo, N) = [r \in 0 .. N |-> Pointers(coo, N)[r]]
    BY DEF Pointers
  <2>3. QED
    BY <2>1, <2>2
<1>7. PackCsr(coo, N) = [row_count |-> N, row_pointers |-> [r \in 0 .. N |-> RowsBefore(stored, r)],
                         entries |-> [i \in DOMAIN s |-> [index |-> s[i][2], value |-> g.values[s[i]]]]]
  BY <1>5, <1>6 DEF PackCsr
<1>8. StoredCsr(stored, g) = [row_count |-> N, row_pointers |-> [r \in 0 .. N |-> RowsBefore(stored, r)],
                         entries |-> [i \in DOMAIN s |-> [index |-> s[i][2], value |-> g.values[s[i]]]]]
  BY <1>1, <1>3 DEF StoredCsr
<1>9. QED
  BY <1>7, <1>8

\* The transposed graph.
Swap(x) == <<x[2], x[1]>>
Transpose(g) ==
  [row_count |-> g.col_count, col_count |-> g.row_count, values |-> [x \in (0 .. g.col_count - 1) \X (0 .. g.row_count - 1) |-> g.values[Swap(x)]]]

\* The transposed graph has the values of the graph, at swapped cells.
LEMMA TransposeIs ==
  ASSUME NEW g, IsDense(g), NEW h, h = Transpose(g)
  PROVE  /\ IsDense(h) /\ h.row_count = g.col_count /\ h.col_count = g.row_count
         /\ \A x \in Cells(h) : Swap(x) \in Cells(g) /\ h.values[x] = g.values[Swap(x)] /\ Swap(Swap(x)) = x
         /\ \A x \in Cells(g) : Swap(x) \in Cells(h) /\ Swap(Swap(x)) = x
         /\ \A x \in NonZero(h) : Swap(x) \in NonZero(g)
         /\ \A x \in NonZero(g) : Swap(x) \in NonZero(h)
<1>1. /\ g.row_count \in Nat /\ g.col_count \in Nat /\ g.values \in [Cells(g) -> Int]
  BY DEF IsDense
<1>2. Cells(g) = (0 .. g.row_count - 1) \X (0 .. g.col_count - 1)
  BY DEF Cells, Rows, Cols
<1>3. h.row_count = g.col_count /\ h.col_count = g.row_count /\ Cells(h) = (0 .. g.col_count - 1) \X (0 .. g.row_count - 1)
  BY DEF Transpose, Cells, Rows, Cols
<1>4. \A x \in Cells(h) : Swap(x) \in Cells(g) /\ Swap(Swap(x)) = x
  BY <1>2, <1>3 DEF Swap
<1>5. \A x \in Cells(g) : Swap(x) \in Cells(h) /\ Swap(Swap(x)) = x
  BY <1>2, <1>3 DEF Swap
<1>6. h.values = [x \in Cells(h) |-> g.values[Swap(x)]]
  BY <1>3 DEF Transpose
<1>7. h.values \in [Cells(h) -> Int]
  BY <1>1, <1>4, <1>6
<1>8. h = [row_count |-> h.row_count, col_count |-> h.col_count, values |-> h.values]
  BY DEF Transpose
<1>9. IsDense(h)
  BY <1>1, <1>3, <1>7, <1>8 DEF IsDense
<1>10. \A x \in NonZero(h) : Swap(x) \in NonZero(g)
  BY <1>4, <1>6 DEF NonZero
<1>11. \A x \in NonZero(g) : Swap(x) \in NonZero(h)
  <2> SUFFICES ASSUME NEW x \in NonZero(g) PROVE Swap(x) \in NonZero(h)
    OBVIOUS
  <2>1. x \in Cells(g) /\ g.values[x] # 0
    BY DEF NonZero
  <2>2. Swap(x) \in Cells(h) /\ h.values[Swap(x)] = g.values[x]
    BY <1>5, <1>6, <2>1
  <2>3. QED
    BY <2>1, <2>2 DEF NonZero
<1>12. QED
  BY <1>3, <1>4, <1>5, <1>6, <1>9, <1>10, <1>11

\* It stores what the graph does, at swapped cells.
LEMMA TransposeStores ==
  ASSUME NEW stored, NEW g, Stores(stored, g)
  PROVE  Stores(Transpose(stored), Transpose(g))
<1>1. PICK h, turned : h = Transpose(g) /\ turned = Transpose(stored)
  OBVIOUS
<1>2. /\ IsDense(stored) /\ IsDense(g) /\ stored.row_count = g.row_count /\ stored.col_count = g.col_count
      /\ NonZero(g) \subseteq NonZero(stored)
  BY StoresFacts
<1>3. IsDense(h) /\ h.row_count = g.col_count /\ h.col_count = g.row_count
  BY <1>1, <1>2, TransposeIs
<1>4. IsDense(turned) /\ turned.row_count = stored.col_count /\ turned.col_count = stored.row_count
  BY <1>1, <1>2, TransposeIs
<1>5. ASSUME NEW x \in NonZero(h) PROVE x \in NonZero(turned)
  <2>1. Swap(x) \in NonZero(g) /\ Swap(Swap(x)) = x
    <3>1. x \in Cells(h)
      BY DEF NonZero
    <3>2. QED
      BY <1>1, <1>2, <3>1, TransposeIs
  <2>2. Swap(Swap(x)) \in NonZero(turned)
    BY <1>1, <1>2, <2>1, TransposeIs
  <2>3. QED
    BY <2>1, <2>2
<1>6. QED
  BY <1>1, <1>2, <1>3, <1>4, <1>5 DEF Stores

\* The columns of the transposed graph are scanned like the rows of the graph.
LEMMA TransposedScan ==
  ASSUME NEW g, IsDense(g), NEW h, h = Transpose(g), NEW m, m = Cardinality(NonZero(g)), NEW s, s = RowScan(g)
  PROVE  m \in Nat /\ DOMAIN s = 1 .. m /\ ColScan(h) = [i \in 1 .. m |-> Swap(s[i])]
<1>1. /\ m \in Nat /\ s \in [1 .. m -> NonZero(g)] /\ DOMAIN s = 1 .. m
      /\ \A i, j \in 1 .. m : RowsFirst(s[i], s[j]) <=> i < j
      /\ \A x \in NonZero(g) : \E i \in 1 .. m : s[i] = x
  BY RowScanned, SMTT(30)
<1>2. PICK t : t = [i \in 1 .. m |-> Swap(s[i])]
  OBVIOUS
<1>3. IsDense(h) /\ t \in [1 .. m -> NonZero(h)]
  BY <1>1, <1>2, TransposeIs
<1>4. ASSUME NEW x \in NonZero(h) PROVE \E i \in 1 .. m : t[i] = x
  <2>1. Swap(x) \in NonZero(g) /\ Swap(Swap(x)) = x
    <3>1. x \in Cells(h)
      BY DEF NonZero
    <3>2. QED
      BY <3>1, TransposeIs
  <2>2. PICK i \in 1 .. m : s[i] = Swap(x)
    BY <1>1, <2>1
  <2>3. QED
    BY <1>2, <2>1, <2>2
<1>5. \A i, j \in 1 .. m : ColsFirst(t[i], t[j]) <=> i < j
  <2>1. \A x, y : ColsFirst(Swap(x), Swap(y)) <=> RowsFirst(x, y)
    BY DEF ColsFirst, RowsFirst, Swap
  <2>2. QED
    BY <1>1, <1>2, <2>1
<1>6. t = ColScan(h)
  BY <1>1, <1>3, <1>4, <1>5, ColScanIs
<1>7. QED
  BY <1>1, <1>2, <1>6

\* A pack function for columns makes the matrix of the transposed graph.
LEMMA PackedCsc ==
  ASSUME NEW coo, NEW n, NEW N, SortedList(coo, n, N), NEW g, g = Graph(coo, N), NEW stored, stored = Occupied(coo, N),
         NEW h, h = Transpose(g), NEW turned, turned = Transpose(stored)
  PROVE  PackCsc(coo, N) = StoredCsc(turned, h)
<1>1. g.row_count = N /\ g.col_count = N /\ IsDense(g) /\ IsDense(stored) /\ Cells(stored) = Cells(g)
  BY GraphIs, StoresFacts
<1>2. IsDense(h) /\ h.row_count = N /\ h.col_count = N
  BY <1>1, TransposeIs
<1>3. PICK m, s, t : m = Cardinality(NonZero(stored)) /\ s = RowScan(stored) /\ t = ColScan(turned)
  OBVIOUS
<1>4. m \in Nat /\ DOMAIN s = 1 .. m /\ t = [i \in 1 .. m |-> Swap(s[i])]
  BY <1>1, <1>3, TransposedScan
<1>5. s \in [1 .. m -> NonZero(stored)]
  BY <1>1, <1>3, RowScanned
<1>6. Merged(coo) = [i \in 1 .. m |-> [row |-> s[i][1], col |-> s[i][2], value |-> g.values[s[i]]]]
  BY <1>3, <1>4, MergedIs DEF StoredCoo
<1>7. ASSUME NEW i \in 1 .. m PROVE t[i][1] = s[i][2] /\ h.values[t[i]] = g.values[s[i]]
  <2>1. s[i] \in Cells(g)
    BY <1>1, <1>5 DEF NonZero
  <2>2. t[i] = Swap(s[i]) /\ Swap(t[i]) = s[i] /\ t[i] \in Cells(h)
    BY <1>1, <1>4, <2>1, TransposeIs
  <2>3. h.values[t[i]] = g.values[s[i]]
    BY <1>1, <2>2, TransposeIs
  <2>4. QED
    BY <2>2, <2>3 DEF Swap
<1>8. PackedEntries(coo) = [i \in 1 .. m |-> [index |-> s[i][2], value |-> g.values[s[i]]]]
  BY <1>6 DEF PackedEntries
<1>9. [i \in DOMAIN t |-> [index |-> t[i][1], value |-> h.values[t[i]]]] = PackedEntries(coo)
  <2>1. DOMAIN t = 1 .. m
    BY <1>4
  <2>2. QED
    BY <1>7, <1>8, <2>1
<1>10. ASSUME NEW c \in 0 .. N PROVE ColsBefore(turned, c) = RowsBefore(stored, c)
  <2>1. PICK P, Q : P = {x \in NonZero(stored) : x[1] < c} /\ Q = {x \in NonZero(turned) : x[2] < c}
    OBVIOUS
  <2>2. IsFiniteSet(P)
    <3>1. IsFiniteSet(NonZero(stored))
      BY <1>1, CellFacts
    <3>2. P \in SUBSET NonZero(stored)
      BY <2>1
    <3>3. QED
      BY <3>1, <3>2, FS_Subset
  <2>3. PICK f : f = [x \in P |-> Swap(x)]
    OBVIOUS
  <2>4. \A x \in P : x \in Cells(stored) /\ Swap(Swap(x)) = x /\ f[x] = Swap(x)
    <3>1. \A x \in P : x \in Cells(stored)
      BY <2>1 DEF NonZero
    <3>2. QED
      BY <1>1, <2>3, <3>1, TransposeIs
  <2>5. \A x \in P : f[x] \in Q
    <3>1. \A x \in P : Swap(x) \in NonZero(turned) /\ Swap(x)[2] < c
      BY <1>1, <2>1, TransposeIs DEF Swap
    <3>2. QED
      BY <2>1, <2>4, <3>1
  <2>6. \A y \in Q : \E x \in P : f[x] = y
    <3> SUFFICES ASSUME NEW y \in Q PROVE \E x \in P : f[x] = y
      OBVIOUS
    <3>1. y \in NonZero(turned) /\ y[2] < c /\ y \in Cells(turned)
      BY <2>1 DEF NonZero
    <3>2. Swap(y) \in NonZero(stored) /\ Swap(Swap(y)) = y /\ Swap(y)[1] < c
      BY <1>1, <3>1, TransposeIs DEF Swap
    <3>3. Swap(y) \in P
      BY <2>1, <3>2
    <3>4. QED
      BY <2>4, <3>2, <3>3
  <2>7. \A x, y \in P : f[x] = f[y] => x = y
    BY <2>4
  <2>8. f \in [P -> Q]
    BY <2>3, <2>5
  <2>9. Cardinality(Q) = Cardinality(P)
    BY <2>2, <2>6, <2>7, <2>8, SameSize
  <2>10. QED
    BY <2>1, <2>9 DEF ColsBefore, RowsBefore
<1>11. Pointers(coo, N) = [c \in 0 .. N |-> ColsBefore(turned, c)]
  <2>1. \A r \in 0 .. N : Pointers(coo, N)[r] = ColsBefore(turned, r)
    BY <1>10, PointersAre
  <2>2. Pointers(coo, N) = [r \in 0 .. N |-> Pointers(coo, N)[r]]
    BY DEF Pointers
  <2>3. QED
    BY <2>1, <2>2
<1>12. PackCsc(coo, N) = [col_count |-> N, col_pointers |-> [c \in 0 .. N |-> ColsBefore(turned, c)], entries |-> PackedEntries(coo)]
  BY <1>11 DEF PackCsc
<1>13. StoredCsc(turned, h) = [col_count |-> N, col_pointers |-> [c \in 0 .. N |-> ColsBefore(turned, c)],
                          entries |-> [i \in DOMAIN t |-> [index |-> t[i][1], value |-> h.values[t[i]]]]]
  BY <1>2, <1>3 DEF StoredCsc
<1>14. QED
  BY <1>9, <1>12, <1>13

-----------------------------------------------------------------------------
(* The sort of load_kron.                                                  *)

\* A list of n entries of a square of N rows, in any order.
EntryList(list, n, N) ==
  /\ n \in Nat /\ N \in Nat /\ DOMAIN list = 1 .. n
  /\ \A i \in 1 .. n : /\ list[i].row \in 0 .. N - 1 /\ list[i].col \in 0 .. N - 1
                       /\ list[i].value \in Int
                       /\ list[i] = [row |-> list[i].row, col |-> list[i].col, value |-> list[i].value]

\* What qsort compares, places that compare equal in their order.
ComesBefore(list, i, j) ==
  \/ RowsFirst(CellOf(list, i), CellOf(list, j))
  \/ list[i].row = list[j].row /\ list[i].col = list[j].col /\ i < j

\* The order of the places of a list.
PlaceOrder(list) == {x \in (DOMAIN list) \X (DOMAIN list) : ComesBefore(list, x[1], x[2])}

\* It is an order of all of them.
LEMMA PlacesOrdered ==
  ASSUME NEW list, NEW n, NEW N, EntryList(list, n, N)
  PROVE  Orders(PlaceOrder(list), 1 .. n)
<1>1. n \in Nat /\ DOMAIN list = 1 .. n /\ \A i \in 1 .. n : list[i].row \in Int /\ list[i].col \in Int
  BY DEF EntryList
<1>2. \A i, j \in 1 .. n : <<i, j>> \in PlaceOrder(list) <=> ComesBefore(list, i, j)
  BY <1>1 DEF PlaceOrder
<1>3. \A i, j \in 1 .. n : ComesBefore(list, i, j) <=>
        \/ list[i].row < list[j].row
        \/ list[i].row = list[j].row /\ list[i].col < list[j].col
        \/ list[i].row = list[j].row /\ list[i].col = list[j].col /\ i < j
  BY DEF ComesBefore, RowsFirst, CellOf
<1>4. \A i \in 1 .. n : ~ComesBefore(list, i, i)
  BY <1>1, <1>3
<1>5. \A i, j \in 1 .. n : i = j \/ ComesBefore(list, i, j) \/ ComesBefore(list, j, i)
  BY <1>1, <1>3
<1>6. \A i, j, k \in 1 .. n : ComesBefore(list, i, j) /\ ComesBefore(list, j, k) => ComesBefore(list, i, k)
  BY <1>1, <1>3
<1> HIDE DEF ComesBefore
<1>7. QED
  BY <1>2, <1>4, <1>5, <1>6 DEF Orders

\* The place that each entry of the sorted list comes from.
Placing(list) ==
  [i \in 1 .. Cardinality(DOMAIN list) |->
     CHOOSE x \in DOMAIN list : Cardinality({b \in DOMAIN list : ComesBefore(list, b, x)}) = i - 1]

\* The sorted list, entry by entry.
LEMMA SortedShape ==
  ASSUME NEW list
  PROVE  Sorted(list) = [p \in DOMAIN list |-> list[Placing(list)[p]]]
  BY DEF Sorted, Scan, ComesBefore, CellOf, Placing

\* The sorted list is ordered.
LEMMA SortedIs ==
  ASSUME NEW list, NEW n, NEW N, EntryList(list, n, N)
  PROVE  SortedList(Sorted(list), n, N)
<1>1. PICK R : R = PlaceOrder(list)
  OBVIOUS
<1>2. n \in Nat /\ N \in Nat /\ DOMAIN list = 1 .. n
  BY DEF EntryList
<1>3. PICK D : D = 1 .. n
  OBVIOUS
<1>4. IsFiniteSet(D) /\ Cardinality(D) = n
  <2>1. 1 \in Int /\ n \in Int
    BY <1>2
  <2>2. IsFiniteSet(1 .. n) /\ Cardinality(1 .. n) = IF 1 > n THEN 0 ELSE n - 1 + 1
    BY <2>1, FS_Interval
  <2>3. QED
    BY <1>2, <1>3, <2>2
<1>5. Orders(R, D)
  BY <1>1, <1>3, PlacesOrdered
<1>6. \A x \in D : Rank(R, D, x) = Cardinality({b \in D : ComesBefore(list, b, x)})
  <2>1. \A x \in D : Earlier(R, D, x) = {b \in D : ComesBefore(list, b, x)}
    BY <1>1, <1>2, <1>3 DEF Earlier, PlaceOrder
  <2>2. QED
    BY <2>1 DEF Rank
<1>7. PICK order : order = InOrder(R, D)
  OBVIOUS
<1>8. ASSUME NEW i \in 1 .. n
      PROVE  (CHOOSE x \in D : Cardinality({b \in D : ComesBefore(list, b, x)}) = i - 1) = order[i]
  <2>1. i - 1 \in 0 .. Cardinality(D) - 1
    BY <1>2, <1>4
  <2>2. PICK x \in D : Rank(R, D, x) = i - 1 /\ \A y \in D : Rank(R, D, y) = i - 1 => y = x
    BY <1>4, <1>5, <2>1, RankedElement
  <2>3. (CHOOSE y \in D : Rank(R, D, y) = i - 1) = x
    BY <2>2
  <2>4. (CHOOSE y \in D : Cardinality({b \in D : ComesBefore(list, b, y)}) = i - 1) = x
    BY <1>6, <2>2
  <2>5. order[i] = CHOOSE y \in D : Rank(R, D, y) = i - 1
    BY <1>4, <1>7 DEF InOrder
  <2>6. QED
    BY <2>3, <2>4, <2>5
<1>9. order \in [1 .. n -> D] /\ \A i, j \in 1 .. n : <<order[i], order[j]>> \in R <=> i < j
  BY <1>4, <1>5, <1>7, OrderedSequence
<1>10. PICK coo : coo = Sorted(list)
  OBVIOUS
<1>11. coo = [p \in 1 .. n |-> list[order[p]]]
  <2>1. coo = [p \in D |-> list[Placing(list)[p]]]
    BY <1>2, <1>3, <1>10, SortedShape
  <2>2. Placing(list) = [i \in 1 .. n |-> CHOOSE x \in D : Cardinality({b \in D : ComesBefore(list, b, x)}) = i - 1]
    BY <1>2, <1>3, <1>4 DEF Placing
  <2>3. \A i \in 1 .. n : Placing(list)[i] = order[i]
    BY <1>8, <2>2
  <2>4. QED
    BY <1>3, <2>1, <2>3
<1>12. \A p \in 1 .. n : order[p] \in 1 .. n /\ coo[p] = list[order[p]]
  BY <1>3, <1>9, <1>11
<1>13. \A i, j \in 1 .. n : i < j => ~RowsFirst(CellOf(coo, j), CellOf(coo, i))
  <2> SUFFICES ASSUME NEW i \in 1 .. n, NEW j \in 1 .. n, i < j PROVE ~RowsFirst(CellOf(coo, j), CellOf(coo, i))
    OBVIOUS
  <2>1. CellOf(coo, i) = CellOf(list, order[i]) /\ CellOf(coo, j) = CellOf(list, order[j])
    BY <1>12 DEF CellOf
  <2>2. <<order[j], order[i]>> \notin R
    BY <1>9
  <2>3. ~ComesBefore(list, order[j], order[i])
    BY <1>1, <1>2, <1>12, <2>2 DEF PlaceOrder
  <2>4. QED
    BY <2>1, <2>3 DEF ComesBefore
<1>14. DOMAIN coo = 1 .. n /\ Len(coo) = n
  BY <1>2, <1>11
<1>15. \A i \in 1 .. n : /\ coo[i].row \in 0 .. N - 1 /\ coo[i].col \in 0 .. N - 1
                        /\ coo[i].value \in Int
                        /\ coo[i] = [row |-> coo[i].row, col |-> coo[i].col, value |-> coo[i].value]
  BY <1>12 DEF EntryList
<1>16. QED
  BY <1>2, <1>10, <1>13, <1>14, <1>15 DEF SortedList

-----------------------------------------------------------------------------
(* The operands of an entry, packed from the graph of a file.              *)

\* The graph as an operand in a format: in columns it is the transposed graph.
OperandOf(format, g) == IF format = "MAT_CSC" THEN Transpose(g) ELSE g

\* What the pack function of a format makes.
PackOf(format, coo, N) ==
  CASE format = "MAT_CSR" -> PackCsr(coo, N) [] format = "MAT_CSC" -> PackCsc(coo, N) [] format = "MAT_COO" -> PackCoo(coo, N)

\* The formats of the operands.
Sparse == {"MAT_CSR", "MAT_CSC", "MAT_COO"}

\* What is stored in a format.
LEMMA StoredFormats ==
  ASSUME NEW stored, NEW d
  PROVE  /\ StoredFormat("MAT_CSR", stored, d).matrix = StoredCsr(stored, d)
         /\ StoredFormat("MAT_CSC", stored, d).matrix = StoredCsc(stored, d)
         /\ StoredFormat("MAT_COO", stored, d).matrix = StoredCoo(stored, d)
  BY DEF StoredFormat

\* A pack function makes the graph in the format, transposed for columns.
LEMMA PackIs ==
  ASSUME NEW coo, NEW n, NEW N, SortedList(coo, n, N), NEW g, g = Graph(coo, N), NEW stored, stored = Occupied(coo, N),
         NEW format \in Sparse
  PROVE  PackOf(format, coo, N) = StoredFormat(format, OperandOf(format, stored), OperandOf(format, g)).matrix
<1>1. PackCsr(coo, N) = StoredCsr(stored, g)
  BY PackedCsr
<1>2. PICK h, turned : h = Transpose(g) /\ turned = Transpose(stored)
  OBVIOUS
<1>3. PackCsc(coo, N) = StoredCsc(turned, h)
  BY <1>2, PackedCsc
<1>4. PackCoo(coo, N) = StoredCoo(stored, g)
  BY MergedIs DEF PackCoo
<1>5. CASE format = "MAT_CSR"
  <2>1. PackOf(format, coo, N) = PackCsr(coo, N) /\ OperandOf(format, g) = g /\ OperandOf(format, stored) = stored
    BY <1>5 DEF PackOf, OperandOf
  <2>2. QED
    BY <1>1, <1>5, <2>1, StoredFormats
<1>6. CASE format = "MAT_CSC"
  <2>1. PackOf(format, coo, N) = PackCsc(coo, N) /\ OperandOf(format, g) = h /\ OperandOf(format, stored) = turned
    BY <1>2, <1>6 DEF PackOf, OperandOf
  <2>2. QED
    BY <1>3, <1>6, <2>1, StoredFormats
<1>7. CASE format = "MAT_COO"
  <2>1. PackOf(format, coo, N) = PackCoo(coo, N) /\ OperandOf(format, g) = g /\ OperandOf(format, stored) = stored
    BY <1>7 DEF PackOf, OperandOf
  <2>2. QED
    BY <1>4, <1>7, <2>1, StoredFormats
<1>8. QED
  BY <1>5, <1>6, <1>7 DEF Sparse

\* The pack functions of an entry are those of its formats.
LEMMA PackFunctions ==
  ASSUME func_idx \in DOMAIN test_entries, NEW coo, NEW N
  PROVE  /\ entry[1] \in Sparse /\ entry[2] \in Sparse
         /\ pack_a(coo, N) = PackOf(entry[1], coo, N)
         /\ pack_b(coo, N) = PackOf(entry[2], coo, N)
<1>1. PICK i \in 1 .. 10 : func_idx = i
  BY Kernels
<1>2. CASE i = 1
  BY <1>1, <1>2 DEF entry, test_entries, Sparse, pack_a, pack_b, PackOf, CSR_x_CSR_COO_pack_A, CSR_x_CSR_COO_pack_B
<1>3. CASE i = 2
  BY <1>1, <1>3 DEF entry, test_entries, Sparse, pack_a, pack_b, PackOf, CSR_x_CSC_COO_pack_A, CSR_x_CSC_COO_pack_B
<1>4. CASE i = 3
  BY <1>1, <1>4 DEF entry, test_entries, Sparse, pack_a, pack_b, PackOf, CSR_x_COO_COO_pack_A, CSR_x_COO_COO_pack_B
<1>5. CASE i = 4
  BY <1>1, <1>5 DEF entry, test_entries, Sparse, pack_a, pack_b, PackOf, CSC_x_CSR_COO_pack_A, CSC_x_CSR_COO_pack_B
<1>6. CASE i = 5
  BY <1>1, <1>6 DEF entry, test_entries, Sparse, pack_a, pack_b, PackOf, CSC_x_COO_COO_pack_A, CSC_x_COO_COO_pack_B
<1>7. CASE i = 6
  BY <1>1, <1>7 DEF entry, test_entries, Sparse, pack_a, pack_b, PackOf, COO_x_CSR_COO_pack_A, COO_x_CSR_COO_pack_B
<1>8. CASE i = 7
  BY <1>1, <1>8 DEF entry, test_entries, Sparse, pack_a, pack_b, PackOf, COO_x_CSC_COO_pack_A, COO_x_CSC_COO_pack_B
<1>9. CASE i = 8
  BY <1>1, <1>9 DEF entry, test_entries, Sparse, pack_a, pack_b, PackOf, COO_x_COO_COO_pack_A, COO_x_COO_COO_pack_B
<1>10. CASE i = 9
  BY <1>1, <1>10 DEF entry, test_entries, Sparse, pack_a, pack_b, PackOf, CSR_x_CSR_CSR_pack_A, CSR_x_CSR_CSR_pack_B
<1>11. CASE i = 10
  BY <1>1, <1>11 DEF entry, test_entries, Sparse, pack_a, pack_b, PackOf, CSC_x_CSC_CSC_pack_A, CSC_x_CSC_CSC_pack_B
<1>12. QED
  BY <1>2, <1>3, <1>4, <1>5, <1>6, <1>7, <1>8, <1>9, <1>10, <1>11

\* A power of two is the number of sets of so many elements: one for each of them, and the empty one.
LEMMA PowerOfTwo == ASSUME NEW k \in Nat PROVE 2 ^ k \in Nat /\ k + 1 <= 2 ^ k
<1>1. PICK S : S = 1 .. k
  OBVIOUS
<1>2. IsFiniteSet(S) /\ Cardinality(S) = k
  <2>1. 1 \in Int /\ k \in Int
    OBVIOUS
  <2>2. IsFiniteSet(1 .. k) /\ Cardinality(1 .. k) = IF 1 > k THEN 0 ELSE k - 1 + 1
    BY <2>1, FS_Interval
  <2>3. QED
    BY <1>1, <2>2
<1>3. IsFiniteSet(SUBSET S) /\ Cardinality(SUBSET S) = 2 ^ k
  BY <1>2, FS_SUBSET
<1>4. PICK T : T = {{x} : x \in S}
  OBVIOUS
<1>5. IsFiniteSet(T) /\ Cardinality(T) = k
  <2>1. PICK f : f = [x \in S |-> {x}]
    OBVIOUS
  <2>2. f \in [S -> T] /\ (\A y \in T : \E x \in S : f[x] = y) /\ \A x, y \in S : f[x] = f[y] => x = y
    BY <1>4, <2>1
  <2>3. QED
    BY <1>2, <2>2, SameSize
<1>6. {} \notin T
  BY <1>4
<1>7. IsFiniteSet(T \cup {{}}) /\ Cardinality(T \cup {{}}) = k + 1
  BY <1>5, <1>6, FS_AddElement
<1>8. T \cup {{}} \subseteq SUBSET S
  BY <1>4
<1>9. Cardinality(T \cup {{}}) <= Cardinality(SUBSET S)
  BY <1>3, <1>8, FS_Subset
<1>10. Cardinality(SUBSET S) \in Nat
  BY <1>3, FS_CardinalityType
<1>11. QED
  BY <1>3, <1>7, <1>9, <1>10

\* The list of a graph that was read. What the file does not give is an entry of value zero at the
\* first cell: a graph has a node.
LEMMA GraphList ==
  ASSUME EdgesBetweenNodes, NEW f \in Files, f.read = "whole"
  PROVE  SortedList(Parsed(f).list, f.nnz, Dimension(f.k)) /\ Parsed(f).k = f.k
<1>1. PICK n, N, edges : n = f.nnz /\ N = Dimension(f.k) /\ edges = f.edges
  OBVIOUS
<1>2. n \in Nat /\ f.k \in Nat /\ edges \in Seq((0 .. N - 1) \X (0 .. N - 1))
  BY <1>1 DEF EdgesBetweenNodes
<1>3. N \in Nat /\ N >= 1
  BY <1>1, <1>2, PowerOfTwo DEF Dimension
<1>4. PICK last : last = Len(edges)
  OBVIOUS
<1>5. last \in Nat /\ \A i \in 1 .. last : edges[i] \in (0 .. N - 1) \X (0 .. N - 1)
  BY <1>2, <1>4
<1>6. PICK list : list = Listed(f)
  OBVIOUS
<1>7. list = [i \in 1 .. n |-> IF i <= last THEN Entry(edges[i]) ELSE [Entry(<<0, 0>>) EXCEPT !.value = 0]]
  BY <1>1, <1>4, <1>6 DEF Listed
<1>8. DOMAIN list = 1 .. n
  BY <1>7
<1>9. ASSUME NEW i \in 1 .. n
      PROVE  /\ list[i].row \in 0 .. N - 1 /\ list[i].col \in 0 .. N - 1 /\ list[i].value \in Int
             /\ list[i] = [row |-> list[i].row, col |-> list[i].col, value |-> list[i].value]
  <2>1. CASE i <= last
    <3>1. list[i] = [row |-> edges[i][1], col |-> edges[i][2], value |-> 1]
      BY <1>7, <2>1 DEF Entry
    <3>2. edges[i][1] \in 0 .. N - 1 /\ edges[i][2] \in 0 .. N - 1
      BY <1>2, <1>5, <2>1
    <3>3. QED
      BY <3>1, <3>2
  <2>2. CASE ~(i <= last)
    <3>1. list[i] = [row |-> 0, col |-> 0, value |-> 0]
      BY <1>7, <2>2 DEF Entry
    <3>2. 0 \in 0 .. N - 1
      BY <1>3
    <3>3. QED
      BY <3>1, <3>2
  <2>3. QED
    BY <2>1, <2>2
<1>10. EntryList(list, n, N)
  BY <1>2, <1>3, <1>8, <1>9 DEF EntryList
<1>11. Parsed(f).list = Sorted(list) /\ Parsed(f).k = f.k
  BY <1>6 DEF Parsed
<1>12. QED
  BY <1>1, <1>10, <1>11, SortedIs

\* What the list has for a cell, as a sum.
LEMMA EdgeIs ==
  ASSUME NEW cell
  PROVE  Edge(cell) = SumOf(ValuesOf(kron_coo.list), PlacesAt(kron_coo.list, cell))
<1>1. PICK coo : coo = kron_coo.list
  OBVIOUS
<1>2. PlacesAt(coo, cell) = {p \in DOMAIN coo : <<coo[p].row, coo[p].col>> = cell} /\ PlacesAt(coo, cell) \subseteq DOMAIN coo
  BY DEF PlacesAt, CellOf
<1>3. PICK v : v = SumOf(ValuesOf(coo), PlacesAt(coo, cell))
  OBVIOUS
<1>4. Total(PlacesAt(coo, cell), LAMBDA p : coo[p].value) = v
  BY <1>2, <1>3, TotalOfValues
<1>5. Edge(cell) = v
  BY <1>1, <1>4 DEF Edge, PlacesAt, CellOf
<1>6. QED
  BY <1>1, <1>3, <1>5

\* The tensor of the graph of the list, in a format.
LEMMA TensorIs ==
  ASSUME NEW coo, NEW n, NEW N, SortedList(coo, n, N), NEW g, g = Graph(coo, N), NEW stored, stored = Occupied(coo, N),
         NEW format \in Sparse, NEW tensor, tensor.matrix = PackOf(format, coo, N),
         NEW p, p = OperandOf(format, stored), NEW d, d = OperandOf(format, g)
  PROVE  Stores(p, d) /\ Tensor(format, tensor) = StoredFormat(format, p, d) /\ d.row_count = N /\ d.col_count = N
<1>1. Stores(stored, g) /\ IsDense(g) /\ g.row_count = N /\ g.col_count = N
  BY GraphIs, StoresFacts
<1>2. PICK h, turned : h = Transpose(g) /\ turned = Transpose(stored)
  OBVIOUS
<1>3. Stores(turned, h) /\ h.row_count = N /\ h.col_count = N
  BY <1>1, <1>2, TransposeIs, TransposeStores
<1>4. (p = stored /\ d = g) \/ (p = turned /\ d = h)
  BY <1>2 DEF OperandOf
<1>5. PICK u : u = StoredFormat(format, p, d)
  OBVIOUS
<1>6. u = [format |-> format, matrix |-> u.matrix]
  BY <1>5 DEF StoredFormat
<1>7. tensor.matrix = u.matrix
  BY <1>5, PackIs
<1>8. Tensor(format, tensor) = u
  BY <1>6, <1>7 DEF Tensor
<1>9. QED
  BY <1>1, <1>3, <1>4, <1>5, <1>8

\* A packed tensor stands for the graph.
LEMMA PackedHolds ==
  ASSUME NEW n, SortedList(kron_coo.list, n, Dimension(kron_coo.k)), NEW format \in Sparse,
         NEW tensor, tensor.matrix = PackOf(format, kron_coo.list, Dimension(kron_coo.k))
  PROVE  PackedIs(format, tensor)
<1>1. PICK coo, N : coo = kron_coo.list /\ N = Dimension(kron_coo.k)
  OBVIOUS
<1>2. PICK g, stored : g = Graph(coo, N) /\ stored = Occupied(coo, N)
  OBVIOUS
<1>3. PICK p, d : p = OperandOf(format, stored) /\ d = OperandOf(format, g)
  OBVIOUS
<1>4. SortedList(coo, n, N) /\ tensor.matrix = PackOf(format, coo, N)
  BY <1>1
<1>5. Stores(p, d) /\ Tensor(format, tensor) = StoredFormat(format, p, d) /\ d.row_count = N /\ d.col_count = N
  BY <1>2, <1>3, <1>4, TensorIs
<1>6. PICK u : u = Tensor(format, tensor)
  OBVIOUS
<1>7. Represents(u, d)
  BY <1>5, <1>6, StoredRepresents DEF Sparse
<1>8. Cells(Square) = Cells(d)
  BY <1>1, <1>5 DEF Square, Cells, Rows, Cols
<1>9. ASSUME NEW cell \in Cells(Square)
      PROVE  ValueAt(u, cell) = Edge(IF format = "MAT_CSC" THEN <<cell[2], cell[1]>> ELSE cell)
  <2>1. ValueAt(u, cell) = d.values[cell] /\ cell \in Cells(d)
    BY <1>7, <1>8, <1>9 DEF Represents
  <2>2. IsDense(g) /\ g.row_count = N /\ g.col_count = N /\ \A x \in Cells(g) : g.values[x] = SumOf(ValuesOf(coo), PlacesAt(coo, x))
    BY <1>2, <1>4, GraphIs, StoresFacts
  <2>3. \A x : Edge(x) = SumOf(ValuesOf(coo), PlacesAt(coo, x))
    BY <1>1, EdgeIs
  <2>4. CASE format = "MAT_CSC"
    <3>1. d = Transpose(g)
      BY <1>3, <2>4 DEF OperandOf
    <3>2. Swap(cell) \in Cells(g) /\ d.values[cell] = g.values[Swap(cell)]
      BY <2>1, <2>2, <3>1, TransposeIs
    <3>3. Swap(cell) = <<cell[2], cell[1]>>
      BY DEF Swap
    <3>4. QED
      BY <2>1, <2>2, <2>3, <2>4, <3>2, <3>3
  <2>5. CASE format # "MAT_CSC"
    <3>1. d = g
      BY <1>3, <2>5 DEF OperandOf
    <3>2. QED
      BY <2>1, <2>2, <2>3, <2>5, <3>1
  <2>6. QED
    BY <2>4, <2>5
<1>10. Ascending(u)
  BY <1>7 DEF Represents
<1>11. QED
  BY <1>6, <1>9, <1>10 DEF PackedIs

-----------------------------------------------------------------------------
\* The tensors at the start.
LEMMA InitTensors == Init => TensorsInv
  BY DEF Init, TensorsInv, Running

\* Between the assembling and the results the tensors stay.
LEMMA SameTensors ==
  ASSUME TensorsInv, UNCHANGED <<func_idx, kron_coo, A, B, C>>, phase \in {"assembled", "testing", "computed"}, phase' = "testing"
  PROVE  TensorsInv'
<1>1. func_idx' \in DOMAIN test_entries /\ \E f \in Files : f.read = "whole" /\ kron_coo' = Parsed(f)
  BY DEF TensorsInv, Running
<1>2. A.matrix = pack_a(kron_coo.list, Dimension(kron_coo.k)) /\ B.matrix = pack_b(kron_coo.list, Dimension(kron_coo.k))
  BY DEF TensorsInv, Running
<1>3. C.matrix = assemble(A.matrix, B.matrix)
  BY DEF TensorsInv
<1>4. pack_a(kron_coo.list, Dimension(kron_coo.k))' = pack_a(kron_coo.list, Dimension(kron_coo.k))
  BY DEF pack_a
<1>5. pack_b(kron_coo.list, Dimension(kron_coo.k))' = pack_b(kron_coo.list, Dimension(kron_coo.k))
  BY DEF pack_b
<1>6. assemble(A.matrix, B.matrix)' = assemble(A.matrix, B.matrix)
  BY DEF assemble
<1>7. QED
  BY <1>1, <1>2, <1>3, <1>4, <1>5, <1>6 DEF TensorsInv, Running

\* What the entry's functions make is the same while the graph and the entry are.
LEMMA SameFunctions ==
  ASSUME func_idx' = func_idx
  PROVE  /\ entry' = entry /\ (Fake' <=> Fake)
         /\ kron_coo' = kron_coo => pack_a(kron_coo.list, Dimension(kron_coo.k))' = pack_a(kron_coo.list, Dimension(kron_coo.k))
         /\ kron_coo' = kron_coo => pack_b(kron_coo.list, Dimension(kron_coo.k))' = pack_b(kron_coo.list, Dimension(kron_coo.k))
         /\ A' = A /\ B' = B => assemble(A.matrix, B.matrix)' = assemble(A.matrix, B.matrix)
         /\ A' = A /\ B' = B => compute(A.matrix, B.matrix)' = compute(A.matrix, B.matrix)
<1>1. entry' = entry /\ (Fake' <=> Fake)
  BY DEF entry, Fake, test_entries
<1>2. ASSUME kron_coo' = kron_coo
      PROVE  pack_a(kron_coo.list, Dimension(kron_coo.k))' = pack_a(kron_coo.list, Dimension(kron_coo.k))
  BY <1>2 DEF pack_a
<1>3. ASSUME kron_coo' = kron_coo
      PROVE  pack_b(kron_coo.list, Dimension(kron_coo.k))' = pack_b(kron_coo.list, Dimension(kron_coo.k))
  BY <1>3 DEF pack_b
<1>4. ASSUME A' = A, B' = B PROVE assemble(A.matrix, B.matrix)' = assemble(A.matrix, B.matrix)
  BY <1>4 DEF assemble
<1>5. ASSUME A' = A, B' = B PROVE compute(A.matrix, B.matrix)' = compute(A.matrix, B.matrix)
  BY <1>5 DEF compute
<1>6. QED
  BY <1>1, <1>2, <1>3, <1>4, <1>5

\* Every step keeps the tensors as they were made.
LEMMA NextTensors ==
  ASSUME NothingIsNotWanted PROVE TensorsInv /\ [Next]_vars => TensorsInv'
<1> SUFFICES ASSUME TensorsInv, [Next]_vars PROVE TensorsInv'
  OBVIOUS
<1>1. ASSUME NEW f \in Files, LoadKron(f) PROVE TensorsInv'
  <2>1. CASE Aborts(f)
    BY <1>1, <2>1 DEF LoadKron, TensorsInv, Running
  <2>2. CASE ~Aborts(f) /\ Valid(f) /\ Wanted(Parsed(f).k, Parsed(f).s)
    <3>1. kron_coo' = Parsed(f) /\ phase' = "kernel"
      BY <1>1, <2>2 DEF LoadKron
    <3>2. f.read = "whole"
      <4>1. f.read # "whole" => Parsed(f).k = 0 /\ Parsed(f).s = 0
        BY DEF Parsed
      <4>2. QED
        BY <2>2, <4>1 DEF NothingIsNotWanted
    <3>3. Parsed(f)' = Parsed(f)
      BY DEF Parsed, Sorted, Listed, Entry, Scan, RowsFirst
    <3>4. QED
      BY <3>1, <3>2, <3>3 DEF TensorsInv, Running
  <2>3. CASE ~Aborts(f) /\ ~(Valid(f) /\ Wanted(Parsed(f).k, Parsed(f).s))
    BY <1>1, <2>3 DEF LoadKron, TensorsInv, Running
  <2>4. QED
    BY <2>1, <2>2, <2>3
<1>2. CASE Skip
  BY <1>2 DEF Skip, TensorsInv, Running
<1>3. CASE PackA
  <2>1. /\ phase = "kernel" /\ phase' = "pack_a" /\ func_idx' = func_idx /\ kron_coo' = kron_coo
        /\ func_idx \in DOMAIN test_entries /\ A'.matrix = pack_a(kron_coo.list, Dimension(kron_coo.k))
    BY <1>3 DEF PackA
  <2>2. A'.matrix = pack_a(kron_coo.list, Dimension(kron_coo.k))'
    BY <2>1, SameFunctions
  <2>3. QED
    BY <2>1, <2>2 DEF TensorsInv, Running
<1>4. CASE PackB
  <2>1. /\ phase = "pack_a" /\ phase' = "pack_b" /\ func_idx' = func_idx /\ kron_coo' = kron_coo /\ A' = A
        /\ B'.matrix = pack_b(kron_coo.list, Dimension(kron_coo.k))
    BY <1>4 DEF PackB
  <2>2. /\ func_idx \in DOMAIN test_entries /\ A.matrix = pack_a(kron_coo.list, Dimension(kron_coo.k))
        /\ \E f \in Files : f.read = "whole" /\ kron_coo = Parsed(f)
    BY <2>1 DEF TensorsInv, Running
  <2>3. /\ A'.matrix = pack_a(kron_coo.list, Dimension(kron_coo.k))'
        /\ B'.matrix = pack_b(kron_coo.list, Dimension(kron_coo.k))'
    BY <2>1, <2>2, SameFunctions
  <2>4. QED
    BY <2>1, <2>2, <2>3 DEF TensorsInv, Running
<1>5. CASE Assemble
  <2>1. /\ phase = "pack_b" /\ phase' = "assembled" /\ func_idx' = func_idx /\ kron_coo' = kron_coo /\ A' = A /\ B' = B
        /\ C'.matrix = assemble(A.matrix, B.matrix)
    BY <1>5 DEF Assemble
  <2>2. /\ func_idx \in DOMAIN test_entries /\ A.matrix = pack_a(kron_coo.list, Dimension(kron_coo.k))
        /\ B.matrix = pack_b(kron_coo.list, Dimension(kron_coo.k))
        /\ \E f \in Files : f.read = "whole" /\ kron_coo = Parsed(f)
    BY <2>1 DEF TensorsInv, Running
  <2>3. /\ A'.matrix = pack_a(kron_coo.list, Dimension(kron_coo.k))'
        /\ B'.matrix = pack_b(kron_coo.list, Dimension(kron_coo.k))'
        /\ C'.matrix = assemble(A.matrix, B.matrix)'
    BY <2>1, <2>2, SameFunctions
  <2>4. QED
    BY <2>1, <2>2, <2>3 DEF TensorsInv, Running
<1>6. CASE SetFields
  <2>1. phase = "assembled" /\ phase' = "testing" /\ UNCHANGED <<func_idx, kron_coo, A, B, C>>
    BY <1>6 DEF SetFields
  <2>2. QED
    BY <2>1, SameTensors
<1>7. CASE Compute
  <2>1. /\ phase \in {"testing", "computed"} /\ phase' = "computed" /\ func_idx' = func_idx /\ kron_coo' = kron_coo
        /\ A' = A /\ B' = B /\ C' = C
        /\ vals' = IF Fake THEN Aliased(compute(A.matrix, B.matrix)) ELSE compute(A.matrix, B.matrix)
    BY <1>7 DEF Compute
  <2>2. /\ func_idx \in DOMAIN test_entries /\ A.matrix = pack_a(kron_coo.list, Dimension(kron_coo.k))
        /\ B.matrix = pack_b(kron_coo.list, Dimension(kron_coo.k)) /\ C.matrix = assemble(A.matrix, B.matrix)
        /\ \E f \in Files : f.read = "whole" /\ kron_coo = Parsed(f)
    BY <2>1 DEF TensorsInv, Running
  <2>3. /\ A'.matrix = pack_a(kron_coo.list, Dimension(kron_coo.k))'
        /\ B'.matrix = pack_b(kron_coo.list, Dimension(kron_coo.k))'
        /\ C'.matrix = assemble(A.matrix, B.matrix)'
    BY <2>1, <2>2, SameFunctions
  <2>4. vals' = (IF Fake THEN Aliased(compute(A.matrix, B.matrix)) ELSE compute(A.matrix, B.matrix))'
    <3>1. PICK values : values = compute(A.matrix, B.matrix)
      OBVIOUS
    <3>2. compute(A.matrix, B.matrix)' = values /\ (Fake' <=> Fake)
      BY <2>1, <3>1, SameFunctions
    <3>3. Aliased(compute(A.matrix, B.matrix))' = Aliased(compute(A.matrix, B.matrix)')
      BY DEF Aliased
    <3>4. QED
      BY <2>1, <3>1, <3>2, <3>3
  <2>5. QED
    BY <2>1, <2>2, <2>3, <2>4 DEF TensorsInv, Running
<1>8. CASE FreeTensors
  <2>1. phase \in Running /\ phase' = "kernel" /\ kron_coo' = kron_coo
    BY <1>8 DEF FreeTensors, Running
  <2>2. \E f \in Files : f.read = "whole" /\ kron_coo = Parsed(f)
    BY <2>1 DEF TensorsInv, Running
  <2>3. QED
    BY <2>1, <2>2 DEF TensorsInv, Running
<1>9. CASE SaveCsv
  BY <1>9 DEF SaveCsv, TensorsInv, Running
<1>10. CASE UNCHANGED vars
  <2>1. func_idx' = func_idx /\ kron_coo' = kron_coo /\ A' = A /\ B' = B /\ C' = C /\ vals' = vals /\ phase' = phase
    BY <1>10 DEF vars, tensorVars
  <2>2. /\ pack_a(kron_coo.list, Dimension(kron_coo.k))' = pack_a(kron_coo.list, Dimension(kron_coo.k))
        /\ pack_b(kron_coo.list, Dimension(kron_coo.k))' = pack_b(kron_coo.list, Dimension(kron_coo.k))
        /\ assemble(A.matrix, B.matrix)' = assemble(A.matrix, B.matrix)
        /\ compute(A.matrix, B.matrix)' = compute(A.matrix, B.matrix)
        /\ (Fake' <=> Fake)
    BY <2>1, SameFunctions
  <2>3. Aliased(compute(A.matrix, B.matrix))' = Aliased(compute(A.matrix, B.matrix)')
    BY DEF Aliased
  <2>4. QED
    BY <2>1, <2>2, <2>3 DEF TensorsInv, Running
<1>11. QED
  BY <1>1, <1>2, <1>3, <1>4, <1>5, <1>6, <1>7, <1>8, <1>9, <1>10 DEF Next, Done

\* The operands hold the graph of the file, each edge once, for every list of edges, one with
\* entries left zero included: the sort makes the runs of a cell adjacent, and the pack functions merge them.
THEOREM TacoBenchOperandsHoldGraph ==
  ASSUME NothingIsNotWanted, EdgesBetweenNodes PROVE Spec => []OperandsHoldGraph
<1>1. TensorsInv => OperandsHoldGraph
  <2> SUFFICES ASSUME TensorsInv PROVE OperandsHoldGraph
    OBVIOUS
  <2>1. ASSUME phase \in {"pack_a", "pack_b"}
        PROVE  /\ func_idx \in DOMAIN test_entries /\ \E n : SortedList(kron_coo.list, n, Dimension(kron_coo.k))
    <3>1. PICK f \in Files : f.read = "whole" /\ kron_coo = Parsed(f)
      BY <2>1 DEF TensorsInv
    <3>2. SortedList(Parsed(f).list, f.nnz, Dimension(f.k)) /\ Parsed(f).k = f.k
      BY <3>1, GraphList
    <3>3. SortedList(kron_coo.list, f.nnz, Dimension(kron_coo.k))
      BY <3>1, <3>2
    <3>4. func_idx \in DOMAIN test_entries
      BY <2>1 DEF TensorsInv, Running
    <3>5. QED
      BY <3>3, <3>4
  <2>2. CASE phase = "pack_a"
    <3>1. A.matrix = pack_a(kron_coo.list, Dimension(kron_coo.k))
      BY <2>2 DEF TensorsInv, Running
    <3>2. entry[1] \in Sparse /\ A.matrix = PackOf(entry[1], kron_coo.list, Dimension(kron_coo.k))
      BY <2>1, <2>2, <3>1, PackFunctions
    <3>3. PackedIs(entry[1], A)
      BY <2>1, <2>2, <3>2, PackedHolds
    <3>4. QED
      BY <2>2, <3>3 DEF OperandsHoldGraph
  <2>3. CASE phase = "pack_b"
    <3>1. B.matrix = pack_b(kron_coo.list, Dimension(kron_coo.k))
      BY <2>3 DEF TensorsInv, Running
    <3>2. entry[2] \in Sparse /\ B.matrix = PackOf(entry[2], kron_coo.list, Dimension(kron_coo.k))
      BY <2>1, <2>3, <3>1, PackFunctions
    <3>3. PackedIs(entry[2], B)
      BY <2>1, <2>3, <3>2, PackedHolds
    <3>4. QED
      BY <2>3, <3>3 DEF OperandsHoldGraph
  <2>4. CASE phase \notin {"pack_a", "pack_b"}
    BY <2>4 DEF OperandsHoldGraph
  <2>5. QED
    BY <2>2, <2>3, <2>4
<1>2. QED
  BY <1>1, InitTensors, NextTensors, PTL DEF Spec

-----------------------------------------------------------------------------
(* What a reader finds in an output in coordinates.                        *)

\* What a reader of an output in coordinates finds at a cell.
FilledAt(cells, values, cell) == ValueAt([format |-> "MAT_COO", matrix |-> Filled(cells, values)], cell)

\* n cells of a matrix, and a number for each of them.
CellsWithValues(cells, values, n) ==
  /\ n \in Nat /\ DOMAIN cells = 1 .. n
  /\ \A p \in 1 .. n : cells[p] = <<cells[p][1], cells[p][2]>> /\ values[p] \in Int

\* It is the sum of the values that are written for the cell.
LEMMA FilledValue ==
  ASSUME NEW n, NEW cells, NEW values, CellsWithValues(cells, values, n), NEW cell,
         NEW P, P = {p \in 1 .. n : cells[p] = cell}
  PROVE  Summable(values, P) /\ FilledAt(cells, values, cell) = SumOf(values, P)
<1>1. n \in Nat /\ DOMAIN cells = 1 .. n /\ \A p \in 1 .. n : cells[p] = <<cells[p][1], cells[p][2]>> /\ values[p] \in Int
  BY DEF CellsWithValues
<1>2. PICK m : m = Filled(cells, values)
  OBVIOUS
<1>3. DOMAIN m = 1 .. n /\ \A p \in 1 .. n : m[p] = [row |-> cells[p][1], col |-> cells[p][2], value |-> values[p]]
  BY <1>1, <1>2 DEF Filled
<1>4. \A p \in 1 .. n : m[p].row = cells[p][1] /\ m[p].col = cells[p][2] /\ m[p].value = values[p]
  BY <1>3
<1>5. \A p \in 1 .. n : <<m[p].row, m[p].col>> = cells[p]
  BY <1>1, <1>4
<1>6. P = PlacesAt(m, cell) /\ P \subseteq DOMAIN m
  <2>1. \A p \in 1 .. n : CellOf(m, p) = cells[p]
    BY <1>5 DEF CellOf
  <2>2. QED
    BY <1>3, <2>1 DEF PlacesAt
<1>7. PICK w : w = SumOf(ValuesOf(m), P)
  OBVIOUS
<1>8. Total(PlacesAt(m, cell), LAMBDA p : m[p].value) = w
  BY <1>6, <1>7, TotalOfValues
<1>9. FilledAt(cells, values, cell) = w
  BY <1>2, <1>8 DEF FilledAt, ValueAt, PlacesAt, CellOf
<1>10. IsFiniteSet(P)
  <2>1. IsFiniteSet(1 .. n)
    <3>1. 1 \in Int /\ n \in Int
      BY <1>1
    <3>2. QED
      BY <3>1, FS_Interval
  <2>2. P \in SUBSET (1 .. n)
    OBVIOUS
  <2>3. QED
    BY <2>1, <2>2, FS_Subset
<1>11. PICK f : f = ValuesOf(m)
  OBVIOUS
<1>12. \A p \in P : f[p] = values[p] /\ values[p] \in Int
  BY <1>1, <1>3, <1>4, <1>11 DEF ValuesOf
<1>13. Summable(f, P) /\ Summable(values, P)
  BY <1>10, <1>12 DEF Summable
<1>14. PICK id : id = [p \in P |-> p]
  OBVIOUS
<1>15. Matches(id, f, P, values, P)
  BY <1>12, <1>14 DEF Matches
<1>16. SumOf(f, P) = SumOf(values, P)
  BY <1>13, <1>15, SumMatched
<1>17. QED
  BY <1>7, <1>9, <1>11, <1>13, <1>16

-----------------------------------------------------------------------------
(* One entry for each visit.                                               *)

\* The order in which the loops come to the visits.
FromOrder(V) == {x \in V \X V : RowsFirst(x[1].from, x[2].from)}

\* It is an order of all of them.
LEMMA VisitsOrdered == ASSUME NEW V, OnePerPair(V) PROVE Orders(FromOrder(V), V)
<1>1. \A v, w \in V : <<v, w>> \in FromOrder(V) <=> RowsFirst(v.from, w.from)
  BY DEF FromOrder
<1>2. \A v \in V : ~RowsFirst(v.from, v.from)
  BY DEF RowsFirst, OnePerPair
<1>3. ASSUME NEW v \in V, NEW w \in V PROVE v = w \/ RowsFirst(v.from, w.from) \/ RowsFirst(w.from, v.from)
  <2>1. PICK i, j, k, l : i = v.from[1] /\ j = v.from[2] /\ k = w.from[1] /\ l = w.from[2]
    OBVIOUS
  <2>2. i \in Int /\ j \in Int /\ k \in Int /\ l \in Int /\ v.from = <<i, j>> /\ w.from = <<k, l>>
    BY <2>1 DEF OnePerPair
  <2>3. (i = k /\ j = l) \/ RowsFirst(v.from, w.from) \/ RowsFirst(w.from, v.from)
    BY <2>2 DEF RowsFirst
  <2>4. i = k /\ j = l => v = w
    BY <2>2 DEF OnePerPair
  <2>5. QED
    BY <2>3, <2>4
<1>4. \A u, v, w \in V : RowsFirst(u.from, v.from) /\ RowsFirst(v.from, w.from) => RowsFirst(u.from, w.from)
  <2>1. \A v \in V : v.from[1] \in Int /\ v.from[2] \in Int
    BY DEF OnePerPair
  <2>2. QED
    BY <2>1 DEF RowsFirst
<1> HIDE DEF FromOrder
<1>5. QED
  BY <1>1, <1>2, <1>3, <1>4 DEF Orders

\* Their sequence has each visit once.
LEMMA LoopOrderIs ==
  ASSUME NEW V, OnePerPair(V), IsFiniteSet(V), NEW n, n = Cardinality(V), NEW s, s = InLoopOrder(V)
  PROVE  /\ n \in Nat /\ s \in [1 .. n -> V]
         /\ \A v \in V : \E i \in 1 .. n : s[i] = v
         /\ \A i, j \in 1 .. n : s[i] = s[j] => i = j
<1>1. PICK R : R = FromOrder(V)
  OBVIOUS
<1>2. Orders(R, V) /\ n \in Nat
  BY <1>1, VisitsOrdered, FS_CardinalityType
<1>3. PICK t : t = InOrder(R, V)
  OBVIOUS
<1>4. /\ t \in [1 .. n -> V]
      /\ \A x \in V : Rank(R, V, x) + 1 \in 1 .. n /\ t[Rank(R, V, x) + 1] = x
      /\ \A i, j \in 1 .. n : <<t[i], t[j]>> \in R <=> i < j
  BY <1>2, <1>3, OrderedSequence
<1>5. \A x \in V : Rank(R, V, x) = Cardinality({b \in V : RowsFirst(b.from, x.from)})
  <2>1. \A x \in V : Earlier(R, V, x) = {b \in V : RowsFirst(b.from, x.from)}
    BY <1>1 DEF Earlier, FromOrder
  <2>2. QED
    BY <2>1 DEF Rank
<1>6. s = [i \in 1 .. n |-> CHOOSE x \in V : Cardinality({b \in V : RowsFirst(b.from, x.from)}) = i - 1]
  BY DEF InLoopOrder, Scan
<1>7. ASSUME NEW i \in 1 .. n PROVE s[i] = t[i]
  <2>1. i - 1 \in 0 .. Cardinality(V) - 1
    BY <1>2
  <2>2. PICK x \in V : Rank(R, V, x) = i - 1 /\ \A y \in V : Rank(R, V, y) = i - 1 => y = x
    BY <1>2, <2>1, RankedElement
  <2>3. (CHOOSE y \in V : Rank(R, V, y) = i - 1) = x
    BY <2>2
  <2>4. (CHOOSE y \in V : Cardinality({b \in V : RowsFirst(b.from, y.from)}) = i - 1) = x
    BY <1>5, <2>2
  <2>5. t[i] = CHOOSE y \in V : Rank(R, V, y) = i - 1
    BY <1>3 DEF InOrder
  <2>6. QED
    BY <1>6, <2>3, <2>4, <2>5
<1>8. DOMAIN s = 1 .. n /\ DOMAIN t = 1 .. n /\ s = [i \in 1 .. n |-> s[i]] /\ t = [i \in 1 .. n |-> t[i]]
  BY <1>4, <1>6
<1>9. s = t
  BY <1>7, <1>8
<1>10. \A i, j \in 1 .. n : t[i] = t[j] => i = j
  <2> SUFFICES ASSUME NEW i \in 1 .. n, NEW j \in 1 .. n, t[i] = t[j] PROVE i = j
    OBVIOUS
  <2>1. ~(<<t[i], t[j]>> \in R) /\ ~(<<t[j], t[i]>> \in R)
    BY <1>2, <1>4 DEF Orders
  <2>2. QED
    BY <1>2, <1>4, <2>1
<1>11. \A v \in V : \E i \in 1 .. n : t[i] = v
  BY <1>4
<1>12. QED
  BY <1>2, <1>4, <1>9, <1>10, <1>11

\* Finitely many products, each for a cell.
ProductsOf(V) == IsFiniteSet(V) /\ \A v \in V : v.product \in Int /\ v.at = <<v.at[1], v.at[2]>>

\* What the visits add to a cell, as a sum.
LEMMA AddedIs ==
  ASSUME NEW V, ProductsOf(V), NEW f, f = [v \in V |-> v.product], NEW cell, NEW W, W = {v \in V : v.at = cell}
  PROVE  Summable(f, W) /\ AddedAt(V, cell) = SumOf(f, W) /\ AddedAt(V, cell) \in Int
<1>1. \A v \in W : f[v] = v.product /\ v.product \in Int
  BY DEF ProductsOf
<1>2. IsFiniteSet(W)
  BY FS_Subset DEF ProductsOf
<1>3. Summable(f, W)
  BY <1>1, <1>2 DEF Summable
<1>4. PICK w : w = SumOf(f, W)
  OBVIOUS
<1>5. Total(W, LAMBDA v : v.product) = w
  BY <1>1, <1>4, TotalOfProducts
<1>6. AddedAt(V, cell) = w
  BY <1>5 DEF AddedAt
<1>7. w \in Int
  BY <1>3, <1>4, SumStep
<1>8. QED
  BY <1>3, <1>4, <1>6, <1>7

\* An output with one entry for each visit.
LEMMA CoordinatesHold ==
  ASSUME NEW V, ProductsOf(V), OnePerPair(V), NEW cells, cells = Coordinates(V), NEW values, values = Products(V)
  PROVE  /\ \E n : CellsWithValues(cells, values, n) /\ DOMAIN values = 1 .. n
         /\ \A cell : FilledAt(cells, values, cell) = AddedAt(V, cell)
<1>1. PICK n, s : n = Cardinality(V) /\ s = InLoopOrder(V)
  OBVIOUS
<1>2. /\ n \in Nat /\ s \in [1 .. n -> V]
      /\ \A v \in V : \E i \in 1 .. n : s[i] = v
      /\ \A i, j \in 1 .. n : s[i] = s[j] => i = j
  BY <1>1, LoopOrderIs DEF ProductsOf
<1>3. cells = [p \in 1 .. n |-> s[p].at] /\ values = [p \in 1 .. n |-> s[p].product]
  BY <1>1 DEF Coordinates, Products
<1>4. \A p \in 1 .. n : s[p] \in V /\ cells[p] = s[p].at /\ values[p] = s[p].product
  BY <1>2, <1>3
<1>5. \A p \in 1 .. n : cells[p] = <<cells[p][1], cells[p][2]>> /\ values[p] \in Int
  BY <1>4 DEF ProductsOf
<1>6. DOMAIN cells = 1 .. n /\ DOMAIN values = 1 .. n
  BY <1>3
<1>7. CellsWithValues(cells, values, n)
  BY <1>2, <1>5, <1>6 DEF CellsWithValues
<1>8. ASSUME NEW cell PROVE FilledAt(cells, values, cell) = AddedAt(V, cell)
  <2>1. PICK P, W, f : P = {p \in 1 .. n : cells[p] = cell} /\ W = {v \in V : v.at = cell} /\ f = [v \in V |-> v.product]
    OBVIOUS
  <2>2. Summable(values, P) /\ FilledAt(cells, values, cell) = SumOf(values, P)
    BY <1>7, <2>1, FilledValue
  <2>3. Summable(f, W) /\ AddedAt(V, cell) = SumOf(f, W)
    BY <2>1, AddedIs
  <2>4. \A p \in P : p \in 1 .. n /\ s[p] \in W /\ values[p] = f[s[p]]
    BY <1>4, <2>1
  <2>5. \A p, q \in P : s[p] = s[q] => p = q
    BY <1>2, <2>4
  <2>6. \A v \in W : \E p \in P : s[p] = v
    <3> SUFFICES ASSUME NEW v \in W PROVE \E p \in P : s[p] = v
      OBVIOUS
    <3>1. v \in V /\ v.at = cell
      BY <2>1
    <3>2. PICK p \in 1 .. n : s[p] = v
      BY <1>2, <3>1
    <3>3. p \in P
      BY <1>4, <2>1, <3>1, <3>2
    <3>4. QED
      BY <3>2, <3>3
  <2>7. Matches(s, values, P, f, W)
    BY <2>4, <2>5, <2>6 DEF Matches
  <2>8. QED
    BY <2>2, <2>3, <2>7, SumMatched
<1>9. QED
  BY <1>6, <1>7, <1>8

\* n different cells, among them all that a product reaches.
CellsFor(cells, V, n) ==
  /\ n \in Nat /\ DOMAIN cells = 1 .. n
  /\ \A p \in 1 .. n : cells[p] = <<cells[p][1], cells[p][2]>>
  /\ \A p, q \in 1 .. n : cells[p] = cells[q] => p = q
  /\ \A v \in V : \E p \in 1 .. n : cells[p] = v.at

\* An output with one entry for each of these cells.
LEMMA SumsHold ==
  ASSUME NEW V, ProductsOf(V), NEW cells, NEW n, CellsFor(cells, V, n), NEW values, values = Sums(V, cells)
  PROVE  /\ CellsWithValues(cells, values, n) /\ DOMAIN values = 1 .. n
         /\ \A cell : FilledAt(cells, values, cell) = AddedAt(V, cell)
<1>1. /\ n \in Nat /\ DOMAIN cells = 1 .. n
      /\ \A p \in 1 .. n : cells[p] = <<cells[p][1], cells[p][2]>>
      /\ \A p, q \in 1 .. n : cells[p] = cells[q] => p = q
      /\ \A v \in V : \E p \in 1 .. n : cells[p] = v.at
  BY DEF CellsFor
<1>2. values = [p \in 1 .. n |-> AddedAt(V, cells[p])]
  BY <1>1 DEF Sums, AddedAt
<1>3. \A cell : AddedAt(V, cell) \in Int
  BY AddedIs
<1>4. DOMAIN values = 1 .. n /\ \A p \in 1 .. n : values[p] = AddedAt(V, cells[p]) /\ values[p] \in Int
  BY <1>2, <1>3
<1>5. CellsWithValues(cells, values, n)
  BY <1>1, <1>4 DEF CellsWithValues
<1>6. ASSUME NEW cell PROVE FilledAt(cells, values, cell) = AddedAt(V, cell)
  <2>1. PICK P : P = {p \in 1 .. n : cells[p] = cell}
    OBVIOUS
  <2>2. Summable(values, P) /\ FilledAt(cells, values, cell) = SumOf(values, P)
    BY <1>5, <2>1, FilledValue
  <2>3. CASE P = {}
    <3>1. PICK W, f : W = {v \in V : v.at = cell} /\ f = [v \in V |-> v.product]
      OBVIOUS
    <3>2. W = {}
      BY <1>1, <2>1, <2>3, <3>1
    <3>3. Summable(f, W) /\ AddedAt(V, cell) = SumOf(f, W)
      BY <3>1, AddedIs
    <3>4. SumOf(f, W) = 0
      BY <3>2, <3>3, SumStep
    <3>5. SumOf(values, P) = 0
      BY <2>2, <2>3, SumStep
    <3>6. QED
      BY <2>2, <3>3, <3>4, <3>5
  <2>4. CASE P # {}
    <3>1. PICK p \in P : TRUE
      BY <2>4
    <3>2. p \in 1 .. n /\ cells[p] = cell /\ P \ {p} = {}
      BY <1>1, <2>1, <3>1
    <3>3. Summable(values, P \ {p}) /\ SumOf(values, P) = values[p] + SumOf(values, P \ {p})
      BY <2>2, <3>1, SumRemove
    <3>4. SumOf(values, P \ {p}) = 0
      BY <3>2, <3>3, SumStep
    <3>5. values[p] = AddedAt(V, cell) /\ values[p] \in Int
      BY <1>4, <3>2
    <3>6. QED
      BY <2>2, <3>3, <3>4, <3>5
  <2>5. QED
    BY <2>3, <2>4
<1>7. QED
  BY <1>4, <1>5, <1>6

-----------------------------------------------------------------------------
(* What the visits of a kernel leave in an output.                         *)

\* Each product goes to a cell whose row has an entry in the left operand.
ToCells(V, l, P, L, R) ==
  \A v \in V : \E row \in Rows(L), k \in Cols(L), col \in Cols(R) : v.at = <<row, col>> /\ <<row, k>> \in Held(l, P)

\* The visits of a kernel are finitely many products, for cells of the output.
LEMMA VisitsAreProducts ==
  ASSUME NEW P, NEW L, NEW Q, NEW R, StoredOperands(P, L, Q, R), NEW l, NEW r, NEW T, T = Triples(l, P, r, Q),
         NEW V, NEW p, NEW q, Visited(V, T, p, q, L, R)
  PROVE  ProductsOf(V) /\ ToCells(V, l, P, L, R)
<1>1. IsFiniteSet(T)
  BY StoredTriples, Zenon
<1>2. IsFiniteSet(V)
  BY <1>1, VisitsFinite
<1>3. ASSUME NEW v \in V
      PROVE  /\ v.product \in Int /\ v.at = <<v.at[1], v.at[2]>>
             /\ \E row \in Rows(L), k \in Cols(L), col \in Cols(R) : v.at = <<row, col>> /\ <<row, k>> \in Held(l, P)
  <2>1. PICK t \in T : v = VisitOf(t, p, q, L, R)
    BY DEF Visited
  <2>2. PICK row, k, col : row = t[1] /\ k = t[2] /\ col = t[3]
    OBVIOUS
  <2>3. row \in Rows(L) /\ k \in Cols(L) /\ col \in Cols(R) /\ <<row, k>> \in Held(l, P)
    BY <2>2, StoredTriples
  <2>4. PICK x, y : x = L.values[<<row, k>>] /\ y = R.values[<<k, col>>]
    OBVIOUS
  <2>5. x \in Int /\ y \in Int
    BY <2>3, <2>4, StoredTriples
  <2>6. v = [at |-> <<row, col>>, from |-> <<p[t], q[t]>>, product |-> x * y]
    BY <2>1, <2>2, <2>4 DEF VisitOf, Visit
  <2>7. v.at = <<row, col>> /\ v.product = x * y
    BY <2>6
  <2>8. x * y \in Int
    BY <2>5
  <2>9. QED
    BY <2>3, <2>7, <2>8
<1>4. QED
  BY <1>2, <1>3 DEF ProductsOf, ToCells

-----------------------------------------------------------------------------
(* Cells in the order of the rows, or of the columns.                      *)

\* s has each cell of S once, in the order of the rows.
RowSorted(s, S, n) ==
  /\ n \in Nat /\ s \in [1 .. n -> S] /\ DOMAIN s = 1 .. n
  /\ \A x \in S : \E i \in 1 .. n : s[i] = x
  /\ \A i, j \in 1 .. n : s[i] = s[j] => i = j
  /\ \A i, j \in 1 .. n : RowsFirst(s[i], s[j]) <=> i < j

ColSorted(s, S, n) ==
  /\ n \in Nat /\ s \in [1 .. n -> S] /\ DOMAIN s = 1 .. n
  /\ \A x \in S : \E i \in 1 .. n : s[i] = x
  /\ \A i, j \in 1 .. n : s[i] = s[j] => i = j
  /\ \A i, j \in 1 .. n : ColsFirst(s[i], s[j]) <=> i < j

\* The scans of a matrix are sorted.
LEMMA RowScanSorted == ASSUME NEW d, IsDense(d) PROVE RowSorted(RowScan(d), NonZero(d), Cardinality(NonZero(d)))
<1> DEFINE n == Cardinality(NonZero(d))
           s == RowScan(d)
<1>1. /\ n \in Nat /\ s \in [1 .. n -> NonZero(d)] /\ DOMAIN s = 1 .. n
      /\ \A i, j \in 1 .. n : RowsFirst(s[i], s[j]) <=> i < j
      /\ \A x \in NonZero(d) : \E i \in 1 .. n : s[i] = x
      /\ \A i, j \in 1 .. n : s[i] = s[j] => i = j
  BY RowScanned
<1> HIDE DEF n, s
<1>2. RowSorted(s, NonZero(d), n)
  BY <1>1 DEF RowSorted
<1>3. QED
  BY <1>2 DEF n, s

LEMMA ColScanSorted == ASSUME NEW d, IsDense(d) PROVE ColSorted(ColScan(d), NonZero(d), Cardinality(NonZero(d)))
<1> DEFINE n == Cardinality(NonZero(d))
           s == ColScan(d)
<1>1. /\ n \in Nat /\ s \in [1 .. n -> NonZero(d)] /\ DOMAIN s = 1 .. n
      /\ \A i, j \in 1 .. n : ColsFirst(s[i], s[j]) <=> i < j
      /\ \A x \in NonZero(d) : \E i \in 1 .. n : s[i] = x
      /\ \A i, j \in 1 .. n : s[i] = s[j] => i = j
  BY ColScanned
<1> HIDE DEF n, s
<1>2. ColSorted(s, NonZero(d), n)
  BY <1>1 DEF ColSorted
<1>3. QED
  BY <1>2 DEF n, s

\* The sequences of cells are sorted.
LEMMA SequencesSorted ==
  ASSUME NEW N \in Nat, NEW S, S \subseteq (0 .. N - 1) \X (0 .. N - 1), NEW n, n = Cardinality(S)
  PROVE  RowSorted(RowSequence(S), S, n) /\ ColSorted(ColSequence(S), S, n)
<1>1. PICK d : d = OnesAt(S, N, N)
  OBVIOUS
<1>2. IsDense(d) /\ NonZero(d) = S /\ RowScan(d) = RowSequence(S) /\ ColScan(d) = ColSequence(S)
  BY <1>1, OnesAtIs
<1>3. RowSorted(RowScan(d), NonZero(d), Cardinality(NonZero(d)))
  BY <1>2, RowScanSorted
<1>4. ColSorted(ColScan(d), NonZero(d), Cardinality(NonZero(d)))
  BY <1>2, ColScanSorted
<1>5. QED
  BY <1>2, <1>3, <1>4, Zenon

\* Sorted cells are cells for the products that go to them.
LEMMA SortedCells ==
  ASSUME NEW N \in Nat, NEW S, S \subseteq (0 .. N - 1) \X (0 .. N - 1), NEW n, NEW s,
         RowSorted(s, S, n) \/ ColSorted(s, S, n), NEW V, \A v \in V : v.at \in S
  PROVE  CellsFor(s, V, n)
<1>1. /\ n \in Nat /\ s \in [1 .. n -> S] /\ DOMAIN s = 1 .. n
      /\ \A x \in S : \E i \in 1 .. n : s[i] = x
      /\ \A i, j \in 1 .. n : s[i] = s[j] => i = j
  BY DEF RowSorted, ColSorted
<1>2. \A x \in S : x = <<x[1], x[2]>>
  OBVIOUS
<1>3. \A p \in 1 .. n : s[p] = <<s[p][1], s[p][2]>>
  BY <1>1, <1>2
<1>4. QED
  BY <1>1, <1>3 DEF CellsFor

-----------------------------------------------------------------------------
\* The arrays hold a product: a number for each of some cells, which add up to the elements.
OutputHolds(cells, values, L, R) ==
  /\ \E n : CellsWithValues(cells, values, n) /\ DOMAIN values = 1 .. n
  /\ \A cell \in Rows(L) \X Cols(R) : FilledAt(cells, values, cell) = Product(L, R)[cell]

\* An output with one entry for each visit holds the product.
LEMMA OutputByVisits ==
  ASSUME NEW P, NEW L, NEW Q, NEW R, StoredOperands(P, L, Q, R), NEW l, NEW r, NEW T, T = Triples(l, P, r, Q),
         NEW V, \E p, q : Visited(V, T, p, q, L, R), OnePerPair(V)
  PROVE  OutputHolds(Coordinates(V), Products(V), L, R)
<1>1. PICK p, q : Visited(V, T, p, q, L, R)
  OBVIOUS
<1>2. ProductsOf(V)
  BY <1>1, VisitsAreProducts
<1>3. PICK cells, values : cells = Coordinates(V) /\ values = Products(V)
  OBVIOUS
<1>4. /\ \E n : CellsWithValues(cells, values, n) /\ DOMAIN values = 1 .. n
      /\ \A cell : FilledAt(cells, values, cell) = AddedAt(V, cell)
  BY <1>2, <1>3, CoordinatesHold
<1>5. \A cell \in Rows(L) \X Cols(R) : AddedAt(V, cell) = Product(L, R)[cell]
  BY <1>1, VisitsSum
<1>6. QED
  BY <1>3, <1>4, <1>5 DEF OutputHolds

\* An output with one entry for each cell that is reached holds the product.
LEMMA OutputByCells ==
  ASSUME NEW P, NEW L, NEW Q, NEW R, StoredOperands(P, L, Q, R), NEW l, NEW r, NEW T, T = Triples(l, P, r, Q),
         NEW V, \E p, q : Visited(V, T, p, q, L, R), NEW cells, NEW n, CellsFor(cells, V, n)
  PROVE  OutputHolds(cells, Sums(V, cells), L, R)
<1>1. PICK p, q : Visited(V, T, p, q, L, R)
  OBVIOUS
<1>2. ProductsOf(V)
  BY <1>1, VisitsAreProducts
<1>3. PICK values : values = Sums(V, cells)
  OBVIOUS
<1>4. /\ CellsWithValues(cells, values, n) /\ DOMAIN values = 1 .. n
      /\ \A cell : FilledAt(cells, values, cell) = AddedAt(V, cell)
  BY <1>2, <1>3, SumsHold
<1>5. \A cell \in Rows(L) \X Cols(R) : AddedAt(V, cell) = Product(L, R)[cell]
  BY <1>1, VisitsSum
<1>6. QED
  BY <1>3, <1>4, <1>5 DEF OutputHolds

-----------------------------------------------------------------------------
(* The outputs of the ten kernels, for square operands.                    *)

\* Two square matrices of numbers, stored in the cells of P and Q.
StoredSquares(P, L, Q, R, N) ==
  /\ N \in Nat /\ Stores(P, L) /\ Stores(Q, R)
  /\ L.row_count = N /\ L.col_count = N /\ R.row_count = N /\ R.col_count = N

\* They are operands of a product.
LEMMA SquaresAre ==
  ASSUME NEW P, NEW L, NEW Q, NEW R, NEW N, StoredSquares(P, L, Q, R, N)
  PROVE  /\ StoredOperands(P, L, Q, R) /\ Operands(L, R) /\ N \in Nat
         /\ Rows(L) = 0 .. N - 1 /\ Cols(L) = 0 .. N - 1 /\ Cols(R) = 0 .. N - 1
<1>1. Stores(P, L) /\ Stores(Q, R) /\ IsDense(L) /\ IsDense(R) /\ L.row_count = N /\ L.col_count = N /\ R.row_count = N /\ R.col_count = N
  BY StoresFacts DEF StoredSquares
<1>2. StoredOperands(P, L, Q, R)
  BY <1>1 DEF Operands, StoredOperands
<1>3. QED
  BY <1>1, <1>2 DEF StoredOperands, StoredSquares, Rows, Cols

\* A grid of cells.
LEMMA GridCells ==
  ASSUME NEW N \in Nat, NEW rows, rows \subseteq 0 .. N - 1, NEW cols, cols = 0 .. N - 1, NEW V, \A v \in V : v.at \in rows \X cols
  PROVE  \E n : CellsFor(Grid(rows, cols), V, n)
<1>1. PICK S : S = rows \X cols
  OBVIOUS
<1>2. S \subseteq (0 .. N - 1) \X (0 .. N - 1) /\ \A v \in V : v.at \in S
  BY <1>1
<1>3. PICK n, s : n = Cardinality(S) /\ s = RowSequence(S)
  OBVIOUS
<1>4. RowSorted(s, S, n)
  BY <1>2, <1>3, SequencesSorted
<1>5. CellsFor(s, V, n)
  BY <1>2, <1>4, SortedCells
<1>6. Grid(rows, cols) = RowSequence(rows \X cols)
  BY DEF Grid, RowSequence
<1>7. QED
  BY <1>1, <1>3, <1>5, <1>6

\* The cells that the products of V go to.
CellsReached(V) == {v.at : v \in V}

\* The cells reached, in the order of an output with pointers.
LEMMA ReachedCells ==
  ASSUME NEW N \in Nat, NEW V, \A v \in V : v.at \in (0 .. N - 1) \X (0 .. N - 1), NEW n, n = Cardinality(CellsReached(V))
  PROVE  /\ RowSorted(ReachedByRow(V), CellsReached(V), n) /\ CellsFor(ReachedByRow(V), V, n)
         /\ ColSorted(ReachedByCol(V), CellsReached(V), n) /\ CellsFor(ReachedByCol(V), V, n)
<1>1. PICK S : S = CellsReached(V)
  OBVIOUS
<1>2. S \subseteq (0 .. N - 1) \X (0 .. N - 1) /\ \A v \in V : v.at \in S
  BY <1>1 DEF CellsReached
<1>3. PICK s, t : s = RowSequence(S) /\ t = ColSequence(S)
  OBVIOUS
<1>4. RowSorted(s, S, n) /\ ColSorted(t, S, n)
  BY <1>1, <1>2, <1>3, SequencesSorted
<1>5. CellsFor(s, V, n)
  BY <1>2, <1>4, SortedCells
<1>6. CellsFor(t, V, n)
  BY <1>2, <1>4, SortedCells
<1>7. ReachedByRow(V) = RowSequence(CellsReached(V)) /\ ReachedByCol(V) = ColSequence(CellsReached(V))
  BY DEF ReachedByRow, ReachedByCol, RowSequence, ColSequence, CellsReached
<1>8. QED
  BY <1>1, <1>3, <1>4, <1>5, <1>6, <1>7

\* Where the visits of square operands go.
LEMMA VisitsInside ==
  ASSUME NEW P, NEW L, NEW Q, NEW R, NEW N, StoredSquares(P, L, Q, R, N), NEW l, NEW r, NEW T, T = Triples(l, P, r, Q),
         NEW V, \E p, q : Visited(V, T, p, q, L, R)
  PROVE  ToCells(V, l, P, L, R) /\ \A v \in V : v.at \in (0 .. N - 1) \X (0 .. N - 1)
<1>1. PICK p, q : Visited(V, T, p, q, L, R)
  OBVIOUS
<1>2. StoredOperands(P, L, Q, R) /\ Rows(L) = 0 .. N - 1 /\ Cols(L) = 0 .. N - 1 /\ Cols(R) = 0 .. N - 1
  BY SquaresAre
<1>3. ToCells(V, l, P, L, R)
  BY <1>1, <1>2, VisitsAreProducts
<1>4. ASSUME NEW v \in V PROVE v.at \in (0 .. N - 1) \X (0 .. N - 1)
  <2>1. PICK row \in Rows(L), k \in Cols(L), col \in Cols(R) : v.at = <<row, col>>
    BY <1>3 DEF ToCells
  <2>2. row \in 0 .. N - 1 /\ col \in 0 .. N - 1
    BY <1>2
  <2>3. QED
    BY <2>1, <2>2
<1>5. QED
  BY <1>3, <1>4

-----------------------------------------------------------------------------
\* A kernel that writes one entry for each cell of a grid.
LEMMA CsrCscOutput ==
  ASSUME NEW P, NEW L, NEW Q, NEW R, NEW N, StoredSquares(P, L, Q, R, N), NEW left, left = StoredCsr(P, L), NEW right, right = StoredCsc(Q, R)
  PROVE  OutputHolds(CSR_x_CSC_COO_assemble(left, right), CSR_x_CSC_COO_compute(left, right), L, R)
<1>1. PICK V, T : V = csr_x_csc(left, right) /\ T = Triples("MAT_CSR", P, "MAT_CSC", Q)
  OBVIOUS
<1>2. StoredOperands(P, L, Q, R) /\ N \in Nat
  BY SquaresAre
<1>3. \E p, q : Visited(V, T, p, q, L, R)
  BY <1>1, <1>2, CsrCsc
<1>4. left.row_count = N /\ right.col_count = N
  BY DEF StoredCsr, StoredCsc, StoredSquares
<1>5. PICK side : side = 0 .. N - 1
  OBVIOUS
<1>6. \A v \in V : v.at \in side \X side
  BY <1>1, <1>3, <1>5, VisitsInside
<1>7. side \subseteq 0 .. N - 1
  BY <1>5
<1>8. PICK n : CellsFor(Grid(side, side), V, n)
  BY <1>2, <1>5, <1>6, <1>7, GridCells
<1>9. OutputHolds(Grid(side, side), Sums(V, Grid(side, side)), L, R)
  BY <1>1, <1>2, <1>3, <1>8, OutputByCells
<1>10. QED
  BY <1>1, <1>4, <1>5, <1>9 DEF CSR_x_CSC_COO_assemble, CSR_x_CSC_COO_compute

\* A kernel that writes one entry for each cell of the rows that have an entry.
LEMMA CooCscOutput ==
  ASSUME NEW P, NEW L, NEW Q, NEW R, NEW N, StoredSquares(P, L, Q, R, N), NEW left, left = StoredCoo(P, L), NEW right, right = StoredCsc(Q, R)
  PROVE  OutputHolds(COO_x_CSC_COO_assemble(left, right), COO_x_CSC_COO_compute(left, right), L, R)
<1>1. PICK V, T : V = coo_x_csc(left, right) /\ T = Triples("MAT_COO", P, "MAT_CSC", Q)
  OBVIOUS
<1>2. StoredOperands(P, L, Q, R) /\ N \in Nat /\ Rows(L) = 0 .. N - 1
  BY SquaresAre
<1>3. \E p, q : Visited(V, T, p, q, L, R)
  BY <1>1, <1>2, CooCsc
<1>4. right.col_count = N
  BY DEF StoredCsc, StoredSquares
<1>5. PICK side, rows : side = 0 .. N - 1 /\ rows = RowsOf(left)
  OBVIOUS
<1>6. IsDense(P) /\ Rows(P) = Rows(L)
  BY StoresFacts DEF StoredSquares
<1>7. PICK n, s : n = Cardinality(NonZero(P)) /\ s = RowScan(P)
  OBVIOUS
<1>8. RowSorted(s, NonZero(P), n)
  BY <1>6, <1>7, RowScanSorted
<1>9. DOMAIN s = 1 .. n /\ (\A i \in 1 .. n : s[i] \in NonZero(P)) /\ \A x \in NonZero(P) : \E i \in 1 .. n : s[i] = x
  BY <1>8 DEF RowSorted
<1>10. left = [i \in 1 .. n |-> [row |-> s[i][1], col |-> s[i][2], value |-> L.values[s[i]]]]
  BY <1>7, <1>9 DEF StoredCoo
<1>11. DOMAIN left = 1 .. n /\ \A i \in 1 .. n : left[i].row = s[i][1]
  BY <1>10
<1>12. rows = {s[i][1] : i \in 1 .. n}
  BY <1>5, <1>11 DEF RowsOf
<1>13. \A i \in 1 .. n : s[i][1] \in side
  BY <1>2, <1>5, <1>6, <1>9, CellFacts
<1>14. rows \subseteq 0 .. N - 1
  BY <1>5, <1>12, <1>13
<1>15. \A row, k : <<row, k>> \in NonZero(P) => row \in rows
  <2> SUFFICES ASSUME NEW row, NEW k, <<row, k>> \in NonZero(P) PROVE row \in rows
    OBVIOUS
  <2>1. PICK i \in 1 .. n : s[i] = <<row, k>>
    BY <1>9
  <2>2. s[i][1] = row
    BY <2>1
  <2>3. QED
    BY <1>12, <2>2
<1>16. Held("MAT_COO", P) = NonZero(P)
  BY HeldIs
<1>17. ASSUME NEW v \in V PROVE v.at \in rows \X side
  <2>0. ToCells(V, "MAT_COO", P, L, R) /\ Cols(R) = side
    BY <1>1, <1>3, <1>5, VisitsInside, SquaresAre
  <2>1. PICK row \in Rows(L), k \in Cols(L), col \in Cols(R) : v.at = <<row, col>> /\ <<row, k>> \in Held("MAT_COO", P)
    BY <2>0 DEF ToCells
  <2>2. row \in rows
    BY <1>15, <1>16, <2>1
  <2>3. QED
    BY <2>0, <2>1, <2>2
<1>18. PICK m : CellsFor(Grid(rows, side), V, m)
  BY <1>2, <1>5, <1>14, <1>17, GridCells
<1>19. OutputHolds(Grid(rows, side), Sums(V, Grid(rows, side)), L, R)
  BY <1>1, <1>2, <1>3, <1>18, OutputByCells
<1>20. QED
  BY <1>1, <1>4, <1>5, <1>19 DEF COO_x_CSC_COO_assemble, COO_x_CSC_COO_compute

\* A kernel that writes one entry for each cell that it reaches, by rows.
LEMMA CsrCsrOutput ==
  ASSUME NEW P, NEW L, NEW Q, NEW R, NEW N, StoredSquares(P, L, Q, R, N), NEW left, left = StoredCsr(P, L), NEW right, right = StoredCsr(Q, R)
  PROVE  /\ OutputHolds(CSR_x_CSR_CSR_assemble(left, right), CSR_x_CSR_CSR_compute(left, right), L, R)
         /\ \E S, n : RowSorted(CSR_x_CSR_CSR_assemble(left, right), S, n)
<1>1. PICK V, T : V = csr_x_csr(left, right) /\ T = Triples("MAT_CSR", P, "MAT_CSR", Q)
  OBVIOUS
<1>2. StoredOperands(P, L, Q, R) /\ N \in Nat
  BY SquaresAre
<1>3. \E p, q : Visited(V, T, p, q, L, R)
  BY <1>1, <1>2, CsrCsr
<1>4. \A v \in V : v.at \in (0 .. N - 1) \X (0 .. N - 1)
  BY <1>1, <1>3, VisitsInside
<1>5. PICK n, S, cells : n = Cardinality(CellsReached(V)) /\ S = CellsReached(V) /\ cells = ReachedByRow(V)
  OBVIOUS
<1>6. RowSorted(cells, S, n) /\ CellsFor(cells, V, n)
  BY <1>2, <1>4, <1>5, ReachedCells
<1>7. OutputHolds(cells, Sums(V, cells), L, R)
  BY <1>1, <1>2, <1>3, <1>6, OutputByCells
<1>8. QED
  BY <1>1, <1>5, <1>6, <1>7 DEF CSR_x_CSR_CSR_assemble, CSR_x_CSR_CSR_compute

\* A kernel that writes one entry for each cell that it reaches, by columns.
LEMMA CscCscOutput ==
  ASSUME NEW P, NEW L, NEW Q, NEW R, NEW N, StoredSquares(P, L, Q, R, N), NEW left, left = StoredCsc(P, L), NEW right, right = StoredCsc(Q, R)
  PROVE  /\ OutputHolds(CSC_x_CSC_CSC_assemble(left, right), CSC_x_CSC_CSC_compute(left, right), L, R)
         /\ \E S, n : ColSorted(CSC_x_CSC_CSC_assemble(left, right), S, n)
<1>1. PICK V, T : V = csc_x_csc(left, right) /\ T = Triples("MAT_CSC", P, "MAT_CSC", Q)
  OBVIOUS
<1>2. StoredOperands(P, L, Q, R) /\ N \in Nat
  BY SquaresAre
<1>3. \E p, q : Visited(V, T, p, q, L, R)
  BY <1>1, <1>2, CscCsc
<1>4. \A v \in V : v.at \in (0 .. N - 1) \X (0 .. N - 1)
  BY <1>1, <1>3, VisitsInside
<1>5. PICK n, S, cells : n = Cardinality(CellsReached(V)) /\ S = CellsReached(V) /\ cells = ReachedByCol(V)
  OBVIOUS
<1>6. ColSorted(cells, S, n) /\ CellsFor(cells, V, n)
  BY <1>2, <1>4, <1>5, ReachedCells
<1>7. OutputHolds(cells, Sums(V, cells), L, R)
  BY <1>1, <1>2, <1>3, <1>6, OutputByCells
<1>8. QED
  BY <1>1, <1>5, <1>6, <1>7 DEF CSC_x_CSC_CSC_assemble, CSC_x_CSC_CSC_compute

\* The other kernels write one entry for each product.
LEMMA EachProductOutput ==
  ASSUME NEW P, NEW L, NEW Q, NEW R, NEW N, StoredSquares(P, L, Q, R, N), NEW l, NEW r, NEW V,
         \E p, q : Visited(V, Triples(l, P, r, Q), p, q, L, R), OnePerPair(V)
  PROVE  OutputHolds(Coordinates(V), Products(V), L, R)
  BY SquaresAre, OutputByVisits

\* They hold the product.
LEMMA EachOutput ==
  ASSUME NEW P, NEW L, NEW Q, NEW R, NEW N, StoredSquares(P, L, Q, R, N)
  PROVE  /\ OutputHolds(CSR_x_CSR_COO_assemble(StoredCsr(P, L), StoredCsr(Q, R)), CSR_x_CSR_COO_compute(StoredCsr(P, L), StoredCsr(Q, R)), L, R)
         /\ OutputHolds(CSR_x_COO_COO_assemble(StoredCsr(P, L), StoredCoo(Q, R)), CSR_x_COO_COO_compute(StoredCsr(P, L), StoredCoo(Q, R)), L, R)
         /\ OutputHolds(CSC_x_CSR_COO_assemble(StoredCsc(P, L), StoredCsr(Q, R)), CSC_x_CSR_COO_compute(StoredCsc(P, L), StoredCsr(Q, R)), L, R)
         /\ OutputHolds(CSC_x_COO_COO_assemble(StoredCsc(P, L), StoredCoo(Q, R)), CSC_x_COO_COO_compute(StoredCsc(P, L), StoredCoo(Q, R)), L, R)
         /\ OutputHolds(COO_x_CSR_COO_assemble(StoredCoo(P, L), StoredCsr(Q, R)), COO_x_CSR_COO_compute(StoredCoo(P, L), StoredCsr(Q, R)), L, R)
         /\ OutputHolds(COO_x_COO_COO_assemble(StoredCoo(P, L), StoredCoo(Q, R)), COO_x_COO_COO_compute(StoredCoo(P, L), StoredCoo(Q, R)), L, R)
<1>1. StoredOperands(P, L, Q, R)
  BY SquaresAre
<1>2. OutputHolds(CSR_x_CSR_COO_assemble(StoredCsr(P, L), StoredCsr(Q, R)), CSR_x_CSR_COO_compute(StoredCsr(P, L), StoredCsr(Q, R)), L, R)
  BY <1>1, CsrCsr, EachProductOutput DEF CSR_x_CSR_COO_assemble, CSR_x_CSR_COO_compute
<1>3. OutputHolds(CSR_x_COO_COO_assemble(StoredCsr(P, L), StoredCoo(Q, R)), CSR_x_COO_COO_compute(StoredCsr(P, L), StoredCoo(Q, R)), L, R)
  BY <1>1, CsrCoo, EachProductOutput DEF CSR_x_COO_COO_assemble, CSR_x_COO_COO_compute
<1>4. OutputHolds(CSC_x_CSR_COO_assemble(StoredCsc(P, L), StoredCsr(Q, R)), CSC_x_CSR_COO_compute(StoredCsc(P, L), StoredCsr(Q, R)), L, R)
  BY <1>1, CscCsr, EachProductOutput DEF CSC_x_CSR_COO_assemble, CSC_x_CSR_COO_compute
<1>5. OutputHolds(CSC_x_COO_COO_assemble(StoredCsc(P, L), StoredCoo(Q, R)), CSC_x_COO_COO_compute(StoredCsc(P, L), StoredCoo(Q, R)), L, R)
  BY <1>1, CscCoo, EachProductOutput DEF CSC_x_COO_COO_assemble, CSC_x_COO_COO_compute
<1>6. OutputHolds(COO_x_CSR_COO_assemble(StoredCoo(P, L), StoredCsr(Q, R)), COO_x_CSR_COO_compute(StoredCoo(P, L), StoredCsr(Q, R)), L, R)
  BY <1>1, CooCsr, EachProductOutput DEF COO_x_CSR_COO_assemble, COO_x_CSR_COO_compute
<1>7. OutputHolds(COO_x_COO_COO_assemble(StoredCoo(P, L), StoredCoo(Q, R)), COO_x_COO_COO_compute(StoredCoo(P, L), StoredCoo(Q, R)), L, R)
  BY <1>1, CooCoo, EachProductOutput DEF COO_x_COO_COO_assemble, COO_x_COO_COO_compute
<1>8. QED
  BY <1>2, <1>3, <1>4, <1>5, <1>6, <1>7

\* The functions of an entry, given its operands, leave the product.
LEMMA EntryOutput ==
  ASSUME func_idx \in DOMAIN test_entries, NEW P, NEW L, NEW Q, NEW R, NEW N, StoredSquares(P, L, Q, R, N),
         NEW a, a = StoredFormat(entry[1], P, L).matrix, NEW b, b = StoredFormat(entry[2], Q, R).matrix
  PROVE  /\ OutputHolds(assemble(a, b), compute(a, b), L, R)
         /\ entry[3] = "MAT_CSR" => \E S, n : RowSorted(assemble(a, b), S, n)
         /\ entry[3] \notin {"MAT_CSR", "MAT_COO"} => \E S, n : ColSorted(assemble(a, b), S, n)
<1>1. PICK i \in 1 .. 10 : func_idx = i
  BY Kernels
<1>2. CASE i = 1
  <2>1. entry[3] = "MAT_COO" /\ a = StoredCsr(P, L) /\ b = StoredCsr(Q, R)
    BY <1>1, <1>2, StoredFormats DEF entry, test_entries
  <2>2. assemble(a, b) = CSR_x_CSR_COO_assemble(a, b) /\ compute(a, b) = CSR_x_CSR_COO_compute(a, b)
    BY <1>1, <1>2 DEF assemble, compute
  <2>3. OutputHolds(CSR_x_CSR_COO_assemble(a, b), CSR_x_CSR_COO_compute(a, b), L, R)
    BY <2>1, EachOutput
  <2>4. QED
    BY <2>1, <2>2, <2>3
<1>3. CASE i = 2
  <2>1. entry[3] = "MAT_COO" /\ a = StoredCsr(P, L) /\ b = StoredCsc(Q, R)
    BY <1>1, <1>3, StoredFormats DEF entry, test_entries
  <2>2. assemble(a, b) = CSR_x_CSC_COO_assemble(a, b) /\ compute(a, b) = CSR_x_CSC_COO_compute(a, b)
    BY <1>1, <1>3 DEF assemble, compute
  <2>3. OutputHolds(CSR_x_CSC_COO_assemble(a, b), CSR_x_CSC_COO_compute(a, b), L, R)
    BY <2>1, CsrCscOutput
  <2>4. QED
    BY <2>1, <2>2, <2>3
<1>4. CASE i = 3
  <2>1. entry[3] = "MAT_COO" /\ a = StoredCsr(P, L) /\ b = StoredCoo(Q, R)
    BY <1>1, <1>4, StoredFormats DEF entry, test_entries
  <2>2. assemble(a, b) = CSR_x_COO_COO_assemble(a, b) /\ compute(a, b) = CSR_x_COO_COO_compute(a, b)
    BY <1>1, <1>4 DEF assemble, compute
  <2>3. OutputHolds(CSR_x_COO_COO_assemble(a, b), CSR_x_COO_COO_compute(a, b), L, R)
    BY <2>1, EachOutput
  <2>4. QED
    BY <2>1, <2>2, <2>3
<1>5. CASE i = 4
  <2>1. entry[3] = "MAT_COO" /\ a = StoredCsc(P, L) /\ b = StoredCsr(Q, R)
    BY <1>1, <1>5, StoredFormats DEF entry, test_entries
  <2>2. assemble(a, b) = CSC_x_CSR_COO_assemble(a, b) /\ compute(a, b) = CSC_x_CSR_COO_compute(a, b)
    BY <1>1, <1>5 DEF assemble, compute
  <2>3. OutputHolds(CSC_x_CSR_COO_assemble(a, b), CSC_x_CSR_COO_compute(a, b), L, R)
    BY <2>1, EachOutput
  <2>4. QED
    BY <2>1, <2>2, <2>3
<1>6. CASE i = 5
  <2>1. entry[3] = "MAT_COO" /\ a = StoredCsc(P, L) /\ b = StoredCoo(Q, R)
    BY <1>1, <1>6, StoredFormats DEF entry, test_entries
  <2>2. assemble(a, b) = CSC_x_COO_COO_assemble(a, b) /\ compute(a, b) = CSC_x_COO_COO_compute(a, b)
    BY <1>1, <1>6 DEF assemble, compute
  <2>3. OutputHolds(CSC_x_COO_COO_assemble(a, b), CSC_x_COO_COO_compute(a, b), L, R)
    BY <2>1, EachOutput
  <2>4. QED
    BY <2>1, <2>2, <2>3
<1>7. CASE i = 6
  <2>1. entry[3] = "MAT_COO" /\ a = StoredCoo(P, L) /\ b = StoredCsr(Q, R)
    BY <1>1, <1>7, StoredFormats DEF entry, test_entries
  <2>2. assemble(a, b) = COO_x_CSR_COO_assemble(a, b) /\ compute(a, b) = COO_x_CSR_COO_compute(a, b)
    BY <1>1, <1>7 DEF assemble, compute
  <2>3. OutputHolds(COO_x_CSR_COO_assemble(a, b), COO_x_CSR_COO_compute(a, b), L, R)
    BY <2>1, EachOutput
  <2>4. QED
    BY <2>1, <2>2, <2>3
<1>8. CASE i = 7
  <2>1. entry[3] = "MAT_COO" /\ a = StoredCoo(P, L) /\ b = StoredCsc(Q, R)
    BY <1>1, <1>8, StoredFormats DEF entry, test_entries
  <2>2. assemble(a, b) = COO_x_CSC_COO_assemble(a, b) /\ compute(a, b) = COO_x_CSC_COO_compute(a, b)
    BY <1>1, <1>8 DEF assemble, compute
  <2>3. OutputHolds(COO_x_CSC_COO_assemble(a, b), COO_x_CSC_COO_compute(a, b), L, R)
    BY <2>1, CooCscOutput
  <2>4. QED
    BY <2>1, <2>2, <2>3
<1>9. CASE i = 8
  <2>1. entry[3] = "MAT_COO" /\ a = StoredCoo(P, L) /\ b = StoredCoo(Q, R)
    BY <1>1, <1>9, StoredFormats DEF entry, test_entries
  <2>2. assemble(a, b) = COO_x_COO_COO_assemble(a, b) /\ compute(a, b) = COO_x_COO_COO_compute(a, b)
    BY <1>1, <1>9 DEF assemble, compute
  <2>3. OutputHolds(COO_x_COO_COO_assemble(a, b), COO_x_COO_COO_compute(a, b), L, R)
    BY <2>1, EachOutput
  <2>4. QED
    BY <2>1, <2>2, <2>3
<1>10. CASE i = 9
  <2>1. entry[3] = "MAT_CSR" /\ a = StoredCsr(P, L) /\ b = StoredCsr(Q, R)
    BY <1>1, <1>10, StoredFormats DEF entry, test_entries
  <2>2. assemble(a, b) = CSR_x_CSR_CSR_assemble(a, b) /\ compute(a, b) = CSR_x_CSR_CSR_compute(a, b)
    BY <1>1, <1>10 DEF assemble, compute
  <2>3. /\ OutputHolds(CSR_x_CSR_CSR_assemble(a, b), CSR_x_CSR_CSR_compute(a, b), L, R)
        /\ \E S, n : RowSorted(CSR_x_CSR_CSR_assemble(a, b), S, n)
    BY <2>1, CsrCsrOutput
  <2>4. QED
    BY <2>1, <2>2, <2>3
<1>11. CASE i = 10
  <2>1. entry[3] = "MAT_CSC" /\ a = StoredCsc(P, L) /\ b = StoredCsc(Q, R)
    BY <1>1, <1>11, StoredFormats DEF entry, test_entries
  <2>2. assemble(a, b) = CSC_x_CSC_CSC_assemble(a, b) /\ compute(a, b) = CSC_x_CSC_CSC_compute(a, b)
    BY <1>1, <1>11 DEF assemble, compute
  <2>3. /\ OutputHolds(CSC_x_CSC_CSC_assemble(a, b), CSC_x_CSC_CSC_compute(a, b), L, R)
        /\ \E S, n : ColSorted(CSC_x_CSC_CSC_assemble(a, b), S, n)
    BY <2>1, CscCscOutput
  <2>4. QED
    BY <2>1, <2>2, <2>3
<1>12. QED
  BY <1>2, <1>3, <1>4, <1>5, <1>6, <1>7, <1>8, <1>9, <1>10, <1>11

-----------------------------------------------------------------------------
\* Values that fit into the page of the fake buffer are found there again.
LEMMA AliasedIs ==
  ASSUME NEW values, NEW n \in Nat, DOMAIN values = 1 .. n
  PROVE  DOMAIN Aliased(values) = 1 .. n /\ (n <= FakeWords => \A p \in 1 .. n : Aliased(values)[p] = values[p])
<1>1. PICK F : F = FakeWords
  OBVIOUS
<1>2. F \in Nat \ {0}
  BY <1>1, FakeWordsAssumption
<1>3. Aliased(values) = [p \in 1 .. n |-> values[Max({q \in 1 .. n : q % F = p % F})]]
  BY <1>1 DEF Aliased
<1>4. ASSUME n <= F, NEW p \in 1 .. n PROVE {q \in 1 .. n : q % F = p % F} = {p}
  <2>1. ASSUME NEW q \in 1 .. n PROVE q % F = IF q = F THEN 0 ELSE q
    <3>1. PICK m, r : m = q \div F /\ r = q % F
      OBVIOUS
    <3>2. m \in Nat /\ r \in 0 .. F - 1 /\ q = (F * m) + r
      <4>1. q \in Nat
        OBVIOUS
      <4>2. QED
        BY <1>2, <3>1, <4>1, DivMod
    <3>3. m = 0 \/ m = 1 \/ m >= 2
      BY <3>2
    <3>4. CASE m = 0
      BY <1>2, <1>4, <3>1, <3>2, <3>4
    <3>5. CASE m = 1
      BY <1>2, <1>4, <3>1, <3>2, <3>5
    <3>6. CASE m >= 2
      <4>1. F * m >= F * 2
        BY <1>2, <3>2, <3>6
      <4>2. QED
        BY <1>2, <1>4, <3>2, <4>1
    <3>7. QED
      BY <3>3, <3>4, <3>5, <3>6
  <2>2. ASSUME NEW q \in 1 .. n, q % F = p % F PROVE q = p
    <3>1. PICK x, y : x = q % F /\ y = p % F
      OBVIOUS
    <3>2. x = (IF q = F THEN 0 ELSE q) /\ y = (IF p = F THEN 0 ELSE p) /\ x = y
      BY <2>1, <2>2, <3>1
    <3>3. q >= 1 /\ p >= 1 /\ q \in Nat /\ p \in Nat
      OBVIOUS
    <3>4. QED
      BY <3>2, <3>3
  <2>3. QED
    BY <2>2
<1>5. ASSUME n <= F, NEW p \in 1 .. n PROVE Aliased(values)[p] = values[p]
  <2>1. Aliased(values)[p] = values[Max({q \in 1 .. n : q % F = p % F})]
    BY <1>3
  <2>2. {q \in 1 .. n : q % F = p % F} = {p}
    BY <1>4, <1>5
  <2>3. Max({p}) = p
    BY MaxOfOne
  <2>4. QED
    BY <2>1, <2>2, <2>3
<1>6. DOMAIN Aliased(values) = 1 .. n
  BY <1>3
<1>7. QED
  BY <1>1, <1>5, <1>6

\* A sum of products of what two tensors have at their cells.
FactorsAt(K, u, w, cell) == [k \in K |-> ValueAt(u, <<cell[1], k>>) * ValueAt(w, <<k, cell[2]>>)]

TotalFactors(K, u, w, cell) == Total(K, LAMBDA k : ValueAt(u, <<cell[1], k>>) * ValueAt(w, <<k, cell[2]>>))

LEMMA TotalOfFactors ==
  ASSUME NEW K, NEW u, NEW w, NEW cell
  PROVE  TotalFactors(K, u, w, cell) = SumOf(FactorsAt(K, u, w, cell), K)
<1> DEFINE f == FactorsAt(K, u, w, cell)
           Read(iter) == iter = [s \in SUBSET K |-> IF s = {} THEN 0 ELSE LET x == CHOOSE x \in s : TRUE
                                       IN  ValueAt(u, <<cell[1], x>>) * ValueAt(w, <<x, cell[2]>>) + iter[s \ {x}]]
           Summed(iter) == iter = [s \in SUBSET K |-> IF s = {} THEN 0 ELSE LET x == CHOOSE x \in s : TRUE
                                                                      IN  f[x] + iter[s \ {x}]]
<1>1. \A s \in SUBSET K : s # {} => (CHOOSE x \in s : TRUE) \in K
  OBVIOUS
<1>0. \A k \in K : f[k] = ValueAt(u, <<cell[1], k>>) * ValueAt(w, <<k, cell[2]>>)
  BY DEF FactorsAt
<1> HIDE DEF f
<1>2. \A iter : Read(iter) <=> Summed(iter)
  BY <1>0, <1>1
<1>3. (CHOOSE iter : Read(iter)) = (CHOOSE iter : Summed(iter))
  BY <1>2, Zenon
<1>4. TotalFactors(K, u, w, cell) = (CHOOSE iter : Read(iter))[K]
  BY Zenon DEF TotalFactors, Total, MapThenSumSet, MapThenFoldSet
<1>5. SumOf(f, K) = (CHOOSE iter : Summed(iter))[K]
  BY Zenon DEF SumOf
<1>6. QED
  BY <1>3, <1>4, <1>5, Zenon DEF f

\* The product of two tensors is that of the matrices they stand for.
LEMMA TensorProduct ==
  ASSUME NEW P, NEW L, NEW Q, NEW R, NEW N, StoredSquares(P, L, Q, R, N), NEW u, NEW w, Represents(u, L), Represents(w, R),
         NEW cell \in Rows(L) \X Cols(R)
  PROVE  TotalFactors(Cols(L), u, w, cell) = Product(L, R)[cell]
<1>1. PICK f : f = FactorsAt(Cols(L), u, w, cell)
  OBVIOUS
<1>2. Operands(L, R) /\ cell[1] \in Rows(L) /\ cell[2] \in Cols(R)
  BY SquaresAre
<1>3. ASSUME NEW k \in Cols(L) PROVE f[k] = L.values[<<cell[1], k>>] * R.values[<<k, cell[2]>>]
  <2>1. <<cell[1], k>> \in Cells(L) /\ <<k, cell[2]>> \in Cells(R)
    BY <1>2, OperandCells
  <2>2. ValueAt(u, <<cell[1], k>>) = L.values[<<cell[1], k>>] /\ ValueAt(w, <<k, cell[2]>>) = R.values[<<k, cell[2]>>]
    BY <2>1 DEF Represents
  <2>3. QED
    BY <1>1, <2>2 DEF FactorsAt
<1>4. Product(L, R)[cell] = SumOf(f, Cols(L))
  BY <1>3, ProductOfCell
<1>5. QED
  BY <1>1, <1>4, TotalOfFactors

\* What a reader finds does not depend on what is behind the numbers of the cells.
LEMMA FilledSame ==
  ASSUME NEW cells, NEW n, DOMAIN cells = 1 .. n, NEW values, NEW others, \A p \in 1 .. n : others[p] = values[p], NEW cell
  PROVE  FilledAt(cells, others, cell) = FilledAt(cells, values, cell)
<1>1. Filled(cells, others) = Filled(cells, values)
  BY DEF Filled
<1>2. QED
  BY <1>1 DEF FilledAt

\* The length of a sequence of so many elements.
LEMMA LengthIs == ASSUME NEW n \in Nat, NEW s, DOMAIN s = 1 .. n PROVE Len(s) = n
  OBVIOUS

\* An ascending sequence ascends from each element to the next.
LEMMA SortedSteps ==
  ASSUME NEW s, NEW S, NEW n
  PROVE  /\ RowSorted(s, S, n) => \A p \in 2 .. n : RowsFirst(s[p - 1], s[p])
         /\ ColSorted(s, S, n) => \A p \in 2 .. n : ColsFirst(s[p - 1], s[p])
<1>1. ASSUME RowSorted(s, S, n), NEW p \in 2 .. n PROVE RowsFirst(s[p - 1], s[p])
  <2>1. n \in Nat /\ \A i, j \in 1 .. n : RowsFirst(s[i], s[j]) <=> i < j
    BY <1>1 DEF RowSorted
  <2>2. PICK o : o = p - 1
    OBVIOUS
  <2>3. o \in 1 .. n /\ p \in 1 .. n /\ o < p
    BY <1>1, <2>1, <2>2
  <2>4. RowsFirst(s[o], s[p])
    BY <2>1, <2>3
  <2>5. QED
    BY <2>2, <2>4
<1>2. ASSUME ColSorted(s, S, n), NEW p \in 2 .. n PROVE ColsFirst(s[p - 1], s[p])
  <2>1. n \in Nat /\ \A i, j \in 1 .. n : ColsFirst(s[i], s[j]) <=> i < j
    BY <1>2 DEF ColSorted
  <2>2. PICK o : o = p - 1
    OBVIOUS
  <2>3. o \in 1 .. n /\ p \in 1 .. n /\ o < p
    BY <1>2, <2>1, <2>2
  <2>4. ColsFirst(s[o], s[p])
    BY <2>1, <2>3
  <2>5. QED
    BY <2>2, <2>4
<1>3. QED
  BY <1>1, <1>2

\* What compute leaves is the product of the operands.
LEMMA ProductHolds ==
  ASSUME TensorsInv, EdgesBetweenNodes, phase = "computed" PROVE OutputIsProduct
<1>1. func_idx \in DOMAIN test_entries
  BY DEF TensorsInv, Running
<1>2. PICK coo, N : coo = kron_coo.list /\ N = Dimension(kron_coo.k)
  OBVIOUS
<1>3. PICK m : SortedList(coo, m, N)
  <2>1. PICK f \in Files : f.read = "whole" /\ kron_coo = Parsed(f)
    BY DEF TensorsInv
  <2>2. SortedList(Parsed(f).list, f.nnz, Dimension(f.k)) /\ Parsed(f).k = f.k
    BY <2>1, GraphList
  <2>3. QED
    BY <1>2, <2>1, <2>2
<1>4. PICK g, stored : g = Graph(coo, N) /\ stored = Occupied(coo, N)
  OBVIOUS
<1>5. PICK l, r : l = entry[1] /\ r = entry[2]
  OBVIOUS
<1>6. PICK P, L, Q, R : P = OperandOf(l, stored) /\ L = OperandOf(l, g) /\ Q = OperandOf(r, stored) /\ R = OperandOf(r, g)
  OBVIOUS
<1>7. l \in Sparse /\ r \in Sparse /\ A.matrix = PackOf(l, coo, N) /\ B.matrix = PackOf(r, coo, N)
  <2>1. A.matrix = pack_a(coo, N) /\ B.matrix = pack_b(coo, N)
    BY <1>2 DEF TensorsInv, Running
  <2>2. QED
    BY <1>1, <1>5, <2>1, PackFunctions
<1>8. PICK u, w : u = Tensor(l, A) /\ w = Tensor(r, B)
  OBVIOUS
<1>9. Stores(P, L) /\ u = StoredFormat(l, P, L) /\ L.row_count = N /\ L.col_count = N
  BY <1>3, <1>4, <1>6, <1>7, <1>8, TensorIs
<1>10. Stores(Q, R) /\ w = StoredFormat(r, Q, R) /\ R.row_count = N /\ R.col_count = N
  BY <1>3, <1>4, <1>6, <1>7, <1>8, TensorIs
<1>11. N \in Nat /\ StoredSquares(P, L, Q, R, N)
  <2>1. N \in Nat
    BY <1>3 DEF SortedList
  <2>2. QED
    BY <1>9, <1>10, <2>1 DEF StoredSquares
<1>12. Represents(u, L) /\ Represents(w, R)
  BY <1>7, <1>9, <1>10, StoredRepresents DEF Sparse
<1>13. PICK a, b : a = A.matrix /\ b = B.matrix
  OBVIOUS
<1>14. a = StoredFormat(entry[1], P, L).matrix /\ b = StoredFormat(entry[2], Q, R).matrix
  BY <1>5, <1>8, <1>9, <1>10, <1>13 DEF Tensor
<1>15. PICK cells, values : cells = assemble(a, b) /\ values = compute(a, b)
  OBVIOUS
<1>16. /\ OutputHolds(cells, values, L, R)
       /\ entry[3] = "MAT_CSR" => \E S, n : RowSorted(cells, S, n)
       /\ entry[3] \notin {"MAT_CSR", "MAT_COO"} => \E S, n : ColSorted(cells, S, n)
  BY <1>1, <1>11, <1>14, <1>15, EntryOutput
<1>17. PICK n : CellsWithValues(cells, values, n) /\ DOMAIN values = 1 .. n
  BY <1>16 DEF OutputHolds
<1>18. n \in Nat /\ DOMAIN cells = 1 .. n
  BY <1>17 DEF CellsWithValues
<1>19. C.matrix = cells /\ vals = IF Fake THEN Aliased(values) ELSE values
  BY <1>13, <1>15 DEF TensorsInv
<1>20. DOMAIN vals = 1 .. n /\ (Fake => n <= FakeWords) => \A p \in 1 .. n : vals[p] = values[p]
  BY <1>17, <1>18, <1>19, AliasedIs
<1>21. DOMAIN vals = 1 .. n
  BY <1>17, <1>18, <1>19, AliasedIs
<1>22. Len(vals) = n /\ Len(C.matrix) = n
  BY <1>18, <1>19, <1>21, LengthIs
<1>23. Cols(Square) = Cols(L) /\ Cells(Square) = Rows(L) \X Cols(R)
  <2>1. Rows(Square) = 0 .. N - 1 /\ Cols(Square) = 0 .. N - 1
    BY <1>2 DEF Square, Rows, Cols
  <2>2. QED
    BY <1>11, <2>1, SquaresAre DEF Cells
<1>24. ASSUME Readable, NEW cell \in Cells(Square)
       PROVE  ValueAt([format |-> "MAT_COO", matrix |-> Filled(C.matrix, vals)], cell) =
              Total(Cols(Square), LAMBDA k : ValueAt(Tensor(entry[1], A), <<cell[1], k>>)
                                           * ValueAt(Tensor(entry[2], B), <<k, cell[2]>>))
  <2>1. \A p \in 1 .. n : vals[p] = values[p]
    BY <1>19, <1>20, <1>21, <1>22, <1>24 DEF Readable
  <2>2. FilledAt(cells, vals, cell) = FilledAt(cells, values, cell)
    BY <1>18, <2>1, FilledSame
  <2>3. FilledAt(cells, values, cell) = Product(L, R)[cell]
    BY <1>16, <1>23, <1>24 DEF OutputHolds
  <2>4. TotalFactors(Cols(Square), Tensor(entry[1], A), Tensor(entry[2], B), cell) = Product(L, R)[cell]
    BY <1>5, <1>8, <1>11, <1>12, <1>23, <1>24, TensorProduct
  <2>5. TotalFactors(Cols(Square), Tensor(entry[1], A), Tensor(entry[2], B), cell) =
        Total(Cols(Square), LAMBDA k : ValueAt(Tensor(entry[1], A), <<cell[1], k>>)
                                     * ValueAt(Tensor(entry[2], B), <<k, cell[2]>>))
    BY DEF TotalFactors
  <2>6. FilledAt(cells, vals, cell) = ValueAt([format |-> "MAT_COO", matrix |-> Filled(C.matrix, vals)], cell)
    BY <1>19 DEF FilledAt
  <2>7. QED
    BY <2>2, <2>3, <2>4, <2>5, <2>6, Zenon
<1>25. ASSUME entry[3] # "MAT_COO", NEW p \in 2 .. Len(C.matrix)
       PROVE  IF entry[3] = "MAT_CSR" THEN RowsFirst(C.matrix[p - 1], C.matrix[p]) ELSE ColsFirst(C.matrix[p - 1], C.matrix[p])
  <2>1. CASE entry[3] = "MAT_CSR"
    <3>1. PICK S, j : RowSorted(cells, S, j)
      BY <1>16, <2>1
    <3>2. j = n
      BY <1>18, <3>1, LengthIs DEF RowSorted
    <3>3. RowsFirst(cells[p - 1], cells[p])
      BY <1>22, <1>25, <3>1, <3>2, SortedSteps
    <3>4. QED
      BY <1>19, <2>1, <3>3
  <2>2. CASE entry[3] # "MAT_CSR"
    <3>1. PICK S, j : ColSorted(cells, S, j)
      BY <1>16, <1>25, <2>2
    <3>2. j = n
      BY <1>18, <3>1, LengthIs DEF ColSorted
    <3>3. ColsFirst(cells[p - 1], cells[p])
      BY <1>22, <1>25, <3>1, <3>2, SortedSteps
    <3>4. QED
      BY <1>19, <2>2, <3>3
  <2>3. QED
    BY <2>1, <2>2
<1>26. QED
  BY <1>22, <1>24, <1>25 DEF OutputIsProduct

\* What the ten kernels assemble and compute is the product of their operands, for every graph;
\* with the fake buffer, as long as its values fit into the page it repeats.
THEOREM TacoBenchOutputIsProduct ==
  ASSUME NothingIsNotWanted, EdgesBetweenNodes PROVE Spec => []OutputIsProduct
<1>1. TensorsInv => OutputIsProduct
  BY ProductHolds DEF OutputIsProduct
<1>2. QED
  BY <1>1, InitTensors, NextTensors, PTL DEF Spec

-----------------------------------------------------------------------------
(* The log and the heap.                                                   *)

\* What log_taco_memory_usage forgets, and what it then adds.
Forgotten(l, previous) ==
  LET mine == {slot \in 1 .. Slots : previous # 0 /\ l.allocs[slot].pointer = previous}
  IN  IF mine = {} THEN l
      ELSE [memory_usage |-> l.memory_usage - l.allocs[Min(mine)].request,
            allocs |-> [l.allocs EXCEPT ![Min(mine)] = NoAlloc]]

Added(l, request, pointer) ==
  LET empty == {slot \in 1 .. Slots : l.allocs[slot] = NoAlloc}
  IN  IF request = 0 \/ empty = {} THEN l
      ELSE [memory_usage |-> l.memory_usage + request,
            allocs |-> [l.allocs EXCEPT ![Min(empty)] = [pointer |-> pointer, request |-> request]]]

\* The log first forgets the previous place, then adds the new one.
LEMMA LogIs ==
  ASSUME NEW l, NEW request, NEW pointer, NEW previous
  PROVE  log_taco_memory_usage(l, request, pointer, previous) = Added(Forgotten(l, previous), request, pointer)
BY DEF log_taco_memory_usage, Added, Forgotten

\* A finite heap of places with their bytes.
IsHeap(h) ==
  /\ h = [p \in DOMAIN h |-> h[p]]
  /\ \A p \in DOMAIN h : p \in Nat \ {0} /\ h[p] \in Nat
  /\ IsFiniteSet(DOMAIN h)

\* The log has the heap, and its usage is that of the heap and what there was before.
Logs(l, h, usage) == IsLog(l) /\ Recorded(l, h) /\ usage \in Int /\ l.memory_usage - usage = SumOf(h, DOMAIN h)

\* A slot with an array is not an empty one.
LEMMA NoAllocIs ==
  ASSUME NEW p \in Nat \ {0}, NEW n
  PROVE  [pointer |-> p, request |-> n] # NoAlloc /\ NoAlloc.pointer = 0 /\ NoAlloc.request = 0
BY DEF NoAlloc

\* The sum of the same numbers.
LEMMA SumSame ==
  ASSUME NEW S, NEW f, Summable(f, S), NEW g, \A x \in S : g[x] = f[x]
  PROVE  Summable(g, S) /\ SumOf(g, S) = SumOf(f, S)
<1>1. Summable(g, S)
  BY DEF Summable
<1>2. PICK m : m = [x \in S |-> x]
  OBVIOUS
<1>3. Matches(m, g, S, f, S)
  BY <1>2 DEF Matches
<1>4. QED
  BY <1>1, <1>3, SumMatched

\* An array that is given back leaves the heap and the log.
LEMMA ForgottenIs ==
  ASSUME NEW l, NEW h, IsHeap(h), NEW usage, Logs(l, h, usage), NEW p \in DOMAIN h, Slots \in Nat
  PROVE  IsHeap(Without(h, {p})) /\ Logs(Forgotten(l, p), Without(h, {p}), usage)
         /\ DOMAIN Without(h, {p}) = DOMAIN h \ {p}
<1>1. PICK g : g = Without(h, {p})
  OBVIOUS
<1>2. DOMAIN g = DOMAIN h \ {p} /\ g = [q \in DOMAIN g |-> h[q]] /\ \A q \in DOMAIN g : g[q] = h[q] /\ q \in DOMAIN h /\ q # p
  BY <1>1 DEF Without
<1>3. IsFiniteSet(DOMAIN g)
  BY <1>2, FS_RemoveElement DEF IsHeap
<1>4. IsHeap(g)
  <2>1. g = [q \in DOMAIN g |-> g[q]]
    BY <1>2
  <2>2. QED
    BY <1>2, <1>3, <2>1 DEF IsHeap
<1>5. SumOf(h, DOMAIN h) = h[p] + SumOf(g, DOMAIN g)
  <2>1. Summable(h, DOMAIN h) /\ Summable(g, DOMAIN g)
    BY <1>4 DEF IsHeap, Summable
  <2>2. SumOf(h, DOMAIN h) = h[p] + SumOf(h, DOMAIN g)
    BY <1>2, <2>1, SumRemove
  <2>3. SumOf(h, DOMAIN g) = SumOf(g, DOMAIN g)
    <3>1. \A x \in DOMAIN g : h[x] = g[x]
      BY <1>2
    <3>2. QED
      BY <2>1, <3>1, SumSame
  <2>4. QED
    BY <2>2, <2>3
<1>6. p \in Nat /\ p # 0 /\ h[p] \in Nat
  BY DEF IsHeap
<1>7. PICK mine : mine = {slot \in 1 .. Slots : l.allocs[slot].pointer = p}
  OBVIOUS
<1>8. SumOf(h, DOMAIN h) \in Int /\ SumOf(g, DOMAIN g) \in Int
  <2>1. Summable(h, DOMAIN h) /\ Summable(g, DOMAIN g)
    BY <1>4 DEF IsHeap, Summable
  <2>2. QED
    BY <2>1, SumStep
<1>9. CASE mine = {}
  <2>1. Forgotten(l, p) = l
    BY <1>6, <1>7, <1>9 DEF Forgotten
  <2>2. h[p] = 0
    <3> SUFFICES ASSUME h[p] > 0 PROVE FALSE
      BY <1>6
    <3>1. PICK slot \in 1 .. Slots : l.allocs[slot] = [pointer |-> p, request |-> h[p]]
      BY DEF Logs, Recorded
    <3>2. QED
      BY <1>7, <1>9, <3>1
  <2>3. Recorded(l, g)
    <3>1. ASSUME NEW slot \in 1 .. Slots, l.allocs[slot] # NoAlloc
          PROVE  \E q \in DOMAIN g : g[q] > 0 /\ l.allocs[slot] = [pointer |-> q, request |-> g[q]]
      <4>1. PICK q \in DOMAIN h : h[q] > 0 /\ l.allocs[slot] = [pointer |-> q, request |-> h[q]]
        BY <3>1 DEF Logs, Recorded
      <4>2. q # p
        BY <2>2, <4>1
      <4>3. QED
        BY <1>2, <4>1, <4>2
    <3>2. \A q \in DOMAIN g : g[q] > 0 => \E slot \in 1 .. Slots : l.allocs[slot] = [pointer |-> q, request |-> g[q]]
      BY <1>2 DEF Logs, Recorded
    <3>3. QED
      BY <3>1, <3>2 DEF Logs, Recorded
  <2>4. QED
    BY <1>1, <1>2, <1>4, <1>5, <1>8, <2>1, <2>2, <2>3 DEF Logs
<1>10. CASE mine # {}
  <2>1. PICK m : m = Min(mine)
    OBVIOUS
  <2>2. m \in mine
    <3>1. mine \subseteq Nat
      BY <1>7
    <3>2. QED
      BY <1>10, <2>1, <3>1, MinOfSet
  <2>3. m \in 1 .. Slots /\ l.allocs[m].pointer = p
    BY <1>7, <2>2
  <2>4. l.allocs[m] # NoAlloc
    BY <1>6, <2>3 DEF NoAlloc
  <2>5. PICK q \in DOMAIN h : h[q] > 0 /\ l.allocs[m] = [pointer |-> q, request |-> h[q]]
    BY <2>3, <2>4 DEF Logs, Recorded
  <2>6. l.allocs[m] = [pointer |-> p, request |-> h[p]] /\ l.allocs[m].request = h[p]
    BY <2>3, <2>5
  <2>7. PICK k : k = Forgotten(l, p)
    OBVIOUS
  <2>8. k = [memory_usage |-> l.memory_usage - h[p], allocs |-> [l.allocs EXCEPT ![m] = NoAlloc]]
    <3>1. k = [memory_usage |-> l.memory_usage - l.allocs[m].request, allocs |-> [l.allocs EXCEPT ![m] = NoAlloc]]
      BY <1>6, <1>7, <1>10, <2>1, <2>7 DEF Forgotten
    <3>2. QED
      BY <2>6, <3>1
  <2>9. k.allocs = [slot \in 1 .. Slots |-> IF slot = m THEN NoAlloc ELSE l.allocs[slot]]
        /\ k.memory_usage = l.memory_usage - h[p] /\ k = [memory_usage |-> k.memory_usage, allocs |-> k.allocs]
    BY <2>3, <2>8 DEF Logs, IsLog
  <2>10. ASSUME NEW slot \in 1 .. Slots PROVE k.allocs[slot] = IF slot = m THEN NoAlloc ELSE l.allocs[slot]
    BY <2>9
  <2>11. IsLog(k)
    <3>1. k.allocs = [slot \in 1 .. Slots |-> k.allocs[slot]]
      BY <2>9
    <3>2. k.memory_usage \in Int
      BY <1>6, <2>9 DEF Logs, IsLog
    <3>3. QED
      BY <2>9, <3>1, <3>2 DEF IsLog
  <2>12. Recorded(k, g)
    <3>1. ASSUME NEW slot \in 1 .. Slots, k.allocs[slot] # NoAlloc
          PROVE  \E r \in DOMAIN g : g[r] > 0 /\ k.allocs[slot] = [pointer |-> r, request |-> g[r]]
      <4>1. slot # m /\ k.allocs[slot] = l.allocs[slot]
        BY <2>10, <3>1
      <4>2. PICK r \in DOMAIN h : h[r] > 0 /\ l.allocs[slot] = [pointer |-> r, request |-> h[r]]
        BY <3>1, <4>1 DEF Logs, Recorded
      <4>3. r # p
        <5>1. r = p => l.allocs[slot] = l.allocs[m]
          BY <2>6, <4>2
        <5>2. QED
          BY <2>3, <2>4, <4>1, <5>1 DEF Logs, Recorded
      <4>4. QED
        BY <1>2, <4>1, <4>2, <4>3
    <3>2. ASSUME NEW r \in DOMAIN g, g[r] > 0
          PROVE  \E slot \in 1 .. Slots : k.allocs[slot] = [pointer |-> r, request |-> g[r]]
      <4>1. r \in DOMAIN h /\ r # p /\ h[r] = g[r]
        BY <1>2
      <4>2. PICK slot \in 1 .. Slots : l.allocs[slot] = [pointer |-> r, request |-> g[r]]
        BY <3>2, <4>1 DEF Logs, Recorded
      <4>3. slot # m
        BY <2>3, <4>1, <4>2
      <4>4. QED
        BY <2>10, <4>2, <4>3
    <3>3. ASSUME NEW s \in 1 .. Slots, NEW t \in 1 .. Slots, k.allocs[s] = k.allocs[t] PROVE s = t \/ k.allocs[s] = NoAlloc
      BY <2>10, <3>3 DEF Logs, Recorded
    <3>4. QED
      BY <3>1, <3>2, <3>3 DEF Recorded
  <2>13. k.memory_usage - usage = SumOf(g, DOMAIN g)
    <3>1. PICK x, y, z : x = SumOf(h, DOMAIN h) /\ y = SumOf(g, DOMAIN g) /\ z = l.memory_usage
      OBVIOUS
    <3>2. x = h[p] + y /\ z - usage = x /\ k.memory_usage = z - h[p] /\ x \in Int /\ y \in Int /\ z \in Int /\ usage \in Int
      BY <1>5, <1>8, <2>9, <3>1 DEF Logs, IsLog
    <3>3. (z - h[p]) - usage = y
      BY <1>6, <3>2
    <3>4. QED
      BY <3>1, <3>2, <3>3
  <2>14. QED
    BY <1>1, <1>2, <1>4, <2>7, <2>11, <2>12, <2>13 DEF Logs
<1>11. QED
  BY <1>9, <1>10

\* There is a slot that is free while the heap is smaller than the log.
LEMMA FreeSlot ==
  ASSUME NEW l, NEW h, IsHeap(h), Recorded(l, h), Slots \in Nat, Cardinality(DOMAIN h) < Slots
  PROVE  \E slot \in 1 .. Slots : l.allocs[slot] = NoAlloc
<1> SUFFICES ASSUME \A slot \in 1 .. Slots : l.allocs[slot] # NoAlloc PROVE FALSE
  OBVIOUS
<1>1. PICK place : place = [slot \in 1 .. Slots |-> l.allocs[slot].pointer]
  OBVIOUS
<1>2. ASSUME NEW slot \in 1 .. Slots
      PROVE  place[slot] \in DOMAIN h /\ l.allocs[slot] = [pointer |-> place[slot], request |-> h[place[slot]]]
  <2>1. PICK p \in DOMAIN h : l.allocs[slot] = [pointer |-> p, request |-> h[p]]
    BY DEF Recorded
  <2>2. place[slot] = p
    BY <1>1, <2>1
  <2>3. QED
    BY <2>1, <2>2
<1>3. \A s, t \in 1 .. Slots : place[s] = place[t] => s = t
  <2> SUFFICES ASSUME NEW s \in 1 .. Slots, NEW t \in 1 .. Slots, place[s] = place[t] PROVE s = t
    OBVIOUS
  <2>1. l.allocs[s] = l.allocs[t]
    BY <1>2
  <2>2. QED
    BY <2>1 DEF Recorded
<1>4. PICK T : T = {place[slot] : slot \in 1 .. Slots}
  OBVIOUS
<1>5. IsFiniteSet(1 .. Slots) /\ Cardinality(1 .. Slots) = Slots
  <2>1. 1 \in Int /\ Slots \in Int
    OBVIOUS
  <2>2. IsFiniteSet(1 .. Slots) /\ Cardinality(1 .. Slots) = IF 1 > Slots THEN 0 ELSE Slots - 1 + 1
    BY <2>1, FS_Interval
  <2>3. QED
    BY <2>2
<1>6. IsFiniteSet(T) /\ Cardinality(T) = Slots
  <2>1. place \in [1 .. Slots -> T] /\ (\A y \in T : \E x \in 1 .. Slots : place[x] = y)
        /\ \A x, y \in 1 .. Slots : place[x] = place[y] => x = y
    BY <1>1, <1>3, <1>4
  <2>2. QED
    BY <1>5, <2>1, SameSize
<1>7. T \subseteq DOMAIN h /\ IsFiniteSet(DOMAIN h)
  BY <1>2, <1>4 DEF IsHeap
<1>8. Cardinality(T) <= Cardinality(DOMAIN h) /\ Cardinality(DOMAIN h) \in Nat
  BY <1>7, FS_Subset, FS_CardinalityType
<1>9. QED
  BY <1>6, <1>8

\* An array that is allocated comes to the heap and to the log.
LEMMA AllocatedIs ==
  ASSUME NEW l, NEW h, IsHeap(h), NEW usage, Logs(l, h, usage), NEW p \in Nat \ {0}, p \notin DOMAIN h, NEW n \in Nat,
         Slots \in Nat, Cardinality(DOMAIN h) < Slots
  PROVE  IsHeap(With(h, p, n)) /\ Logs(Added(l, n, p), With(h, p, n), usage) /\ DOMAIN With(h, p, n) = DOMAIN h \cup {p}
<1>1. PICK g : g = With(h, p, n)
  OBVIOUS
<1>2. DOMAIN g = DOMAIN h \cup {p} /\ g[p] = n /\ \A q \in DOMAIN h : g[q] = h[q] /\ q # p
  BY <1>1 DEF With
<1>3. IsFiniteSet(DOMAIN g)
  BY <1>2, FS_AddElement DEF IsHeap
<1>4. IsHeap(g)
  <2>1. g = [q \in DOMAIN g |-> g[q]]
    BY <1>1 DEF With
  <2>2. QED
    BY <1>2, <1>3, <2>1 DEF IsHeap
<1>5. SumOf(g, DOMAIN g) = n + SumOf(h, DOMAIN h) /\ SumOf(h, DOMAIN h) \in Int /\ SumOf(g, DOMAIN g) \in Int
  <2>1. Summable(h, DOMAIN h) /\ Summable(g, DOMAIN g)
    BY <1>4 DEF IsHeap, Summable
  <2>2. DOMAIN g \ {p} = DOMAIN h /\ p \in DOMAIN g
    BY <1>2
  <2>3. SumOf(g, DOMAIN g) = g[p] + SumOf(g, DOMAIN h)
    BY <2>1, <2>2, SumRemove
  <2>4. SumOf(g, DOMAIN h) = SumOf(h, DOMAIN h)
    BY <1>2, <2>1, SumSame
  <2>5. QED
    BY <1>2, <2>1, <2>3, <2>4, SumStep
<1>6. CASE n = 0
  <2>1. Added(l, n, p) = l
    BY <1>6 DEF Added
  <2>2. Recorded(l, g)
    <3>1. ASSUME NEW slot \in 1 .. Slots, l.allocs[slot] # NoAlloc
          PROVE  \E q \in DOMAIN g : g[q] > 0 /\ l.allocs[slot] = [pointer |-> q, request |-> g[q]]
      <4>1. PICK q \in DOMAIN h : h[q] > 0 /\ l.allocs[slot] = [pointer |-> q, request |-> h[q]]
        BY <3>1 DEF Logs, Recorded
      <4>2. QED
        BY <1>2, <4>1
    <3>2. ASSUME NEW q \in DOMAIN g, g[q] > 0
          PROVE  \E slot \in 1 .. Slots : l.allocs[slot] = [pointer |-> q, request |-> g[q]]
      <4>1. q \in DOMAIN h /\ h[q] = g[q]
        BY <1>2, <1>6, <3>2
      <4>2. QED
        BY <3>2, <4>1 DEF Logs, Recorded
    <3>3. QED
      BY <3>1, <3>2 DEF Logs, Recorded
  <2>3. QED
    BY <1>1, <1>2, <1>4, <1>5, <1>6, <2>1, <2>2 DEF Logs
<1>7. CASE n # 0
  <2>1. PICK empty : empty = {slot \in 1 .. Slots : l.allocs[slot] = NoAlloc}
    OBVIOUS
  <2>2. empty # {} /\ empty \subseteq Nat
    BY <2>1, FreeSlot DEF Logs
  <2>3. PICK m : m = Min(empty)
    OBVIOUS
  <2>4. m \in empty
    BY <2>2, <2>3, MinOfSet
  <2>5. m \in 1 .. Slots /\ l.allocs[m] = NoAlloc
    BY <2>1, <2>4
  <2>6. PICK k : k = Added(l, n, p)
    OBVIOUS
  <2>7. PICK new : new = [pointer |-> p, request |-> n]
    OBVIOUS
  <2>8. k = [memory_usage |-> l.memory_usage + n, allocs |-> [l.allocs EXCEPT ![m] = new]]
    BY <1>7, <2>1, <2>2, <2>3, <2>6, <2>7 DEF Added
  <2>9. k.allocs = [slot \in 1 .. Slots |-> IF slot = m THEN new ELSE l.allocs[slot]]
        /\ k.memory_usage = l.memory_usage + n /\ k = [memory_usage |-> k.memory_usage, allocs |-> k.allocs]
    BY <2>5, <2>8 DEF Logs, IsLog
  <2>10. ASSUME NEW slot \in 1 .. Slots PROVE k.allocs[slot] = IF slot = m THEN new ELSE l.allocs[slot]
    BY <2>9
  <2>11. IsLog(k)
    <3>1. k.allocs = [slot \in 1 .. Slots |-> k.allocs[slot]]
      BY <2>9
    <3>2. k.memory_usage \in Int
      BY <2>9 DEF Logs, IsLog
    <3>3. QED
      BY <2>9, <3>1, <3>2 DEF IsLog
  <2>12. ASSUME NEW slot \in 1 .. Slots PROVE l.allocs[slot] # new
    <3> SUFFICES ASSUME l.allocs[slot] = new PROVE FALSE
      OBVIOUS
    <3>1. new # NoAlloc
      BY <2>7, NoAllocIs
    <3>2. PICK q \in DOMAIN h : l.allocs[slot] = [pointer |-> q, request |-> h[q]]
      BY <3>1 DEF Logs, Recorded
    <3>3. l.allocs[slot].pointer = q /\ new.pointer = p
      BY <2>7, <3>2
    <3>4. QED
      BY <3>3
  <2>13. Recorded(k, g)
    <3>1. ASSUME NEW slot \in 1 .. Slots, k.allocs[slot] # NoAlloc
          PROVE  \E r \in DOMAIN g : g[r] > 0 /\ k.allocs[slot] = [pointer |-> r, request |-> g[r]]
      <4>1. CASE slot = m
        BY <1>2, <1>7, <2>7, <2>10, <4>1
      <4>2. CASE slot # m
        <5>1. PICK r \in DOMAIN h : h[r] > 0 /\ l.allocs[slot] = [pointer |-> r, request |-> h[r]]
          BY <2>10, <3>1, <4>2 DEF Logs, Recorded
        <5>2. QED
          BY <1>2, <2>10, <4>2, <5>1
      <4>3. QED
        BY <4>1, <4>2
    <3>2. ASSUME NEW r \in DOMAIN g, g[r] > 0
          PROVE  \E slot \in 1 .. Slots : k.allocs[slot] = [pointer |-> r, request |-> g[r]]
      <4>1. CASE r = p
        BY <1>2, <2>5, <2>7, <2>10, <4>1
      <4>2. CASE r # p
        <5>1. r \in DOMAIN h /\ h[r] = g[r]
          BY <1>2, <4>2
        <5>2. PICK slot \in 1 .. Slots : l.allocs[slot] = [pointer |-> r, request |-> g[r]]
          BY <3>2, <5>1 DEF Logs, Recorded
        <5>3. slot # m
          <6>1. r \in Nat \ {0}
            BY <5>1 DEF IsHeap
          <6>2. l.allocs[slot] # NoAlloc
            BY <5>2, <6>1, NoAllocIs
          <6>3. QED
            BY <2>5, <6>2
        <5>4. QED
          BY <2>10, <5>2, <5>3
      <4>3. QED
        BY <4>1, <4>2
    <3>3. ASSUME NEW s \in 1 .. Slots, NEW t \in 1 .. Slots, k.allocs[s] = k.allocs[t] PROVE s = t \/ k.allocs[s] = NoAlloc
      BY <2>10, <2>12, <3>3 DEF Logs, Recorded
    <3>4. QED
      BY <3>1, <3>2, <3>3 DEF Recorded
  <2>14. k.memory_usage - usage = SumOf(g, DOMAIN g)
    <3>1. PICK x, y, z : x = SumOf(h, DOMAIN h) /\ y = SumOf(g, DOMAIN g) /\ z = l.memory_usage
      OBVIOUS
    <3>2. y = n + x /\ z - usage = x /\ k.memory_usage = z + n /\ x \in Int /\ y \in Int /\ z \in Int /\ usage \in Int
      BY <1>5, <2>9, <3>1 DEF Logs, IsLog
    <3>3. (z + n) - usage = y
      BY <3>2
    <3>4. QED
      BY <3>1, <3>2, <3>3
  <2>15. QED
    BY <1>1, <1>2, <1>4, <2>6, <2>11, <2>13, <2>14 DEF Logs
<1>8. QED
  BY <1>6, <1>7

\* What the two do to the heap.
LEMMA HeapWithout ==
  ASSUME NEW h, IsHeap(h), NEW S
  PROVE  IsHeap(Without(h, S)) /\ DOMAIN Without(h, S) = DOMAIN h \ S
<1>1. PICK g : g = Without(h, S)
  OBVIOUS
<1>2. DOMAIN g = DOMAIN h \ S /\ g = [q \in DOMAIN g |-> g[q]] /\ \A q \in DOMAIN g : g[q] = h[q] /\ q \in DOMAIN h
  BY <1>1 DEF Without
<1>3. IsFiniteSet(DOMAIN g)
  BY <1>2, FS_Subset DEF IsHeap
<1>4. QED
  BY <1>1, <1>2, <1>3 DEF IsHeap

\* What is in the heap after an array is taken.
LEMMA HeapWith ==
  ASSUME NEW h, IsHeap(h), NEW p \in Nat \ {0}, NEW n \in Nat
  PROVE  IsHeap(With(h, p, n)) /\ DOMAIN With(h, p, n) = DOMAIN h \cup {p}
<1>1. PICK g : g = With(h, p, n)
  OBVIOUS
<1>2. DOMAIN g = DOMAIN h \cup {p} /\ g[p] = n /\ (\A q \in DOMAIN h : g[q] = IF q = p THEN n ELSE h[q])
      /\ g = [q \in DOMAIN g |-> g[q]]
  BY <1>1 DEF With
<1>3. IsFiniteSet(DOMAIN g)
  BY <1>2, FS_AddElement DEF IsHeap
<1>4. QED
  BY <1>1, <1>2, <1>3 DEF IsHeap

\* The allocator finds a place.
LEMMA MallocIs ==
  ASSUME NEW h, IsHeap(h)
  PROVE  Malloc(h) \in Nat \ {0} /\ Malloc(h) \notin DOMAIN h
<1>1. PICK n : n = Cardinality(DOMAIN h)
  OBVIOUS
<1>2. IsFiniteSet(DOMAIN h) /\ n \in Nat
  BY <1>1, FS_CardinalityType DEF IsHeap
<1>3. PICK Free : Free = {p \in 1 .. n + 1 : p \notin DOMAIN h}
  OBVIOUS
<1>4. Free # {}
  <2> SUFFICES ASSUME Free = {} PROVE FALSE
    OBVIOUS
  <2>1. 1 .. n + 1 \subseteq DOMAIN h
    BY <1>3
  <2>2. 1 \in Int /\ n + 1 \in Int
    BY <1>2
  <2>3. Cardinality(1 .. n + 1) = IF 1 > n + 1 THEN 0 ELSE (n + 1) - 1 + 1
    BY <2>2, FS_Interval
  <2>4. Cardinality(1 .. n + 1) <= n
    BY <1>1, <1>2, <2>1, FS_Subset
  <2>5. QED
    BY <1>2, <2>3, <2>4
<1>5. PICK p \in Free : \A q \in Free : p <= q
  <2>1. Free \subseteq Nat
    BY <1>2, <1>3
  <2>2. QED
    BY <1>4, <2>1, LeastNumber
<1>6. p \in 1 .. n + 1 /\ p \notin DOMAIN h /\ 1 .. p - 1 \subseteq DOMAIN h
  BY <1>2, <1>3, <1>5
<1>7. Malloc(h) \in 1 .. n + 1 /\ Malloc(h) \notin DOMAIN h
  BY <1>1, <1>6 DEF Malloc
<1>8. QED
  BY <1>2, <1>7

-----------------------------------------------------------------------------
(* A call of the allocator.                                                *)

\* The heap has the places of the arrays that were there before and of those that have been
\* allocated since, each array in its own, and the log has the heap.
Located(s, base, usage) ==
  /\ IsHeap(s.heap)
  /\ DOMAIN s.heap = base \cup {s.at[a] : a \in DOMAIN s.at}
  /\ \A a \in DOMAIN s.at : s.at[a] \notin base
  /\ \A a, b \in DOMAIN s.at : s.at[a] = s.at[b] => a = b
  /\ IsFiniteSet(base) /\ IsFiniteSet(DOMAIN s.at)
  /\ Cardinality(DOMAIN s.heap) = Cardinality(base) + Cardinality(DOMAIN s.at)
  /\ LogHasRoom => Logs(s.log, s.heap, usage)

\* The call is one that the allocator can be asked: it allocates an array that is not there,
\* or it moves or gives back one that is.
Fits(held, call) ==
  /\ call.request \in Nat /\ (call.op = "free" => call.request = 0)
  /\ \/ call.op = "malloc" /\ call.array \notin held
     \/ call.op \in {"realloc", "free"} /\ call.array \in held

\* The arrays that are there after the call.
HeldAfter(held, call) == IF call.op = "free" THEN held \ {call.array} ELSE held \cup {call.array}

\* The arrays stay located when one is taken,
LEMMA MallocPlaces ==
  ASSUME NEW s, NEW base, NEW usage, Located(s, base, usage), Cardinality(base) <= 8, NEW call, Fits(DOMAIN s.at, call),
         call.op = "malloc", Cardinality(DOMAIN s.at) <= 3
  PROVE  Located(Call(s, call), base, usage) /\ DOMAIN Call(s, call).at = DOMAIN s.at \cup {call.array}
<1>1. PICK p, n, a : p = Malloc(s.heap) /\ n = call.request /\ a = call.array
  OBVIOUS
<1>2. p \in Nat \ {0} /\ p \notin DOMAIN s.heap /\ n \in Nat /\ a \notin DOMAIN s.at
  BY <1>1, MallocIs DEF Located, Fits
<1>3. PICK t : t = Call(s, call)
  OBVIOUS
<1>4. PICK g, at : g = With(s.heap, p, n) /\ at = With(s.at, a, p)
  OBVIOUS
<1>5. t = [heap |-> g, log |-> log_taco_memory_usage(s.log, n, p, 0), at |-> at]
  BY <1>1, <1>2, <1>3, <1>4, Zenon DEF Call
<1>6. t.heap = g /\ t.log = log_taco_memory_usage(s.log, n, p, 0) /\ t.at = at
  BY <1>5
<1>7. Forgotten(s.log, 0) = s.log
  BY DEF Forgotten
<1>8. t.log = Added(s.log, n, p)
  BY <1>6, <1>7, LogIs
<1>9. IsHeap(g) /\ DOMAIN g = DOMAIN s.heap \cup {p}
  BY <1>2, <1>4, HeapWith DEF Located
<1>10. DOMAIN at = DOMAIN s.at \cup {a} /\ at[a] = p /\ \A b \in DOMAIN s.at : at[b] = s.at[b]
  BY <1>2, <1>4 DEF With
<1>11. \A b \in DOMAIN s.at : s.at[b] \in DOMAIN s.heap /\ s.at[b] # p
  BY <1>2 DEF Located
<1>12. DOMAIN g = base \cup {at[b] : b \in DOMAIN at}
  <2>1. {at[b] : b \in DOMAIN at} = {s.at[b] : b \in DOMAIN s.at} \cup {p}
    BY <1>10
  <2>2. QED
    BY <1>9, <2>1 DEF Located
<1>13. \A b \in DOMAIN at : at[b] \notin base
  BY <1>2, <1>10 DEF Located
<1>14. \A b, c \in DOMAIN at : at[b] = at[c] => b = c
  BY <1>10, <1>11 DEF Located
<1>15. IsFiniteSet(DOMAIN at) /\ Cardinality(DOMAIN at) = Cardinality(DOMAIN s.at) + 1
       /\ Cardinality(DOMAIN g) = Cardinality(DOMAIN s.heap) + 1
  <2>1. IsFiniteSet(DOMAIN s.at) /\ IsFiniteSet(DOMAIN s.heap)
    BY DEF Located, IsHeap
  <2>2. IsFiniteSet(DOMAIN at) /\ Cardinality(DOMAIN at) = Cardinality(DOMAIN s.at) + 1
    BY <1>2, <1>10, <2>1, FS_AddElement
  <2>3. Cardinality(DOMAIN g) = Cardinality(DOMAIN s.heap) + 1
    BY <1>2, <1>9, <2>1, FS_AddElement
  <2>4. QED
    BY <2>2, <2>3
<1>16. Cardinality(base) \in Nat /\ Cardinality(DOMAIN s.at) \in Nat
  BY FS_CardinalityType DEF Located
<1>17. Cardinality(DOMAIN g) = Cardinality(base) + Cardinality(DOMAIN at)
  BY <1>15, <1>16 DEF Located
<1>18. ASSUME LogHasRoom PROVE Logs(t.log, g, usage)
  <2>1. Slots \in Nat /\ Cardinality(DOMAIN s.heap) < Slots
    BY <1>16, <1>18 DEF LogHasRoom, Located
  <2>2. IsHeap(s.heap) /\ Logs(s.log, s.heap, usage)
    BY <1>18 DEF Located
  <2>3. PICK h, l : h = s.heap /\ l = s.log
    OBVIOUS
  <2>4. IsHeap(h) /\ Logs(l, h, usage) /\ p \notin DOMAIN h /\ Cardinality(DOMAIN h) < Slots
    BY <1>2, <2>1, <2>2, <2>3
  <2>5. Logs(Added(l, n, p), With(h, p, n), usage)
    BY <1>2, <2>1, <2>4, AllocatedIs
  <2>6. QED
    BY <1>4, <1>8, <2>3, <2>5
<1>19. QED
  BY <1>1, <1>3, <1>6, <1>9, <1>10, <1>12, <1>13, <1>14, <1>15, <1>17, <1>18 DEF Located

\* when one is given back,
LEMMA FreePlaces ==
  ASSUME NEW s, NEW base, NEW usage, Located(s, base, usage), NEW call, Fits(DOMAIN s.at, call), call.op = "free"
  PROVE  Located(Call(s, call), base, usage) /\ DOMAIN Call(s, call).at = DOMAIN s.at \ {call.array}
<1>1. PICK p, n, a : p = s.at[call.array] /\ n = call.request /\ a = call.array
  OBVIOUS
<1>2. a \in DOMAIN s.at /\ p = s.at[a] /\ p \in DOMAIN s.heap /\ n = 0 /\ call.op # "malloc"
  BY <1>1 DEF Located, Fits
<1>3. PICK t : t = Call(s, call)
  OBVIOUS
<1>4. PICK g, at : g = Without(s.heap, {p}) /\ at = Without(s.at, {a})
  OBVIOUS
<1>5. t = [heap |-> g, log |-> log_taco_memory_usage(s.log, n, 0, p), at |-> at]
  BY <1>1, <1>2, <1>3, <1>4, Zenon DEF Call
<1>6. t.heap = g /\ t.log = log_taco_memory_usage(s.log, n, 0, p) /\ t.at = at
  BY <1>5
<1>7. Added(Forgotten(s.log, p), n, 0) = Forgotten(s.log, p)
  BY <1>2 DEF Added
<1>8. t.log = Forgotten(s.log, p)
  BY <1>6, <1>7, LogIs
<1>9. IsHeap(g) /\ DOMAIN g = DOMAIN s.heap \ {p}
  BY <1>4, HeapWithout DEF Located
<1>10. DOMAIN at = DOMAIN s.at \ {a} /\ \A b \in DOMAIN at : at[b] = s.at[b] /\ b # a /\ b \in DOMAIN s.at
  BY <1>4 DEF Without
<1>11. \A b \in DOMAIN at : at[b] # p
  BY <1>2, <1>10 DEF Located
<1>12. DOMAIN g = base \cup {at[b] : b \in DOMAIN at}
  <2>1. {s.at[b] : b \in DOMAIN s.at} \ {p} = {at[b] : b \in DOMAIN at}
    BY <1>2, <1>10, <1>11
  <2>2. p \notin base
    BY <1>2 DEF Located
  <2>3. QED
    BY <1>9, <2>1, <2>2 DEF Located
<1>13. \A b \in DOMAIN at : at[b] \notin base
  BY <1>10 DEF Located
<1>14. \A b, c \in DOMAIN at : at[b] = at[c] => b = c
  BY <1>10 DEF Located
<1>15. IsFiniteSet(DOMAIN at) /\ Cardinality(DOMAIN at) = Cardinality(DOMAIN s.at) - 1
       /\ Cardinality(DOMAIN g) = Cardinality(DOMAIN s.heap) - 1
  <2>1. IsFiniteSet(DOMAIN s.at) /\ IsFiniteSet(DOMAIN s.heap)
    BY DEF Located, IsHeap
  <2>2. DOMAIN at = DOMAIN s.at \ {a}
    BY <1>10
  <2>3. IsFiniteSet(DOMAIN at) /\ Cardinality(DOMAIN at) = Cardinality(DOMAIN s.at) - 1
    BY <1>2, <2>1, <2>2, FS_RemoveElement
  <2>4. Cardinality(DOMAIN g) = Cardinality(DOMAIN s.heap) - 1
    BY <1>2, <1>9, <2>1, FS_RemoveElement
  <2>5. QED
    BY <2>3, <2>4
<1>16. Cardinality(base) \in Nat /\ Cardinality(DOMAIN s.at) \in Nat
  BY FS_CardinalityType DEF Located
<1>17. Cardinality(DOMAIN g) = Cardinality(base) + Cardinality(DOMAIN at)
  BY <1>15, <1>16 DEF Located
<1>18. ASSUME LogHasRoom PROVE Logs(t.log, g, usage)
  <2>1. Slots \in Nat /\ IsHeap(s.heap) /\ Logs(s.log, s.heap, usage)
    BY <1>18 DEF LogHasRoom, Located
  <2>2. PICK h, l : h = s.heap /\ l = s.log
    OBVIOUS
  <2>3. Logs(Forgotten(l, p), Without(h, {p}), usage)
    BY <1>2, <2>1, <2>2, ForgottenIs
  <2>4. QED
    BY <1>4, <1>8, <2>2, <2>3
<1>19. QED
  BY <1>1, <1>3, <1>6, <1>9, <1>10, <1>12, <1>13, <1>14, <1>15, <1>17, <1>18 DEF Located

\* when one moves, although the new place is taken before the old one is given back,
LEMMA ReallocPlaces ==
  ASSUME NEW s, NEW base, NEW usage, Located(s, base, usage), Cardinality(base) <= 8, NEW call, Fits(DOMAIN s.at, call),
         call.op = "realloc", Cardinality(DOMAIN s.at) <= 4
  PROVE  Located(Call(s, call), base, usage) /\ DOMAIN Call(s, call).at = DOMAIN s.at
<1>1. PICK p, q, n, a : p = s.at[call.array] /\ q = Malloc(s.heap) /\ n = call.request /\ a = call.array
  OBVIOUS
<1>2. a \in DOMAIN s.at /\ p = s.at[a] /\ p \in DOMAIN s.heap /\ n \in Nat /\ call.op # "malloc" /\ call.op # "free"
      /\ q \in Nat \ {0} /\ q \notin DOMAIN s.heap
  BY <1>1, MallocIs DEF Located, Fits
<1>3. PICK t : t = Call(s, call)
  OBVIOUS
<1>4. PICK k, g, at : k = Without(s.heap, {p}) /\ g = With(k, q, n) /\ at = With(s.at, a, q)
  OBVIOUS
<1>5. t = [heap |-> g, log |-> log_taco_memory_usage(s.log, n, q, p), at |-> at]
  BY <1>1, <1>2, <1>3, <1>4, Zenon DEF Call
<1>6. t.heap = g /\ t.log = log_taco_memory_usage(s.log, n, q, p) /\ t.at = at
  BY <1>5
<1>8. t.log = Added(Forgotten(s.log, p), n, q)
  BY <1>6, LogIs
<1>9. IsHeap(k) /\ DOMAIN k = DOMAIN s.heap \ {p} /\ IsHeap(g) /\ DOMAIN g = DOMAIN k \cup {q} /\ q \notin DOMAIN k
  <2>1. IsHeap(k) /\ DOMAIN k = DOMAIN s.heap \ {p}
    BY <1>4, HeapWithout DEF Located
  <2>2. IsHeap(g) /\ DOMAIN g = DOMAIN k \cup {q}
    BY <1>2, <1>4, <2>1, HeapWith
  <2>3. QED
    BY <1>2, <2>1, <2>2
<1>10. DOMAIN at = DOMAIN s.at /\ at[a] = q /\ \A b \in DOMAIN s.at : b # a => at[b] = s.at[b]
  BY <1>2, <1>4 DEF With
<1>11. \A b \in DOMAIN s.at : b # a => s.at[b] # p /\ s.at[b] # q
  BY <1>2 DEF Located
<1>12. DOMAIN g = base \cup {at[b] : b \in DOMAIN at}
  <2>1. ASSUME NEW x \in DOMAIN g PROVE x \in base \cup {at[b] : b \in DOMAIN at}
    <3>1. CASE x = q
      BY <1>2, <1>10, <3>1
    <3>2. CASE x # q
      <4>1. x # p /\ x \in base \cup {s.at[b] : b \in DOMAIN s.at}
        BY <1>9, <3>2 DEF Located
      <4>2. QED
        BY <1>2, <1>10, <4>1
    <3>3. QED
      BY <3>1, <3>2
  <2>2. p \notin base /\ base \subseteq DOMAIN s.heap
    BY <1>2 DEF Located
  <2>3. ASSUME NEW b \in DOMAIN at PROVE at[b] \in DOMAIN g
    <3>1. CASE b = a
      BY <1>9, <1>10, <3>1
    <3>2. CASE b # a
      <4>1. at[b] = s.at[b] /\ s.at[b] \in DOMAIN s.heap /\ s.at[b] # p
        BY <1>10, <1>11, <3>2 DEF Located
      <4>2. QED
        BY <1>9, <4>1
    <3>3. QED
      BY <3>1, <3>2
  <2>4. QED
    BY <1>9, <2>1, <2>2, <2>3
<1>13. \A b \in DOMAIN at : at[b] \notin base
  BY <1>2, <1>10 DEF Located
<1>14. \A b, c \in DOMAIN at : at[b] = at[c] => b = c
  BY <1>10, <1>11 DEF Located
<1>15. Cardinality(DOMAIN k) = Cardinality(DOMAIN s.heap) - 1 /\ Cardinality(DOMAIN g) = Cardinality(DOMAIN k) + 1
  <2>1. IsFiniteSet(DOMAIN s.heap) /\ IsFiniteSet(DOMAIN k)
    BY <1>9 DEF Located, IsHeap
  <2>2. Cardinality(DOMAIN k) = Cardinality(DOMAIN s.heap) - 1
    BY <1>2, <1>9, <2>1, FS_RemoveElement
  <2>3. Cardinality(DOMAIN g) = Cardinality(DOMAIN k) + 1
    BY <1>9, <2>1, FS_AddElement
  <2>4. QED
    BY <2>2, <2>3
<1>16. Cardinality(base) \in Nat /\ Cardinality(DOMAIN s.at) \in Nat
  BY FS_CardinalityType DEF Located
<1>17. Cardinality(DOMAIN g) = Cardinality(base) + Cardinality(DOMAIN at)
  BY <1>10, <1>15, <1>16 DEF Located
<1>18. ASSUME LogHasRoom PROVE Logs(t.log, g, usage)
  <2>1. Slots \in Nat /\ Slots >= 12 /\ IsHeap(s.heap) /\ Logs(s.log, s.heap, usage)
    BY <1>18 DEF LogHasRoom, Located
  <2>2. Logs(Forgotten(s.log, p), k, usage)
    BY <1>2, <1>4, <2>1, ForgottenIs
  <2>3. Cardinality(DOMAIN k) < Slots
    BY <1>15, <1>16, <2>1 DEF Located
  <2>4. PICK l : l = Forgotten(s.log, p)
    OBVIOUS
  <2>5. Logs(Added(l, n, q), With(k, q, n), usage)
    <3>1. q \in Nat \ {0} /\ q \notin DOMAIN k /\ n \in Nat
      BY <1>2, <1>9
    <3>2. IsHeap(k) /\ Slots \in Nat
      BY <1>9, <2>1
    <3>3. QED
      BY <2>2, <2>3, <2>4, <3>1, <3>2, AllocatedIs
  <2>6. QED
    BY <1>4, <1>8, <2>4, <2>5
<1>19. QED
  BY <1>1, <1>3, <1>6, <1>9, <1>10, <1>12, <1>13, <1>14, <1>17, <1>18 DEF Located

\* and so by every call that fits.
LEMMA CallPlaces ==
  ASSUME NEW s, NEW base, NEW usage, Located(s, base, usage), Cardinality(base) <= 8, NEW call, Fits(DOMAIN s.at, call),
         Cardinality(HeldAfter(DOMAIN s.at, call)) <= 4
  PROVE  Located(Call(s, call), base, usage) /\ DOMAIN Call(s, call).at = HeldAfter(DOMAIN s.at, call)
<1>1. CASE call.op = "malloc"
  <2>1. call.array \notin DOMAIN s.at /\ HeldAfter(DOMAIN s.at, call) = DOMAIN s.at \cup {call.array}
    BY <1>1 DEF Fits, HeldAfter
  <2>2. Cardinality(HeldAfter(DOMAIN s.at, call)) = Cardinality(DOMAIN s.at) + 1 /\ Cardinality(DOMAIN s.at) \in Nat
    BY <2>1, FS_AddElement, FS_CardinalityType DEF Located
  <2>3. Cardinality(DOMAIN s.at) <= 3
    BY <2>2
  <2>4. QED
    BY <1>1, <2>1, <2>3, MallocPlaces
<1>2. CASE call.op = "realloc"
  <2>1. HeldAfter(DOMAIN s.at, call) = DOMAIN s.at
    BY <1>2 DEF Fits, HeldAfter
  <2>2. QED
    BY <1>2, <2>1, ReallocPlaces
<1>3. CASE call.op = "free"
  BY <1>3, FreePlaces DEF HeldAfter
<1>4. QED
  BY <1>1, <1>2, <1>3 DEF Fits

-----------------------------------------------------------------------------
(* The calls of a function, one after the other.                           *)

\* The calls that the functions make.
Calls == [op : {"malloc", "realloc", "free"}, array : {"pos", "crd", "crd1", "crd2", "vals", "index_list", "already_set"}, request : Nat]

\* held[i] are the arrays that are there after i of the calls, never more than four.
Holds(calls, held, H, K) ==
  /\ held[0] = H /\ held[Len(calls)] = K
  /\ \A i \in 1 .. Len(calls) :
       Fits(held[i - 1], calls[i]) /\ held[i] = HeldAfter(held[i - 1], calls[i]) /\ Cardinality(held[i]) <= 4

\* The calls take the arrays H to the arrays K.
Leads(H, calls, K) == calls \in Seq(Calls) /\ \E held : Holds(calls, held, H, K)

\* A call, and the calls of two functions.
LEMMA OneCall ==
  ASSUME NEW H, NEW call \in Calls, Fits(H, call), NEW K, K = HeldAfter(H, call), Cardinality(K) <= 4
  PROVE  Leads(H, <<call>>, K)
<1>1. PICK held : held = [i \in 0 .. 1 |-> IF i = 0 THEN H ELSE K]
  OBVIOUS
<1>2. held[0] = H /\ held[1] = K
  BY <1>1
<1>3. <<call>> \in Seq(Calls) /\ Len(<<call>>) = 1 /\ <<call>>[1] = call
  OBVIOUS
<1>4. Holds(<<call>>, held, H, K)
  <2>1. ASSUME NEW i \in 1 .. Len(<<call>>)
        PROVE  Fits(held[i - 1], <<call>>[i]) /\ held[i] = HeldAfter(held[i - 1], <<call>>[i]) /\ Cardinality(held[i]) <= 4
    <3>1. i = 1 /\ i - 1 = 0
      BY <1>3
    <3>2. QED
      BY <1>2, <1>3, <3>1
  <2>2. QED
    BY <1>2, <1>3, <2>1 DEF Holds
<1>5. QED
  BY <1>3, <1>4 DEF Leads

\* No calls change nothing.
LEMMA NoCall == ASSUME NEW H PROVE Leads(H, <<>>, H)
<1>1. PICK held : held = [i \in {0} |-> H]
  OBVIOUS
<1>2. Holds(<<>>, held, H, H)
  BY <1>1 DEF Holds
<1>3. QED
  BY <1>2 DEF Leads

\* The calls of two functions, one after the other.
LEMMA CallsJoined ==
  ASSUME NEW H, NEW K, NEW M, NEW c, NEW d, Leads(H, c, K), Leads(K, d, M)
  PROVE  Leads(H, c \o d, M)
<1>1. PICK f : Holds(c, f, H, K)
  BY DEF Leads
<1>2. PICK g : Holds(d, g, K, M)
  BY DEF Leads
<1>3. PICK n, m : n = Len(c) /\ m = Len(d)
  OBVIOUS
<1>4. c \in Seq(Calls) /\ d \in Seq(Calls) /\ n \in Nat /\ m \in Nat
  BY <1>3 DEF Leads
<1>5. PICK e : e = c \o d
  OBVIOUS
<1>6. e \in Seq(Calls) /\ Len(e) = n + m /\ \A i \in 1 .. n + m : e[i] = IF i <= n THEN c[i] ELSE d[i - n]
  BY <1>3, <1>4, <1>5, ConcatProperties
<1>7. PICK held : held = [i \in 0 .. n + m |-> IF i <= n THEN f[i] ELSE g[i - n]]
  OBVIOUS
<1>8. f[0] = H /\ f[n] = K /\ g[0] = K /\ g[m] = M
  BY <1>1, <1>2, <1>3 DEF Holds
<1>9. held[0] = H /\ held[n + m] = M
  <2>1. held[0] = H
    BY <1>4, <1>7, <1>8
  <2>2. CASE m = 0
    <3>1. held[n] = f[n] /\ n + m = n
      BY <1>4, <1>7, <2>2
    <3>2. QED
      BY <1>8, <2>1, <2>2, <3>1
  <2>3. CASE m # 0
    <3>1. n + m \in 0 .. n + m /\ ~(n + m <= n) /\ (n + m) - n = m
      BY <1>4, <2>3
    <3>2. held[n + m] = g[(n + m) - n]
      BY <1>7, <3>1
    <3>3. QED
      BY <1>8, <2>1, <3>1, <3>2
  <2>4. QED
    BY <2>2, <2>3
<1>10. ASSUME NEW i \in 1 .. n + m
       PROVE  Fits(held[i - 1], e[i]) /\ held[i] = HeldAfter(held[i - 1], e[i]) /\ Cardinality(held[i]) <= 4
  <2>1. i \in 0 .. n + m /\ i - 1 \in 0 .. n + m
    BY <1>4
  <2>2. CASE i <= n
    <3>1. i \in 1 .. n /\ e[i] = c[i] /\ held[i] = f[i] /\ held[i - 1] = f[i - 1]
      BY <1>4, <1>6, <1>7, <2>1, <2>2
    <3>2. QED
      BY <1>1, <1>3, <3>1 DEF Holds
  <2>3. CASE ~(i <= n)
    <3>1. i - n \in 1 .. m /\ (i - n) - 1 = (i - 1) - n /\ e[i] = d[i - n] /\ held[i] = g[i - n]
      BY <1>4, <1>6, <1>7, <2>1, <2>3
    <3>2. held[i - 1] = g[(i - n) - 1]
      <4>1. CASE i - 1 <= n
        <5>1. i - 1 = n /\ (i - n) - 1 = 0
          BY <1>4, <2>3, <4>1
        <5>2. QED
          BY <1>7, <1>8, <2>1, <4>1, <5>1
      <4>2. CASE ~(i - 1 <= n)
        BY <1>7, <2>1, <3>1, <4>2
      <4>3. QED
        BY <4>1, <4>2
    <3>3. PICK j \in 1 .. m : j = i - n
      BY <3>1
    <3>4. Fits(g[j - 1], d[j]) /\ g[j] = HeldAfter(g[j - 1], d[j]) /\ Cardinality(g[j]) <= 4
      BY <1>2, <1>3 DEF Holds
    <3>5. QED
      BY <3>1, <3>2, <3>3, <3>4
  <2>4. QED
    BY <2>2, <2>3
<1>11. Holds(e, held, H, M)
  BY <1>6, <1>9, <1>10 DEF Holds
<1>12. QED
  BY <1>5, <1>6, <1>11 DEF Leads

\* Calls that only move arrays lead to the same arrays.
LEMMA MovesOnly ==
  ASSUME NEW H, Cardinality(H) <= 4, NEW calls \in Seq(Calls),
         \A i \in 1 .. Len(calls) : calls[i].op = "realloc" /\ calls[i].array \in H
  PROVE  Leads(H, calls, H)
<1>1. PICK n : n = Len(calls) /\ n \in Nat
  OBVIOUS
<1>2. PICK held : held = [i \in 0 .. n |-> H]
  OBVIOUS
<1>3. ASSUME NEW i \in 1 .. n
      PROVE  Fits(held[i - 1], calls[i]) /\ held[i] = HeldAfter(held[i - 1], calls[i]) /\ Cardinality(held[i]) <= 4
  <2>1. held[i - 1] = H /\ held[i] = H
    BY <1>1, <1>2
  <2>2. calls[i] \in Calls /\ calls[i].op = "realloc" /\ calls[i].array \in H
    BY <1>1
  <2>3. Fits(H, calls[i])
    BY <2>2 DEF Fits, Calls
  <2>4. HeldAfter(H, calls[i]) = H
    BY <2>2 DEF HeldAfter
  <2>5. QED
    BY <2>1, <2>3, <2>4
<1>4. held[0] = H /\ held[n] = H
  BY <1>1, <1>2
<1>5. QED
  BY <1>1, <1>3, <1>4 DEF Leads, Holds

\* s[i] is the state after i of the calls.
Runs(s, calls, s0, n) == s = [i \in 0 .. n |-> IF i = 0 THEN s0 ELSE Call(s[i - 1], calls[i])]

\* The heap, the log and the places exist after every number of calls.
LEMMA StatesExist ==
  ASSUME NEW calls, NEW s0, NEW n \in Nat
  PROVE  \E s : Runs(s, calls, s0, n)
<1> DEFINE Good(m) == \E s : s = [i \in 0 .. m |-> IF i = 0 THEN s0 ELSE Call(s[i - 1], calls[i])]
           Bad == {m \in Nat : ~Good(m)}
<1>1. Bad = {}
  <2> SUFFICES ASSUME Bad # {} PROVE FALSE
    OBVIOUS
  <2>1. PICK m \in Bad : \A k \in Bad : m <= k
    <3>1. Bad \subseteq Nat
      OBVIOUS
    <3> HIDE DEF Bad
    <3>2. QED
      BY <3>1, LeastNumber
  <2>2. m # 0
    <3>1. PICK s : s = [i \in 0 .. 0 |-> s0]
      OBVIOUS
    <3>2. s = [i \in 0 .. 0 |-> IF i = 0 THEN s0 ELSE Call(s[i - 1], calls[i])]
      BY <3>1
    <3>3. Good(0)
      BY <3>2
    <3>4. QED
      BY <3>3
  <2>3. m - 1 \in Nat /\ m \in Nat /\ Good(m - 1)
    BY <2>1, <2>2
  <2>4. PICK s : s = [i \in 0 .. m - 1 |-> IF i = 0 THEN s0 ELSE Call(s[i - 1], calls[i])]
    BY <2>3
  <2>5. PICK x : x = Call(s[m - 1], calls[m])
    OBVIOUS
  <2>6. PICK t : t = [i \in 0 .. m |-> IF i = m THEN x ELSE s[i]]
    OBVIOUS
  <2>7. ASSUME NEW i \in 0 .. m PROVE t[i] = IF i = 0 THEN s0 ELSE Call(t[i - 1], calls[i])
    <3>1. CASE i = 0
      BY <2>2, <2>3, <2>4, <2>6, <3>1
    <3>2. CASE i # 0 /\ i = m
      <4>1. t[m] = x /\ t[m - 1] = s[m - 1]
        BY <2>3, <2>6
      <4>2. QED
        BY <2>5, <3>2, <4>1
    <3>3. CASE i # 0 /\ i # m
      <4>1. i \in 0 .. m - 1 /\ i - 1 \in 0 .. m /\ i - 1 # m
        BY <2>3, <3>3
      <4>2. t[i] = s[i] /\ t[i - 1] = s[i - 1]
        BY <2>6, <3>3, <4>1
      <4>3. s[i] = Call(s[i - 1], calls[i])
        BY <2>4, <3>3, <4>1
      <4>4. QED
        BY <3>3, <4>2, <4>3
    <3>4. QED
      BY <3>1, <3>2, <3>3
  <2>8. t = [i \in 0 .. m |-> IF i = 0 THEN s0 ELSE Call(t[i - 1], calls[i])]
    <3>1. t = [i \in 0 .. m |-> t[i]]
      BY <2>6
    <3>2. QED
      BY <2>7, <3>1
  <2>9. Good(m)
    BY <2>8
  <2>10. QED
    BY <2>1, <2>9
<1>2. QED
  BY <1>1 DEF Runs

\* After calls that fit, the heap has the places of the arrays that they lead to.
LEMMA AfterPlaces ==
  ASSUME NEW calls, NEW K, Leads({}, calls, K), NEW base, Cardinality(base) <= 8, NEW usage,
         Located([heap |-> heap, log |-> log[func_idx], at |-> <<>>], base, usage)
  PROVE  Located(After(calls), base, usage) /\ DOMAIN After(calls).at = K
<1>1. PICK s0 : s0 = [heap |-> heap, log |-> log[func_idx], at |-> <<>>]
  OBVIOUS
<1>2. PICK n : n = Len(calls) /\ n \in Nat
  BY DEF Leads
<1>3. PICK held : Holds(calls, held, {}, K)
  BY DEF Leads
<1> DEFINE s == CHOOSE s : Runs(s, calls, s0, n)
<1>4. Runs(s, calls, s0, n)
  <2>1. \E t : Runs(t, calls, s0, n)
    BY <1>2, StatesExist
  <2>2. QED
    BY <2>1
<1>5. After(calls) = s[n]
  BY <1>1, <1>2, Zenon DEF After, Runs
<1> HIDE DEF s
<1>6. s[0] = s0 /\ \A i \in 1 .. n : s[i] = Call(s[i - 1], calls[i])
  <2>1. \A i \in 0 .. n : s[i] = IF i = 0 THEN s0 ELSE Call(s[i - 1], calls[i])
    BY <1>4 DEF Runs
  <2>2. QED
    BY <1>2, <2>1
<1> DEFINE Good(i) == Located(s[i], base, usage) /\ DOMAIN s[i].at = held[i]
           Bad == {i \in 0 .. n : ~Good(i)}
<1>7. Bad = {}
  <2> SUFFICES ASSUME Bad # {} PROVE FALSE
    OBVIOUS
  <2>1. PICK i \in Bad : \A k \in Bad : i <= k
    <3>1. Bad \subseteq Nat
      BY <1>2
    <3> HIDE DEF Bad
    <3>2. QED
      BY <3>1, LeastNumber
  <2>2. i # 0
    <3>1. DOMAIN s0.at = {}
      BY <1>1
    <3>2. Good(0)
      BY <1>1, <1>3, <1>6, <3>1 DEF Holds
    <3>3. QED
      BY <3>2
  <2>3. i \in 1 .. n /\ i - 1 \in 0 .. n /\ i - 1 < i
    BY <1>2, <2>1, <2>2
  <2>4. Good(i - 1)
    BY <2>1, <2>3
  <2>5. PICK u, call : u = s[i - 1] /\ call = calls[i]
    OBVIOUS
  <2>6. Located(u, base, usage) /\ DOMAIN u.at = held[i - 1] /\ s[i] = Call(u, call)
    BY <1>6, <2>3, <2>4, <2>5
  <2>7. Fits(held[i - 1], call) /\ held[i] = HeldAfter(held[i - 1], call) /\ Cardinality(held[i]) <= 4
    BY <1>2, <1>3, <2>3, <2>5 DEF Holds
  <2>8. Located(Call(u, call), base, usage) /\ DOMAIN Call(u, call).at = HeldAfter(DOMAIN u.at, call)
    BY <2>6, <2>7, CallPlaces
  <2>9. Good(i)
    BY <2>6, <2>7, <2>8
  <2>10. QED
    BY <2>1, <2>9
<1>8. n \in 0 .. n
  BY <1>2
<1>9. Good(n)
  BY <1>7, <1>8
<1>10. QED
  BY <1>2, <1>3, <1>5, <1>9 DEF Holds

-----------------------------------------------------------------------------
(* The calls of packing and of assembling.                                 *)

\* Some number of doublings is enough for count elements: count of them are.
LEMMA DoublingsIs == ASSUME NEW count \in Nat PROVE Doublings(count) \in Nat
<1>1. PICK S : S = {n \in 0 .. count : InitialSize * 2 ^ n >= count}
  OBVIOUS
<1>2. PICK x : x = 2 ^ count
  OBVIOUS
<1>3. x \in Nat /\ count <= x
  BY <1>2, PowerOfTwo
<1>4. InitialSize * x >= count
  <2>1. InitialSize \in Nat /\ InitialSize >= 1
    BY InitialSizeAssumption
  <2>2. InitialSize * x = x + (InitialSize - 1) * x /\ (InitialSize - 1) * x \in Nat
    BY <1>3, <2>1
  <2>3. InitialSize * x \in Nat
    BY <1>3, <2>1
  <2>4. QED
    BY <1>3, <2>2, <2>3
<1>5. count \in S
  BY <1>1, <1>2, <1>4
<1>6. S \subseteq Nat /\ S # {}
  BY <1>1, <1>5
<1>7. QED
  BY <1>1, <1>6, MinOfSet DEF Doublings

\* The arrays that grow, and how wide they are.
LEMMA WidthIs ==
  ASSUME NEW array \in {"crd", "crd1", "crd2", "vals"} PROVE Width[array] \in Nat
<1>1. Width["crd"] = 4 /\ Width["crd1"] = 4 /\ Width["crd2"] = 4 /\ Width["vals"] = 8
  BY DEF Width
<1>2. QED
  BY <1>1

\* Growing moves arrays that are there and leaves their names.
LEMMA GrowLeads ==
  ASSUME NEW arrays \in Seq({"crd", "crd1", "crd2", "vals"}), Len(arrays) > 0, NEW count \in Nat,
         NEW H, Cardinality(H) <= 4, \A j \in 1 .. Len(arrays) : arrays[j] \in H
  PROVE  Leads(H, Grow(arrays, count), H)
<1>1. PICK n, m, calls : n = Doublings(count) /\ m = Len(arrays) /\ calls = Grow(arrays, count)
  OBVIOUS
<1>2. n \in Nat /\ m \in Nat \ {0} /\ n * m \in Nat
  <2>1. n \in Nat
    BY <1>1, DoublingsIs
  <2>2. m \in Nat /\ m > 0
    BY <1>1
  <2>3. QED
    BY <2>1, <2>2
<1>3. ASSUME NEW i \in 1 .. n * m
      PROVE  calls[i] \in Calls /\ calls[i].op = "realloc" /\ calls[i].array \in H
  <2>1. PICK j, d : j = 1 + ((i - 1) % m) /\ d = 1 + ((i - 1) \div m)
    OBVIOUS
  <2>2. i - 1 \in Nat
    BY <1>2
  <2>3. (i - 1) \div m \in Nat /\ (i - 1) % m \in 0 .. m - 1
    BY <1>2, <2>2, DivMod
  <2>4. j \in 1 .. m /\ d \in Nat
    BY <1>2, <2>1, <2>3
  <2>5. PICK array, w, x : array = arrays[j] /\ w = Width[array] /\ x = 2 ^ d
    OBVIOUS
  <2>6. array \in {"crd", "crd1", "crd2", "vals"} /\ array \in H
    BY <1>1, <2>4, <2>5
  <2>7. w \in Nat /\ x \in Nat /\ InitialSize \in Nat
    BY <2>4, <2>5, <2>6, WidthIs, PowerOfTwo, InitialSizeAssumption
  <2>8. w * InitialSize \in Nat
    BY <2>7
  <2>9. w * InitialSize * x \in Nat
    BY <2>7, <2>8
  <2>10. calls[i] = realloc(array, w * InitialSize * x)
    BY <1>1, <2>1, <2>5 DEF Grow
  <2>11. QED
    BY <2>6, <2>9, <2>10 DEF realloc, Calls
<1>4. calls = [i \in 1 .. n * m |-> calls[i]]
  BY <1>1 DEF Grow
<1>5. calls \in Seq(Calls) /\ Len(calls) = n * m
  <2>1. PICK k \in Nat : k = n * m
    BY <1>2
  <2>2. calls \in [1 .. k -> Calls]
    BY <1>3, <1>4, <2>1
  <2>3. QED
    BY <2>1, <2>2
<1>6. QED
  BY <1>1, <1>3, <1>5, MovesOnly

\* One more element makes a finite set larger by one at most.
LEMMA OneElement ==
  ASSUME NEW S, IsFiniteSet(S), NEW n \in Nat, Cardinality(S) <= n, NEW x, NEW T, T = S \cup {x}
  PROVE  IsFiniteSet(T) /\ Cardinality(T) <= n + 1
<1>1. Cardinality(S) \in Nat
  BY FS_CardinalityType
<1>2. IsFiniteSet(S \cup {x}) /\ Cardinality(S \cup {x}) = IF x \in S THEN Cardinality(S) ELSE Cardinality(S) + 1
  BY FS_AddElement
<1>3. Cardinality(S \cup {x}) <= n + 1
  BY <1>1, <1>2
<1>4. QED
  BY <1>2, <1>3

\* A set of four names.
LEMMA FourAtMost ==
  ASSUME NEW a, NEW b, NEW c, NEW d, NEW U, U \subseteq {a, b, c, d} PROVE Cardinality(U) <= 4
<1>1. PICK Z : Z = {}
  OBVIOUS
<1>2. IsFiniteSet(Z) /\ Cardinality(Z) <= 0 /\ 0 \in Nat /\ 1 \in Nat /\ 2 \in Nat /\ 3 \in Nat
  BY <1>1, FS_EmptySet
<1>3. PICK R : R = Z \cup {a}
  OBVIOUS
<1>4. IsFiniteSet(R) /\ Cardinality(R) <= 0 + 1
  BY <1>2, <1>3, OneElement
<1>5. PICK S : S = R \cup {b}
  OBVIOUS
<1>16. Cardinality(R) <= 1
  BY <1>4
<1>6. IsFiniteSet(S) /\ Cardinality(S) <= 1 + 1
  BY <1>2, <1>4, <1>16, <1>5, OneElement
<1>7. PICK T : T = S \cup {c}
  OBVIOUS
<1>8. IsFiniteSet(T) /\ Cardinality(T) <= 2 + 1
  BY <1>2, <1>6, <1>7, OneElement
<1>9. PICK V : V = T \cup {d}
  OBVIOUS
<1>0. IsFiniteSet(V) /\ Cardinality(V) <= 3 + 1
  BY <1>2, <1>8, <1>9, OneElement
<1>10. U \subseteq V
  BY <1>3, <1>5, <1>7, <1>9
<1>11. IsFiniteSet(U) /\ Cardinality(U) <= Cardinality(V)
  BY <1>0, <1>10, FS_Subset
<1>12. Cardinality(U) \in Nat /\ Cardinality(V) \in Nat
  BY <1>0, <1>11, FS_CardinalityType
<1>13. QED
  BY <1>0, <1>11, <1>12

\* The names of the arrays.
Named == {"pos", "crd", "crd1", "crd2", "vals", "index_list", "already_set"}

\* One malloc takes the arrays to those with one more,
LEMMA MallocLeads ==
  ASSUME NEW array \in Named, NEW n \in Nat, NEW H, array \notin H, NEW K, K = H \cup {array}, Cardinality(K) <= 4
  PROVE  Leads(H, <<malloc(array, n)>>, K)
<1>1. PICK call : call = malloc(array, n)
  OBVIOUS
<1>2. call \in Calls /\ call.op = "malloc" /\ call.array = array /\ call.request = n
  BY <1>1 DEF malloc, Calls, Named
<1>3. Fits(H, call) /\ K = HeldAfter(H, call)
  BY <1>2 DEF Fits, HeldAfter
<1>4. QED
  BY <1>1, <1>2, <1>3, OneCall

\* and one free to those with one less.
LEMMA FreeLeads ==
  ASSUME NEW array \in Named, NEW H, array \in H, NEW K, K = H \ {array}, Cardinality(K) <= 4
  PROVE  Leads(H, <<free(array)>>, K)
<1>1. PICK call : call = free(array)
  OBVIOUS
<1>2. call \in Calls /\ call.op = "free" /\ call.array = array /\ call.request = 0
  BY <1>1 DEF free, Calls, Named
<1>3. Fits(H, call) /\ K = HeldAfter(H, call)
  BY <1>2 DEF Fits, HeldAfter
<1>4. QED
  BY <1>1, <1>2, <1>3, OneCall

\* The arrays that start with their first size.
StartOf(array) == <<malloc(array, Width[array] * InitialSize)>>

\* The first allocation of an array that will grow.
LEMMA StartLeads ==
  ASSUME NEW array \in {"crd", "crd1", "crd2", "vals"}, NEW H, array \notin H, NEW K, K = H \cup {array}, Cardinality(K) <= 4
  PROVE  Leads(H, StartOf(array), K)
<1>1. PICK w : w = Width[array] /\ w \in Nat
  BY WidthIs
<1>2. w * InitialSize \in Nat
  BY <1>1, InitialSizeAssumption
<1>3. QED
  BY <1>1, <1>2, MallocLeads DEF StartOf, Named

\* Sequences of single calls, joined.
LEMMA TwoJoined == ASSUME NEW p, NEW q PROVE <<p>> \o <<q>> = <<p, q>>
<1>1. PICK S, c, d : S = {p, q} /\ c = <<p>> /\ d = <<q>>
  OBVIOUS
<1>2. c \in Seq(S) /\ d \in Seq(S) /\ Len(c) = 1 /\ Len(d) = 1 /\ c[1] = p /\ d[1] = q
  BY <1>1
<1>3. PICK e : e = c \o d
  OBVIOUS
<1>4. e \in Seq(S) /\ Len(e) = 1 + 1 /\ \A i \in 1 .. 1 + 1 : e[i] = IF i <= 1 THEN c[i] ELSE d[i - 1]
  BY <1>2, <1>3, ConcatProperties
<1>5. e = <<p, q>>
  BY <1>2, <1>4
<1>6. QED
  BY <1>1, <1>3, <1>5

\* The same for three calls.
LEMMA ThreeJoined == ASSUME NEW p, NEW q, NEW r PROVE (<<p>> \o <<q>>) \o <<r>> = <<p, q, r>>
<1>1. PICK S, c, d : S = {p, q, r} /\ c = <<p, q>> /\ d = <<r>>
  OBVIOUS
<1>2. c \in Seq(S) /\ d \in Seq(S) /\ Len(c) = 2 /\ Len(d) = 1 /\ c[1] = p /\ c[2] = q /\ d[1] = r
  BY <1>1
<1>3. PICK e : e = c \o d
  OBVIOUS
<1>4. e \in Seq(S) /\ Len(e) = 2 + 1 /\ \A i \in 1 .. 2 + 1 : e[i] = IF i <= 2 THEN c[i] ELSE d[i - 2]
  BY <1>2, <1>3, ConcatProperties
<1>5. e = <<p, q, r>>
  BY <1>2, <1>4
<1>6. QED
  BY <1>1, <1>3, <1>5, TwoJoined

\* Start makes the first allocations of its arrays in order: of one,
LEMMA StartOne == ASSUME NEW a PROVE Start(<<a>>) = StartOf(a)
  BY DEF Start, StartOf

\* of two,
LEMMA StartTwo == ASSUME NEW a, NEW b PROVE Start(<<a, b>>) = StartOf(a) \o StartOf(b)
<1>1. PICK p, q : p = malloc(a, Width[a] * InitialSize) /\ q = malloc(b, Width[b] * InitialSize)
  OBVIOUS
<1>2. Start(<<a, b>>) = <<p, q>>
  BY <1>1 DEF Start
<1>3. StartOf(a) = <<p>> /\ StartOf(b) = <<q>>
  BY <1>1 DEF StartOf
<1>4. <<p>> \o <<q>> = <<p, q>>
  BY TwoJoined
<1>5. QED
  BY <1>2, <1>3, <1>4

\* and of three arrays.
LEMMA StartThree == ASSUME NEW a, NEW b, NEW c PROVE Start(<<a, b, c>>) = (StartOf(a) \o StartOf(b)) \o StartOf(c)
<1>1. PICK p, q, r : /\ p = malloc(a, Width[a] * InitialSize) /\ q = malloc(b, Width[b] * InitialSize)
                     /\ r = malloc(c, Width[c] * InitialSize)
  OBVIOUS
<1>2. Start(<<a, b, c>>) = <<p, q, r>>
  BY <1>1 DEF Start
<1>3. StartOf(a) = <<p>> /\ StartOf(b) = <<q>> /\ StartOf(c) = <<r>>
  BY <1>1 DEF StartOf
<1>4. (<<p>> \o <<q>>) \o <<r>> = <<p, q, r>>
  BY ThreeJoined
<1>5. QED
  BY <1>2, <1>3, <1>4

\* The arrays of a tensor in coordinates, and of one with pointers.
CooArrays == {"pos", "crd1", "crd2", "vals"}
\* The arrays of an operand with pointers.
PointerArrays == {"pos", "crd", "vals"}

\* pos and the arrays that start with their first size.
LEMMA HeadLeads ==
  ASSUME NEW n \in Nat
  PROVE  /\ Leads({}, <<malloc("pos", n)>> \o Start(<<"crd1", "crd2", "vals">>), CooArrays)
         /\ Leads({}, <<malloc("pos", n)>> \o Start(<<"crd", "vals">>), PointerArrays)
         /\ Leads({}, <<malloc("pos", n)>> \o Start(<<"crd1", "crd2">>), {"pos", "crd1", "crd2"})
         /\ Leads({}, <<malloc("pos", n)>> \o Start(<<"crd">>), {"pos", "crd"})
<1> DEFINE P == {"pos"}
           P1 == {"pos", "crd1"}
           P12 == {"pos", "crd1", "crd2"}
           Pc == {"pos", "crd"}
<1>1. /\ Cardinality(P) <= 4 /\ Cardinality(P1) <= 4 /\ Cardinality(P12) <= 4 /\ Cardinality(Pc) <= 4
      /\ Cardinality(CooArrays) <= 4 /\ Cardinality(PointerArrays) <= 4
  <2>1. /\ P \subseteq CooArrays /\ P1 \subseteq CooArrays /\ P12 \subseteq CooArrays /\ CooArrays \subseteq CooArrays
        /\ Pc \subseteq {"pos", "crd", "vals", "vals"} /\ PointerArrays \subseteq {"pos", "crd", "vals", "vals"}
    BY DEF CooArrays, PointerArrays
  <2> HIDE DEF P, P1, P12, Pc
  <2>2. QED
    BY <2>1, FourAtMost DEF CooArrays
<1>2. Leads({}, <<malloc("pos", n)>>, P)
  BY <1>1, MallocLeads DEF Named
<1>3. Leads(P, StartOf("crd1"), P1)
  BY <1>1, StartLeads
<1>4. Leads(P1, StartOf("crd2"), P12)
  BY <1>1, StartLeads
<1>5. Leads(P12, StartOf("vals"), CooArrays)
  <2>1. CooArrays = P12 \cup {"vals"}
    BY DEF CooArrays
  <2>2. QED
    BY <1>1, <2>1, StartLeads
<1>6. Leads(P, StartOf("crd"), Pc)
  BY <1>1, StartLeads
<1>7. Leads(Pc, StartOf("vals"), PointerArrays)
  <2>1. PointerArrays = Pc \cup {"vals"}
    BY DEF PointerArrays
  <2>2. QED
    BY <1>1, <2>1, StartLeads
<1> HIDE DEF P, P1, P12, Pc
<1>8. Leads(P, Start(<<"crd1", "crd2">>), P12)
  BY <1>3, <1>4, CallsJoined, StartTwo
<1>9. Leads(P, Start(<<"crd1", "crd2", "vals">>), CooArrays)
  <2>1. Start(<<"crd1", "crd2", "vals">>) = (StartOf("crd1") \o StartOf("crd2")) \o StartOf("vals")
    BY StartThree
  <2>2. Leads(P, StartOf("crd1") \o StartOf("crd2"), P12)
    BY <1>3, <1>4, CallsJoined
  <2>3. QED
    BY <1>5, <2>1, <2>2, CallsJoined
<1>10. Leads(P, Start(<<"crd", "vals">>), PointerArrays)
  BY <1>6, <1>7, CallsJoined, StartTwo
<1>11. Leads(P, Start(<<"crd">>), Pc)
  BY <1>6, StartOne
<1>12. /\ Leads({}, <<malloc("pos", n)>> \o Start(<<"crd1", "crd2", "vals">>), CooArrays)
       /\ Leads({}, <<malloc("pos", n)>> \o Start(<<"crd", "vals">>), PointerArrays)
       /\ Leads({}, <<malloc("pos", n)>> \o Start(<<"crd1", "crd2">>), P12)
       /\ Leads({}, <<malloc("pos", n)>> \o Start(<<"crd">>), Pc)
  BY <1>2, <1>8, <1>9, <1>10, <1>11, CallsJoined
<1>13. QED
  BY <1>12 DEF P12, Pc

\* The number of bytes of the pointers.
LEMMA PointerBytes ==
  ASSUME kron_coo.k \in Nat PROVE 4 * (Dimension(kron_coo.k) + 1) \in Nat /\ 4 * Dimension(kron_coo.k) \in Nat /\ Dimension(kron_coo.k) \in Nat
<1>1. PICK d : d = Dimension(kron_coo.k) /\ d \in Nat
  BY PowerOfTwo DEF Dimension
<1>2. QED
  BY <1>1

\* Packing ends with at most four arrays, each taken once and moved only while it is there.
LEMMA PackLeads ==
  ASSUME NEW format, NEW matrix, kron_coo.k \in Nat, Len(IF format = "MAT_COO" THEN matrix ELSE matrix.entries) \in Nat
  PROVE  \E K : Leads({}, PackCalls(format, matrix), K)
<1>1. /\ Cardinality(CooArrays) <= 4 /\ Cardinality(PointerArrays) <= 4
  <2>1. PointerArrays \subseteq {"pos", "crd", "vals", "vals"} /\ CooArrays \subseteq {"pos", "crd1", "crd2", "vals"}
    BY DEF PointerArrays, CooArrays
  <2>2. QED
    BY <2>1, FourAtMost
<1>2. CASE format = "MAT_COO"
  <2>1. PICK count \in Nat : count = Len(matrix)
    BY <1>2
  <2>2. PICK arrays : arrays = <<"vals", "crd2", "crd1">>
    OBVIOUS
  <2>3. arrays \in Seq({"crd", "crd1", "crd2", "vals"}) /\ Len(arrays) > 0 /\ \A j \in 1 .. Len(arrays) : arrays[j] \in CooArrays
    BY <2>2 DEF CooArrays
  <2>4. Leads(CooArrays, Grow(arrays, count), CooArrays)
    BY <1>1, <2>3, GrowLeads
  <2>5. PICK head : head = <<malloc("pos", 8)>> \o Start(<<"crd1", "crd2", "vals">>)
    OBVIOUS
  <2>6. Leads({}, head, CooArrays)
    BY <2>5, HeadLeads
  <2>7. Leads({}, head \o Grow(arrays, count), CooArrays)
    BY <2>4, <2>6, CallsJoined
  <2>8. PackCalls(format, matrix) = head \o Grow(arrays, count)
    BY <1>2, <2>1, <2>2, <2>5 DEF PackCalls
  <2>9. QED
    BY <2>7, <2>8
<1>3. CASE format # "MAT_COO"
  <2>1. PICK count \in Nat : count = Len(matrix.entries)
    BY <1>3
  <2>2. PICK arrays : arrays = <<"vals", "crd">>
    OBVIOUS
  <2>3. arrays \in Seq({"crd", "crd1", "crd2", "vals"}) /\ Len(arrays) > 0 /\ \A j \in 1 .. Len(arrays) : arrays[j] \in PointerArrays
    BY <2>2 DEF PointerArrays
  <2>4. Leads(PointerArrays, Grow(arrays, count), PointerArrays)
    BY <1>1, <2>3, GrowLeads
  <2>5. PICK n, head : n = 4 * (Dimension(kron_coo.k) + 1) /\ head = <<malloc("pos", n)>> \o Start(<<"crd", "vals">>)
    OBVIOUS
  <2>6. Leads({}, head, PointerArrays)
    BY <2>5, HeadLeads, PointerBytes
  <2>7. Leads({}, head \o Grow(arrays, count), PointerArrays)
    BY <2>4, <2>6, CallsJoined
  <2>8. PackCalls(format, matrix) = head \o Grow(arrays, count)
    BY <1>3, <2>1, <2>2, <2>5 DEF PackCalls
  <2>9. QED
    BY <2>7, <2>8
<1>4. QED
  BY <1>2, <1>3

\* So does assembling; its workspaces are gone at the end.
LEMMA AssembleLeads ==
  ASSUME NEW format, NEW count \in Nat, kron_coo.k \in Nat
  PROVE  \E K : Leads({}, AssembleCalls(format, count), K)
<1> DEFINE P12 == {"pos", "crd1", "crd2"}
           Pc == {"pos", "crd"}
           Pi == {"pos", "crd", "index_list"}
           Pa == {"pos", "crd", "index_list", "already_set"}
           Ps == {"pos", "crd", "already_set"}
<1>1. /\ Cardinality(P12) <= 4 /\ Cardinality(Pc) <= 4 /\ Cardinality(Pi) <= 4 /\ Cardinality(Pa) <= 4 /\ Cardinality(Ps) <= 4
      /\ Cardinality(CooArrays) <= 4 /\ Cardinality(PointerArrays) <= 4
  <2>1. /\ P12 \subseteq {"pos", "crd1", "crd2", "vals"} /\ CooArrays \subseteq {"pos", "crd1", "crd2", "vals"}
        /\ Pc \subseteq {"pos", "crd", "vals", "vals"} /\ PointerArrays \subseteq {"pos", "crd", "vals", "vals"}
        /\ Pi \subseteq {"pos", "crd", "index_list", "already_set"} /\ Pa \subseteq {"pos", "crd", "index_list", "already_set"}
        /\ Ps \subseteq {"pos", "crd", "index_list", "already_set"}
    BY DEF PointerArrays, CooArrays
  <2> HIDE DEF P12, Pc, Pi, Pa, Ps
  <2>2. QED
    BY <2>1, FourAtMost
<1>2. 8 * count \in Nat
  OBVIOUS
<1>3. CASE format = "MAT_COO"
  <2>1. PICK arrays, head, last : /\ arrays = <<"crd2", "crd1">> /\ head = <<malloc("pos", 8)>> \o Start(<<"crd1", "crd2">>)
                                  /\ last = IF Fake THEN <<>> ELSE <<malloc("vals", 8 * count)>>
    OBVIOUS
  <2>2. arrays \in Seq({"crd", "crd1", "crd2", "vals"}) /\ Len(arrays) > 0 /\ \A j \in 1 .. Len(arrays) : arrays[j] \in P12
    BY <2>1
  <2>3. Leads(P12, Grow(arrays, count), P12)
    BY <1>1, <2>2, GrowLeads
  <2>4. Leads({}, head, P12)
    BY <2>1, HeadLeads
  <2>5. Leads({}, head \o Grow(arrays, count), P12)
    BY <2>3, <2>4, CallsJoined
  <2>6. \E K : Leads(P12, last, K)
    <3>1. CASE Fake
      BY <2>1, <3>1, NoCall
    <3>2. CASE ~Fake
      <4>1. CooArrays = P12 \cup {"vals"} /\ "vals" \notin P12 /\ "vals" \in Named
        BY DEF CooArrays, Named
      <4>2. Leads(P12, <<malloc("vals", 8 * count)>>, CooArrays)
        BY <1>1, <1>2, <4>1, MallocLeads
      <4>3. QED
        BY <2>1, <3>2, <4>2
    <3>3. QED
      BY <3>1, <3>2
  <2>7. PICK K : Leads(P12, last, K)
    BY <2>6
  <2>8. Leads({}, (head \o Grow(arrays, count)) \o last, K)
    BY <2>5, <2>7, CallsJoined
  <2>9. AssembleCalls(format, count) = (head \o Grow(arrays, count)) \o last
    BY <1>3, <2>1 DEF AssembleCalls
  <2>10. QED
    BY <2>8, <2>9
<1>4. CASE format # "MAT_COO"
  <2>1. PICK d, n, arrays, head : /\ d = Dimension(kron_coo.k) /\ n = 4 * (d + 1) /\ arrays = <<"crd">>
                                  /\ head = <<malloc("pos", n)>> \o Start(<<"crd">>)
    OBVIOUS
  <2>2. d \in Nat /\ n \in Nat /\ 4 * d \in Nat
    BY <2>1, PointerBytes
  <2>3. PICK a, b, x, y, z : /\ a = <<malloc("index_list", 4 * d)>> /\ b = <<malloc("already_set", d)>>
                             /\ x = <<free("index_list")>> /\ y = <<free("already_set")>> /\ z = <<malloc("vals", 8 * count)>>
    OBVIOUS
  <2>4. Leads({}, head, Pc)
    BY <2>1, <2>2, HeadLeads
  <2>5. Leads(Pc, a, Pi)
    <3>1. Pi = Pc \cup {"index_list"} /\ "index_list" \notin Pc /\ "index_list" \in Named
      BY DEF Named
    <3>2. QED
      BY <1>1, <2>2, <2>3, <3>1, MallocLeads
  <2>6. Leads(Pi, b, Pa)
    <3>1. Pa = Pi \cup {"already_set"} /\ "already_set" \notin Pi /\ "already_set" \in Named
      BY DEF Named
    <3>2. QED
      BY <1>1, <2>2, <2>3, <3>1, MallocLeads
  <2>7. Leads(Pa, Grow(arrays, count), Pa)
    <3>1. arrays \in Seq({"crd", "crd1", "crd2", "vals"}) /\ Len(arrays) > 0 /\ \A j \in 1 .. Len(arrays) : arrays[j] \in Pa
      BY <2>1
    <3>2. QED
      BY <1>1, <3>1, GrowLeads
  <2>8. Leads(Pa, x, Ps)
    <3>1. Ps = Pa \ {"index_list"} /\ "index_list" \in Pa /\ "index_list" \in Named
      BY DEF Named
    <3>2. QED
      BY <1>1, <2>3, <3>1, FreeLeads
  <2>9. Leads(Ps, y, Pc)
    <3>1. Pc = Ps \ {"already_set"} /\ "already_set" \in Ps /\ "already_set" \in Named
      BY DEF Named
    <3>2. QED
      BY <1>1, <2>3, <3>1, FreeLeads
  <2>10. Leads(Pc, z, PointerArrays)
    <3>1. PointerArrays = Pc \cup {"vals"} /\ "vals" \notin Pc /\ "vals" \in Named
      BY DEF PointerArrays, Named
    <3>2. QED
      BY <1>1, <1>2, <2>3, <3>1, MallocLeads
  <2> HIDE DEF P12, Pc, Pi, Pa, Ps
  <2>11. PICK grow : grow = Grow(arrays, count)
    OBVIOUS
  <2>12. Leads(Pc, a \o b, Pa)
    BY <2>5, <2>6, CallsJoined
  <2>13. Leads(Pa, x \o y, Pc)
    BY <2>8, <2>9, CallsJoined
  <2>14. Leads(Pa, (x \o y) \o z, PointerArrays)
    BY <2>10, <2>13, CallsJoined
  <2>15. Leads({}, head \o (a \o b), Pa)
    BY <2>4, <2>12, CallsJoined
  <2>16. Leads({}, (head \o (a \o b)) \o grow, Pa)
    BY <2>7, <2>11, <2>15, CallsJoined
  <2>17. Leads({}, ((head \o (a \o b)) \o grow) \o ((x \o y) \o z), PointerArrays)
    BY <2>14, <2>16, CallsJoined
  <2>18. a \o b = <<malloc("index_list", 4 * d), malloc("already_set", d)>>
    <3>1. \A p, q : <<p>> \o <<q>> = <<p, q>>
      BY TwoJoined
    <3>2. QED
      BY <2>3, <3>1
  <2>19. (x \o y) \o z = <<free("index_list"), free("already_set"), malloc("vals", 8 * count)>>
    <3>1. \A p, q, r : (<<p>> \o <<q>>) \o <<r>> = <<p, q, r>>
      BY ThreeJoined
    <3>2. QED
      BY <2>3, <3>1
  <2>20. AssembleCalls(format, count) = ((head \o (a \o b)) \o grow) \o ((x \o y) \o z)
    <3>1. AssembleCalls(format, count) =
            ((head \o <<malloc("index_list", 4 * d), malloc("already_set", d)>>) \o grow)
            \o <<free("index_list"), free("already_set"), malloc("vals", 8 * count)>>
      BY <1>4, <2>1, <2>11 DEF AssembleCalls
    <3>2. QED
      BY <2>18, <2>19, <3>1
  <2>21. QED
    BY <2>17, <2>20
<1>5. QED
  BY <1>3, <1>4

-----------------------------------------------------------------------------
(* How many elements the arrays get.                                       *)

\* The elements that an operand is packed into.
PackLength(format, matrix) == Len(IF format = "MAT_COO" THEN matrix ELSE matrix.entries)

\* That is a number, for what a conversion from a dense matrix makes.
LEMMA StoredLength ==
  ASSUME NEW stored, NEW d, Stores(stored, d), NEW format \in Sparse
  PROVE  PackLength(format, StoredFormat(format, stored, d).matrix) \in Nat
<1>1. PICK n : n = Cardinality(NonZero(stored)) /\ n \in Nat
  <2>1. IsFiniteSet(NonZero(stored))
    BY StoresFacts, CellFacts
  <2>2. QED
    BY <2>1, FS_CardinalityType
<1>2. PICK rows, cols : rows = RowScan(stored) /\ cols = ColScan(stored)
  OBVIOUS
<1>3. DOMAIN rows = 1 .. n /\ DOMAIN cols = 1 .. n
  BY <1>1, <1>2 DEF RowScan, ColScan, Scan
<1>4. PICK m : m = StoredFormat(format, stored, d).matrix
  OBVIOUS
<1>5. CASE format = "MAT_CSR"
  <2>1. m = StoredCsr(stored, d)
    BY <1>4, <1>5, StoredFormats
  <2>2. DOMAIN m.entries = 1 .. n
    BY <1>2, <1>3, <2>1 DEF StoredCsr
  <2>3. Len(m.entries) = n
    BY <1>1, <2>2, LengthIs
  <2>4. QED
    BY <1>1, <1>4, <1>5, <2>3 DEF PackLength
<1>6. CASE format = "MAT_CSC"
  <2>1. m = StoredCsc(stored, d)
    BY <1>4, <1>6, StoredFormats
  <2>2. DOMAIN m.entries = 1 .. n
    BY <1>2, <1>3, <2>1 DEF StoredCsc
  <2>3. Len(m.entries) = n
    BY <1>1, <2>2, LengthIs
  <2>4. QED
    BY <1>1, <1>4, <1>6, <2>3 DEF PackLength
<1>7. CASE format = "MAT_COO"
  <2>1. m = StoredCoo(stored, d)
    BY <1>4, <1>7, StoredFormats
  <2>2. DOMAIN m = 1 .. n
    BY <1>2, <1>3, <2>1 DEF StoredCoo
  <2>3. Len(m) = n
    BY <1>1, <2>2, LengthIs
  <2>4. QED
    BY <1>1, <1>4, <1>7, <2>3 DEF PackLength
<1>8. QED
  BY <1>5, <1>6, <1>7 DEF Sparse

\* Of a graph that was read, the operands and the output have so many elements.
LEMMA LengthsAre ==
  ASSUME EdgesBetweenNodes, func_idx \in DOMAIN test_entries, \E f \in Files : f.read = "whole" /\ kron_coo = Parsed(f),
         NEW a, a = pack_a(kron_coo.list, Dimension(kron_coo.k)), NEW b, b = pack_b(kron_coo.list, Dimension(kron_coo.k))
  PROVE  kron_coo.k \in Nat /\ PackLength(entry[1], a) \in Nat /\ PackLength(entry[2], b) \in Nat /\ Len(assemble(a, b)) \in Nat
<1>1. PICK f \in Files : f.read = "whole" /\ kron_coo = Parsed(f)
  OBVIOUS
<1>2. SortedList(Parsed(f).list, f.nnz, Dimension(f.k)) /\ Parsed(f).k = f.k
  BY <1>1, GraphList
<1>3. kron_coo.k \in Nat
  BY <1>1, <1>2 DEF EdgesBetweenNodes
<1>4. PICK coo, N, m : coo = kron_coo.list /\ N = Dimension(kron_coo.k) /\ SortedList(coo, m, N)
  BY <1>1, <1>2
<1>5. PICK g, stored : g = Graph(coo, N) /\ stored = Occupied(coo, N)
  OBVIOUS
<1>6. PICK l, r : l = entry[1] /\ r = entry[2]
  OBVIOUS
<1>7. l \in Sparse /\ r \in Sparse /\ a = PackOf(l, coo, N) /\ b = PackOf(r, coo, N)
  BY <1>4, <1>6, PackFunctions
<1>8. PICK P, L, Q, R : P = OperandOf(l, stored) /\ L = OperandOf(l, g) /\ Q = OperandOf(r, stored) /\ R = OperandOf(r, g)
  OBVIOUS
<1>9. a = StoredFormat(l, P, L).matrix /\ b = StoredFormat(r, Q, R).matrix
  BY <1>4, <1>5, <1>7, <1>8, PackIs
<1>10. Stores(stored, g) /\ IsDense(g) /\ g.row_count = N /\ g.col_count = N
  BY <1>4, <1>5, GraphIs, StoresFacts
<1>11. PICK h, turned : h = Transpose(g) /\ turned = Transpose(stored)
  OBVIOUS
<1>12. Stores(turned, h) /\ h.row_count = N /\ h.col_count = N
  BY <1>10, <1>11, TransposeIs, TransposeStores
<1>13. ((P = stored /\ L = g) \/ (P = turned /\ L = h)) /\ ((Q = stored /\ R = g) \/ (Q = turned /\ R = h))
  BY <1>8, <1>11 DEF OperandOf
<1>14. StoredSquares(P, L, Q, R, N)
  <2>1. N \in Nat
    BY <1>4 DEF SortedList
  <2>2. QED
    BY <1>10, <1>12, <1>13, <2>1 DEF StoredSquares
<1>15. PICK cells, values : cells = assemble(a, b) /\ values = compute(a, b)
  OBVIOUS
<1>16. OutputHolds(cells, values, L, R)
  BY <1>6, <1>9, <1>14, <1>15, EntryOutput
<1>17. PICK n : CellsWithValues(cells, values, n)
  BY <1>16 DEF OutputHolds
<1>18. n \in Nat /\ DOMAIN cells = 1 .. n
  BY <1>17 DEF CellsWithValues
<1>19. Len(cells) = n
  BY <1>18, LengthIs
<1>20. PackLength(l, a) \in Nat /\ PackLength(r, b) \in Nat
  BY <1>7, <1>9, <1>14, StoredLength DEF StoredSquares
<1>21. QED
  BY <1>3, <1>6, <1>15, <1>18, <1>19, <1>20

-----------------------------------------------------------------------------
(* The steps that allocate.                                                *)

\* The calls of a function that starts with nothing leave at most four arrays.
LEMMA LeadsFew == ASSUME NEW calls, NEW K, Leads({}, calls, K) PROVE Cardinality(K) <= 4
<1>0. PICK held : Holds(calls, held, {}, K)
  BY DEF Leads
<1>1. PICK n : n = Len(calls) /\ n \in Nat
  BY DEF Leads
<1>2. CASE n = 0
  <2>1. K = {}
    BY <1>0, <1>1, <1>2 DEF Holds
  <2>2. QED
    BY <2>1, FS_EmptySet
<1>3. CASE n # 0
  <2>1. n \in 1 .. n
    BY <1>1, <1>3
  <2>2. QED
    BY <1>0, <1>1, <2>1 DEF Holds
<1>4. QED
  BY <1>2, <1>3

\* What the calls of a function do to the heap and the log.
LEMMA AllocateIs ==
  ASSUME NEW calls, \E K : Leads({}, calls, K), IsHeap(heap), Cardinality(DOMAIN heap) <= 8,
         NEW usage, LogHasRoom => Logs(log[func_idx], heap, usage), NEW s, s = After(calls)
  PROVE  /\ IsHeap(s.heap) /\ DOMAIN s.heap = DOMAIN heap \cup {s.at[a] : a \in DOMAIN s.at}
         /\ Cardinality(DOMAIN s.heap) <= Cardinality(DOMAIN heap) + 4
         /\ LogHasRoom => Logs(s.log, s.heap, usage)
<1>1. PICK K : Leads({}, calls, K)
  OBVIOUS
<1>2. PICK base : base = DOMAIN heap
  OBVIOUS
<1>3. PICK s0 : s0 = [heap |-> heap, log |-> log[func_idx], at |-> <<>>]
  OBVIOUS
<1>4. s0.heap = heap /\ s0.log = log[func_idx] /\ DOMAIN s0.at = {}
  BY <1>3
<1>5. IsFiniteSet(base) /\ Cardinality(base) \in Nat /\ IsFiniteSet({}) /\ Cardinality({}) = 0
  BY <1>2, FS_EmptySet, FS_CardinalityType DEF IsHeap
<1>6. Located(s0, base, usage)
  <2>1. {s0.at[a] : a \in DOMAIN s0.at} = {}
    BY <1>4
  <2>2. QED
    BY <1>2, <1>4, <1>5, <2>1 DEF Located
<1>7. Located(s, base, usage) /\ DOMAIN s.at = K
  BY <1>1, <1>2, <1>3, <1>6, AfterPlaces
<1>8. Cardinality(K) <= 4 /\ Cardinality(K) \in Nat
  BY <1>1, <1>7, LeadsFew, FS_CardinalityType DEF Located
<1>9. QED
  BY <1>2, <1>5, <1>7, <1>8 DEF Located

\* What PackCalls and AssembleCalls ask for is what the allocator can do.
LEMMA PackCallsLead ==
  ASSUME NEW format, NEW matrix, kron_coo.k \in Nat, PackLength(format, matrix) \in Nat
  PROVE  \E K : Leads({}, PackCalls(format, matrix), K)
  BY PackLeads DEF PackLength

\* The facts that the steps of a kernel need.
LEMMA KernelLeads ==
  ASSUME EdgesBetweenNodes, TensorsInv, phase \in Running \cup {"kernel"}, func_idx \in DOMAIN test_entries,
         NEW a, a = pack_a(kron_coo.list, Dimension(kron_coo.k)), NEW b, b = pack_b(kron_coo.list, Dimension(kron_coo.k))
  PROVE  /\ \E K : Leads({}, PackCalls(entry[1], a), K)
         /\ \E K : Leads({}, PackCalls(entry[2], b), K)
         /\ \E K : Leads({}, AssembleCalls(entry[3], Len(assemble(a, b))), K)
<1>1. \E f \in Files : f.read = "whole" /\ kron_coo = Parsed(f)
  BY DEF TensorsInv, Running
<1>2. PICK n : n = Len(assemble(a, b))
  OBVIOUS
<1>3. kron_coo.k \in Nat /\ PackLength(entry[1], a) \in Nat /\ PackLength(entry[2], b) \in Nat /\ n \in Nat
  BY <1>1, <1>2, LengthsAre
<1>4. \E K : Leads({}, PackCalls(entry[1], a), K)
  BY <1>3, PackCallsLead
<1>5. \E K : Leads({}, PackCalls(entry[2], b), K)
  BY <1>3, PackCallsLead
<1>6. \E K : Leads({}, AssembleCalls(entry[3], n), K)
  BY <1>3, AssembleLeads
<1>7. QED
  BY <1>2, <1>4, <1>5, <1>6

\* The bytes of the heap, as a sum.
LEMMA BytesIs == Bytes = SumOf(heap, DOMAIN heap)
  BY Zenon DEF Bytes, Total, MapThenSumSet, MapThenFoldSet, SumOf

\* While the tensors of a kernel are made, its log has the heap.
LEMMA LogsWhilePacking ==
  ASSUME LogInv, phase \in {"pack_a", "pack_b", "assembled"}, func_idx \in DOMAIN test_entries
  PROVE  Logs(log[func_idx], heap, before)
  BY BytesIs DEF LogInv, Logs

\* Before that, the log is empty.
LEMMA LogsBefore ==
  ASSUME LogInv, phase = "kernel", func_idx \in DOMAIN test_entries, DOMAIN heap = {}
  PROVE  Logs(log[func_idx], heap, log[func_idx].memory_usage)
<1>1. PICK l : l = log[func_idx]
  OBVIOUS
<1>2. IsLog(l) /\ l.allocs = NoLog.allocs
  BY <1>1 DEF LogInv
<1>3. \A slot \in 1 .. Slots : l.allocs[slot] = NoAlloc
  BY <1>2 DEF NoLog
<1>4. Recorded(l, heap)
  BY <1>3 DEF Recorded
<1>5. SumOf(heap, DOMAIN heap) = 0
  <2>1. Summable(heap, DOMAIN heap)
    BY FS_EmptySet DEF Summable
  <2>2. QED
    BY <2>1, SumStep
<1>6. l.memory_usage \in Int
  BY <1>2 DEF IsLog
<1>7. QED
  BY <1>1, <1>2, <1>4, <1>5, <1>6 DEF Logs

-----------------------------------------------------------------------------
(* The invariant of the heap and the log.                                  *)

\* The same in the next state.
LEMMA BytesNext == Bytes' = SumOf(heap', DOMAIN heap')
  BY Zenon DEF Bytes, Total, MapThenSumSet, MapThenFoldSet, SumOf

\* The heap, and the log when it has room.
HeapAndLogInv == HeapInv /\ (LogHasRoom => LogInv)

\* A tensor that is not there has nothing to give back.
LEMMA NoTensorFreed == Freed(NoTensor) = {}
  BY DEF Freed, NoTensor

\* The heap and the logs are empty at the start.
LEMMA InitHeapAndLog == Init => HeapAndLogInv
<1> SUFFICES ASSUME Init PROVE HeapAndLogInv
  OBVIOUS
<1>1. /\ phase = "load" /\ A = NoTensor /\ B = NoTensor /\ C = NoTensor /\ heap = <<>>
      /\ log = [i \in DOMAIN test_entries |-> NoLog]
  BY DEF Init
<1>2. DOMAIN heap = {} /\ heap = [p \in DOMAIN heap |-> heap[p]]
  BY <1>1
<1>3. Freed(A) \cup Freed(B) \cup Freed(C) = {}
  BY <1>1, NoTensorFreed
<1>4. HeapInv
  BY <1>1, <1>2, <1>3, FS_EmptySet DEF HeapInv
<1>5. IsLog(NoLog)
  BY DEF IsLog, NoLog
<1>6. log = [i \in DOMAIN test_entries |-> log[i]]
  BY <1>1
<1>7. \A i \in DOMAIN test_entries : IsLog(log[i]) /\ log[i].allocs = NoLog.allocs
  BY <1>1, <1>5
<1>8. LogInv
  BY <1>1, <1>6, <1>7 DEF LogInv
<1>9. QED
  BY <1>4, <1>8 DEF HeapAndLogInv

\* A step that leaves the tensors, the heap and the logs, and does not pack or assemble.
LEMMA SameHeap ==
  ASSUME HeapInv, UNCHANGED <<A, B, C, heap>>,
         \/ phase \in {"load", "aborted", "kernel"} /\ phase' \in {"load", "aborted", "kernel"}
         \/ phase' \in {"testing", "computed"}
         \/ phase' = phase
  PROVE  HeapInv'
<1>1. Freed(A)' = Freed(A) /\ Freed(B)' = Freed(B) /\ Freed(C)' = Freed(C)
  BY DEF Freed
<1>2. NoTensor' = NoTensor
  BY DEF NoTensor
<1>3. QED
  BY <1>1, <1>2 DEF HeapInv

\* A step outside of packing and assembling that leaves the logs, all of them empty.
LEMMA SameLog ==
  ASSUME LogInv, log' = log, phase \notin {"pack_a", "pack_b", "assembled"}, phase' \notin {"pack_a", "pack_b", "assembled"}
  PROVE  LogInv'
<1>1. \A i \in DOMAIN test_entries : IsLog(log'[i]) /\ log'[i].allocs = NoLog.allocs
  BY DEF LogInv
<1>2. log' = [i \in DOMAIN test_entries |-> log'[i]]
  BY DEF LogInv
<1>3. QED
  BY <1>1, <1>2 DEF LogInv

\* A step that changes the log of the kernel.
LEMMA ChangedLog ==
  ASSUME LogInv, func_idx \in DOMAIN test_entries, func_idx' = func_idx,
         phase \in {"kernel", "pack_a", "pack_b"}, phase' \in {"pack_a", "pack_b", "assembled"},
         NEW l, log' = [log EXCEPT ![func_idx] = l], Logs(l, heap', before')
  PROVE  LogInv'
<1>1. PICK D : D = DOMAIN test_entries
  OBVIOUS
<1>2. PICK j : j = func_idx
  OBVIOUS
<1>3. log = [i \in D |-> log[i]] /\ \A i \in D : IsLog(log[i]) /\ (i # j => log[i].allocs = NoLog.allocs)
  BY <1>1, <1>2 DEF LogInv
<1>4. /\ log' = [i \in D |-> log'[i]]
      /\ log'[j] = l /\ \A i \in D : i # j => log'[i] = log[i]
  BY <1>1, <1>2, <1>3
<1>5. IsLog(l) /\ Recorded(l, heap') /\ before' \in Int /\ l.memory_usage - before' = Bytes'
  BY BytesNext DEF Logs
<1>6. \A i \in D : IsLog(log'[i]) /\ (log'[i].allocs = NoLog.allocs \/ i = j)
  BY <1>3, <1>4, <1>5
<1>7. Recorded(log[func_idx], heap)' /\ (log[func_idx].memory_usage - before = Bytes)'
  BY <1>2, <1>4, <1>5 DEF Recorded, NoAlloc
<1>8. QED
  BY <1>1, <1>2, <1>4, <1>5, <1>6, <1>7 DEF LogInv

\* The calls of a function, when the heap has at most eight arrays.
LEMMA Allocates ==
  ASSUME HeapInv, LogHasRoom => LogInv, func_idx \in DOMAIN test_entries, func_idx' = func_idx,
         phase \in {"kernel", "pack_a", "pack_b"}, phase' \in {"pack_a", "pack_b", "assembled"},
         NEW calls, \E K : Leads({}, calls, K), Allocate(calls), Cardinality(DOMAIN heap) <= 8,
         LogHasRoom => Logs(log[func_idx], heap, before')
  PROVE  /\ IsHeap(heap') /\ DOMAIN heap' = DOMAIN heap \cup {After(calls).at[a] : a \in DOMAIN After(calls).at}
         /\ Cardinality(DOMAIN heap') <= Cardinality(DOMAIN heap) + 4
         /\ LogHasRoom => LogInv'
<1>1. IsHeap(heap)
  BY DEF HeapInv, IsHeap
<1>2. PICK usage : usage = before'
  OBVIOUS
<1>3. PICK s : s = After(calls)
  OBVIOUS
<1>4. /\ IsHeap(s.heap) /\ DOMAIN s.heap = DOMAIN heap \cup {s.at[a] : a \in DOMAIN s.at}
      /\ Cardinality(DOMAIN s.heap) <= Cardinality(DOMAIN heap) + 4
      /\ LogHasRoom => Logs(s.log, s.heap, usage)
  BY <1>1, <1>2, <1>3, AllocateIs
<1>5. heap' = s.heap /\ log' = [log EXCEPT ![func_idx] = s.log]
  BY <1>3 DEF Allocate
<1>6. ASSUME LogHasRoom PROVE LogInv'
  <2>1. PICK l : l = s.log
    OBVIOUS
  <2>2. Logs(l, heap', before')
    BY <1>2, <1>4, <1>5, <1>6, <2>1
  <2>3. QED
    BY <1>5, <1>6, <2>1, <2>2, ChangedLog
<1>7. QED
  BY <1>3, <1>4, <1>5, <1>6

\* Between kernels there is nothing in the heap.
LEMMA HeapIsEmpty ==
  ASSUME HeapInv, phase \in {"load", "kernel", "aborted"} PROVE DOMAIN heap = {}
  BY NoTensorFreed DEF HeapInv

\* Every step keeps the heap that of the tensors, and the log that of the heap.
LEMMA NextHeapAndLog ==
  ASSUME EdgesBetweenNodes PROVE TensorsInv /\ HeapAndLogInv /\ [Next]_vars => HeapAndLogInv'
<1> SUFFICES ASSUME TensorsInv, HeapInv, LogHasRoom => LogInv, [Next]_vars
             PROVE  HeapInv' /\ (LogHasRoom => LogInv')
  BY DEF HeapAndLogInv, LogHasRoom
<1>1. ASSUME NEW f \in Files, LoadKron(f) PROVE HeapInv' /\ (LogHasRoom => LogInv')
  <2>1. phase = "load" /\ phase' \in {"load", "aborted", "kernel"} /\ UNCHANGED <<A, B, C, heap, log>>
    BY <1>1 DEF LoadKron, tensorVars
  <2>2. QED
    BY <2>1, SameHeap, SameLog
<1>2. CASE Skip
  <2>1. phase = "kernel" /\ phase' = "kernel" /\ UNCHANGED <<A, B, C, heap, log>>
    BY <1>2 DEF Skip, tensorVars
  <2>2. QED
    BY <2>1, SameHeap, SameLog
<1>3. CASE PackA
  <2>1. PICK a, b : a = pack_a(kron_coo.list, Dimension(kron_coo.k)) /\ b = pack_b(kron_coo.list, Dimension(kron_coo.k))
    OBVIOUS
  <2>2. PICK calls : calls = PackCalls(entry[1], a)
    OBVIOUS
  <2>3. /\ phase = "kernel" /\ phase' = "pack_a" /\ func_idx \in DOMAIN test_entries /\ func_idx' = func_idx
        /\ before' = log[func_idx].memory_usage /\ UNCHANGED <<B, C>>
    BY <1>3 DEF PackA
  <2>4. Allocate(calls) /\ A' = [matrix |-> a, arrays |-> After(calls).at]
    BY <1>3, <2>1, <2>2 DEF PackA
  <2>5. \E K : Leads({}, calls, K)
    BY <2>1, <2>2, <2>3, KernelLeads
  <2>6. DOMAIN heap = {} /\ Cardinality(DOMAIN heap) = 0
    BY <2>3, HeapIsEmpty, FS_EmptySet
  <2>7. LogHasRoom => Logs(log[func_idx], heap, before')
    BY <2>3, <2>6, LogsBefore
  <2>8. /\ IsHeap(heap') /\ DOMAIN heap' = DOMAIN heap \cup {After(calls).at[x] : x \in DOMAIN After(calls).at}
        /\ Cardinality(DOMAIN heap') <= Cardinality(DOMAIN heap) + 4
        /\ LogHasRoom => LogInv'
    <3>1. Cardinality(DOMAIN heap) <= 8
      BY <2>6
    <3>2. phase \in {"kernel", "pack_a", "pack_b"} /\ phase' \in {"pack_a", "pack_b", "assembled"}
      BY <2>3
    <3>3. func_idx \in DOMAIN test_entries /\ func_idx' = func_idx
      BY <2>3
    <3>4. QED
      BY <2>4, <2>5, <2>7, <3>1, <3>2, <3>3, Allocates
  <2>9. DOMAIN heap' = Freed(A)' \cup Freed(B)' \cup Freed(C)' /\ B' = NoTensor' /\ C' = NoTensor'
    <3>1. B = NoTensor /\ C = NoTensor
      BY <2>3 DEF HeapInv
    <3>2. Freed(B)' = {} /\ Freed(C)' = {} /\ B' = NoTensor' /\ C' = NoTensor'
      BY <2>3, <3>1, NoTensorFreed DEF Freed, NoTensor
    <3>3. Freed(A)' = {After(calls).at[x] : x \in DOMAIN After(calls).at}
      BY <2>4 DEF Freed
    <3>4. QED
      BY <2>6, <2>8, <3>2, <3>3
  <2>10. QED
    BY <2>3, <2>6, <2>8, <2>9 DEF HeapInv, IsHeap
<1>4. CASE PackB
  <2>1. PICK a, b : a = pack_a(kron_coo.list, Dimension(kron_coo.k)) /\ b = pack_b(kron_coo.list, Dimension(kron_coo.k))
    OBVIOUS
  <2>2. PICK calls : calls = PackCalls(entry[2], b)
    OBVIOUS
  <2>3. phase = "pack_a" /\ phase' = "pack_b" /\ UNCHANGED <<func_idx, A, C, before>>
    BY <1>4 DEF PackB
  <2>4. Allocate(calls) /\ B' = [matrix |-> b, arrays |-> After(calls).at]
    BY <1>4, <2>1, <2>2 DEF PackB
  <2>5. phase \in Running /\ func_idx \in DOMAIN test_entries
    BY <2>3 DEF TensorsInv, Running
  <2>6. \E K : Leads({}, calls, K)
    BY <2>1, <2>2, <2>5, KernelLeads
  <2>7. Cardinality(DOMAIN heap) <= 4 /\ Cardinality(DOMAIN heap) \in Nat
    BY <2>3, FS_CardinalityType DEF HeapInv
  <2>8. LogHasRoom => Logs(log[func_idx], heap, before')
    BY <2>3, <2>5, LogsWhilePacking
  <2>9. /\ IsHeap(heap') /\ DOMAIN heap' = DOMAIN heap \cup {After(calls).at[x] : x \in DOMAIN After(calls).at}
        /\ Cardinality(DOMAIN heap') <= Cardinality(DOMAIN heap) + 4
        /\ LogHasRoom => LogInv'
    BY <2>3, <2>4, <2>5, <2>6, <2>7, <2>8, Allocates
  <2>10. DOMAIN heap' = Freed(A)' \cup Freed(B)' \cup Freed(C)' /\ C' = NoTensor'
    <3>1. B = NoTensor /\ C = NoTensor /\ DOMAIN heap = Freed(A) \cup Freed(B) \cup Freed(C)
      BY <2>3 DEF HeapInv
    <3>2. Freed(A)' = Freed(A) /\ Freed(C)' = {} /\ Freed(B) = {} /\ Freed(C) = {} /\ C' = NoTensor'
      BY <2>3, <3>1, NoTensorFreed DEF Freed, NoTensor
    <3>3. Freed(B)' = {After(calls).at[x] : x \in DOMAIN After(calls).at}
      BY <2>4 DEF Freed
    <3>4. QED
      BY <2>9, <3>1, <3>2, <3>3
  <2>11. Cardinality(DOMAIN heap') <= 8
    <3>1. PICK m, n : m = Cardinality(DOMAIN heap) /\ n = Cardinality(DOMAIN heap')
      OBVIOUS
    <3>2. n \in Nat
      BY <2>9, <3>1, FS_CardinalityType DEF IsHeap
    <3>3. QED
      BY <2>7, <2>9, <3>1, <3>2
  <2>12. HeapInv'
    BY <2>3, <2>9, <2>10, <2>11 DEF HeapInv, IsHeap
  <2>13. QED
    BY <2>9, <2>12
<1>5. CASE Assemble
  <2>1. PICK a, b : a = pack_a(kron_coo.list, Dimension(kron_coo.k)) /\ b = pack_b(kron_coo.list, Dimension(kron_coo.k))
    OBVIOUS
  <2>2. PICK cells : cells = assemble(a, b)
    OBVIOUS
  <2>3. PICK calls : calls = AssembleCalls(entry[3], Len(cells))
    OBVIOUS
  <2>4. phase = "pack_b" /\ phase' = "assembled" /\ UNCHANGED <<func_idx, A, B, before>>
    BY <1>5 DEF Assemble
  <2>5. phase \in Running /\ func_idx \in DOMAIN test_entries /\ A.matrix = a /\ B.matrix = b
    BY <2>1, <2>4 DEF TensorsInv, Running
  <2>6. Allocate(calls) /\ C' = [matrix |-> cells, arrays |-> After(calls).at]
    BY <1>5, <2>2, <2>3, <2>5 DEF Assemble
  <2>7. \E K : Leads({}, calls, K)
    BY <2>1, <2>2, <2>3, <2>5, KernelLeads
  <2>8. Cardinality(DOMAIN heap) <= 8 /\ Cardinality(DOMAIN heap) \in Nat
    BY <2>4, FS_CardinalityType DEF HeapInv
  <2>9. LogHasRoom => Logs(log[func_idx], heap, before')
    BY <2>4, <2>5, LogsWhilePacking
  <2>10. /\ IsHeap(heap') /\ DOMAIN heap' = DOMAIN heap \cup {After(calls).at[x] : x \in DOMAIN After(calls).at}
         /\ LogHasRoom => LogInv'
    BY <2>4, <2>5, <2>6, <2>7, <2>8, <2>9, Allocates
  <2>11. DOMAIN heap' = Freed(A)' \cup Freed(B)' \cup Freed(C)'
    <3>1. C = NoTensor /\ DOMAIN heap = Freed(A) \cup Freed(B) \cup Freed(C)
      BY <2>4 DEF HeapInv
    <3>2. Freed(A)' = Freed(A) /\ Freed(B)' = Freed(B) /\ Freed(C) = {}
      BY <2>4, <3>1, NoTensorFreed DEF Freed
    <3>3. Freed(C)' = {After(calls).at[x] : x \in DOMAIN After(calls).at}
      BY <2>6 DEF Freed
    <3>4. QED
      BY <2>10, <3>1, <3>2, <3>3
  <2>12. QED
    BY <2>4, <2>10, <2>11 DEF HeapInv, IsHeap
<1>6. CASE SetFields
  <2>1. phase = "assembled" /\ phase' = "testing" /\ UNCHANGED <<func_idx, A, B, C, heap>>
        /\ log' = [log EXCEPT ![func_idx].allocs = NoLog.allocs]
    BY <1>6 DEF SetFields
  <2>2. HeapInv'
    BY <2>1, SameHeap
  <2>3. ASSUME LogHasRoom PROVE LogInv'
    <3>1. PICK D, j, n : D = DOMAIN test_entries /\ j = func_idx /\ n = NoLog.allocs
      OBVIOUS
    <3>2. j \in D
      BY <2>1, <3>1 DEF TensorsInv, Running
    <3>3. log = [i \in D |-> log[i]] /\ \A i \in D : IsLog(log[i]) /\ (i # j => log[i].allocs = n)
      BY <2>3, <3>1 DEF LogInv
    <3>4. n = [slot \in 1 .. Slots |-> n[slot]]
      BY <3>1 DEF NoLog
    <3>5. /\ log' = [i \in D |-> log'[i]] /\ \A i \in D : i # j => log'[i] = log[i]
          /\ log'[j] = [log[j] EXCEPT !.allocs = n]
      BY <2>1, <3>1, <3>2, <3>3
    <3>6. PICK l : l = log[j]
      OBVIOUS
    <3>7. l = [memory_usage |-> l.memory_usage, allocs |-> l.allocs] /\ l.memory_usage \in Int
      BY <3>2, <3>3, <3>6 DEF IsLog
    <3>8. log'[j] = [memory_usage |-> l.memory_usage, allocs |-> n]
      BY <3>5, <3>6, <3>7
    <3>9. IsLog(log'[j]) /\ log'[j].allocs = n
      BY <3>4, <3>7, <3>8 DEF IsLog
    <3>10. \A i \in D : IsLog(log'[i]) /\ log'[i].allocs = n
      BY <3>3, <3>5, <3>9
    <3>11. QED
      BY <2>1, <3>1, <3>5, <3>10 DEF LogInv
  <2>4. QED
    BY <2>2, <2>3
<1>7. CASE Compute
  <2>1. phase \in {"testing", "computed"} /\ phase' = "computed" /\ UNCHANGED <<A, B, C, heap, log>>
    BY <1>7 DEF Compute
  <2>2. QED
    BY <2>1, SameHeap, SameLog
<1>8. CASE FreeTensors
  <2>1. /\ phase \in {"testing", "computed"} /\ phase' = "kernel" /\ log' = log
        /\ heap' = Without(heap, Freed(C) \cup Freed(A) \cup Freed(B))
        /\ A' = NoTensor /\ B' = NoTensor /\ C' = NoTensor
    BY <1>8 DEF FreeTensors
  <2>2. IsHeap(heap)
    BY DEF HeapInv, IsHeap
  <2>3. IsHeap(heap') /\ DOMAIN heap' = DOMAIN heap \ (Freed(C) \cup Freed(A) \cup Freed(B))
    BY <2>1, <2>2, HeapWithout
  <2>4. DOMAIN heap' = {}
    BY <2>3 DEF HeapInv
  <2>5. A' = NoTensor' /\ B' = NoTensor' /\ C' = NoTensor' /\ Freed(A)' = {} /\ Freed(B)' = {} /\ Freed(C)' = {}
    BY <2>1, NoTensorFreed DEF Freed, NoTensor
  <2>6. HeapInv'
    BY <2>1, <2>3, <2>4, <2>5 DEF HeapInv, IsHeap
  <2>7. LogHasRoom => LogInv'
    BY <2>1, SameLog
  <2>8. QED
    BY <2>6, <2>7
<1>9. CASE SaveCsv
  <2>1. phase = "kernel" /\ phase' = "load" /\ UNCHANGED <<A, B, C, heap, log>>
    BY <1>9 DEF SaveCsv, tensorVars
  <2>2. QED
    BY <2>1, SameHeap, SameLog
<1>10. CASE UNCHANGED vars
  <2>1. UNCHANGED <<A, B, C, heap, log, phase, func_idx, before>>
    BY <1>10 DEF vars, tensorVars
  <2>2. HeapInv'
    BY <2>1, SameHeap
  <2>3. ASSUME LogInv PROVE LogInv'
    <3>1. Bytes' = Bytes
      BY <2>1, BytesNext, BytesIs
    <3>2. CASE phase \in {"pack_a", "pack_b", "assembled"}
      <4>1. Recorded(log[func_idx], heap)' /\ (log[func_idx].memory_usage - before = Bytes)' /\ before' \in Int
        BY <2>1, <2>3, <3>1, <3>2 DEF LogInv, Recorded, NoAlloc
      <4>2. \A i \in DOMAIN test_entries : IsLog(log'[i]) /\ (log'[i].allocs = NoLog.allocs \/ i = func_idx)
        BY <2>1, <2>3 DEF LogInv
      <4>3. log' = [i \in DOMAIN test_entries |-> log'[i]]
        BY <2>1, <2>3 DEF LogInv
      <4>4. QED
        BY <2>1, <3>2, <4>1, <4>2, <4>3 DEF LogInv
    <3>3. CASE phase \notin {"pack_a", "pack_b", "assembled"}
      BY <2>1, <2>3, <3>3, SameLog
    <3>4. QED
      BY <3>2, <3>3
  <2>4. QED
    BY <2>2, <2>3
<1>11. QED
  BY <1>1, <1>2, <1>3, <1>4, <1>5, <1>6, <1>7, <1>8, <1>9, <1>10 DEF Next, Done

\* Between kernels every array of a tensor has been given back, by any options, however many
\* elements the arrays start with and whatever room the logs have.
THEOREM TacoBenchNothingKept == ASSUME NothingIsNotWanted, EdgesBetweenNodes PROVE Spec => []NothingKept
<1>1. HeapAndLogInv => NothingKept
  BY HeapIsEmpty DEF HeapAndLogInv, NothingKept
<1>2. QED
  BY <1>1, InitTensors, NextTensors, InitHeapAndLog, NextHeapAndLog, PTL DEF Spec

\* The invariant says of the log what LogExact does.
LEMMA LogIsExact == ASSUME LogInv PROVE LogExact
<1> SUFFICES ASSUME phase \in {"pack_a", "pack_b", "assembled"} PROVE LogExact
  BY DEF LogExact
<1>1. PICK l : l = log[func_idx]
  OBVIOUS
<1>2. Recorded(l, heap) /\ l.memory_usage - before = Bytes
  BY <1>1 DEF LogInv
<1>3. PICK allocs : allocs = l.allocs
  OBVIOUS
<1>4. PICK used : used = {slot \in 1 .. Slots : allocs[slot] # NoAlloc}
  OBVIOUS
<1>5. \A slot \in used : \E p \in DOMAIN heap : heap[p] > 0 /\ allocs[slot] = [pointer |-> p, request |-> heap[p]]
  BY <1>2, <1>3, <1>4 DEF Recorded
<1>6. ASSUME NEW slot \in used
      PROVE  <<allocs[slot].pointer, allocs[slot].request>> \in {<<p, heap[p]>> : p \in {q \in DOMAIN heap : heap[q] > 0}}
  <2>1. PICK p \in DOMAIN heap : heap[p] > 0 /\ allocs[slot] = [pointer |-> p, request |-> heap[p]]
    BY <1>5
  <2>2. allocs[slot].pointer = p /\ allocs[slot].request = heap[p]
    BY <2>1
  <2>3. <<allocs[slot].pointer, allocs[slot].request>> = <<p, heap[p]>>
    BY <2>2
  <2>4. p \in {q \in DOMAIN heap : heap[q] > 0}
    BY <2>1
  <2>5. QED
    BY <2>3, <2>4
<1>7. ASSUME NEW p \in DOMAIN heap, heap[p] > 0
      PROVE  <<p, heap[p]>> \in {<<allocs[slot].pointer, allocs[slot].request>> : slot \in used}
  <2>1. PICK slot \in 1 .. Slots : allocs[slot] = [pointer |-> p, request |-> heap[p]]
    BY <1>2, <1>3, <1>7 DEF Recorded
  <2>2. allocs[slot] # NoAlloc
    BY <1>7, <2>1 DEF NoAlloc
  <2>3. QED
    BY <1>4, <2>1, <2>2
<1>8. {<<allocs[slot].pointer, allocs[slot].request>> : slot \in used} = {<<p, heap[p]>> : p \in {q \in DOMAIN heap : heap[q] > 0}}
  BY <1>6, <1>7
<1>9. QED
  BY <1>1, <1>2, <1>3, <1>4, <1>8 DEF LogExact

\* Until the fields are set, the log of a kernel has exactly the arrays that its calls have left
\* allocated, however often they doubled and moved, and its usage is theirs, if it has room for
\* three tensors.
THEOREM TacoBenchLogExact ==
  ASSUME NothingIsNotWanted, EdgesBetweenNodes, LogHasRoom PROVE Spec => []LogExact
<1>1. HeapAndLogInv => LogExact
  BY LogIsExact DEF HeapAndLogInv
<1>2. QED
  BY <1>1, InitTensors, NextTensors, InitHeapAndLog, NextHeapAndLog, PTL DEF Spec
=============================================================================
