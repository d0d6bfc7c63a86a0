----------------------------- MODULE TacoBench -----------------------------
(***************************************************************************)
(* main of src/taco_bench.c: for every Kronecker graph, each kernel packs  *)
(* the graph twice, assembles the output, reports the memory that this     *)
(* took, is timed, and gives its tensors back.  The memory is counted by   *)
(* a log that sees the calls of the allocator.  heap is what the allocator *)
(* itself knows, for the arrays of the tensors; the headers of tensors,    *)
(* which the log does not see either, are left out.                        *)
(*   The results go into a series, whose entries are saved after each      *)
(* graph.  Every tester opens two event descriptors and closes neither.    *)
(***************************************************************************)
EXTENDS TacoKernels

CONSTANTS
  Files,        \* what a file of the folder may be: k and s in its name, how it reads
                \* ("whole", "empty", "missing" or "unreadable"), its k, s, nnz and edges
  MaxFiles,     \* bound on the files of the folder
  k_min, k_max, sample, Outputs,   \* options: the graphs and the formats of C
  InitialSize,  \* elements that an array that grows starts with; 1048576 in the code
  FakeWords,    \* values in the page that the fake buffer repeats; 2^27 in the code
  Slots,        \* allocations a log has room for; 64 in the code
  TooLargeForCoo, TooLargeForCsr,  \* the largest k of some kernels; 15 and 18 in the code
  Limits,       \* how many descriptors the process may have to spare
  SeriesEntries \* entries of the series; 30 for each kernel in the code

ASSUME FilesAssumption == \A f \in Files : Len(f.edges) <= f.nnz   \* load_kron asserts it
ASSUME LimitsAssumption == Limits \subseteq Nat
ASSUME FakeWordsAssumption == FakeWords \in Nat \ {0}
ASSUME InitialSizeAssumption == InitialSize \in Nat \ {0}
ASSUME SeriesEntriesAssumption == SeriesEntries \in Nat

\* test_entries, from COMBOS: the formats of A, B and C.
test_entries ==
  << <<"MAT_CSR", "MAT_CSR", "MAT_COO">>, <<"MAT_CSR", "MAT_CSC", "MAT_COO">>, <<"MAT_CSR", "MAT_COO", "MAT_COO">>,
     <<"MAT_CSC", "MAT_CSR", "MAT_COO">>, <<"MAT_CSC", "MAT_COO", "MAT_COO">>, <<"MAT_COO", "MAT_CSR", "MAT_COO">>,
     <<"MAT_COO", "MAT_CSC", "MAT_COO">>, <<"MAT_COO", "MAT_COO", "MAT_COO">>, <<"MAT_CSR", "MAT_CSR", "MAT_CSR">>,
     <<"MAT_CSC", "MAT_CSC", "MAT_CSC">> >>

VARIABLES
  phase,      \* "load", "kernel", "pack_a", "pack_b", "assembled", "testing" or "computed"
  files,      \* files visited
  kron_coo,   \* the graph: k and the sorted list
  func_idx,
  A, B, C,    \* the arrays of the tensors: what they hold, and where they are
  vals,       \* what compute wrote into C_vals
  log,        \* taco_mem_logs, by kernel
  heap,       \* address |-> bytes
  series,     \* [entries, current_entry]
  in_error,   \* whether the tester could not open its events
  events,     \* the event descriptors that are open
  limit,      \* the descriptors there are
  csv,        \* the rows of the file of results
  before,     \* history: the usage in the log of the kernel when its packing began
  read,       \* history: how the file of the graph read
  ran         \* history: the kernels run so far, each with its graph

tensorVars == <<A, B, C, vals, log, heap, before>>
seriesVars == <<series, in_error, events, limit, csv, ran>>
vars == <<phase, files, kron_coo, func_idx, tensorVars, seriesVars, read>>

entry == test_entries[func_idx]
NoTensor == [matrix |-> <<>>, arrays |-> <<>>]
NoAlloc == [pointer |-> 0, request |-> 0]
NoLog == [memory_usage |-> 0, allocs |-> [slot \in 1 .. Slots |-> NoAlloc]]

-----------------------------------------------------------------------------
(* The log.                                                                *)

\* Planted bug: the slot of the previous allocation is kept.
Buglog_taco_memory_usage(l, request, pointer, previous) ==
  LET free == {slot \in 1 .. Slots : l.allocs[slot] = NoAlloc}
  IN  IF request = 0 \/ free = {} THEN l
      ELSE [memory_usage |-> l.memory_usage + request,
            allocs |-> [l.allocs EXCEPT ![Min(free)] = [pointer |-> pointer, request |-> request]]]

log_taco_memory_usage(l, request, pointer, previous) ==
  LET mine == {slot \in 1 .. Slots : previous # 0 /\ l.allocs[slot].pointer = previous}
      forgotten == IF mine = {} THEN l
                   ELSE [memory_usage |-> l.memory_usage - l.allocs[Min(mine)].request,
                         allocs |-> [l.allocs EXCEPT ![Min(mine)] = NoAlloc]]
      free == {slot \in 1 .. Slots : forgotten.allocs[slot] = NoAlloc}
  IN  IF request = 0 \/ free = {} THEN forgotten
      ELSE [memory_usage |-> forgotten.memory_usage + request,
            allocs |-> [forgotten.allocs EXCEPT ![Min(free)] = [pointer |-> pointer, request |-> request]]]

\* An allocator that gives out the lowest free address, so that addresses come back soon.
Malloc(h) == CHOOSE p \in 1 .. Cardinality(DOMAIN h) + 1 : p \notin DOMAIN h /\ 1 .. p - 1 \subseteq DOMAIN h
With(h, p, bytes) == [q \in DOMAIN h \cup {p} |-> IF q = p THEN bytes ELSE h[q]]
Without(h, S) == [q \in DOMAIN h \ S |-> h[q]]

\* malloc_log, realloc_log and free_log for an array that the caller knows by a name.
\* A realloc moves the array: the new place is taken before the old one is given back.
Call(s, call) ==
  LET previous == IF call.array \in DOMAIN s.at THEN s.at[call.array] ELSE 0
      pointer == IF call.op = "free" THEN 0 ELSE Malloc(s.heap)
      kept == IF call.op = "malloc" THEN s.heap ELSE Without(s.heap, {previous})
  IN  [heap |-> IF call.op = "free" THEN kept ELSE With(kept, pointer, call.request),
       log |-> log_taco_memory_usage(s.log, call.request, pointer, previous),
       at |-> IF call.op = "free" THEN Without(s.at, {call.array}) ELSE With(s.at, call.array, pointer)]

malloc(array, request) == [op |-> "malloc", array |-> array, request |-> request]
realloc(array, request) == [op |-> "realloc", array |-> array, request |-> request]
free(array) == [op |-> "free", array |-> array, request |-> 0]

\* The heap, the log and the places of the arrays when a function has made its calls.
After(calls) ==
  LET s[i \in 0 .. Len(calls)] ==
        IF i = 0 THEN [heap |-> heap, log |-> log[func_idx], at |-> <<>>] ELSE Call(s[i - 1], calls[i])
  IN  s[Len(calls)]

Width == [pos |-> 4, crd |-> 4, crd1 |-> 4, crd2 |-> 4, vals |-> 8]
Start(arrays) == [i \in DOMAIN arrays |-> malloc(arrays[i], Width[arrays[i]] * InitialSize)]

\* The arrays double, one after the other, whenever they are full and another element comes.
Doublings(count) == Min({n \in 0 .. count : InitialSize * 2 ^ n >= count})
Grow(arrays, count) ==
  [i \in 1 .. Doublings(count) * Len(arrays) |->
     LET array == arrays[1 + ((i - 1) % Len(arrays))]
         doubling == 1 + ((i - 1) \div Len(arrays))
     IN  realloc(array, Width[array] * InitialSize * 2 ^ doubling)]

Dimension(k) == 2 ^ k

PackCalls(format, matrix) ==
  IF format = "MAT_COO"
  THEN <<malloc("pos", 8)>> \o Start(<<"crd1", "crd2", "vals">>) \o Grow(<<"vals", "crd2", "crd1">>, Len(matrix))
  ELSE <<malloc("pos", 4 * (Dimension(kron_coo.k) + 1))>> \o Start(<<"crd", "vals">>)
       \o Grow(<<"vals", "crd">>, Len(matrix.entries))

\* CSR_x_CSR_COO takes its values from the fake buffer, which no log sees.
Fake == entry = <<"MAT_CSR", "MAT_CSR", "MAT_COO">>

\* A sparse output with pointers has a workspace, gone when the values are asked for.
AssembleCalls(format, count) ==
  IF format = "MAT_COO"
  THEN <<malloc("pos", 8)>> \o Start(<<"crd1", "crd2">>) \o Grow(<<"crd2", "crd1">>, count)
       \o (IF Fake THEN <<>> ELSE <<malloc("vals", 8 * count)>>)
  ELSE <<malloc("pos", 4 * (Dimension(kron_coo.k) + 1))>> \o Start(<<"crd">>)
       \o <<malloc("index_list", 4 * Dimension(kron_coo.k)), malloc("already_set", Dimension(kron_coo.k))>>
       \o Grow(<<"crd">>, count)
       \o <<free("index_list"), free("already_set"), malloc("vals", 8 * count)>>

-----------------------------------------------------------------------------
(* The functions of the entry.                                             *)

pack_a(coo, dimension) ==
  CASE func_idx = 1 -> CSR_x_CSR_COO_pack_A(coo, dimension)
    [] func_idx = 2 -> CSR_x_CSC_COO_pack_A(coo, dimension)
    [] func_idx = 3 -> CSR_x_COO_COO_pack_A(coo, dimension)
    [] func_idx = 4 -> CSC_x_CSR_COO_pack_A(coo, dimension)
    [] func_idx = 5 -> CSC_x_COO_COO_pack_A(coo, dimension)
    [] func_idx = 6 -> COO_x_CSR_COO_pack_A(coo, dimension)
    [] func_idx = 7 -> COO_x_CSC_COO_pack_A(coo, dimension)
    [] func_idx = 8 -> COO_x_COO_COO_pack_A(coo, dimension)
    [] func_idx = 9 -> CSR_x_CSR_CSR_pack_A(coo, dimension)
    [] func_idx = 10 -> CSC_x_CSC_CSC_pack_A(coo, dimension)

pack_b(coo, dimension) ==
  CASE func_idx = 1 -> CSR_x_CSR_COO_pack_B(coo, dimension)
    [] func_idx = 2 -> CSR_x_CSC_COO_pack_B(coo, dimension)
    [] func_idx = 3 -> CSR_x_COO_COO_pack_B(coo, dimension)
    [] func_idx = 4 -> CSC_x_CSR_COO_pack_B(coo, dimension)
    [] func_idx = 5 -> CSC_x_COO_COO_pack_B(coo, dimension)
    [] func_idx = 6 -> COO_x_CSR_COO_pack_B(coo, dimension)
    [] func_idx = 7 -> COO_x_CSC_COO_pack_B(coo, dimension)
    [] func_idx = 8 -> COO_x_COO_COO_pack_B(coo, dimension)
    [] func_idx = 9 -> CSR_x_CSR_CSR_pack_B(coo, dimension)
    [] func_idx = 10 -> CSC_x_CSC_CSC_pack_B(coo, dimension)

assemble(a, b) ==
  CASE func_idx = 1 -> CSR_x_CSR_COO_assemble(a, b)
    [] func_idx = 2 -> CSR_x_CSC_COO_assemble(a, b)
    [] func_idx = 3 -> CSR_x_COO_COO_assemble(a, b)
    [] func_idx = 4 -> CSC_x_CSR_COO_assemble(a, b)
    [] func_idx = 5 -> CSC_x_COO_COO_assemble(a, b)
    [] func_idx = 6 -> COO_x_CSR_COO_assemble(a, b)
    [] func_idx = 7 -> COO_x_CSC_COO_assemble(a, b)
    [] func_idx = 8 -> COO_x_COO_COO_assemble(a, b)
    [] func_idx = 9 -> CSR_x_CSR_CSR_assemble(a, b)
    [] func_idx = 10 -> CSC_x_CSC_CSC_assemble(a, b)

compute(a, b) ==
  CASE func_idx = 1 -> CSR_x_CSR_COO_compute(a, b)
    [] func_idx = 2 -> CSR_x_CSC_COO_compute(a, b)
    [] func_idx = 3 -> CSR_x_COO_COO_compute(a, b)
    [] func_idx = 4 -> CSC_x_CSR_COO_compute(a, b)
    [] func_idx = 5 -> CSC_x_COO_COO_compute(a, b)
    [] func_idx = 6 -> COO_x_CSR_COO_compute(a, b)
    [] func_idx = 7 -> COO_x_CSC_COO_compute(a, b)
    [] func_idx = 8 -> COO_x_COO_COO_compute(a, b)
    [] func_idx = 9 -> CSR_x_CSR_CSR_compute(a, b)
    [] func_idx = 10 -> CSC_x_CSC_CSC_compute(a, b)

\* In the fake buffer a later value lands on an earlier one.
Aliased(values) ==
  [p \in DOMAIN values |-> values[Max({q \in DOMAIN values : q % FakeWords = p % FakeWords})]]

-----------------------------------------------------------------------------
(* load_kron.                                                              *)

Entry(cell) == [row |-> cell[1], col |-> cell[2], value |-> 1]

\* Planted bug: the list is used in the order of the file.
BugSorted(list) == list

\* qsort with kron_compare; entries that compare equal come in the order of the list here.
Sorted(list) ==
  LET before_it(i, j) == \/ RowsFirst(<<list[i].row, list[i].col>>, <<list[j].row, list[j].col>>)
                         \/ list[i].row = list[j].row /\ list[i].col = list[j].col /\ i < j
      order == Scan(DOMAIN list, before_it)
  IN  [p \in DOMAIN list |-> list[order[p]]]

\* The declared number of entries; those the file does not give stay as calloc left them.
Listed(f) == [i \in 1 .. f.nnz |-> IF i <= Len(f.edges) THEN Entry(f.edges[i]) ELSE [Entry(<<0, 0>>) EXCEPT !.value = 0]]

Within(k, s) == k >= k_min /\ k < k_max /\ s = sample

\* What the parser makes of the text: nothing at all leaves zeros.
Parsed(f) == IF f.read = "whole" THEN [k |-> f.k, s |-> f.s, nnz |-> f.nnz, list |-> Sorted(Listed(f))]
             ELSE [k |-> 0, s |-> 0, nnz |-> 0, list |-> <<>>]

\* load_kron's result is valid: the name fits, and no line of the text says otherwise.
Valid(f) == Within(f.name_k, f.name_s) /\ (f.read = "whole" => Within(f.k, f.s))

\* A file that has a size but cannot be read gives a text of zeros, which is not a line of
\* information: "Kron file did not contain nnz info before declaring edges."
Aborts(f) ==
  /\ Within(f.name_k, f.name_s)
  /\ f.read = "unreadable" \/ (f.read = "whole" /\ events = limit)

\* Planted bug: main takes whatever load_kron has called valid.
BugWanted(k, s) == k <= k_max

\* main's own test of the graph.
Wanted(k, s) == k <= k_max /\ k >= k_min /\ s = sample

-----------------------------------------------------------------------------
Never == <<>>   \* (u64)-1, the least time of a tester in error
EmptyEntry == [k |-> 0, function |-> 0, alloc |-> 0, kron_nnz |-> 0, results |-> Never]

Init ==
  /\ phase = "load" /\ files = 0
  /\ kron_coo = [k |-> 0, s |-> 0, nnz |-> 0, list |-> <<>>] /\ func_idx = 1
  /\ A = NoTensor /\ B = NoTensor /\ C = NoTensor /\ vals = <<>>
  /\ log = [i \in DOMAIN test_entries |-> NoLog]
  /\ heap = <<>> /\ before = 0
  /\ series = [entries |-> [i \in 1 .. SeriesEntries |-> EmptyEntry], current_entry |-> 0]
  /\ in_error = FALSE /\ events = 0 /\ limit \in Limits
  /\ csv = <<>> /\ read = "" /\ ran = <<>>

\* One turn of the loop over the files; a file that is not wanted is passed over.
LoadKron(f) ==
  /\ phase = "load" /\ files < MaxFiles
  /\ files' = files + 1
  /\ IF Aborts(f) THEN phase' = "aborted" /\ UNCHANGED <<kron_coo, func_idx, read>>
     ELSE IF Valid(f) /\ Wanted(Parsed(f).k, Parsed(f).s)
     THEN kron_coo' = Parsed(f) /\ phase' = "kernel" /\ func_idx' = 1 /\ read' = f.read
     ELSE UNCHANGED <<kron_coo, phase, func_idx, read>>
  /\ UNCHANGED <<tensorVars, seriesVars>>

TooLarge ==
  \/ entry[3] = "MAT_COO" /\ kron_coo.k > TooLargeForCoo
     /\ <<entry[1], entry[2]>> \in {"MAT_CSR", "MAT_COO"} \X {"MAT_CSC", "MAT_COO"}
  \/ entry[3] = "MAT_CSR" /\ kron_coo.k > TooLargeForCsr
     /\ <<entry[1], entry[2]>> \in {<<"MAT_CSR", "MAT_CSC">>, <<"MAT_CSR", "MAT_COO">>, <<"MAT_COO", "MAT_CSR">>}

\* continue: an output that is not wanted, or too large.
Skip ==
  /\ phase = "kernel" /\ func_idx \in DOMAIN test_entries
  /\ entry[3] \notin Outputs \/ TooLarge
  /\ func_idx' = func_idx + 1
  /\ UNCHANGED <<phase, files, kron_coo, tensorVars, seriesVars, read>>

Allocate(calls) == heap' = After(calls).heap /\ log' = [log EXCEPT ![func_idx] = After(calls).log]

PackA ==
  /\ phase = "kernel" /\ func_idx \in DOMAIN test_entries
  /\ entry[3] \in Outputs /\ ~TooLarge
  /\ phase' = "pack_a" /\ before' = log[func_idx].memory_usage
  /\ LET matrix == pack_a(kron_coo.list, Dimension(kron_coo.k))
         calls == PackCalls(entry[1], matrix)
     IN  Allocate(calls) /\ A' = [matrix |-> matrix, arrays |-> After(calls).at]
  /\ ran' = Append(ran, [k |-> kron_coo.k, function |-> func_idx, kron_nnz |-> kron_coo.nnz, file |-> files])
  /\ UNCHANGED <<files, kron_coo, func_idx, B, C, vals, series, in_error, events, limit, csv, read>>

PackB ==
  /\ phase = "pack_a" /\ phase' = "pack_b"
  /\ LET matrix == pack_b(kron_coo.list, Dimension(kron_coo.k))
         calls == PackCalls(entry[2], matrix)
     IN  Allocate(calls) /\ B' = [matrix |-> matrix, arrays |-> After(calls).at]
  /\ UNCHANGED <<files, kron_coo, func_idx, A, C, vals, before, seriesVars, read>>

Assemble ==
  /\ phase = "pack_b" /\ phase' = "assembled"
  /\ LET cells == assemble(A.matrix, B.matrix)
         calls == AssembleCalls(entry[3], Len(cells))
     IN  Allocate(calls) /\ C' = [matrix |-> cells, arrays |-> After(calls).at]
  /\ UNCHANGED <<files, kron_coo, func_idx, A, B, vals, before, seriesVars, read>>

Entry1 == series.current_entry + 1   \* the current entry, counting from 1

\* repetition_series_new_tester: a tester whose events cannot be opened is in error, but
\* one of them may be open.  Then the current entry of the series gets its fields, and the
\* log of the kernel loses its allocations.
SetFields ==
  /\ phase = "assembled" /\ phase' = "testing"
  /\ in_error' = (events + 2 > limit)
  /\ events' = Min({events + 2, limit})
  /\ series' = [series EXCEPT !.entries[Entry1] =
                  [@ EXCEPT !.k = kron_coo.k, !.function = func_idx,
                            !.alloc = log[func_idx].memory_usage, !.kron_nnz = kron_coo.nnz]]
  /\ log' = [log EXCEPT ![func_idx].allocs = NoLog.allocs]
  /\ UNCHANGED <<files, kron_coo, func_idx, A, B, C, vals, heap, before, limit, csv, ran, read>>

\* One test; there are as many as the tester wants.
Compute ==
  /\ phase \in {"testing", "computed"} /\ phase' = "computed"
  /\ ~in_error
  /\ LET values == compute(A.matrix, B.matrix) IN vals' = IF Fake THEN Aliased(values) ELSE values
  /\ UNCHANGED <<files, kron_coo, func_idx, A, B, C, log, heap, before, seriesVars, read>>

\* Planted bug: only the arrays of the second mode and the values are given back.
BugFreed(tensor) == {tensor.arrays[a] : a \in DOMAIN tensor.arrays \ {"crd1"}}

\* free_taco_tensor: all arrays of sparse modes and the values; the fake buffer stays.
Freed(tensor) == {tensor.arrays[a] : a \in DOMAIN tensor.arrays}

\* Planted bug: the series advances before it saves.
BugSaved(time) ==
  [entries |-> [i \in 1 .. SeriesEntries |->
                  IF i = Entry1 + 1 THEN [series.entries[i] EXCEPT !.results = time] ELSE series.entries[i]],
   current_entry |-> Entry1]

\* repetition_series_is_testing at the end of the tests: the results are saved, whether the
\* tester completed or was in error, and the next entry is the current one.
Saved(time) ==
  [entries |-> [series.entries EXCEPT ![Entry1].results = time], current_entry |-> Entry1]

\* A tester's results, told apart by its graph and kernel.
Results == IF in_error THEN Never ELSE <<files, func_idx>>

FreeTensors ==
  /\ phase = (IF in_error THEN "testing" ELSE "computed") /\ phase' = "kernel"
  /\ series' = Saved(Results)
  /\ heap' = Without(heap, Freed(C) \cup Freed(A) \cup Freed(B))
  /\ func_idx' = func_idx + 1
  /\ A' = NoTensor /\ B' = NoTensor /\ C' = NoTensor /\ vals' = <<>>
  /\ UNCHANGED <<files, kron_coo, log, before, in_error, events, limit, csv, ran, read>>

\* The results so far are saved, if a descriptor is left for the file, and the graph is
\* given back with its scratch arena.
SaveCsv ==
  /\ phase = "kernel" /\ func_idx \notin DOMAIN test_entries
  /\ phase' = "load" /\ func_idx' = 1
  /\ csv' = IF events < limit THEN SubSeq(series.entries, 1, series.current_entry) ELSE csv
  /\ kron_coo' = [k |-> 0, s |-> 0, nnz |-> 0, list |-> <<>>] /\ read' = "" /\ in_error' = FALSE
  /\ UNCHANGED <<files, tensorVars, series, events, limit, ran>>

Done == (phase = "aborted" \/ (phase = "load" /\ files = MaxFiles)) /\ UNCHANGED vars

Next ==
  \/ \E f \in Files : LoadKron(f)
  \/ Skip \/ PackA \/ PackB \/ Assemble \/ SetFields \/ Compute \/ FreeTensors \/ SaveCsv
  \/ Done

Spec == Init /\ [][Next]_vars

-----------------------------------------------------------------------------
(* What a tensor stands for.                                               *)

Square == [row_count |-> Dimension(kron_coo.k), col_count |-> Dimension(kron_coo.k)]
Tensor(format, tensor) == [format |-> format, matrix |-> tensor.matrix]
Edge(cell) == Total({p \in DOMAIN kron_coo.list : <<kron_coo.list[p].row, kron_coo.list[p].col>> = cell},
                    LAMBDA p : kron_coo.list[p].value)

PackedIs(format, tensor) ==
  /\ Ascending(Tensor(format, tensor))
  /\ \A cell \in Cells(Square) :
       ValueAt(Tensor(format, tensor), cell) = Edge(IF format = "MAT_CSC" THEN <<cell[2], cell[1]>> ELSE cell)

\* An operand holds the graph, each edge once, its duplicates added up, in ascending
\* order; an operand in CSC holds the transposed graph, for its columns are made from
\* rows (the pack functions, fed by the sort of load_kron).
OperandsHoldGraph ==
  /\ phase = "pack_a" => PackedIs(entry[1], A)
  /\ phase = "pack_b" => PackedIs(entry[2], B)

\* The fake buffer holds the values only while they fit into the page it repeats.
Readable == Fake => Len(C.matrix) <= FakeWords

\* The output stands for the product of the operands: compute, which walks the operands
\* on its own, writes one value for each coordinate of assemble and none behind them,
\* and the values of a cell add up to its element of the product (all kernels of COMBOS);
\* an output with pointers has each cell once, in the order that its pointers need.
OutputIsProduct ==
  phase = "computed" =>
    /\ Len(vals) = Len(C.matrix)
    /\ Readable =>
         \A cell \in Cells(Square) :
           ValueAt([format |-> "MAT_COO", matrix |-> Filled(C.matrix, vals)], cell) =
           Total(Cols(Square), LAMBDA k : ValueAt(Tensor(entry[1], A), <<cell[1], k>>)
                                        * ValueAt(Tensor(entry[2], B), <<k, cell[2]>>))
    /\ entry[3] # "MAT_COO" =>
         \A p \in 2 .. Len(C.matrix) :
           IF entry[3] = "MAT_CSR" THEN RowsFirst(C.matrix[p - 1], C.matrix[p]) ELSE ColsFirst(C.matrix[p - 1], C.matrix[p])

Bytes == Total(DOMAIN heap, LAMBDA p : heap[p])

\* Until the fields are set, the log of the kernel has exactly the arrays that are
\* allocated, at their places and sizes, workspaces and outgrown arrays forgotten, and
\* its usage grew by their bytes since the packing began (log_taco_memory_usage).
LogExact ==
  phase \in {"pack_a", "pack_b", "assembled"} =>
    LET allocs == log[func_idx].allocs
        used == {slot \in 1 .. Slots : allocs[slot] # NoAlloc}
    IN  /\ {<<allocs[slot].pointer, allocs[slot].request>> : slot \in used}
           = {<<p, heap[p]>> : p \in {q \in DOMAIN heap : heap[q] > 0}}
        /\ log[func_idx].memory_usage - before = Bytes

\* The memory reported with a graph is what its tensors take: "Zero out any logs now"
\* comes before the next graph.  The usage of a log is not zeroed, so this fails.
AllocOfThisGraph == phase = "testing" => series.entries[Entry1].alloc = Bytes

\* A graph that is benchmarked is one that was read: a file that is missing or empty comes
\* out of load_kron as a valid graph of nothing, for main to tell from a graph.
GraphsWereRead == phase \notin {"load", "aborted"} => read = "whole" /\ kron_coo.k < k_max

\* Row by row the file has the kernels that were run, each with its own graph and the results
\* of its own tester, never the largest time of one in error; and after a graph ("Checkpoint
\* write out results") it has all of them, unless the testers have used up the descriptors.
SavedRowsAreRuns ==
  /\ \A i \in DOMAIN csv :
       /\ csv[i].k = ran[i].k /\ csv[i].function = ran[i].function /\ csv[i].kron_nnz = ran[i].kron_nnz
       /\ csv[i].results = <<ran[i].file, ran[i].function>>
  /\ phase = "load" /\ events < limit => Len(csv) = Len(ran)

\* Between kernels every array of a tensor has been given back (free_taco_tensor, which
\* has to find them by the modes of the tensor and leave the fake buffer alone).
NothingKept == phase \in {"load", "kernel", "aborted"} => DOMAIN heap = {}

-----------------------------------------------------------------------------
(* The inductive invariant behind SavedRowsAreRuns, and what it and        *)
(* GraphsWereRead need of the options.                                     *)

\* A file without a graph, which load_kron makes one with k = 0 and s = 0, is not a wanted one.
NothingIsNotWanted == ~Wanted(0, 0)

\* The graphs that a kernel has run for.  The files that load_kron or main passes over are not
\* among them, however many of them the folder has.
GraphsRun == {ran[n].file : n \in DOMAIN ran}

\* "Max 30 k.": the series has an entry for every kernel of every graph so far; nothing asks
\* for it when the series advances.
SeriesHasRoom == Cardinality(GraphsRun) * Len(test_entries) <= SeriesEntries

\* Between the start of a kernel and the results of its tester.
Running == {"pack_a", "pack_b", "assembled", "testing", "computed"}

RunRecord ==
  [k : {f.k : f \in Files} \cup {0}, function : DOMAIN test_entries,
   kron_nnz : {f.nnz : f \in Files} \cup {0}, file : Nat]

CountsInv ==
  /\ limit \in Nat /\ events \in 0 .. limit
  /\ in_error \in BOOLEAN /\ (in_error => events = limit)
  /\ files \in Nat /\ func_idx \in 1 .. Len(test_entries) + 1
  /\ phase \in Running \cup {"load", "kernel", "aborted"}
  /\ phase \in Running => func_idx \in DOMAIN test_entries
  /\ kron_coo.k \in {f.k : f \in Files} \cup {0} /\ kron_coo.nnz \in {f.nnz : f \in Files} \cup {0}
  /\ ran \in Seq(RunRecord)

SameRun(row, r) == row.k = r.k /\ row.function = r.function /\ row.kron_nnz = r.kron_nnz
ResultsOf(r) == <<r.file, r.function>>

\* A graph has been through the kernels before func_idx, and through none of them twice.
RunsInv ==
  /\ \A n \in DOMAIN ran :
       /\ ran[n].file <= files
       /\ phase \in Running \cup {"kernel"} /\ ran[n].file = files =>
            ran[n].function < func_idx \/ (phase \in Running /\ ran[n].function = func_idx)
  /\ \A m, n \in DOMAIN ran : ResultsOf(ran[m]) = ResultsOf(ran[n]) => m = n

\* Every run so far has an entry of the series.
RunsFit == Len(ran) <= SeriesEntries

EntryFields(e) ==
  e = [k |-> e.k, function |-> e.function, alloc |-> e.alloc, kron_nnz |-> e.kron_nnz, results |-> e.results]

SeriesInv ==
  /\ series = [entries |-> series.entries, current_entry |-> series.current_entry]
  /\ series.entries = [n \in 1 .. SeriesEntries |-> series.entries[n]]
  /\ \A n \in 1 .. SeriesEntries : EntryFields(series.entries[n])
  /\ series.current_entry = Len(ran) - (IF phase \in Running THEN 1 ELSE 0)
  /\ phase \in Running =>
       /\ Len(ran) > 0
       /\ ran[Len(ran)] = [k |-> kron_coo.k, function |-> func_idx, kron_nnz |-> kron_coo.nnz, file |-> files]
       /\ phase \in {"testing", "computed"} => SameRun(series.entries[Len(ran)], ran[Len(ran)])
  /\ \A n \in 1 .. series.current_entry :
       /\ SameRun(series.entries[n], ran[n])
       /\ events = limit \/ series.entries[n].results = ResultsOf(ran[n])

CsvInv ==
  /\ Len(csv) \in 0 .. Len(ran) /\ DOMAIN csv = 1 .. Len(csv)
  /\ \A n \in DOMAIN csv : SameRun(csv[n], ran[n]) /\ csv[n].results = ResultsOf(ran[n])
  /\ phase = "load" /\ events < limit => Len(csv) = Len(ran)

SavedInv == CountsInv /\ RunsInv /\ (RunsFit => SeriesInv /\ CsvInv)

-----------------------------------------------------------------------------
(* The inductive invariant behind OperandsHoldGraph and OutputIsProduct,   *)
(* and what they need of the files.                                        *)

\* The edges of a file that reads as a graph are between nodes of it.
EdgesBetweenNodes ==
  \A f \in Files : f.read = "whole" =>
    /\ f.k \in Nat /\ f.nnz \in Nat
    /\ f.edges \in Seq((0 .. Dimension(f.k) - 1) \X (0 .. Dimension(f.k) - 1))

\* The graph is that of a file, the tensors come from it, and the values from the tensors.
TensorsInv ==
  /\ phase \in Running => func_idx \in DOMAIN test_entries
  /\ phase \notin {"load", "aborted"} => \E f \in Files : f.read = "whole" /\ kron_coo = Parsed(f)
  /\ phase \in Running => A.matrix = pack_a(kron_coo.list, Dimension(kron_coo.k))
  /\ phase \in Running \ {"pack_a"} => B.matrix = pack_b(kron_coo.list, Dimension(kron_coo.k))
  /\ phase \in {"assembled", "testing", "computed"} => C.matrix = assemble(A.matrix, B.matrix)
  /\ phase = "computed" =>
       vals = IF Fake THEN Aliased(compute(A.matrix, B.matrix)) ELSE compute(A.matrix, B.matrix)

-----------------------------------------------------------------------------
(* The inductive invariant behind NothingKept and LogExact, and what the   *)
(* log needs.                                                              *)

\* A log has room for the arrays of three tensors, of four arrays each.
LogHasRoom == Slots \in Nat /\ Slots >= 12

\* The heap has the arrays of the tensors, which are there from their packing or assembling
\* to the results, at most four of an operand.
HeapInv ==
  /\ heap = [p \in DOMAIN heap |-> heap[p]]
  /\ \A p \in DOMAIN heap : p \in Nat \ {0} /\ heap[p] \in Nat
  /\ DOMAIN heap = Freed(A) \cup Freed(B) \cup Freed(C)
  /\ IsFiniteSet(DOMAIN heap)
  /\ phase = "pack_a" => Cardinality(DOMAIN heap) <= 4
  /\ phase = "pack_b" => Cardinality(DOMAIN heap) <= 8
  /\ phase \in {"load", "aborted", "kernel"} => A = NoTensor
  /\ phase \in {"load", "aborted", "kernel", "pack_a"} => B = NoTensor
  /\ phase \in {"load", "aborted", "kernel", "pack_a", "pack_b"} => C = NoTensor

\* Log l has each array of the heap h that takes memory in one slot, and nothing else.
Recorded(l, h) ==
  /\ \A slot \in 1 .. Slots : l.allocs[slot] = NoAlloc \/
       \E p \in DOMAIN h : h[p] > 0 /\ l.allocs[slot] = [pointer |-> p, request |-> h[p]]
  /\ \A p \in DOMAIN h : h[p] > 0 => \E slot \in 1 .. Slots : l.allocs[slot] = [pointer |-> p, request |-> h[p]]
  /\ \A s, t \in 1 .. Slots : l.allocs[s] = l.allocs[t] => s = t \/ l.allocs[s] = NoAlloc

IsLog(l) ==
  /\ l = [memory_usage |-> l.memory_usage, allocs |-> l.allocs]
  /\ l.allocs = [slot \in 1 .. Slots |-> l.allocs[slot]] /\ l.memory_usage \in Int

\* The log of the kernel has the arrays until the fields are set, every other log has none.
LogInv ==
  /\ log = [i \in DOMAIN test_entries |-> log[i]]
  /\ \A i \in DOMAIN test_entries :
       /\ IsLog(log[i])
       /\ log[i].allocs = NoLog.allocs \/ (i = func_idx /\ phase \in {"pack_a", "pack_b", "assembled"})
  /\ phase \in {"pack_a", "pack_b", "assembled"} =>
       /\ Recorded(log[func_idx], heap) /\ before \in Int
       /\ log[func_idx].memory_usage - before = Bytes
=============================================================================
