# A TLA+ model of the mixed sparse format matrix products

The repository studies products of matrices that are cut into blocks, where each
block may have a different format (dense, CSR, CSC or COO). It is a C program
built as single translation units, with kernels generated by TACO as the
competition, a cost model solved in Python, and scripts around them. This
directory holds TLA+ modules for the parts of it that can go wrong in ways a test
would hardly reach, TLC configurations that check them on small instances, and
TLAPS proofs. `PROJECT.json` lists the components, runs, planted bugs, the source
lines of every definition, the findings and the hazards.

## The system

| Part | State | Operations | Who uses it |
|---|---|---|---|
| Arena allocator (`common.h`) | base, reserve, commit, next offset; the pages the OS has made accessible | alloc, pop, scratch begin and close, `array_add`, clear, free, `read_file_to_arena` | everything |
| Strings, streams, options (`common.h`) | a hash table of options; a cursor in a text | parse numbers, split, find, substring, next line, insert and look up an option | every `main` |
| Matrix formats (`formats.h`, `formats.c`) | none; conversions are functions | from dense, from a coordinate list | the two product benchmarks |
| Kernels (`formats.h`) | the output they add to | sixteen pairs of formats, one with OpenMP | `do_sparse_matmul`, `reptest_spmm` |
| Blocking (`multi_sparsify`) | result blocks, the pack arena | pack, convert, clear | `main` of `sparse_blis.c` |
| Blocked product (`sparse_blis`) | a temporary per iteration, the shared output | the loop nest, divided by OpenMP | `main` of `sparse_blis.c` |
| Benchmark of the blocked product (`main` of `sparse_blis.c`) | two testers, the best one, one output | test, choose, `--verify` | - |
| Kernel benchmark (`reptest_spmm.c`) | parameters, reference | verify, sweep, CSV | - |
| Repetition tester (`benchmark/repetition_test.c`) | mode, current test, results, times | new wave, begin, close, count, is testing | all benchmarks |
| Repetition series (same file) | entries, values, fields | new entry, set field, save CSV | `taco_bench.c` |
| Platform timing (`platform_timing.c`) | event descriptors | read timers and counters | tester, profiler |
| Profiler (`profile.c`) | zones, the current parent | begin, end, report | optional |
| TACO benchmark (`taco_bench.c`) | the memory log, the series | load a graph, run each kernel, save | - |
| TACO kernels (`taco_bullshit.c`, generated) | tensors under construction | pack, assemble, compute, free | `taco_bench.c` |
| Solver, data scripts, plots (`*.py`) | files | - | prepare the solution file, draw results |

The parts call each other directly; there are no messages. Concurrency is the two
OpenMP loops (`sparse_blis` over groups of output columns, `csr_x_csr_parallel`
over rows). Partial failure is a short file read, event counters that cannot be
opened, files that are missing or empty, and malformed solution files. The rest of what is hard is sequential:
long orders of allocations, cursors over index lists, loops whose steps must
divide their counts, timers that wrap, and results that are reused.

## What would make each part correct

- Arena: blocks still held never overlap and are backed by accessible memory;
  scopes give back exactly what was taken in them; an array stays contiguous; no
  assertion fires and no page is touched that is not accessible.
- Formats: all formats made from one matrix have its values, in the order that
  the merging kernels rely on.
- Kernels: each adds exactly the product of its operands to the output.
- Blocking: every block has its format and stands for its part of the matrix, and
  the loops address existing blocks only.
- Blocked product: whatever the schedule, each product of inner blocks that is
  not zero goes into the output exactly once; the loop ends.
- Tester: times are exact although timers wrap, results are those of whole tests,
  a wave ends, and not before its quiet time.
- Benchmarks: what is reported is the best, rows stand with the matrices and kernels
  they are about, failed testers and files leave no wrong numbers, and "All entries
  match reference" is said when it is so.
- Options: a map in which first values stay, whatever names meet in a bucket; settings,
  names and header lines give back what was written.
- TACO benchmark: operands hold the graph, assemble and compute agree, and the memory
  reported for a kernel is what its tensors take.

## The modules and the code

**Arena** models `common.h:1339-1552` and `read_file_to_arena`. Addresses are
offsets from the base. `arena` is the struct, `accessible` the prefix that
`mprotect` has opened; the two are kept apart because the code updates them apart
and a failed file read rolls back only the struct. `Alloc` is `arena_alloc` as a
function of both, with its assertion as written (it compares the growth of the
commitment, not the total). `live` is a history variable: the blocks callers hold.
The guards on callers (scopes nest, an arena is cleared with no scope open, an
array grows in the scope that started it) are the habits of this repository.
**Allocator** is its abstract specification: held blocks appear apart from all
others, grow in place, and disappear; there are no offsets, pages or scopes in it.

**Strings** and **Options** model the views, searches and numbers of `common.h`,
`parse_args` with its table of chains, the part of `main` of `taco_bench.c` that
turns options into settings, and what `load_kron` reads from the name and the header
lines of a graph file. A string is a text, an offset and a count modulo `W`, because
counts wrap on the way to correct results (`file_basename` of a path without a dot)
as well as incorrect ones (`Comparisons`). The hash of each name is chosen freely
from a few functions in the initial state. **OptionMap** is the abstract
specification: a map to which names are added and in which first values stay.

**Formats** holds the conversions as operators over cells: `Scan` is the order in
which a loop nest meets the values, `Cursor` the counting sort of `csc_from_coo`.
`ValueAt`, `Ascending` and `Represents` say what a matrix in a format stands for
and what order the kernels need. Values are integers: rounding is left out, so
that equality can replace the tolerance of the comparison.

**Kernels** gives each of the sixteen kernels as the set of its visits, the
multiplications its loops do, with the cell they go to. Merging loops are the one
operator `Merge`, a recursive function over two cursors. `coo_x_csc` is the one
that stores instead of adding (`Stored`). `do_sparse_matmul` is the dispatch with
its tests for empty operands, two of which do not look at the right operand.

**CsrParallel** is the OpenMP variant of `csr_x_csr`, with a load and a store per
multiplication as two steps. **MultiSparsify** is the blocking of the left and the
right matrix, with the pack arena as the place of the dense block that is
overwritten for the next; the steps of its loops are those of the
`Blocking_Description` each side is given. Neither is checked alone: **BlisMain**
is all of `main` of `sparse_blis.c` and composes both by `INSTANCE`. It loads a
solution file whose missing fields read as zeros, converts, blocks, runs the tester
of the CSR product (thread by thread) and that of the blocked product on one
output, keeps the better one, reports it, and runs `--verify`. In it `sparse_blis`
is one step, the sum of the temporaries that `do_sparse_matmul` makes. That one step
may stand for the loop nest is what the next module shows.

**SparseBlis** is the loop nest of `sparse_blis`: a thread takes a group of
columns, runs through its counters, and adds the temporary to an output block by a
load and a store. Values are abstracted to how often each product of inner blocks
is in a temporary or in an output block. **BlockProduct** is its abstract
specification: products are added to blocks in any order, each once.

**SpmmVerify** is `main` of `reptest_spmm.c`: `init_params`, `--verify`, and the
sweep over densities, in which every kernel has a tester of its own and all use one
output, then one CSV file per kernel. The operations counted by the tester are
those of the build with `OBSERVE_FLOPS`.

**RepetitionTester** is the tester with a timer modulo `W`. `begin_time` subtracts
the timer from the accumulator and `close_time` adds it, so between the two the
accumulator is out of range; `ghost` records what happened in integers that do
not wrap. `BlisMain`, `SpmmVerify` and `TacoBench` see of a tester only what its
interface shows them: some iterations and a least time, or an error at its start.

**TacoKernels** has the functions TACO generated for the ten kernels that
`taco_bench.c` runs, a definition for each function: packing a sorted list into
segments, assembling the coordinates of the output, and computing its values. A
coordinate output has one entry per product (`Products`), or one per cell of a
grid where a dot product is formed (`Sums`). assemble and compute are separate
walks in the code and separate definitions here. The loops are those of `Kernels`
where TACO was their model, so their visits are reused, in the order of their
positions.

**TacoBench** is `main` of `taco_bench.c` for a folder of graphs, some of whose
files are missing, empty, unreadable or not wanted. `heap` is the allocator's own
account of the arrays, `log` the account that the logging wrappers keep by address;
a call is run through both (`Call`). The addresses given out are the lowest free
ones, so that an address comes back as soon as possible. `series` is the repetition
series, whose entry advances inside `is_testing`; `events` counts the descriptors
that testers open and nothing closes, `limit` is the process's bound on them. An
operand in CSC holds the transposed graph, because the same packing code reads the
first coordinate as a column: for a graph that is not symmetric, kernels with a CSC
operand multiply another matrix than the others. Only their times are compared, and
no text says that the results agree, so `OperandsHoldGraph` says it as it is.

The composition: `BlisMain` = `MultiSparsify` + `CsrParallel` + `Kernels` + `Formats`;
`SpmmVerify` = `Kernels` + `Formats`; `TacoBench` = `TacoKernels` (on `Kernels`);
`Options` = `Strings`. The refinements: `Arena` implements `Allocator`,
`SparseBlis` implements `BlockProduct`, `Options` implements `OptionMap`.

## The runs

| Run | Shows | Bounds |
|---|---|---|
| `arena` | Every order of the allocator's operations within the reservation: disjoint, backed, exact scopes, one-block arrays, no crash; refinement of `Allocator`. | Pages of 4 bytes, a reservation of three pages, requests of 0, 1, 3, 4 bytes with alignments up to 4 (an alignment equal to a page), elements of 2; at most 4 blocks and 2 scopes. Enough for an undone `array_add` with padding, a commit of several pages and a rollback behind a grown commitment. |
| `arena_overcommit` | Finding: the assertion lets the commitment pass the reservation. | Callers may ask up to offset 20 of 12 reserved. |
| `sparse_blis` | Bounds, no lost update, the product, refinement of `BlockProduct`, termination. | 2 threads, 4x4x4 blocks in groups of 2: two groups in each dimension, so that every counter both steps within and across groups. |
| `sparse_blis_coo_csc` | Finding: with COO by CSC blocks terms are lost. | The same. |
| `blis_main` | From the file to the report: blocks in bounds and faithful, threads never lose an update, the output counts the products of both testers, `--verify` says what is so, the better tester is reported, the program ends. | 4x4 matrices in 2x2 and 2x1 blocks, groups of 2; 4 left and 2 right patterns in 5 pairs of formats; a file cut at every field, one whose sizes nothing divides and one that does not open; 2 threads, up to 2 iterations per tester, two times, testers in error. |
| `blis_dense` | Finding: dense blocks all become the last one. | The same matrices, dense right blocks as in the Makefile. |
| `spmm_verify` | All formats agree, both ways of converting agree, all kernels of the table give the product; in the sweep the output is a whole number of products and the rows of the files stand with their density and have its exact operation counts. | `--verify` on every pattern of non-zeros of a 2x3 and a 3x2 matrix, empty rows, columns and matrices among them; a sweep of the left side over two densities with five draws of matrices, fifteen kernels, up to 2 iterations and one tester in error, files that do not open. |
| `repetition_tester` | Exact times although the accumulator wraps, extremes and totals of whole timed tests, and waves that end, but not before their quiet time. | Timer modulo 10 that is about to wrap, ticks up to 1, up to two blocks per test nested or in a row, tests without one, two frequencies, two waves of which one follows up to three tests. |
| `args` | The table of options is a map that keeps first values, settings are as given or the defaults, the header and name of a graph file give back its numbers; refinement of `OptionMap`. | Up to three of 16 arguments (flags, one dash or two, several values, empty values, signs, an empty name, paths), six names in two buckets in three ways, counts modulo 64, four files whose lines are in different orders, short, joined or absent. |
| `args_short` | Finding: a search for something longer than the string leaves the string. | The same. |
| `taco_bench` | Operands hold the file's graph, compute writes what assemble made room for and gives the product in order, the memory log agrees with the allocator, all arrays are given back, graphs that are benchmarked were read, saved rows are the kernels that ran. | Two files in a row: graphs of 1 to 8 nodes with up to three edges in any order, duplicates and an edge less than declared; missing, empty, unreadable, unwanted and mislabelled files; descriptors for five testers or for all; arrays start with one element, so that they grow up to three times; a page of two values for the fake buffer; logs of 12 slots, which is what a kernel needs at most. |
| `taco_alloc` | Finding: the memory reported with a graph includes that of the graphs before. | The same. |

Runs check for deadlock; where a program ends, its module has a step that stutters
(`Done`) or the configuration says `CHECK_DEADLOCK FALSE` (`arena_overcommit`, whose
callers may find nothing left to ask for).

Some bounds deserve a word. Every TACO kernel has its own log, so two graphs are
enough for what one graph leaves behind to meet the next. With two values in the
page of the fake buffer both cases occur: values that fit, which are then checked
against the product, and values that overwrite each other, for which
`OutputIsProduct` still compares the number of values with the coordinates. In
`BlisMain` two iterations of each tester are the least with which an output that is
not cleared tells one product from two. In `Options` three arguments give a name
twice and another in between, the shortest way to lose either.

## Fairness

`SparseBlis` assumes weak fairness of each thread, and `BlisMain` of each thread of
the CSR product and of `main` itself: an OpenMP team is scheduled by the OS, no step
waits on another thread but the implicit barrier, and a sequential program goes on.
`RepetitionTester` assumes that the loop around `is_testing` goes on, that is, that
kernels return, and that every test has a timing block, as every caller in the
repository has. Nothing is assumed of files, event counters or the clock beyond that
a test takes at least a tick.

## What is proved

Every theorem is of the form `Spec => []Inv` (or of a property of steps) for every value
of the constants that the named assumptions allow. Assumptions that the code makes of its
callers are hypotheses of the theorem, and TLC's instances satisfy them, but for one file of
`MCTacoBench` (see TACO benchmark below).

| Module | Theorems | Under | Inductive invariant |
|---|---|---|---|
| `ArenaProofs` | `TypeOK`, `LiveDisjoint`, `LiveBacked`, `NeverCrashes`, `ScopesExact`, `ArrayIsOneBlock`; the arena implements `Allocator` | `Fitting`: callers stay inside the reservation | `IInv` of `Arena` |
| `SparseBlisProofs` | `TypeOK`, `InBounds`, `NoLostUpdate`, `MatchesReference`; the loop nest implements `BlockProduct` | `Divisible`; for the last two `NoneOverwrites` | `IInv`, `ProductsInv` |
| `RepetitionTesterProofs` | `TimesExact`, `Extremes`, `OnlyTimedCounted`, `QuietBeforeComplete` | `TimerAssumption`: a test and the time to try fit the timer | `IInv` |
| `KernelProofs` | the conversions from a dense matrix and from a coordinate list (`DenseConversions`, `CooConversions`), the sixteen kernels (`KernelsMultiply`) | matrices of integers | - |
| `SpmmVerifyProofs` | `FormatsAgree`, `ConversionsAgree`, `NoEntryFails`, `OutputCountsProducts`, `RowsTruthful` | `MatricesAssumption` | `VerifyInv`; `SweepInv`, `CountsInv`, `RowsInv` |
| `BlisMainProofs` | `BestIsLeast`; `BlocksInBounds`; `NoLostUpdate` | none; `GroupsDivide`; `EntriesInRange` | `BestInv`; `BlocksInv`; `CsrInv` |
| | `BlocksRepresent` | `GroupsDivide`, `EntriesInRange`, `NoneDense` | `PackedInv` |
| | `OutputCountsProducts` | the same, `FilesByRows`, `NoneStores`, `InnerGroupsDivide` | `ProductInv` |
| | `VerifyExact`, of sizes that have a product | `EntriesInRange`, `FilesByRows`, `LeftByColumns` | `CsrInv`, `ComparedInv` |
| `TacoBenchProofs` | `GraphsWereRead`; `SavedRowsAreRuns` | `NothingIsNotWanted`; in every state with `SeriesHasRoom` | itself; `SavedInv` |
| | `OperandsHoldGraph`, `OutputIsProduct` | `NothingIsNotWanted`, `EdgesBetweenNodes` | `TensorsInv` |
| | `NothingKept`; `LogExact` | the same; the same and `LogHasRoom` | `HeapInv`; `LogInv` |
| `OptionsProofs` | an argument is cut as its text says (`ArgumentsAreSplit`); `OptionsAsGiven`; the table implements `OptionMap` | `ArgumentsAssumption`, `HashAssumption` | `TableInv`, `GivenInv` |
| | `SettingsAsGiven` | the same, `SettingsNamed`, `FoldersAlone` | `SettingsInv` |
| | `HeaderAsWritten` | the same, `SettingsNamed`, `FilesAsWritten` | `HeaderInv` |

**Arena.** The invariants are not inductive alone. `IInv` adds `Sane` (the offset is
within the committed size, that within what is accessible and within the reservation, in
whole pages), that inner scopes save offsets that are no smaller, that held blocks are
not empty, and that an unmapped arena holds nothing. `AlignUpBounds` and `AlignUpLeast`
bound the round-up, `AllocFacts` says what one allocation leaves, and there is one lemma
per action; `array_add`'s undo is safe because a pop of the element's size never goes
below the offset from before. For the refinement, `MoreBlocks` maps every action that
allocates to `Allocate`, `ArrayAddGrows` maps `array_add` to `Grow`, and the remaining
actions shrink or keep the set.

**Blocked product.** `Divisible` says that groups divide the counts of blocks; without it
the inner loops, which test no bound, do leave the arrays. `IInv` says that a working
thread stands inside its groups and that its iteration can no longer be taken: multiples
of a step that differ lie a step apart (`StartsApart`), so threads of different
iterations are in different columns. `ProductsInv` says which products are in the
output at any time, those whose columns nobody is still to take and whose block the
thread in these columns has passed (`Added`), and which are in a temporary (`Gathered`).
It needs `NoneOverwrites`: the kernel that stores meets no product that counts, which
is the finding of `sparse_blis_coo_csc` turned into a hypothesis. The refinement maps
a store to the abstract addition of the temporary's products.

**Tester.** Modulo `W`, an accumulator lags behind the ticks spent by one timer value for
every block that is open (`Lags`). With equally many begins and closes the lag vanishes,
and a test shorter than `W` is then exact, however often the timer wraps in it.
`NoTestYet` gives the first test its minimum, and `QuietInv` says what the difference of
two timers means as long as it has not wrapped.

**Formats and kernels.** `KernelProofs` is about operators, not about steps. A scan puts
every cell where the number of cells before it says (`OrderedSequence`), which gives the
layout of each format (`CsrLayout`, `CscLayout`, `CooLayout`) and of the segments of a
list; `CursorIs` says that the counting sort of `csc_from_coo` puts an entry where the
column-first scan has its cell. The sums of the library are choices over finite sets, and
are shown to agree with sums taken in any order (`SumsExist`, `SumMatched`). For each pair
of formats a lemma matches the visits of the kernel one to one with the triples (row, k,
column) that both operands have (`VisitedBy`); the merging kernels need that two cursors
over ascending indices meet exactly at the common ones (`MergeIs`, by the least
counterexample over the recursive function). From that `VisitsSum` makes the elements of
the product.

**Kernel benchmark.** `VerifyInv` keeps the output a copy of zeros or of the product while
`--verify` runs; `SweepInv` keeps it the multiple `times` of the product of the density under
test, `CountsInv` what was counted for each density and each tester, and `RowsInv` that
rows exist only while files are written. `MatricesAssumption` is what `make_random_dense_matrix`
and the two sizes of `main` give: numbers, and the same k.

**Benchmark of the blocked product.** `BestInv` compares each tester with the least time so
far; `BlocksInv` keeps the loop counters in groups, as above, for the description of each
side; `CsrInv` says that a thread's visits are in a row of its own, from which nobody
else's are, so what it loaded still stands. `EntriesInRange` is needed because a file
with an entry outside its matrix makes the code write outside its rows.

`PackedInv` says that every block that the four loops have passed (`PassedIn`) is its part
of the matrix (`BlockOf`) in the format asked for; when the loops end they have passed all.
`ProductInv` says that the output is the `Reference` as often as a product was added, and,
while threads run the CSR product, that what is in the output and what the `Remaining`
visits add together is the `Reference`: a store moves a visit's product from one to the
other. For a blocked product the sum over k of an element is cut at the ends of the groups
and of the blocks, each visit of `do_sparse_matmul` being one of these parts: lemmas of
`KernelProofs` on sums by parts and on the parts of a matrix, with `KernelsMultiply` for
each pair of blocks.

`GroupsDivide` and `InnerGroupsDivide` are what the loops presuppose and never test.
`NoneDense` and `NoneStores` exclude the formats of two findings, `blis_dense` and
`sparse_blis_coo_csc`. `FilesByRows` says of a list that its rows do not descend and that
it names no cell twice, and nothing else of its order or its values: `csr_from_coo` copies the
entries as they come, and a list whose rows are in order has those of each row in one segment,
whatever their columns and with zeros among them (`ListOf`, `CsrOfList`). `dump_matrix.py`
writes more than that, edges by row and column, of an edge list that names no edge twice.

`ComparedInv` says that the output is compared with `Compared`, what `coo_x_coo` makes of the
two lists, and `ComparedIs` that this is the `Reference`. It says nothing of the products, so that
`VerifyExact` needs none of the conditions on blocks, groups and formats: when a product is wrong, as
in the two findings, `--verify` reports it. What it does need is `LeftByColumns`, for `coo_x_coo`
goes through a left row and the right rows in step, and a column that comes late in its row
misses its partner.

The runs `MCWhole` of `MCBlisMain`, one of them with a zero and with columns out of order on the
right, satisfy all seven; with them in place of `MCRuns` TLC finds `PackedInv`, `ProductInv` and
`ComparedInv` to hold. Files that end early may name a cell twice, and a file of sizes without
a product has no reference to compare with: what the properties say of them is
only checked by TLC.

**TACO benchmark.** The series has entries for 30 graphs ("Max 30 k."), and a run that wants
more would write behind it. `SeriesHasRoom` says of a state that the graphs that have run so
far (`GraphsRun`) fit, ten kernels each; the theorem is
`Spec => [](SeriesHasRoom => SavedRowsAreRuns)`, so nothing is assumed of the folder. Files that
`load_kron` or `main` pass over take no entry: with the default options at most twenty
files are wanted, one for each `k`, however many the folder has. `RunsInv` says that no kernel
runs twice for a graph, so that room for the graphs is room for the runs (`GraphsFit`);
runs are never taken away, so while they fit they have always fitted (`FitBefore`). Then
the entry of the series is always one behind the run in progress
(`SeriesInv`), and the rows of the file are a beginning of the runs (`CsvInv`). TLC
finds `SavedInv` to hold in `MCTacoBench`. A graph with
`k = 0` and `s = 0` is what an empty file comes out as: `NothingIsNotWanted` says that the
options do not ask for one.

`TensorsInv` says where the arrays come from: the graph is that of a file, the operands are
what the pack functions make of its list, the output and its values what assemble and
compute make of the operands. The rest is about these functions. An ordered list has the
entries of a cell in one run (`RunIs`), and its runs, in their order, are the cells with a
value in the order of a scan (`RunsAreCells`), so that a pack function makes exactly what
the conversion from the dense graph would (`MergedIs`, `PackedCsr`, `PackedCsc`); `SortedIs`
says that the sort of `load_kron` gives such a list. The kernels are then those of
`KernelProofs`, and what is left is that every product has a place in the output: an entry
of its own, which takes that no two visits have the same pair of factors (`OnePerPair`,
`CoordinatesHold`), or that of its cell in a grid or among the cells reached (`CellsFor`,
`SumsHold`). `EdgesBetweenNodes` says that the edges of a file are between nodes of its graph, and
all files of `MCTacoBench` are such. A file may give fewer edges than it declares: `load_kron`
asserts only that there are no more, and the entries without an edge stay zero, so that the
operands hold an entry of value zero at the first cell. Which cells an operand stores then
does not follow from the graph. So the lemmas on formats and kernels are about two
matrices, one with the values and one with a one at each cell that is stored (`Stores`),
of which the conversion of a single matrix is the case where the two are the same.

`HeapInv` says that the heap is what the arrays of the three tensors name, with at most four
arrays for each operand, and `LogInv` that the log of the kernel has each of them in one slot, that
the other logs are empty, and that the usage is the sum of the bytes. A call keeps both
(`CallPlaces`) when it fits what is there (`Fits`): it takes an array with a new name, or moves
or gives back one that exists. `Located` is what holds between two calls, of the arrays so far,
which are all in different places, and of those of the other tensors. `Leads` says that a list of calls
fits from its first to its last and never has more than four arrays; that the lists of packing
and assembling do, however often an array doubles, are `PackLeads` and `AssembleLeads`. A log that is
full would drop an array without a word, so `LogExact` needs `LogHasRoom`, three tensors of
four arrays, where the code has 64 slots; `NothingKept` does not.

**Options.** `TableInv` says that an option is in the bucket of its name and alone with that
name, `GivenInv` that the table has the options given and their first values, for every
hash function. Under them lie the functions on strings. `Views` says that a string is a
view inside its object that shows certain characters; `string_skip` and `string_substring`
keep it so (`ViewSkip`, `ViewPart`), `string_find_substring` returns the next delimiter or
the count (`FindIs`, `NextCut`), and `string_split` the texts between delimiters (`SplitIs`:
the recursive function is compared with its closed form at the least counterexample).
`ArgumentsAssumption` says that an argument is shorter than the modulus of the counts.

For `SettingsAsGiven` the first value that the table has for a name is followed back to its
argument (`FirstValueIs`): a view of the first piece, which ends where the argument ends when
there is no other piece (`Reach`). A format is found exactly when it occurs (`FormatFound`), a
number is that of the leading digits (`DigitsAre`), and a path without a dot is printed to
the end of its argument (`TitleIs`), for there the count of the view has wrapped and only the NUL
stops `printf`. That is why `FoldersAlone` is needed: of `--kron_dir=x/a,b` the file of results
would be named `a,b`. It also says that no text has a NUL. `SettingsNamed` says that main's options
have names, in buckets as all names are.

For `HeaderAsWritten`, `HeaderInv` says that the numbers read so far are known from the lines
before the cursor (`LinesRead`, `Known`) and that no search has strayed in one of them, so that at
the end of the text they are known from all its lines. `NextLineIs` and `OneMoreLine` say that
a call of `stream_get_next_line` hands out the next line and no part of another, with or without
an end at the end of the text. A search that does not stray finds a text where it first occurs
(`WordFound`). The view behind it may stop early or have a count that wrapped, and then reaches far
behind the line; the number comes out right all the same, for the digits end at the end of the
line or where the object ends (`NumberBehind`, `ReadIs`). `file_basename` cuts out of a path the part
of the name before its dot (`BaseIs`) if the folder has none.
`FilesAsWritten` says what it is for a file to be written with its numbers: behind the first
occurrence of a text in a line there are digits, which `Number` reads as the number of the
file, in every line that has the text and in one at least, and likewise behind the first `k` and the first `s`
of its name; and no view cuts digits off (`Uncut`). The files of `MCOptions` satisfy it, and TLC
finds `HeaderInv` to hold there. That the digits `printf` writes stand for a number is part of
the hypothesis: it would need an induction over the fold of the digits.

Only model-checked is all liveness, which is beyond the prover.

## What is not modelled

Floating-point rounding, the instruction-counting variants of `LOAD`, `FMADD` and
`STORE`, the hardware counters (seen as arbitrary values), text output and plots.
The solver, data and plot scripts are out of scope: the first hands an
optimisation problem to an external solver, the others read and write files. The
profiler is compiled only with `PROFILE`, which nothing defines;
`mkl_conv.c` is a trial of an external library, and `reptest_example.c` a program
that nothing builds.

Of `common.h` the functions that no program calls (trim, chop, join, the split at
whitespace, `string_in_bounds`), time stamps, the list of a folder and
`string_to_f64` are left out. Of TACO's code, the three kernels with CSR output that
no table names, and the search helpers, which nothing calls. The one page that backs
the whole output of `sparse_blis.c` many times over (512 MB in the code) is not
modelled: no matrix of TLC's size reaches it.

Some things were seen without a model:

- three tensor headers leak for every kernel that is passed over as too large, since
  `continue` comes after they are made (`taco_bench.c`);
- `repetition_series_free` zeroes an arena struct that lies in the memory it has just
  unmapped (`repetition_test.c:509`); nothing calls it;
- `string_to_u64` reads a sign and never applies it, and `string_to_f64` does not
  step over the sign of an exponent (`common.h:931`), so that a `fixed_density` of
  1e-3 is taken as 1;
- the count of entries of a coordinate output is 64 bits wide but the position array
  that receives it has 32 (`taco_bullshit.c:278`);
- a graph whose k equals `k_max` is passed over, for `load_kron` leaves out the bound
  that `main` lets in (`taco_bench.c:489`).

## The plan

Every invariant of the runs is a theorem. What is left is to need less for two of them.

1. `FilesByRows` could let a cell be named again if only its last entry has a value, as in some
   files that end early: the lists of `load_kron` show that entries without a value do
   no harm, but `Enumerates` gives each stored cell one position.
2. `VerifyExact` of sizes that have no product would need what `coo_x_coo` makes of
   them, with visits whose pairs of entries do not belong to a product.
