------------------------------ MODULE Options ------------------------------
(***************************************************************************)
(* The command line: parse_args of src/common.h puts options into a hash   *)
(* table with chains, and main of src/taco_bench.c takes its settings from *)
(* the table and then the names and the header lines of the graph files.   *)
(***************************************************************************)
EXTENDS Strings

CONSTANTS
  Arguments,          \* what an argument of the program may be, as characters
  MaxArguments,       \* bound on the arguments
  option_table_count, \* the buckets; 64 in the code
  MaxPositionals,     \* 32 in the code
  Files,              \* the graph files: their name, the lines of their header, and the k, s
                      \* and number of edges that the header was written with
  FormatNames,        \* "coo", "csr" and "csc", as characters
  k_line, s_line, nnz_line,           \* the texts before the three numbers
  output_format, s_option, kron_dir,  \* names of options
  CooFormat, DefaultDir, DefaultSample, \* their defaults
  Hashes              \* functions from names to buckets that string_hash_u32 may be

\* A text that counts do not wrap for, as no text in memory makes them.
IsText(c) == c \in Seq({c[i] : i \in DOMAIN c}) /\ Len(c) < W

ASSUME ArgumentsAssumption == \A text \in Arguments : IsText(text)

ASSUME CountAssumption ==
  /\ option_table_count \in Nat \ {0} /\ MaxArguments \in Nat /\ MaxPositionals \in Nat

VARIABLES
  hash,         \* the bucket of each name
  given,        \* the arguments parsed so far
  option_table, \* for each bucket its options, the one in the table before its chain
  positionals,
  phase,        \* "parsing", "parsed", "named", "reading", "read", "aborted" or "crashed"
  settings,     \* formats, sample, folder and title that main has taken
  graph,        \* file, and what load_kron has read of it: k, s and nnz
  stream        \* the text of the file, and where the next line starts

vars == <<hash, given, option_table, positionals, phase, settings, graph, stream>>

NoSettings == [formats |-> {}, sample |-> 0, folder |-> <<>>, title |-> <<>>]
NoGraph == [file |-> <<>>, named |-> <<0, 0>>, k |-> 0, s |-> 0, nnz |-> 0]
NoStream == [buffer |-> String(<<>>), cursor |-> 0]

Init ==
  /\ hash \in Hashes
  /\ given = <<>> /\ positionals = <<>> /\ phase = "parsing"
  /\ option_table = [b \in 0 .. option_table_count - 1 |-> <<>>]
  /\ settings = NoSettings /\ graph = NoGraph /\ stream = NoStream

-----------------------------------------------------------------------------
(* The table.                                                              *)

\* get_arg_option_from_bucket; a bucket of zeros has the empty name.
Exists(bucket, name) == (name = <<>> /\ bucket = <<>>) \/ \E i \in DOMAIN bucket : bucket[i].name = name

\* Planted bug: the chain of the bucket is not kept.
BugInserted(bucket, name, values) ==
  IF Exists(bucket, name) THEN bucket
  ELSE IF bucket = <<>> THEN <<[name |-> name, values |-> values]>>
  ELSE <<bucket[1], [name |-> name, values |-> values]>>

\* insert_arg_option: the first values of a name stay; a new option is the head of the chain.
Inserted(bucket, name, values) ==
  IF Exists(bucket, name) THEN bucket
  ELSE IF bucket = <<>> THEN <<[name |-> name, values |-> values]>>
  ELSE InsertAt(bucket, 2, [name |-> name, values |-> values])

\* args_get_option_values: those of find_arg_option, or none.
args_get_option_values(name) ==
  LET bucket == option_table[hash[name]]
      at == SelectInSeq(bucket, LAMBDA option : option.name = name)
  IN  IF at = 0 THEN <<>> ELSE bucket[at].values

\* Planted bug: the last of the values is taken.
Bugargs_get_string_value(name, default) ==
  LET values == args_get_option_values(name) IN IF values # <<>> THEN Last(values) ELSE String(default)

\* args_has_flag, args_get_string_value and args_get_integer_value.
args_has_flag(name) == Exists(option_table[hash[name]], name)
args_get_string_value(name, default) ==
  LET values == args_get_option_values(name) IN IF values # <<>> THEN values[1] ELSE String(default)
args_get_integer_value(name, default) ==
  LET values == args_get_option_values(name) IN IF values # <<>> THEN string_to_u64(values[1]) ELSE default

-----------------------------------------------------------------------------
(* parse_args, an argument at a time.                                      *)

Prefixed(string) == string_starts_with(string, String(<<"-">>))
Unprefixed(string) == string_skip(string, IF string_starts_with(string, String(<<"-", "-">>)) THEN 2 ELSE 1)

\* The name and the values of an option, cut out of the argument.
Cut(text) ==
  LET string == Unprefixed(String(text))
      values_delimeter_idx == string_find_substring(string, 0, String(<<"=">>))
  IN  [name |-> string_substring(string, 0, values_delimeter_idx),
       values |-> string_split(string_skip(string_substring(string, values_delimeter_idx, string.count), 1),
                               String(<<",">>))]

ParseOption(text) ==
  LET name == Chars(Cut(text).name) IN
  /\ phase = "parsing" /\ Len(given) < MaxArguments
  /\ Prefixed(String(text))
  /\ option_table' = [option_table EXCEPT ![hash[name]] = Inserted(@, name, Cut(text).values)]
  /\ given' = Append(given, text)
  /\ UNCHANGED <<hash, positionals, phase, settings, graph, stream>>

\* "Too many positional arguments for parsing" is an assertion.
ParsePositional(text) ==
  /\ phase = "parsing" /\ Len(given) < MaxArguments
  /\ ~Prefixed(String(text))
  /\ IF Len(positionals) < MaxPositionals
     THEN positionals' = Append(positionals, text) /\ UNCHANGED phase
     ELSE phase' = "aborted" /\ UNCHANGED positionals
  /\ given' = Append(given, text)
  /\ UNCHANGED <<hash, option_table, settings, graph, stream>>

ParseEnd ==
  /\ phase = "parsing" /\ phase' = "parsed"
  /\ UNCHANGED <<hash, given, option_table, positionals, settings, graph, stream>>

-----------------------------------------------------------------------------
(* main and load_kron.                                                     *)

Settings(formats, dir) ==
  [formats |-> {name \in FormatNames : string_find_substring(formats, 0, String(name)) # formats.count},
   sample |-> args_get_integer_value(s_option, DefaultSample),
   folder |-> Chars(dir),
   title |-> Printed(file_basename(dir))]   \* a part of the name of the file of results

Configure ==
  LET formats == args_get_string_value(output_format, CooFormat)
      dir == args_get_string_value(kron_dir, DefaultDir)
  IN
  /\ phase = "parsed"
  /\ IF \E name \in FormatNames : Strays(formats, String(name))
     THEN phase' = "crashed" /\ UNCHANGED settings
     ELSE phase' = "named" /\ settings' = Settings(formats, dir)
  /\ UNCHANGED <<hash, given, option_table, positionals, graph, stream>>

\* The number behind the first mark in the name of a file; behind nothing there is no number.
Marked(name, mark) == string_to_u64(string_substring(name, string_find_substring(name, 0, String(mark)) + 1, name.count))

\* load_kron looks at the name first.  Here the file is opened whatever the name says; which
\* of the files are wanted is TacoBench's.
OpenFile(file) ==
  LET name == file_basename(String(settings.folder \o <<"/">> \o file.name))
  IN
  /\ phase = "named" /\ phase' = "reading"
  /\ graph' = [NoGraph EXCEPT !.file = file, !.named = <<Marked(name, <<"k">>), Marked(name, <<"s">>)>>]
  /\ stream' = [buffer |-> String(file.text), cursor |-> 0]
  /\ UNCHANGED <<hash, given, option_table, positionals, settings>>

\* Planted bug: a line without the text resets the number.
BugRead(line, text, stop, before) ==
  LET at == string_find_substring(line, 0, String(text))
  IN  IF at = line.count THEN 0
      ELSE string_to_u64(string_substring(line, at + Len(text), stop))

\* The number behind a text of the line, or what was read before.
Read(line, text, stop, before) ==
  LET at == string_find_substring(line, 0, String(text))
  IN  IF at = line.count THEN before
      ELSE string_to_u64(string_substring(line, at + Len(text), stop))

\* One turn of the loop, for a line of information.  For two of the numbers the view stops as
\* many characters before the end of the line as the text before the number has.
ReadLine ==
  LET next == stream_get_next_line(stream)
      line == next.line
  IN
  /\ phase = "reading"
  /\ stream' = [stream EXCEPT !.cursor = next.cursor]
  /\ IF ~string_valid(line) THEN phase' = "read" /\ UNCHANGED graph
     ELSE IF \E text \in {k_line, s_line, nnz_line} : Strays(line, String(text))
     THEN phase' = "crashed" /\ UNCHANGED graph
     ELSE /\ graph' = [graph EXCEPT !.k = Read(line, k_line, Word(line.count - Len(k_line)), @),
                                    !.s = Read(line, s_line, line.count, @),
                                    !.nnz = Read(line, nnz_line, Word(line.count - Len(nnz_line)), @)]
          /\ UNCHANGED phase
  /\ UNCHANGED <<hash, given, option_table, positionals, settings>>

Done == phase \in {"read", "aborted", "crashed"} /\ UNCHANGED vars

Next ==
  \/ \E text \in Arguments : ParseOption(text) \/ ParsePositional(text)
  \/ ParseEnd \/ Configure
  \/ \E file \in Files : OpenFile(file)
  \/ ReadLine
  \/ Done

Spec == Init /\ [][Next]_vars

-----------------------------------------------------------------------------
(* What the arguments mean, by definition.                                 *)

\* Where a character is, in ascending order.
Positions(text, c) ==
  LET P == {i \in DOMAIN text : text[i] = c}
  IN  [k \in 1 .. Cardinality(P) |-> CHOOSE p \in P : Cardinality({q \in P : q < p}) = k - 1]

\* The pieces between the delimiters.
Pieces(text, delimiter) ==
  LET cuts == <<0>> \o Positions(text, delimiter) \o <<Len(text) + 1>>
  IN  [i \in 1 .. Len(cuts) - 1 |-> SubSeq(text, cuts[i] + 1, cuts[i + 1] - 1)]

IsOption(text) == Len(text) > 0 /\ text[1] = "-"
Stripped(text) == SubSeq(text, IF Len(text) > 1 /\ text[2] = "-" THEN 3 ELSE 2, Len(text))
Name(text) == Pieces(Stripped(text), "=")[1]
ValuesBehind(text) == Pieces(SubSeq(Stripped(text), Len(Name(text)) + 2, Len(Stripped(text))), ",")

OptionArguments == {text \in Arguments : IsOption(text)}
NameIn == [text \in OptionArguments |-> Name(text)]
ValuesIn == [text \in OptionArguments |-> ValuesBehind(text)]
AllNames == {NameIn[text] : text \in OptionArguments} \ {<<>>}
AllValues == {ValuesIn[text] : text \in OptionArguments}

GivenNames == {NameIn[text] : text \in ToSet(given) \cap OptionArguments}
FirstGiven(name) == given[SelectInSeq(given, LAMBDA text : IsOption(text) /\ NameIn[text] = name)]
FirstValue(name, default) == IF name \in GivenNames THEN ValuesIn[FirstGiven(name)][1] ELSE default

InTable == UNION {ToSet(option_table[b]) : b \in DOMAIN option_table}
StoredNames == {option.name : option \in InTable} \ {<<>>}
Texts(values) == [i \in DOMAIN values |-> Chars(values[i])]

Configured == phase \notin {"parsing", "parsed", "aborted"} /\ settings # NoSettings

-----------------------------------------------------------------------------
\* The table, whatever names meet in a bucket and in whatever order, is a map to which
\* options are added and in which the first values of a name stay ("We already inserted
\* it").  The empty name is not in it: it is found in any bucket of zeros.
Map == INSTANCE OptionMap WITH
  Names <- AllNames, Values <- AllValues,
  options <- [name \in StoredNames |-> Texts((CHOOSE option \in InTable : option.name = name).values)]
ImplementsMap == Map!Spec

\* An option is found exactly when an argument gave it, with one dash or two, and its
\* values are the pieces of the first such argument; a flag has one empty value.
OptionsAsGiven ==
  phase = "parsed" =>
    \A name \in AllNames :
      /\ args_has_flag(name) <=> name \in GivenNames
      /\ name \in GivenNames => Texts(args_get_option_values(name)) = ValuesIn[FirstGiven(name)]

Occurs(word, text) == \E i \in 1 .. Len(text) - Len(word) + 1 : SubSeq(text, i, i + Len(word) - 1) = word

Dotted(text) == Contains(text, ".")

\* main's settings are the first value of each option, or the default of one that was not
\* given: the formats named anywhere in that value, the number it starts with, which is 0
\* for none, and the folder; a number with a sign is left to the code.  The file of results
\* is named after the last part of a path to the folder, although the view that file_basename
\* returns for a path without a dot has a count that wrapped: the folder has to be the only
\* one that its argument gives (FoldersAlone).
SettingsAsGiven ==
  Configured =>
    LET text == FirstValue(s_option, <<>>)
        length == Max({n \in 0 .. Len(text) : \A i \in 1 .. n : IsDigit(text[i])})
    IN  /\ settings.formats = {name \in FormatNames : Occurs(name, FirstValue(output_format, CooFormat))}
        /\ settings.folder = FirstValue(kron_dir, DefaultDir)
        /\ IF s_option \notin GivenNames THEN settings.sample = DefaultSample
           ELSE Contains(text, "-") \/ settings.sample = Number(SubSeq(text, 1, length))
        /\ Contains(settings.folder, "/") /\ ~Dotted(settings.folder) =>
             settings.title = Last(Pieces(settings.folder, "/"))

\* k, sample and the number of edges are those that the file was written with, in its name
\* ("Assumption about file naming!") and in its header.  The views behind two of the header's
\* texts stop early, mostly before they start, and then have a count that wrapped; that none
\* cuts its number off is due to the longest of the texts, for which a line that is short
\* enough to do so is too short as well.  A dot in the folder hides the name.
HeaderAsWritten ==
  /\ phase \in {"reading", "read"} /\ ~Dotted(settings.folder) =>
       graph.named = <<graph.file.k, graph.file.s>>
  /\ phase = "read" => graph.k = graph.file.k /\ graph.s = graph.file.s /\ graph.nnz = graph.file.nnz

\* "Returns string.count when not found": but a search for something much longer than the
\* string does not return.
SearchReturns == phase # "crashed"

-----------------------------------------------------------------------------
(* The inductive invariant behind OptionsAsGiven and ImplementsMap, and    *)
(* what it needs of the functions on strings.                              *)

\* string_hash_u32(name) % option_table_count.
ASSUME HashAssumption ==
  \A h \in Hashes, text \in Arguments : IsOption(text) => h[Name(text)] \in 0 .. option_table_count - 1

\* parse_args makes of an argument the name and the values that it has by definition.
ArgumentsSplit ==
  \A text \in Arguments :
    /\ Prefixed(String(text)) <=> IsOption(text)
    /\ IsOption(text) => Chars(Cut(text).name) = Name(text) /\ Texts(Cut(text).values) = ValuesBehind(text)

OptionRecord == [name : {NameIn[text] : text \in OptionArguments}, values : {Cut(text).values : text \in OptionArguments}]

\* An option is in the bucket of its name, and the only one with that name.
TableInv ==
  /\ hash \in Hashes /\ given \in Seq(Arguments)
  /\ option_table \in [0 .. option_table_count - 1 -> Seq(OptionRecord)]
  /\ \A b \in 0 .. option_table_count - 1 : \A option \in ToSet(option_table[b]) : hash[option.name] = b
  /\ \A option, other \in InTable : option.name = other.name => option = other

\* The options of the table are those that were given, with their first values.
GivenInv ==
  /\ StoredNames = GivenNames \ {<<>>}
  /\ \A option \in InTable : option.name # <<>> => Texts(option.values) = ValuesIn[FirstGiven(option.name)]

-----------------------------------------------------------------------------
(* What SettingsAsGiven needs of the names and the texts.                  *)

\* The options of main have names, in buckets as all names are; so have the formats, and the
\* defaults are texts.
SettingsNamed ==
  /\ \A name \in {output_format, s_option, kron_dir} :
       name # <<>> /\ \A h \in Hashes : h[name] \in 0 .. option_table_count - 1
  /\ \A name \in FormatNames : IsText(name) /\ name # <<>>
  /\ IsText(CooFormat) /\ IsText(DefaultDir)

\* A folder is given alone, and no text has a NUL.  Behind the first of several folders, printf
\* with a precision that has wrapped would find the others.
FoldersAlone ==
  /\ \A text \in Arguments : IsOption(text) /\ Name(text) = kron_dir => Len(ValuesBehind(text)) = 1
  /\ \A text \in Arguments \cup {DefaultDir} : \A i \in DOMAIN text : text[i] # "NUL"

-----------------------------------------------------------------------------
(* What HeaderAsWritten needs of the files.                                *)

HeaderTexts == {k_line, s_line, nnz_line}

\* The lines of a text, each with its end, by their first and last character.
LinePlaces(text) ==
  {p \in (DOMAIN text) \X (DOMAIN text) :
     /\ p[1] <= p[2] /\ \A i \in p[1] .. p[2] - 1 : text[i] # "NL"
     /\ p[1] = 1 \/ text[p[1] - 1] = "NL"
     /\ p[2] = Len(text) \/ text[p[2]] = "NL"}
Lines(text) == {SubSeq(text, p[1], p[2]) : p \in LinePlaces(text)}

\* A line in which the search for none of the texts strays.
Searchable(line) == \A text \in HeaderTexts : Len(text) <= Len(line) + 1

\* What follows a word where it first occurs, and the digits there.
Behind(word, text) ==
  LET places == {i \in 1 .. Len(text) - Len(word) + 1 : SubSeq(text, i, i + Len(word) - 1) = word}
  IN  SubSeq(text, Min(places) + Len(word), Len(text))
Leading(text) == SubSeq(text, 1, Max({n \in 0 .. Len(text) : \A i \in 1 .. n : IsDigit(text[i])}))

\* A text that has the word has the number behind it, in digits.
Says(text, word, number) ==
  Occurs(word, text) =>
    LET rest == Behind(word, text)
    IN  rest # <<>> /\ IsDigit(rest[1]) /\ Number(Leading(rest)) = number

\* A view that stops as many characters before the end of the line as the word has stops before
\* it starts, or behind the digits.
Uncut(line, word) ==
  Occurs(word, line) =>
    LET rest == Behind(word, line) IN Len(rest) < Len(word) \/ Len(rest) - Len(word) >= Len(Leading(rest))

\* The numbers of a file are in its name and in its header.
NamedAfter(file) ==
  \E dot \in DOMAIN file.name :
    LET base == SubSeq(file.name, 1, dot - 1)
    IN  /\ file.name[dot] = "." /\ ~Dotted(base) /\ ~Contains(base, "/")
        /\ Occurs(<<"k">>, base) /\ Says(base, <<"k">>, file.k)
        /\ Occurs(<<"s">>, base) /\ Says(base, <<"s">>, file.s)

\* Every line with the word has the number, and there is one unless the number is 0.
Stated(lines, word, number) ==
  /\ \A line \in lines : Searchable(line) => Says(line, word, number)
  /\ (\A line \in lines : Searchable(line)) /\ number # 0 => \E line \in lines : Occurs(word, line)

HeaderSays(file) ==
  LET lines == Lines(file.text)
  IN  /\ Stated(lines, k_line, file.k) /\ Stated(lines, s_line, file.s) /\ Stated(lines, nnz_line, file.nnz)
      /\ \A line \in lines : Searchable(line) => Uncut(line, k_line) /\ Uncut(line, nnz_line)

FilesAsWritten ==
  /\ \A text \in HeaderTexts : IsText(text) /\ text # <<>>
  /\ \A file \in Files :
       /\ IsText(file.text) /\ IsText(file.name) /\ NamedAfter(file) /\ HeaderSays(file)
       /\ \A text \in Arguments \cup {DefaultDir} : Len(text) + 1 + Len(file.name) < W

-----------------------------------------------------------------------------
(* The inductive invariant behind HeaderAsWritten.                         *)

\* The cursor is where a line starts, or behind the text.
AtLine(text, cursor) == cursor \in Nat /\ (cursor = 0 \/ cursor >= Len(text) \/ text[cursor] = "NL")

\* The lines before the cursor.
LinesRead(text, cursor) == {SubSeq(text, p[1], p[2]) : p \in {q \in LinePlaces(text) : q[1] <= cursor}}

\* A number is known when a line with its word has been read.
Known(lines, word, number) == IF \E line \in lines : Occurs(word, line) THEN number ELSE 0

HeaderOf(read, header, folder, file, cursor) ==
  LET lines == LinesRead(file.text, cursor)
  IN  /\ read = [file |-> file, named |-> read.named, k |-> Known(lines, k_line, file.k),
                 s |-> Known(lines, s_line, file.s), nnz |-> Known(lines, nnz_line, file.nnz)]
      /\ ~Dotted(folder) => read.named = <<file.k, file.s>>
      /\ header = [buffer |-> String(file.text), cursor |-> cursor]
      /\ AtLine(file.text, cursor)
      /\ \A line \in lines : Searchable(line)

HeaderInv ==
  /\ phase \in {"named", "reading", "read"} =>
       IsText(settings.folder) /\ \E text \in Arguments \cup {DefaultDir} : Len(settings.folder) <= Len(text)
  /\ phase \in {"reading", "read"} =>
       \E file \in Files :
         /\ HeaderOf(graph, stream, settings.folder, file, stream.cursor)
         /\ phase = "read" => stream.cursor >= Len(file.text)
=============================================================================
