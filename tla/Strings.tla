------------------------------ MODULE Strings ------------------------------
(***************************************************************************)
(* The strings of src/common.h: a string is a view of characters that lie  *)
(* in an object of memory, v characters behind its start.  Counts are      *)
(* unsigned and wrap, and a count that has wrapped makes a view that       *)
(* reaches far behind its object.                                          *)
(*   What no program calls is left out (trim, chop, join, in_bounds, the   *)
(* split at whitespace).                                                   *)
(***************************************************************************)
EXTENDS Integers, SequencesExt

CONSTANT W   \* the modulus of usize, 2^64 in the code

ASSUME WidthAssumption == W \in Nat \ {0}

Word(x) == x % W
Atmost(x, y) == IF x < y THEN x ELSE y

\* string_from_c_string, and STR for a literal: the whole of an object, without its NUL.
String(text) == [text |-> text, v |-> 0, count |-> Len(text)]

\* What lies in an object and, until anything else does, behind it.
At(string, i) == IF string.v + i < Len(string.text) THEN string.text[string.v + i + 1] ELSE "NUL"
Chars(string) == [i \in 1 .. string.count |-> At(string, i - 1)]

string_skip(string, count) ==
  LET clamp == Atmost(string.count, count)
  IN  [string EXCEPT !.v = @ + clamp, !.count = @ - clamp]

\* "Start inclusive, stop exclusive."
string_substring(string, start, stop) ==
  LET clamp_start == Atmost(start, string.count)
      clamp_stop == Atmost(stop, string.count)
  IN  [string EXCEPT !.v = @ + clamp_start, !.count = Word(clamp_stop - clamp_start)]

string_match(a, b) == a.count = b.count /\ Chars(a) = Chars(b)
string_starts_with(string, prefix) ==
  string.count >= prefix.count /\ string_match(prefix, [string EXCEPT !.count = prefix.count])

\* comparison_count: where the search stops.
Comparisons(string, substring) == Word(string.count - substring.count + 1)

\* The search reads characters that are not of the string: the substring is longer than
\* the string by two characters or more, so that Comparisons wraps, and nothing that is
\* found can stop it.  It ends where the memory ends.
Strays(string, substring) == substring.count > 0 /\ Comparisons(string, substring) > string.count

\* string_find_substring, when it does not stray.
string_find_substring(string, start, substring) ==
  LET found == {i \in start .. Comparisons(string, substring) - 1 :
                  string_match(string_substring(string, i, i + substring.count), substring)}
  IN  IF substring.count = 0 \/ found = {} THEN string.count ELSE Min(found)

\* Planted bug: the piece behind the last delimiter is left out.
Bugstring_split(string, delimiter) ==
  LET pieces[start \in 0 .. string.count + delimiter.count] ==
        LET delimiter_idx == string_find_substring(string, start, delimiter)
        IN  IF start > delimiter_idx \/ delimiter_idx = string.count THEN <<>>
            ELSE <<string_substring(string, start, delimiter_idx)>> \o pieces[delimiter_idx + delimiter.count]
  IN  pieces[0]

\* string_split at a delimiter that is not empty; an empty string has one empty piece.
string_split(string, delimiter) ==
  LET pieces[start \in 0 .. string.count + delimiter.count] ==
        LET delimiter_idx == string_find_substring(string, start, delimiter)
        IN  IF start > delimiter_idx THEN <<>>
            ELSE <<string_substring(string, start, delimiter_idx)>> \o pieces[delimiter_idx + delimiter.count]
  IN  pieces[0]

Digits == <<"0", "1", "2", "3", "4", "5", "6", "7", "8", "9">>
IsDigit(c) == Contains(Digits, c)
DigitValue(c) == SelectInSeq(Digits, LAMBDA d : d = c) - 1

\* The number that a sequence of digits stands for.
Number(digits) == FoldLeft(LAMBDA n, c : Word(10 * n + DigitValue(c)), 0, digits)

\* string_to_u64: the digits up to anything else; a sign is read and has no effect.
string_to_u64(string) ==
  LET at == IF string.count > 0 /\ At(string, 0) = "-" THEN 1 ELSE 0
      length == Min({n \in 0 .. string.count : at + n >= string.count \/ ~IsDigit(At(string, at + n))})
  IN  Number([i \in 1 .. length |-> At(string, at + i - 1)])

\* file_basename: from behind the last slash that comes before the first dot, up to the
\* first dot; without a dot the view stops at 0.
file_basename(filename) ==
  LET dots == {i \in 0 .. filename.count - 1 : At(filename, i) = "."}
      last == IF dots = {} THEN filename.count ELSE Min(dots)
      slashes == {i \in 0 .. last - 1 : At(filename, i) = "/"}
  IN  string_substring(filename, IF slashes = {} THEN 0 ELSE Max(slashes) + 1, IF dots = {} THEN 0 ELSE last)

\* printf("%.*s"): a precision that is negative as an int counts as none, and then the
\* characters end with a NUL.
Printed(string) ==
  LET length == Min({n \in 0 .. string.count : n = string.count \/ At(string, n) = "NUL"})
  IN  [i \in 1 .. length |-> At(string, i - 1)]

\* stream_get_next_line: the line, with its end, and where the next one starts.
stream_get_next_line(stream) ==
  LET ends == {i \in stream.cursor .. stream.buffer.count - 1 : At(stream.buffer, i) = "NL"}
      index == IF ends = {} THEN (IF stream.cursor > stream.buffer.count THEN stream.cursor ELSE stream.buffer.count)
               ELSE Min(ends)
  IN  [line |-> string_substring(stream.buffer, stream.cursor, index + 1), cursor |-> index + 1]

string_valid(string) == string.count > 0
=============================================================================
