----------------------------- MODULE MCOptions -----------------------------
(* Instances of Options for TLC: names of one character, and the texts of a file shortened. *)
EXTENDS Options

MCFormatNames == {<<"c", "o", "o">>, <<"c", "s", "r">>, <<"c", "s", "c">>}
MCCoo == <<"c", "o", "o">>
MCDir == <<"d", "/", "a">>
MCFormatOption == <<"f">>
MCSampleOption == <<"s">>
MCDirOption == <<"d">>
MCKLine == <<"#", "k", ":">>
MCSLine == <<"S", ":">>
MCNnzLine == <<"#", "N", "o", " ", "e", "d", "g", ":", " ">>
MCBlanks == <<" ", " ", " ", " ", "NL">>

MCFormatArguments ==
  {<<"-", "-", "f">>, <<"-", "-", "f", "=", "c", "s", "r", ",", "c", "o", "o">>,
   <<"-", "f", "=", "c", "s", "c", "o", "o">>, <<"-", "-", "f", "=", "c">>}
MCSampleArguments ==
  {<<"-", "-", "s">>, <<"-", "-", "s", "=", "1", "2">>, <<"-", "-", "s", "=", "3", ",", ",">>,
   <<"-", "-", "s", "=", "-", "3">>, <<"-", "s", "=", "4", "=", "5">>}
MCDirArguments ==
  {<<"-", "-", "d", "=", "a">>, <<"-", "-", "d", "=", "x", "/", "y", "/", "b">>, <<"-", "-", "d", "=", ".", "/", "a">>}
MCOtherArguments == {<<"-", "x">>, <<"-", "-", "=", "1">>, <<"-", "-", "y", "=">>, <<"p">>}
MCArguments == MCFormatArguments \cup MCSampleArguments \cup MCDirArguments \cup MCOtherArguments

\* Every name in one bucket, and two ways to divide them.
MCNames == {<<"f">>, <<"s">>, <<"d">>, <<"x">>, <<"y">>, <<>>}
MCHashes == {[n \in MCNames |-> IF n \in S THEN 1 ELSE 0] : S \in {{}, {<<"s">>, <<>>}, {<<"f">>, <<"d">>, <<"x">>}}}

MCFile(k, s, nnz, digits, lines) ==
  [name |-> <<"k">> \o digits[1] \o <<"_", "s">> \o digits[2] \o <<".", "t">>, text |-> lines, k |-> k, s |-> s, nnz |-> nnz]
MCLine(text, digits, end) == text \o digits \o end

\* The three lines in any order, two of them in one, the last with and without an end, numbers
\* of several digits, nothing at all, and a line that is too short.
MCFiles ==
  {MCFile(1, 2, 30, <<<<"1">>, <<"2">>>>,
     MCLine(MCKLine, <<"1">>, MCBlanks) \o MCLine(<<"#", " ">> \o MCSLine, <<"2">>, MCBlanks) \o MCLine(MCNnzLine, <<"3", "0">>, <<"NL">>)),
   MCFile(12, 1, 4, <<<<"1", "2">>, <<"1">>>>,
     MCLine(MCNnzLine, <<"4">>, <<"NL">>) \o MCLine(MCKLine, <<"1", "2">>, <<" ">>) \o MCLine(MCSLine, <<"1">>, <<>>)),
   MCFile(0, 0, 0, <<<<"0">>, <<"0">>>>, <<>>),
   MCFile(2, 1, 0, <<<<"2">>, <<"1">>>>, MCLine(MCKLine, <<"2">>, MCBlanks) \o MCLine(<<"#">>, <<>>, <<"NL">>))}
=============================================================================
