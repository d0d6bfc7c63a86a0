--------------------------- MODULE OptionsProofs ---------------------------
(* What TLAPS proves about the arguments and the table of options, for every *)
(* set of arguments, every hash function and every number of buckets.        *)
EXTENDS Options, KernelProofs, SequenceTheorems

-----------------------------------------------------------------------------
(* Sequences.                                                              *)

LEMMA FirstPlace ==
  ASSUME NEW n \in Nat, NEW I \in SUBSET (1 .. n), I # {}
  PROVE  Min(I) \in I /\ \A i \in I : Min(I) <= i
<1>1. I \subseteq Nat
  OBVIOUS
<1>2. \E i \in I : \A j \in I : i <= j
  BY <1>1, LeastNumber
<1>3. QED
  BY <1>2, Zenon DEF Min

LEMMA ElementOf ==
  ASSUME NEW S, NEW s \in Seq(S)
  PROVE  /\ Len(s) \in Nat /\ DOMAIN s = 1 .. Len(s)
         /\ \A i \in 1 .. Len(s) : s[i] \in S
  OBVIOUS

\* A new element is the second of a bucket, behind the one that lies in the table.
LEMMA SecondPlace ==
  ASSUME NEW S, NEW s \in Seq(S), s # <<>>, NEW e \in S
  PROVE  InsertAt(s, 2, e) \in Seq(S) /\ ToSet(InsertAt(s, 2, e)) = ToSet(s) \cup {e}
<1> DEFINE head == SubSeq(s, 1, 1)
           tail == SubSeq(s, 2, Len(s))
           front == head \o <<e>>
           new == front \o tail
<1>1. Len(s) \in Nat /\ Len(s) >= 1 /\ DOMAIN s = 1 .. Len(s)
  OBVIOUS
<1>2. head \in Seq(S) /\ Len(head) = 1 /\ head[1] = s[1]
  BY <1>1
<1>3. tail \in Seq(S) /\ Len(tail) = Len(s) - 1 /\ \A i \in 1 .. Len(s) - 1 : tail[i] = s[i + 1]
  BY <1>1
<1> HIDE DEF head, tail
<1>4. front \in Seq(S) /\ Len(front) = 2 /\ front[1] = s[1] /\ front[2] = e
  <2> DEFINE one == <<e>>
  <2>1. one \in Seq(S) /\ Len(one) = 1 /\ one[1] = e
    OBVIOUS
  <2> HIDE DEF one
  <2>2. /\ head \o one \in Seq(S) /\ Len(head \o one) = Len(head) + Len(one)
        /\ \A i \in 1 .. Len(head) + Len(one) :
             (head \o one)[i] = IF i <= Len(head) THEN head[i] ELSE one[i - Len(head)]
    BY <1>2, <2>1, ConcatProperties
  <2>3. front = head \o one
    BY DEF one
  <2> HIDE DEF front
  <2>4. QED
    BY <1>2, <2>1, <2>2, <2>3
<1> HIDE DEF front
<1>5. /\ new \in Seq(S) /\ Len(new) = Len(s) + 1
      /\ \A i \in 1 .. Len(s) + 1 : new[i] = IF i <= 2 THEN front[i] ELSE tail[i - 2]
  <2>1. /\ front \o tail \in Seq(S) /\ Len(front \o tail) = Len(front) + Len(tail)
        /\ \A i \in 1 .. Len(front) + Len(tail) :
             (front \o tail)[i] = IF i <= Len(front) THEN front[i] ELSE tail[i - Len(front)]
    BY <1>3, <1>4, ConcatProperties
  <2> HIDE DEF new
  <2>2. new = front \o tail
    BY DEF new
  <2>3. QED
    BY <1>1, <1>3, <1>4, <2>1, <2>2
<1> HIDE DEF new
<1>6. /\ new[1] = s[1] /\ new[2] = e
      /\ \A i \in 1 .. Len(s) - 1 : new[i + 2] = s[i + 1]
  BY <1>1, <1>3, <1>4, <1>5
<1>7. InsertAt(s, 2, e) = new
  BY DEF InsertAt, head, tail, front, new
<1>8. ASSUME NEW x \in ToSet(new) PROVE x \in ToSet(s) \cup {e}
  <2>1. PICK i \in 1 .. Len(s) + 1 : x = new[i]
    BY <1>5 DEF ToSet
  <2>2. CASE i >= 3
    <3>1. i - 2 \in 1 .. Len(s) - 1 /\ i = (i - 2) + 2 /\ (i - 2) + 1 \in 1 .. Len(s)
      BY <1>1, <2>2
    <3>2. QED
      BY <1>1, <1>6, <2>1, <3>1 DEF ToSet
  <2>3. CASE i = 1 \/ i = 2
    BY <1>1, <1>6, <2>1, <2>3 DEF ToSet
  <2>4. QED
    BY <1>1, <2>2, <2>3
<1>9. ASSUME NEW x \in ToSet(s) \cup {e} PROVE x \in ToSet(new)
  <2>1. DOMAIN new = 1 .. Len(s) + 1
    BY <1>5
  <2>2. CASE x = e
    BY <1>1, <1>6, <2>1, <2>2 DEF ToSet
  <2>3. CASE x \in ToSet(s)
    <3>1. PICK i \in 1 .. Len(s) : x = s[i]
      BY <1>1, <2>3 DEF ToSet
    <3>2. CASE i = 1
      BY <1>1, <1>6, <2>1, <3>1, <3>2 DEF ToSet
    <3>3. CASE i > 1
      <4>1. i - 1 \in 1 .. Len(s) - 1 /\ (i - 1) + 1 = i /\ (i - 1) + 2 \in 1 .. Len(s) + 1
        BY <1>1, <3>3
      <4>2. x = new[(i - 1) + 2]
        BY <1>6, <3>1, <4>1
      <4>3. QED
        BY <2>1, <4>1, <4>2 DEF ToSet
    <3>4. QED
      BY <1>1, <3>2, <3>3
  <2>4. QED
    BY <2>2, <2>3
<1>10. QED
  BY <1>5, <1>7, <1>8, <1>9

LEMMA AppendedSet ==
  ASSUME NEW S, NEW s \in Seq(S), NEW e \in S
  PROVE  ToSet(Append(s, e)) = ToSet(s) \cup {e}
<1> DEFINE new == Append(s, e)
<1>1. /\ Len(s) \in Nat /\ DOMAIN s = 1 .. Len(s) /\ DOMAIN new = 1 .. Len(s) + 1
      /\ new[Len(s) + 1] = e /\ \A i \in 1 .. Len(s) : new[i] = s[i]
  OBVIOUS
<1> HIDE DEF new
<1>2. ToSet(new) = ToSet(s) \cup {e}
  BY <1>1 DEF ToSet
<1>3. QED
  BY <1>2 DEF new

-----------------------------------------------------------------------------
(* Views of a string.                                                      *)

\* A view that lies in its object and shows the characters c.
Views(string, c) ==
  /\ IsText(c) /\ string.v \in Nat /\ string.count = Len(c)
  /\ string = [text |-> string.text, v |-> string.v, count |-> string.count]
  /\ string.v + Len(c) <= Len(string.text) /\ Len(string.text) \in Nat
  /\ \A i \in 1 .. Len(c) : string.text[string.v + i] = c[i]

LEMMA TextFacts ==
  ASSUME NEW c, IsText(c)
  PROVE  Len(c) \in Nat /\ DOMAIN c = 1 .. Len(c) /\ c = [i \in 1 .. Len(c) |-> c[i]] /\ W \in Nat /\ Len(c) < W
  BY WidthAssumption DEF IsText

LEMMA TextPart ==
  ASSUME NEW c, IsText(c), NEW from \in 0 .. Len(c), NEW to \in from .. Len(c)
  PROVE  /\ IsText(SubSeq(c, from + 1, to)) /\ Len(SubSeq(c, from + 1, to)) = to - from
         /\ \A i \in 1 .. to - from : SubSeq(c, from + 1, to)[i] = c[from + i]
<1>1. Len(c) \in Nat /\ DOMAIN c = 1 .. Len(c) /\ Len(c) < W /\ W \in Nat
  BY TextFacts
<1>2. PICK S : S = {c[i] : i \in DOMAIN c}
  OBVIOUS
<1>3. PICK d : d = SubSeq(c, from + 1, to)
  OBVIOUS
<1>4. \A i \in from + 1 .. to : c[i] \in S
  BY <1>1, <1>2
<1>5. d \in Seq(S) /\ Len(d) = (IF from + 1 <= to THEN to - (from + 1) + 1 ELSE 0) /\ \A i \in 1 .. to - (from + 1) + 1 : d[i] = c[from + 1 + i - 1]
  BY <1>3, <1>4, SubSeqProperties
<1>6. Len(d) = to - from
  BY <1>1, <1>5
<1>7. \A i \in 1 .. to - from : d[i] = c[from + i]
  <2> TAKE i \in 1 .. to - from
  <2>1. i \in 1 .. to - (from + 1) + 1 /\ from + 1 + i - 1 = from + i
    OBVIOUS
  <2>2. QED
    BY <1>5, <2>1
<1>8. d \in Seq({d[i] : i \in DOMAIN d})
  BY <1>5
<1>9. Len(d) < W
  BY <1>1, <1>6
<1>10. QED
  BY <1>3, <1>6, <1>7, <1>8, <1>9 DEF IsText

LEMMA ViewsOf ==
  ASSUME NEW c, IsText(c)
  PROVE  Views(String(c), c)
<1>1. Len(c) \in Nat /\ DOMAIN c = 1 .. Len(c)
  BY TextFacts
<1>2. String(c).text = c /\ String(c).v = 0 /\ String(c).count = Len(c)
  BY DEF String
<1>3. String(c) = [text |-> String(c).text, v |-> String(c).v, count |-> String(c).count]
  BY DEF String
<1>4. QED
  BY <1>1, <1>2, <1>3 DEF Views

LEMMA ViewAt ==
  ASSUME NEW string, NEW c, Views(string, c), NEW i \in 0 .. Len(c) - 1
  PROVE  At(string, i) = c[i + 1]
<1>1. Len(c) \in Nat
  BY TextFacts DEF Views
<1>2. string.v \in Nat /\ string.v + i < Len(string.text)
  BY <1>1 DEF Views
<1>3. At(string, i) = string.text[string.v + i + 1]
  BY <1>2 DEF At
<1>4. i + 1 \in 1 .. Len(c) /\ string.v + i + 1 = string.v + (i + 1)
  BY <1>1, <1>2
<1>5. string.text[string.v + (i + 1)] = c[i + 1]
  BY <1>4 DEF Views
<1>6. QED
  BY <1>3, <1>4, <1>5

LEMMA ViewChars ==
  ASSUME NEW string, NEW c, Views(string, c)
  PROVE  Chars(string) = c
<1>1. Len(c) \in Nat /\ c = [i \in 1 .. Len(c) |-> c[i]]
  BY TextFacts DEF Views
<1>2. ASSUME NEW i \in 1 .. Len(c) PROVE At(string, i - 1) = c[i]
  <2>1. i - 1 \in 0 .. Len(c) - 1 /\ (i - 1) + 1 = i
    BY <1>1
  <2>2. QED
    BY <2>1, ViewAt
<1>3. string.count = Len(c)
  BY DEF Views
<1>4. QED
  BY <1>1, <1>2, <1>3 DEF Chars

\* string_substring within the view.
LEMMA PartIs ==
  ASSUME NEW string, NEW c, Views(string, c), NEW from \in 0 .. Len(c), NEW to \in from .. Len(c)
  PROVE  string_substring(string, from, to) = [text |-> string.text, v |-> string.v + from, count |-> to - from]
<1>1. IsText(c) /\ Len(c) \in Nat /\ Len(c) < W /\ W \in Nat
  BY TextFacts DEF Views
<1>2. PICK sub : sub = string_substring(string, from, to)
  OBVIOUS
<1>3. string.count = Len(c) /\ string.v \in Nat /\ string = [text |-> string.text, v |-> string.v, count |-> string.count]
  BY DEF Views
<1>4. Atmost(from, string.count) = from /\ Atmost(to, string.count) = to
  BY <1>1, <1>3 DEF Atmost
<1>5. Word(to - from) = to - from
  <2>1. to - from \in 0 .. W - 1
    BY <1>1
  <2>2. QED
    BY <1>1, <2>1 DEF Word
<1>6. sub = [string EXCEPT !.v = @ + from, !.count = to - from]
  BY <1>2, <1>4, <1>5 DEF string_substring
<1>7. sub = [text |-> string.text, v |-> string.v + from, count |-> to - from]
  BY <1>3, <1>6
<1>8. QED
  BY <1>2, <1>7

LEMMA ViewPart ==
  ASSUME NEW string, NEW c, Views(string, c), NEW from \in 0 .. Len(c), NEW to \in from .. Len(c)
  PROVE  Views(string_substring(string, from, to), SubSeq(c, from + 1, to))
<1>1. IsText(c) /\ Len(c) \in Nat /\ Len(c) < W /\ W \in Nat
  BY TextFacts DEF Views
<1>2. PICK sub, d : sub = string_substring(string, from, to) /\ d = SubSeq(c, from + 1, to)
  OBVIOUS
<1>3. IsText(d) /\ Len(d) = to - from /\ \A i \in 1 .. to - from : d[i] = c[from + i]
  BY <1>1, <1>2, TextPart
<1>4. string.v \in Nat
  BY DEF Views
<1>5. sub = [text |-> string.text, v |-> string.v + from, count |-> to - from]
  BY <1>2, PartIs
<1>6. sub.text = string.text /\ sub.v = string.v + from /\ sub.count = to - from
      /\ sub = [text |-> sub.text, v |-> sub.v, count |-> sub.count]
  BY <1>5
<1>7. \A i \in 1 .. to - from : string.text[string.v + from + i] = c[from + i]
  <2> TAKE i \in 1 .. to - from
  <2>1. from + i \in 1 .. Len(c) /\ string.v + from + i = string.v + (from + i)
    BY <1>1, <1>4
  <2>2. PICK k \in 1 .. Len(c) : k = from + i
    BY <2>1
  <2>3. string.text[string.v + k] = c[k]
    BY DEF Views
  <2>4. QED
    BY <2>1, <2>2, <2>3
<1>8. string.v + Len(c) <= Len(string.text) /\ Len(string.text) \in Nat
  BY DEF Views
<1>9. sub.v \in Nat /\ sub.v + Len(d) <= Len(sub.text) /\ Len(sub.text) \in Nat /\ sub.count = Len(d)
  BY <1>1, <1>3, <1>4, <1>6, <1>8
<1>10. \A i \in 1 .. Len(d) : sub.text[sub.v + i] = d[i]
  BY <1>3, <1>6, <1>7
<1>11. Views(sub, d)
  BY <1>3, <1>6, <1>9, <1>10 DEF Views
<1>12. QED
  BY <1>2, <1>11

LEMMA ViewSkip ==
  ASSUME NEW string, NEW c, Views(string, c), NEW n \in Nat, n <= Len(c)
  PROVE  Views(string_skip(string, n), SubSeq(c, n + 1, Len(c)))
<1>1. IsText(c) /\ Len(c) \in Nat /\ Len(c) < W /\ W \in Nat
  BY TextFacts DEF Views
<1>2. Views(string_substring(string, n, Len(c)), SubSeq(c, n + 1, Len(c)))
  BY <1>1, ViewPart
<1>3. string.count = Len(c) /\ string.v \in Nat /\ string = [text |-> string.text, v |-> string.v, count |-> string.count]
  BY DEF Views
<1>4. Atmost(n, string.count) = n /\ Atmost(string.count, n) = n /\ Atmost(Len(c), string.count) = Len(c)
  BY <1>1, <1>3 DEF Atmost
<1>5. Word(Len(c) - n) = Len(c) - n
  <2>1. Len(c) - n \in 0 .. W - 1
    BY <1>1
  <2>2. QED
    BY <1>1, <2>1 DEF Word
<1>6. string_substring(string, n, Len(c)) = [string EXCEPT !.v = @ + n, !.count = Len(c) - n]
  BY <1>4, <1>5 DEF string_substring
<1>7. string_skip(string, n) = [string EXCEPT !.v = @ + n, !.count = @ - n]
  BY <1>4 DEF string_skip
<1>8. string_skip(string, n) = string_substring(string, n, Len(c))
  BY <1>3, <1>6, <1>7
<1>9. QED
  BY <1>2, <1>8

-----------------------------------------------------------------------------
(* The search for one character.                                           *)

LEMMA MatchOne ==
  ASSUME NEW string, NEW c, Views(string, c), NEW i \in 0 .. Len(c) - 1, NEW ch
  PROVE  string_match(string_substring(string, i, i + 1), String(<<ch>>)) <=> c[i + 1] = ch
<1>1. IsText(c) /\ Len(c) \in Nat /\ Len(c) < W /\ W \in Nat
  BY TextFacts DEF Views
<1>2. i \in 0 .. Len(c) /\ i + 1 \in i .. Len(c)
  BY <1>1
<1>3. PICK sub, d, one : sub = string_substring(string, i, i + 1) /\ d = SubSeq(c, i + 1, i + 1) /\ one = String(<<ch>>)
  OBVIOUS
<1>4. Views(sub, d)
  BY <1>2, <1>3, ViewPart
<1>5. IsText(d) /\ Len(d) = 1 /\ d[1] = c[i + 1]
  <2>1. Len(d) = (i + 1) - i /\ \A k \in 1 .. (i + 1) - i : d[k] = c[i + k]
    BY <1>1, <1>2, <1>3, TextPart
  <2>2. IsText(d)
    BY <1>4 DEF Views
  <2>3. QED
    BY <2>1, <2>2
<1>6. Chars(sub) = d /\ sub.count = 1
  BY <1>4, <1>5, ViewChars DEF Views
<1>7. d = <<c[i + 1]>>
  BY <1>5, TextFacts
<1>8. IsText(<<ch>>)
  <2>1. Len(<<ch>>) = 1 /\ 1 < W
    BY <1>1
  <2>2. QED
    BY <2>1 DEF IsText
<1>9. Views(one, <<ch>>)
  BY <1>3, <1>8, ViewsOf
<1>10. Chars(one) = <<ch>> /\ one.count = 1
  BY <1>9, ViewChars DEF Views
<1>11. string_match(sub, one) <=> <<c[i + 1]>> = <<ch>>
  BY <1>6, <1>7, <1>10 DEF string_match
<1>12. QED
  BY <1>3, <1>11

\* string_find_substring for one character: the first place of it from start on, or the end.
LEMMA FindIs ==
  ASSUME NEW string, NEW c, Views(string, c), NEW start \in 0 .. Len(c) + 1, NEW ch,
         NEW at, at = string_find_substring(string, start, String(<<ch>>))
  PROVE  /\ at \in 0 .. Len(c)
         /\ at < Len(c) => start <= at /\ c[at + 1] = ch
         /\ \A i \in start .. Len(c) - 1 : c[i + 1] = ch => at <= i
<1>1. IsText(c) /\ Len(c) \in Nat /\ Len(c) < W /\ W \in Nat
  BY TextFacts DEF Views
<1>2. string.count = Len(c) /\ String(<<ch>>).count = 1
  BY DEF Views, String
<1>3. Comparisons(string, String(<<ch>>)) = Len(c)
  <2>1. Len(c) - 1 + 1 = Len(c) /\ Len(c) \in 0 .. W - 1
    BY <1>1
  <2>2. QED
    BY <1>1, <1>2, <2>1 DEF Comparisons, Word
<1>4. PICK found : found = {i \in start .. Len(c) - 1 : string_match(string_substring(string, i, i + 1), String(<<ch>>))}
  OBVIOUS
<1>5. found = {i \in start .. Len(c) - 1 : c[i + 1] = ch}
  <2>1. \A i \in start .. Len(c) - 1 : i \in 0 .. Len(c) - 1
    BY <1>1
  <2>2. QED
    BY <1>4, <2>1, MatchOne
<1>6. at = IF found = {} THEN Len(c) ELSE Min(found)
  <2> DEFINE hits(last, count) == {i \in start .. last : string_match(string_substring(string, i, i + count), String(<<ch>>))}
  <2>1. at = LET m == Comparisons(string, String(<<ch>>))
                 n == String(<<ch>>).count
             IN  IF n = 0 \/ hits(m - 1, n) = {} THEN string.count ELSE Min(hits(m - 1, n))
    BY DEF string_find_substring
  <2>2. hits(Len(c) - 1, 1) = found
    BY <1>4
  <2> HIDE DEF hits
  <2>3. QED
    BY <1>2, <1>3, <2>1, <2>2
<1>7. CASE found = {}
  BY <1>1, <1>5, <1>6, <1>7
<1>8. CASE found # {}
  <2>1. found \subseteq Nat
    BY <1>5
  <2>2. \E i \in found : \A j \in found : i <= j
    BY <1>8, <2>1, LeastNumber
  <2>3. Min(found) \in found /\ \A i \in found : Min(found) <= i
    BY <2>2, Zenon DEF Min
  <2>4. at \in found /\ \A i \in found : at <= i
    BY <1>6, <1>8, <2>3
  <2>5. QED
    BY <1>1, <1>5, <2>4
<1>9. QED
  BY <1>7, <1>8

-----------------------------------------------------------------------------
(* Where a text is cut.                                                    *)

CutsOf(c, ch) == <<0>> \o Positions(c, ch) \o <<Len(c) + 1>>
PlacesOf(c, ch) == {i \in DOMAIN c : c[i] = ch}

\* The piece that begins at or before r, counting from 1.
PieceAt(c, ch, r) == Below(PlacesOf(c, ch), r + 1) + 1

\* The places of ch in c, in ascending order.
Positioned(c, ch, m, s) ==
  /\ m \in Nat /\ s \in [1 .. m -> 1 .. Len(c)]
  /\ \A k \in 1 .. m : c[s[k]] = ch
  /\ \A i, j \in 1 .. m : s[i] < s[j] <=> i < j
  /\ \A i \in 1 .. Len(c) : c[i] = ch => \E k \in 1 .. m : s[k] = i
  /\ \A r \in Int :
       /\ Below(PlacesOf(c, ch), r) \in 0 .. m
       /\ \A k \in 1 .. m : s[k] < r <=> k <= Below(PlacesOf(c, ch), r)

LEMMA PositionFacts ==
  ASSUME NEW c, IsText(c), NEW ch, NEW m, m = Cardinality(PlacesOf(c, ch)), NEW s, s = Positions(c, ch)
  PROVE  Positioned(c, ch, m, s)
<1>1. PICK P : P = PlacesOf(c, ch)
  OBVIOUS
<1>2. Len(c) \in Nat /\ DOMAIN c = 1 .. Len(c)
  BY TextFacts
<1>3. P \in SUBSET (1 .. Len(c)) /\ P \subseteq Int /\ IsFiniteSet(P)
  <2>1. P \in SUBSET (1 .. Len(c))
    BY <1>1, <1>2 DEF PlacesOf
  <2>2. IsFiniteSet(1 .. Len(c))
    BY <1>2, FS_Interval
  <2>3. IsFiniteSet(P)
    BY <2>1, <2>2, FS_Subset
  <2>4. QED
    BY <2>1, <2>3
<1>4. s = Ascend(P)
  BY <1>1 DEF Positions, PlacesOf, Ascend
<1>40. m = Cardinality(P)
  BY <1>1
<1>5. /\ m \in Nat /\ s \in [1 .. m -> P]
      /\ \A i, j \in 1 .. m : s[i] < s[j] <=> i < j
      /\ \A p \in P : \E i \in 1 .. m : s[i] = p
      /\ \A r \in Int :
           /\ Below(P, r) \in 0 .. m
           /\ \A i \in 1 .. m : s[i] < r <=> i <= Below(P, r)
  BY <1>3, <1>4, <1>40, NumbersAscend, Zenon
<1>6. \A k \in 1 .. m : s[k] \in 1 .. Len(c) /\ c[s[k]] = ch
  BY <1>1, <1>3, <1>5 DEF PlacesOf
<1>7. \A i \in 1 .. Len(c) : c[i] = ch => \E k \in 1 .. m : s[k] = i
  BY <1>1, <1>2, <1>5 DEF PlacesOf
<1>8. s \in [1 .. m -> 1 .. Len(c)]
  BY <1>5, <1>6
<1>9. QED
  BY <1>1, <1>5, <1>6, <1>7, <1>8 DEF Positioned

LEMMA CutFacts ==
  ASSUME NEW c, IsText(c), NEW ch, NEW m, m = Cardinality(PlacesOf(c, ch)), NEW s, s = Positions(c, ch),
         NEW cuts, cuts = CutsOf(c, ch)
  PROVE  /\ m \in Nat /\ Len(cuts) = m + 2 /\ DOMAIN cuts = 1 .. m + 2 /\ cuts[1] = 0 /\ cuts[m + 2] = Len(c) + 1
         /\ \A k \in 2 .. m + 1 : cuts[k] = s[k - 1] /\ cuts[k] \in 1 .. Len(c) /\ c[cuts[k]] = ch
<1>1. m \in Nat /\ s \in [1 .. m -> 1 .. Len(c)] /\ \A k \in 1 .. m : c[s[k]] = ch
  BY PositionFacts DEF Positioned
<1>2. Len(c) \in Nat
  BY TextFacts
<1>3. PICK one, last : one = <<0>> /\ last = <<Len(c) + 1>>
  OBVIOUS
<1>4. s \in Seq(Nat) /\ one \in Seq(Nat) /\ last \in Seq(Nat) /\ Len(s) = m /\ Len(one) = 1 /\ Len(last) = 1
      /\ one[1] = 0 /\ last[1] = Len(c) + 1
  <2>1. s \in Seq(Nat) /\ Len(s) = m
    <3>1. s \in [1 .. m -> Nat]
      BY <1>1
    <3>2. QED
      BY <1>1, <3>1
  <2>2. one \in Seq(Nat) /\ last \in Seq(Nat)
    BY <1>2, <1>3
  <2>3. QED
    BY <1>3, <2>1, <2>2
<1>5. PICK front : front = one \o s
  OBVIOUS
<1>6. front \in Seq(Nat) /\ Len(front) = m + 1 /\ \A i \in 1 .. m + 1 : front[i] = IF i <= 1 THEN one[i] ELSE s[i - 1]
  <2>1. /\ one \o s \in Seq(Nat) /\ Len(one \o s) = Len(one) + Len(s)
        /\ \A i \in 1 .. Len(one) + Len(s) : (one \o s)[i] = IF i <= Len(one) THEN one[i] ELSE s[i - Len(one)]
    <3>1. one \in Seq(Nat) /\ s \in Seq(Nat)
      BY <1>4
    <3>2. QED
      BY <3>1, ConcatProperties
  <2>2. QED
    BY <1>1, <1>4, <1>5, <2>1
<1>7. cuts = front \o last
  BY <1>3, <1>5 DEF CutsOf
<1>8. cuts \in Seq(Nat) /\ Len(cuts) = m + 2 /\ \A i \in 1 .. m + 2 : cuts[i] = IF i <= m + 1 THEN front[i] ELSE last[i - (m + 1)]
  <2>1. /\ front \o last \in Seq(Nat) /\ Len(front \o last) = Len(front) + Len(last)
        /\ \A i \in 1 .. Len(front) + Len(last) : (front \o last)[i] = IF i <= Len(front) THEN front[i] ELSE last[i - Len(front)]
    BY <1>4, <1>6, ConcatProperties, Zenon
  <2>2. QED
    BY <1>1, <1>4, <1>6, <1>7, <2>1
<1>9. cuts[1] = 0 /\ cuts[m + 2] = Len(c) + 1
  BY <1>1, <1>4, <1>6, <1>8
<1>10. ASSUME NEW k \in 2 .. m + 1 PROVE cuts[k] = s[k - 1] /\ cuts[k] \in 1 .. Len(c) /\ c[cuts[k]] = ch
  <2>1. cuts[k] = s[k - 1]
    <3>1. k \in 1 .. m + 2 /\ k <= m + 1 /\ k \in 1 .. m + 1 /\ ~(k <= 1)
      BY <1>1
    <3>2. cuts[k] = front[k] /\ front[k] = s[k - 1]
      BY <1>6, <1>8, <3>1
    <3>3. QED
      BY <3>2
  <2>2. k - 1 \in 1 .. m
    BY <1>1
  <2>3. QED
    BY <1>1, <2>1, <2>2
<1>11. QED
  BY <1>1, <1>8, <1>9, <1>10

\* What lies between r and the next cut behind it.
LEMMA PieceFacts ==
  ASSUME NEW c, IsText(c), NEW ch, NEW m, m = Cardinality(PlacesOf(c, ch)),
         NEW cuts, cuts = CutsOf(c, ch), NEW r \in 0 .. Len(c), NEW b, b = PieceAt(c, ch, r)
  PROVE  /\ b \in 1 .. m + 1 /\ r < cuts[b + 1] /\ cuts[b + 1] \in 1 .. Len(c) + 1
         /\ \A i \in r + 1 .. cuts[b + 1] - 1 : c[i] # ch
         /\ \A k \in 1 .. m + 1 : cuts[k] = r => k = b
<1>1. PICK s : s = Positions(c, ch)
  OBVIOUS
<1>0. Positioned(c, ch, m, s)
  BY <1>1, PositionFacts
<1>2. /\ m \in Nat /\ s \in [1 .. m -> 1 .. Len(c)]
      /\ \A i, j \in 1 .. m : s[i] < s[j] <=> i < j
      /\ \A i \in 1 .. Len(c) : c[i] = ch => \E k \in 1 .. m : s[k] = i
  BY <1>0 DEF Positioned
<1>3. /\ m \in Nat /\ cuts[1] = 0 /\ cuts[m + 2] = Len(c) + 1
      /\ \A k \in 2 .. m + 1 : cuts[k] = s[k - 1]
  BY <1>1, CutFacts
<1>4. Len(c) \in Nat
  BY TextFacts
<1>5. b - 1 \in 0 .. m /\ b \in 1 .. m + 1 /\ \A k \in 1 .. m : s[k] < r + 1 <=> k <= b - 1
  <2>1. r + 1 \in Int
    OBVIOUS
  <2>2. PICK x : x = Below(PlacesOf(c, ch), r + 1)
    OBVIOUS
  <2>3. x \in 0 .. m /\ \A k \in 1 .. m : s[k] < r + 1 <=> k <= x
    <3>1. \A q \in Int :
            /\ Below(PlacesOf(c, ch), q) \in 0 .. m
            /\ \A k \in 1 .. m : s[k] < q <=> k <= Below(PlacesOf(c, ch), q)
      BY <1>0 DEF Positioned
    <3>2. QED
      BY <2>1, <2>2, <3>1, Zenon
  <2>4. b = x + 1
    BY <2>2 DEF PieceAt
  <2>5. b - 1 = x
    BY <2>3, <2>4
  <2>6. QED
    BY <1>2, <2>3, <2>4, <2>5
<1>6. ASSUME b = m + 1
      PROVE  /\ r < cuts[b + 1] /\ cuts[b + 1] \in 1 .. Len(c) + 1
             /\ \A i \in r + 1 .. cuts[b + 1] - 1 : c[i] # ch
  <2>1. cuts[b + 1] = Len(c) + 1
    BY <1>2, <1>3, <1>6
  <2>2. ASSUME NEW i \in r + 1 .. Len(c) PROVE c[i] # ch
    <3>1. SUFFICES ASSUME c[i] = ch PROVE FALSE
      OBVIOUS
    <3>2. PICK k \in 1 .. m : s[k] = i
      BY <1>2, <3>1
    <3>3. s[k] < r + 1
      <4>1. k <= b - 1
        BY <1>2, <1>6
      <4>2. QED
        BY <1>5, <4>1
    <3>4. QED
      BY <3>2, <3>3
  <2>3. QED
    BY <1>2, <1>3, <1>4, <1>5, <1>6, <2>1, <2>2
<1>7. ASSUME b # m + 1
      PROVE  /\ r < cuts[b + 1] /\ cuts[b + 1] \in 1 .. Len(c) + 1
             /\ \A i \in r + 1 .. cuts[b + 1] - 1 : c[i] # ch
  <2>1. b \in 1 .. m /\ b + 1 \in 2 .. m + 1 /\ cuts[b + 1] = s[b]
    BY <1>2, <1>3, <1>5, <1>7
  <2>2. s[b] \in 1 .. Len(c) /\ ~(s[b] < r + 1)
    BY <1>2, <1>5, <2>1
  <2>3. ASSUME NEW i \in r + 1 .. s[b] - 1 PROVE c[i] # ch
    <3>1. SUFFICES ASSUME c[i] = ch PROVE FALSE
      OBVIOUS
    <3>2. i \in 1 .. Len(c)
      BY <1>4, <2>2
    <3>3. PICK k \in 1 .. m : s[k] = i
      BY <1>2, <3>1, <3>2
    <3>4. s[k] < s[b]
      BY <2>2, <3>3
    <3>5. k < b
      BY <1>2, <2>1, <3>4
    <3>6. s[k] < r + 1
      BY <1>5, <3>5
    <3>7. QED
      BY <3>3, <3>6
  <2>4. b + 1 \in 2 .. m + 1 /\ r < cuts[b + 1] /\ cuts[b + 1] \in 1 .. Len(c) + 1
    BY <1>4, <2>1, <2>2
  <2>5. QED
    BY <1>5, <2>1, <2>3, <2>4
<1>70. /\ r < cuts[b + 1] /\ cuts[b + 1] \in 1 .. Len(c) + 1
       /\ \A i \in r + 1 .. cuts[b + 1] - 1 : c[i] # ch
  BY <1>6, <1>7
<1>8. ASSUME NEW k \in 1 .. m + 1, cuts[k] = r PROVE k = b
  <2>1. CASE k = 1
    <3>1. r = 0
      BY <1>3, <1>8, <2>1
    <3>2. SUFFICES ASSUME b # 1 PROVE FALSE
      BY <2>1
    <3>3. 1 \in 1 .. m /\ 1 <= b - 1
      BY <1>2, <1>5, <3>2
    <3>4. s[1] < r + 1 /\ s[1] \in 1 .. Len(c)
      BY <1>2, <1>5, <3>3
    <3>5. QED
      BY <3>1, <3>4
  <2>2. CASE k # 1
    <3>1. k - 1 \in 1 .. m /\ s[k - 1] = r
      BY <1>2, <1>3, <1>8, <2>2
    <3>2. k - 1 <= b - 1
      BY <1>5, <3>1
    <3>3. SUFFICES ASSUME k # b PROVE FALSE
      OBVIOUS
    <3>4. b - 1 \in 1 .. m /\ k - 1 < b - 1
      BY <1>5, <3>1, <3>2, <3>3
    <3>5. s[b - 1] < r + 1 /\ s[k - 1] < s[b - 1] /\ s[b - 1] \in 1 .. Len(c)
      BY <1>2, <1>5, <3>1, <3>4
    <3>6. QED
      BY <3>1, <3>5
  <2>3. QED
    BY <2>1, <2>2
<1>9. QED
  BY <1>5, <1>70, <1>8

LEMMA NextCut ==
  ASSUME NEW string, NEW c, Views(string, c), NEW ch, NEW m, m = Cardinality(PlacesOf(c, ch)),
         NEW cuts, cuts = CutsOf(c, ch), NEW r \in 0 .. Len(c), NEW b, b = PieceAt(c, ch, r)
  PROVE  /\ b \in 1 .. m + 1 /\ cuts[b + 1] \in r + 1 .. Len(c) + 1
         /\ string_find_substring(string, r, String(<<ch>>)) = cuts[b + 1] - 1
<1>1. IsText(c) /\ Len(c) \in Nat
  BY TextFacts DEF Views
<1>2. PICK at, q : at = string_find_substring(string, r, String(<<ch>>)) /\ q = cuts[b + 1] - 1
  OBVIOUS
<1>3. /\ b \in 1 .. m + 1 /\ r < cuts[b + 1] /\ cuts[b + 1] \in 1 .. Len(c) + 1
      /\ \A i \in r + 1 .. cuts[b + 1] - 1 : c[i] # ch
  BY <1>1, PieceFacts
<1>4. r \in 0 .. Len(c) + 1
  BY <1>1
<1>5. /\ at \in 0 .. Len(c)
      /\ at < Len(c) => r <= at /\ c[at + 1] = ch
      /\ \A i \in r .. Len(c) - 1 : c[i + 1] = ch => at <= i
  BY <1>2, <1>4, FindIs
<1>6. q \in r .. Len(c) /\ \A i \in r + 1 .. q : c[i] # ch
  BY <1>1, <1>2, <1>3
<1>7. ~(at < q)
  <2>1. SUFFICES ASSUME at < q PROVE FALSE
    OBVIOUS
  <2>2. at < Len(c) /\ r <= at /\ c[at + 1] = ch
    BY <1>1, <1>5, <1>6, <2>1
  <2>3. at + 1 \in r + 1 .. q
    BY <1>5, <1>6, <2>1, <2>2
  <2>4. QED
    BY <1>6, <2>2, <2>3
<1>8. at <= q
  <2>1. CASE q = Len(c)
    BY <1>1, <1>5, <2>1
  <2>2. CASE q # Len(c)
    <3>1. q \in r .. Len(c) - 1
      BY <1>1, <1>6, <2>2
    <3>2. b + 1 \in 2 .. m + 1 /\ cuts[b + 1] = q + 1
      <4>1. m \in Nat /\ cuts[m + 2] = Len(c) + 1
        BY <1>1, CutFacts
      <4>2. b # m + 1
        BY <1>1, <1>2, <2>2, <4>1
      <4>3. QED
        BY <1>2, <1>3, <4>1, <4>2
    <3>3. c[q + 1] = ch
      BY <1>1, <3>2, CutFacts
    <3>4. QED
      BY <1>5, <3>1, <3>3
  <2>3. QED
    BY <2>1, <2>2
<1>9. at = q
  BY <1>1, <1>5, <1>6, <1>7, <1>8
<1>10. cuts[b + 1] \in r + 1 .. Len(c) + 1
  BY <1>1, <1>3
<1>11. QED
  BY <1>2, <1>3, <1>9, <1>10

LEMMA PrependIs ==
  ASSUME NEW x, NEW k \in Nat, NEW f, f = [i \in 1 .. k |-> f[i]]
  PROVE  <<x>> \o f = [i \in 1 .. k + 1 |-> IF i = 1 THEN x ELSE f[i - 1]]
<1>1. PICK S : S = {x} \cup {f[i] : i \in 1 .. k}
  OBVIOUS
<1>2. PICK one : one = <<x>>
  OBVIOUS
<1>3. one \in Seq(S) /\ Len(one) = 1 /\ one[1] = x
  BY <1>1, <1>2
<1>4. f \in Seq(S) /\ Len(f) = k
  <2>1. f \in [1 .. k -> S]
    BY <1>1
  <2>2. QED
    BY <2>1
<1>5. /\ one \o f \in Seq(S) /\ Len(one \o f) = Len(one) + Len(f)
      /\ \A i \in 1 .. Len(one) + Len(f) : (one \o f)[i] = IF i <= Len(one) THEN one[i] ELSE f[i - Len(one)]
  BY <1>3, <1>4, ConcatProperties
<1>6. PICK t : t = one \o f
  OBVIOUS
<1>7. t = [i \in 1 .. k + 1 |-> t[i]]
  BY <1>3, <1>4, <1>5, <1>6
<1>8. ASSUME NEW i \in 1 .. k + 1 PROVE t[i] = IF i = 1 THEN x ELSE f[i - 1]
  BY <1>3, <1>4, <1>5, <1>6
<1>9. QED
  BY <1>2, <1>6, <1>7, <1>8

\* string_split cuts a view at every place of the delimiter.
LEMMA SplitIs ==
  ASSUME NEW string, NEW c, Views(string, c), NEW ch, NEW m, m = Cardinality(PlacesOf(c, ch)),
         NEW cuts, cuts = CutsOf(c, ch)
  PROVE  string_split(string, String(<<ch>>)) = [i \in 1 .. m + 1 |-> string_substring(string, cuts[i], cuts[i + 1] - 1)]
<1> DEFINE D == 0 .. string.count + String(<<ch>>).count
           Body(h, start) ==
             LET delimiter_idx == string_find_substring(string, start, String(<<ch>>))
             IN  IF start > delimiter_idx THEN <<>>
                 ELSE <<string_substring(string, start, delimiter_idx)>> \o h[delimiter_idx + String(<<ch>>).count]
           Recursive(h) == h = [start \in D |-> Body(h, start)]
           pieces == CHOOSE h : Recursive(h)
           b(r) == PieceAt(c, ch, r)
           sub(from, to) == string_substring(string, from, to)
           rest(r) == [i \in 1 .. m + 2 - b(r) |-> sub(IF i = 1 THEN r ELSE cuts[b(r) + i - 1], cuts[b(r) + i] - 1)]
           rests == [r \in D |-> IF r = Len(c) + 1 THEN <<>> ELSE rest(r)]
<1>1. IsText(c) /\ Len(c) \in Nat
  BY TextFacts DEF Views
<1>2. D = 0 .. Len(c) + 1 /\ String(<<ch>>).count = 1
  BY DEF Views, String
<1>3. m \in Nat /\ cuts[1] = 0 /\ cuts[m + 2] = Len(c) + 1
  BY <1>1, CutFacts
<1>4. ASSUME NEW r \in 0 .. Len(c)
      PROVE  /\ b(r) \in 1 .. m + 1 /\ cuts[b(r) + 1] \in r + 1 .. Len(c) + 1
             /\ string_find_substring(string, r, String(<<ch>>)) = cuts[b(r) + 1] - 1
  BY NextCut
<1>5. ASSUME NEW h, NEW r \in 0 .. Len(c)
      PROVE  Body(h, r) = <<sub(r, cuts[b(r) + 1] - 1)>> \o h[cuts[b(r) + 1]]
  <2>1. PICK q : q = cuts[b(r) + 1]
    OBVIOUS
  <2>2. q \in r + 1 .. Len(c) + 1 /\ string_find_substring(string, r, String(<<ch>>)) = q - 1
    BY <1>4, <2>1
  <2>3. ~(r > q - 1) /\ q - 1 + 1 = q
    BY <2>2
  <2>4. QED
    BY <1>2, <2>1, <2>2, <2>3
<1>6. ASSUME NEW h PROVE Body(h, Len(c) + 1) = <<>>
  <2>1. PICK at : at = string_find_substring(string, Len(c) + 1, String(<<ch>>))
    OBVIOUS
  <2>2. Len(c) + 1 \in 0 .. Len(c) + 1
    BY <1>1
  <2>3. at \in 0 .. Len(c)
    BY <2>1, <2>2, FindIs
  <2>4. Len(c) + 1 > at
    BY <1>1, <2>3
  <2>5. QED
    BY <2>1, <2>4
<1> HIDE DEF Body, D
<1>7. ASSUME NEW r \in 0 .. Len(c) PROVE <<sub(r, cuts[b(r) + 1] - 1)>> \o rests[cuts[b(r) + 1]] = rest(r)
  <2>1. PICK k, q, x : k = b(r) /\ q = cuts[b(r) + 1] /\ x = sub(r, cuts[b(r) + 1] - 1)
    OBVIOUS
  <2>2. k \in 1 .. m + 1 /\ q \in r + 1 .. Len(c) + 1 /\ q = cuts[k + 1]
    BY <1>4, <2>1
  <2>3. rest(r) = [i \in 1 .. m + 2 - k |-> sub(IF i = 1 THEN r ELSE cuts[k + i - 1], cuts[k + i] - 1)]
    BY <2>1
  <2>4. CASE k = m + 1
    <3>1. q = Len(c) + 1
      BY <1>3, <2>2, <2>4
    <3>2. rests[q] = <<>>
      BY <1>1, <1>2, <3>1
    <3>3. m + 2 - k = 1
      BY <1>3, <2>4
    <3>4. rest(r) = [i \in 1 .. 1 |-> sub(IF i = 1 THEN r ELSE cuts[k + i - 1], cuts[k + i] - 1)]
      BY <2>3, <3>3
    <3> HIDE DEF rest, rests, b, sub
    <3>5. \A i \in 1 .. 1 : sub(IF i = 1 THEN r ELSE cuts[k + i - 1], cuts[k + i] - 1) = x
      BY <2>1
    <3>6. rest(r) = [i \in 1 .. 1 |-> x]
      BY <3>4, <3>5
    <3>7. <<x>> \o <<>> = [i \in 1 .. 1 |-> x]
      OBVIOUS
    <3>8. QED
      BY <2>1, <3>2, <3>6, <3>7
  <2>5. CASE k # m + 1
    <3>1. k + 1 \in 2 .. m + 1 /\ k + 1 \in 1 .. m + 1
      BY <1>3, <2>2, <2>5
    <3>2. q \in 1 .. Len(c)
      BY <1>1, <2>2, <3>1, CutFacts
    <3>3. q \in 0 .. Len(c) /\ q # Len(c) + 1 /\ q \in 0 .. Len(c) + 1
      BY <1>1, <3>2
    <3>4. b(q) = k + 1
      BY <1>1, <2>2, <3>1, <3>3, PieceFacts
    <3>5. rests[q] = rest(q)
      BY <1>2, <3>3
    <3>6. m + 2 - (k + 1) = m + 1 - k /\ m + 1 - k \in Nat /\ m + 1 - k + 1 = m + 2 - k
      BY <1>3, <2>2
    <3>7. rest(q) = [i \in 1 .. m + 1 - k |-> sub(IF i = 1 THEN q ELSE cuts[(k + 1) + i - 1], cuts[(k + 1) + i] - 1)]
      BY <3>4, <3>6
    <3> HIDE DEF rest, rests, b, sub
    <3>8. PICK f : f = rest(q)
      OBVIOUS
    <3>9. f = [i \in 1 .. m + 1 - k |-> f[i]]
      BY <3>7, <3>8
    <3>10. \A i \in 1 .. m + 1 - k : f[i] = sub(cuts[k + i], cuts[k + 1 + i] - 1)
      <4> TAKE i \in 1 .. m + 1 - k
      <4>1. f[i] = sub(IF i = 1 THEN q ELSE cuts[(k + 1) + i - 1], cuts[(k + 1) + i] - 1)
        BY <3>7, <3>8
      <4>2. (k + 1) + i - 1 = k + i
        BY <2>2
      <4>3. (IF i = 1 THEN q ELSE cuts[(k + 1) + i - 1]) = cuts[k + i]
        BY <2>2, <4>2
      <4>4. QED
        BY <4>1, <4>3
    <3>11. <<x>> \o f = [i \in 1 .. m + 2 - k |-> IF i = 1 THEN x ELSE f[i - 1]]
      BY <3>6, <3>9, PrependIs
    <3>12. ASSUME NEW i \in 1 .. m + 2 - k
           PROVE  (IF i = 1 THEN x ELSE f[i - 1]) = sub(IF i = 1 THEN r ELSE cuts[k + i - 1], cuts[k + i] - 1)
      <4>1. CASE i = 1
        BY <2>1, <4>1
      <4>2. CASE i # 1
        <5>1. i - 1 \in 1 .. m + 1 - k /\ k + (i - 1) = k + i - 1 /\ k + 1 + (i - 1) = k + i
          BY <1>3, <2>2, <4>2
        <5>2. f[i - 1] = sub(cuts[k + (i - 1)], cuts[k + 1 + (i - 1)] - 1)
          BY <3>10, <5>1
        <5>3. QED
          BY <4>2, <5>1, <5>2
      <4>3. QED
        BY <4>1, <4>2
    <3>13. <<x>> \o f = rest(r)
      BY <2>3, <3>11, <3>12
    <3>14. QED
      BY <2>1, <3>5, <3>8, <3>13
  <2>6. QED
    BY <2>4, <2>5
<1>8. Recursive(rests)
  <2>1. ASSUME NEW r \in D PROVE rests[r] = Body(rests, r)
    <3>1. CASE r = Len(c) + 1
      <4>1. rests[r] = <<>>
        BY <3>1
      <4>2. Body(rests, r) = <<>>
        BY <1>6, <3>1
      <4>3. QED
        BY <4>1, <4>2
    <3>2. CASE r # Len(c) + 1
      <4>1. r \in 0 .. Len(c)
        BY <1>1, <1>2, <3>2
      <4>2. rests[r] = rest(r)
        BY <3>2
      <4>3. Body(rests, r) = <<sub(r, cuts[b(r) + 1] - 1)>> \o rests[cuts[b(r) + 1]]
        BY <1>5, <4>1
      <4> HIDE DEF rests, rest, sub, b
      <4>4. QED
        BY <1>7, <4>1, <4>2, <4>3
    <3>3. QED
      BY <3>1, <3>2
  <2>2. rests = [r \in D |-> rests[r]]
    OBVIOUS
  <2> HIDE DEF rests
  <2>3. QED
    BY <2>1, <2>2
<1>9. Recursive(pieces)
  BY <1>8, Zenon
<1>10. string_split(string, String(<<ch>>)) = pieces[0]
  BY Zenon DEF string_split, Body, D
<1> HIDE DEF pieces, rests
<1>11. \A r \in D : pieces[r] = Body(pieces, r) /\ rests[r] = Body(rests, r)
  BY <1>8, <1>9
<1> DEFINE Bad == {n \in Nat : \E r \in D : Len(c) + 1 - r = n /\ pieces[r] # rests[r]}
<1>12. Bad = {}
  <2> SUFFICES ASSUME Bad # {} PROVE FALSE
    OBVIOUS
  <2>1. PICK n \in Bad : \A k \in Bad : n <= k
    <3>1. Bad \subseteq Nat
      OBVIOUS
    <3> HIDE DEF Bad
    <3>2. QED
      BY <3>1, LeastNumber
  <2>2. PICK r \in D : Len(c) + 1 - r = n /\ pieces[r] # rests[r]
    BY <2>1
  <2>3. r # Len(c) + 1
    BY <1>6, <1>11, <2>2
  <2>4. r \in 0 .. Len(c)
    BY <1>1, <1>2, <2>3
  <2>5. PICK q : q = cuts[b(r) + 1]
    OBVIOUS
  <2>6. q \in r + 1 .. Len(c) + 1
    BY <1>4, <2>4, <2>5
  <2>7. q \in D /\ Len(c) + 1 - q \in Nat /\ Len(c) + 1 - q < n
    BY <1>1, <1>2, <2>2, <2>4, <2>6
  <2>8. pieces[q] = rests[q]
    BY <2>1, <2>7
  <2> HIDE DEF b, sub
  <2>9. Body(pieces, r) = Body(rests, r)
    BY <1>5, <2>4, <2>5, <2>8
  <2>10. QED
    BY <1>11, <2>2, <2>9
<1>13. 0 \in D /\ Len(c) + 1 - 0 \in Nat /\ 0 \in 0 .. Len(c) /\ 0 # Len(c) + 1
  BY <1>1, <1>2
<1>14. pieces[0] = rests[0]
  BY <1>12, <1>13
<1>15. rests[0] = rest(0)
  BY <1>13 DEF rests
<1>16. b(0) = 1
  <2>1. 1 \in 1 .. m + 1
    BY <1>3
  <2>2. QED
    BY <1>1, <1>3, <1>13, <2>1, PieceFacts
<1>17. rest(0) = [i \in 1 .. m + 1 |-> sub(cuts[i], cuts[i + 1] - 1)]
  <2>1. m + 2 - 1 = m + 1
    BY <1>3
  <2>2. rest(0) = [i \in 1 .. m + 1 |-> sub(IF i = 1 THEN 0 ELSE cuts[1 + i - 1], cuts[1 + i] - 1)]
    BY <1>16, <2>1
  <2> HIDE DEF rest, sub
  <2>3. ASSUME NEW i \in 1 .. m + 1
        PROVE  sub(IF i = 1 THEN 0 ELSE cuts[1 + i - 1], cuts[1 + i] - 1) = sub(cuts[i], cuts[i + 1] - 1)
    <3>1. 1 + i - 1 = i /\ 1 + i = i + 1
      OBVIOUS
    <3>2. (IF i = 1 THEN 0 ELSE cuts[1 + i - 1]) = cuts[i]
      BY <1>3, <3>1
    <3>3. QED
      BY <3>1, <3>2
  <2>4. QED
    BY <2>2, <2>3
<1>18. QED
  BY <1>10, <1>14, <1>15, <1>17

-----------------------------------------------------------------------------
(* An argument taken apart.                                                *)

\* The pieces that string_split makes are those between the delimiters.
LEMMA TextsOfSplit ==
  ASSUME NEW string, NEW c, Views(string, c), NEW ch
  PROVE  Texts(string_split(string, String(<<ch>>))) = Pieces(c, ch)
<1>1. PICK m, cuts : m = Cardinality(PlacesOf(c, ch)) /\ cuts = CutsOf(c, ch)
  OBVIOUS
<1>2. IsText(c) /\ Len(c) \in Nat
  BY TextFacts DEF Views
<1>3. m \in Nat /\ Len(cuts) = m + 2 /\ cuts[1] = 0 /\ cuts[m + 2] = Len(c) + 1
  BY <1>1, <1>2, CutFacts
<1>4. PICK split : split = string_split(string, String(<<ch>>))
  OBVIOUS
<1>5. split = [i \in 1 .. m + 1 |-> string_substring(string, cuts[i], cuts[i + 1] - 1)]
  BY <1>1, <1>4, SplitIs
<1>6. ASSUME NEW i \in 1 .. m + 1 PROVE Chars(string_substring(string, cuts[i], cuts[i + 1] - 1)) = SubSeq(c, cuts[i] + 1, cuts[i + 1] - 1)
  <2>1. PICK from, to : from = cuts[i] /\ to = cuts[i + 1] - 1
    OBVIOUS
  <2>2. from \in 0 .. Len(c)
    <3>1. CASE i = 1
      BY <1>2, <1>3, <2>1, <3>1
    <3>2. CASE i # 1
      <4>1. i \in 2 .. m + 1
        BY <1>3, <3>2
      <4>2. cuts[i] \in 1 .. Len(c)
        BY <1>1, <1>2, <4>1, CutFacts
      <4>3. QED
        BY <1>2, <2>1, <4>2
    <3>3. QED
      BY <3>1, <3>2
  <2>3. to \in from .. Len(c)
    <3>1. PICK b : b = PieceAt(c, ch, from)
      OBVIOUS
    <3>2. from < cuts[b + 1] /\ cuts[b + 1] \in 1 .. Len(c) + 1 /\ i = b
      <4>1. cuts[i] = from
        BY <2>1
      <4>2. QED
        BY <1>1, <1>2, <2>2, <3>1, <4>1, PieceFacts
    <3>3. QED
      BY <1>2, <2>1, <2>2, <3>2
  <2>4. Views(string_substring(string, from, to), SubSeq(c, from + 1, to))
    BY <2>2, <2>3, ViewPart
  <2>5. Chars(string_substring(string, from, to)) = SubSeq(c, from + 1, to)
    BY <2>4, ViewChars
  <2>6. QED
    BY <2>1, <2>5
<1>7. Texts(split) = [i \in 1 .. m + 1 |-> Chars(split[i])]
  BY <1>5 DEF Texts
<1>8. \A i \in 1 .. m + 1 : Chars(split[i]) = SubSeq(c, cuts[i] + 1, cuts[i + 1] - 1)
  BY <1>5, <1>6
<1>9. Pieces(c, ch) = [i \in 1 .. m + 1 |-> SubSeq(c, cuts[i] + 1, cuts[i + 1] - 1)]
  <2>1. Len(cuts) - 1 = m + 1
    BY <1>3
  <2>2. Pieces(c, ch) = [i \in 1 .. Len(cuts) - 1 |-> SubSeq(c, cuts[i] + 1, cuts[i + 1] - 1)]
    BY <1>1, Zenon DEF Pieces, CutsOf
  <2>3. QED
    BY <2>1, <2>2
<1>10. QED
  BY <1>4, <1>7, <1>8, <1>9

Spelt(p) == p \in Seq({p[i] : i \in DOMAIN p})

LEMMA StartsWith ==
  ASSUME NEW string, NEW c, Views(string, c), NEW p, Spelt(p)
  PROVE  string_starts_with(string, String(p)) <=> Len(p) <= Len(c) /\ \A i \in 1 .. Len(p) : c[i] = p[i]
<1>1. IsText(c) /\ Len(c) \in Nat /\ Len(c) < W /\ W \in Nat /\ Len(p) \in Nat
  BY TextFacts DEF Views, Spelt
<1>2. string.count = Len(c) /\ String(p).count = Len(p)
  BY DEF Views, String
<1>3. CASE Len(p) > Len(c)
  BY <1>1, <1>2, <1>3 DEF string_starts_with
<1>4. CASE Len(p) <= Len(c)
  <2>1. IsText(p)
    BY <1>1, <1>4 DEF IsText, Spelt
  <2>2. PICK sub, d : sub = string_substring(string, 0, Len(p)) /\ d = SubSeq(c, 0 + 1, Len(p))
    OBVIOUS
  <2>3. 0 \in 0 .. Len(c) /\ Len(p) \in 0 .. Len(c)
    BY <1>1, <1>4
  <2>4. Views(sub, d)
    BY <2>2, <2>3, ViewPart
  <2>5. IsText(d) /\ Len(d) = Len(p) /\ \A i \in 1 .. Len(p) : d[i] = c[i]
    <3>1. IsText(d) /\ Len(d) = Len(p) - 0 /\ \A i \in 1 .. Len(p) - 0 : d[i] = c[0 + i]
      BY <1>1, <2>2, <2>3, TextPart
    <3>2. \A i \in 1 .. Len(p) : 0 + i = i
      OBVIOUS
    <3>3. QED
      BY <1>1, <3>1, <3>2
  <2>6. sub = [string EXCEPT !.count = Len(p)]
    <3>1. string = [text |-> string.text, v |-> string.v, count |-> string.count] /\ string.v \in Nat
      BY DEF Views
    <3>2. sub = [text |-> string.text, v |-> string.v + 0, count |-> Len(p) - 0]
      <4>1. Len(p) \in 0 .. Len(c) /\ 0 \in 0 .. Len(c)
        BY <2>3
      <4>2. QED
        BY <2>2, <4>1, PartIs
    <3>3. string.v + 0 = string.v /\ Len(p) - 0 = Len(p)
      BY <1>1, <3>1
    <3>4. [string EXCEPT !.count = Len(p)] = [text |-> string.text, v |-> string.v, count |-> Len(p)]
      BY <3>1
    <3>5. QED
      BY <3>2, <3>3, <3>4
  <2>7. Chars(sub) = d /\ sub.count = Len(p)
    BY <2>4, <2>5, ViewChars DEF Views
  <2>8. Chars(String(p)) = p
    BY <2>1, ViewsOf, ViewChars
  <2>9. string_starts_with(string, String(p)) <=> string_match(String(p), sub)
    BY <1>1, <1>2, <1>4, <2>6 DEF string_starts_with
  <2>10. string_match(String(p), sub) <=> p = d
    BY <1>2, <2>7, <2>8 DEF string_match
  <2>11. p = d <=> \A i \in 1 .. Len(p) : c[i] = p[i]
    <3>1. p = [i \in 1 .. Len(p) |-> p[i]] /\ d = [i \in 1 .. Len(p) |-> d[i]]
      BY <2>1, <2>5, TextFacts
    <3>2. QED
      BY <2>5, <3>1
  <2>12. QED
    BY <1>4, <2>9, <2>10, <2>11
<1>5. QED
  BY <1>1, <1>3, <1>4

LEMMA PrefixedIs ==
  ASSUME NEW text, IsText(text)
  PROVE  Prefixed(String(text)) <=> IsOption(text)
<1>1. Views(String(text), text) /\ Len(text) \in Nat
  BY ViewsOf, TextFacts
<1>2. PICK p : p = <<"-">>
  OBVIOUS
<1>3. Spelt(p) /\ Len(p) = 1 /\ p[1] = "-"
  BY <1>2 DEF Spelt
<1>4. string_starts_with(String(text), String(p)) <=> Len(p) <= Len(text) /\ \A i \in 1 .. Len(p) : text[i] = p[i]
  BY <1>1, <1>3, StartsWith
<1>5. QED
  BY <1>1, <1>2, <1>3, <1>4 DEF Prefixed, IsOption

LEMMA StrippedView ==
  ASSUME NEW text, IsText(text), IsOption(text)
  PROVE  Views(Unprefixed(String(text)), Stripped(text))
<1>1. Views(String(text), text) /\ Len(text) \in Nat /\ Len(text) >= 1 /\ text[1] = "-"
  BY ViewsOf, TextFacts DEF IsOption
<1>2. PICK p : p = <<"-", "-">>
  OBVIOUS
<1>3. Spelt(p) /\ Len(p) = 2 /\ p[1] = "-" /\ p[2] = "-"
  BY <1>2 DEF Spelt
<1>4. string_starts_with(String(text), String(p)) <=> Len(p) <= Len(text) /\ \A i \in 1 .. Len(p) : text[i] = p[i]
  BY <1>1, <1>3, StartsWith
<1>5. string_starts_with(String(text), String(p)) <=> Len(text) > 1 /\ text[2] = "-"
  <2>1. \A i \in 1 .. 2 : i = 1 \/ i = 2
    OBVIOUS
  <2>2. QED
    BY <1>1, <1>3, <1>4, <2>1
<1>6. CASE Len(text) > 1 /\ text[2] = "-"
  <2>1. Views(string_skip(String(text), 2), SubSeq(text, 2 + 1, Len(text)))
    BY <1>1, <1>6, ViewSkip
  <2>2. Unprefixed(String(text)) = string_skip(String(text), 2) /\ Stripped(text) = SubSeq(text, 2 + 1, Len(text))
    BY <1>2, <1>5, <1>6 DEF Unprefixed, Stripped
  <2>3. QED
    BY <2>1, <2>2
<1>7. CASE ~(Len(text) > 1 /\ text[2] = "-")
  <2>1. Views(string_skip(String(text), 1), SubSeq(text, 1 + 1, Len(text)))
    BY <1>1, ViewSkip
  <2>2. Unprefixed(String(text)) = string_skip(String(text), 1) /\ Stripped(text) = SubSeq(text, 1 + 1, Len(text))
    BY <1>2, <1>5, <1>7 DEF Unprefixed, Stripped
  <2>3. QED
    BY <2>1, <2>2
<1>8. QED
  BY <1>6, <1>7

\* From idx on, without the first character, when there is one.
LEMMA ViewBehind ==
  ASSUME NEW string, NEW c, Views(string, c), NEW idx \in 0 .. Len(c)
  PROVE  Views(string_skip(string_substring(string, idx, string.count), 1), SubSeq(c, idx + 2, Len(c)))
<1>1. IsText(c) /\ Len(c) \in Nat /\ string.count = Len(c)
  BY TextFacts DEF Views
<1>2. PICK sub, d : sub = string_substring(string, idx, Len(c)) /\ d = SubSeq(c, idx + 1, Len(c))
  OBVIOUS
<1>3. Len(c) \in idx .. Len(c)
  BY <1>1
<1>4. Views(sub, d)
  BY <1>2, <1>3, ViewPart
<1>5. IsText(d) /\ Len(d) = Len(c) - idx /\ \A i \in 1 .. Len(c) - idx : d[i] = c[idx + i]
  BY <1>1, <1>2, <1>3, TextPart
<1>6. PICK e : e = SubSeq(c, idx + 2, Len(c))
  OBVIOUS
<1>7. CASE idx < Len(c)
  <2>1. Views(string_skip(sub, 1), SubSeq(d, 1 + 1, Len(d)))
    BY <1>1, <1>4, <1>5, <1>7, ViewSkip
  <2>2. PICK f : f = SubSeq(d, 1 + 1, Len(d))
    OBVIOUS
  <2>3. IsText(f) /\ Len(f) = Len(d) - 1 /\ \A i \in 1 .. Len(d) - 1 : f[i] = d[1 + i]
    <3>1. 1 \in 0 .. Len(d) /\ Len(d) \in 1 .. Len(d)
      BY <1>1, <1>5, <1>7
    <3>2. QED
      BY <1>5, <2>2, <3>1, TextPart
  <2>4. IsText(e) /\ Len(e) = Len(c) - (idx + 1) /\ \A i \in 1 .. Len(c) - (idx + 1) : e[i] = c[idx + 1 + i]
    <3>1. idx + 1 \in 0 .. Len(c) /\ Len(c) \in idx + 1 .. Len(c) /\ (idx + 1) + 1 = idx + 2
      BY <1>1, <1>7
    <3>2. PICK n : n = idx + 1
      OBVIOUS
    <3>3. n \in 0 .. Len(c) /\ Len(c) \in n .. Len(c) /\ e = SubSeq(c, n + 1, Len(c))
      BY <1>6, <3>1, <3>2
    <3>4. IsText(e) /\ Len(e) = Len(c) - n /\ \A i \in 1 .. Len(c) - n : e[i] = c[n + i]
      BY <1>1, <3>3, TextPart
    <3>5. QED
      BY <3>2, <3>4
  <2>5. Len(e) = Len(f) /\ Len(f) \in Nat
    BY <1>1, <1>5, <1>7, <2>3, <2>4
  <2>6. \A i \in 1 .. Len(f) : e[i] = f[i]
    <3> TAKE i \in 1 .. Len(f)
    <3>1. i \in 1 .. Len(d) - 1 /\ 1 + i \in 1 .. Len(c) - idx /\ idx + (1 + i) = idx + 1 + i /\ i \in 1 .. Len(c) - (idx + 1)
      BY <1>1, <1>5, <1>7, <2>3
    <3>2. f[i] = d[1 + i] /\ e[i] = c[idx + 1 + i]
      BY <2>3, <2>4, <3>1
    <3>3. d[1 + i] = c[idx + (1 + i)]
      BY <1>5, <3>1
    <3>4. QED
      BY <3>1, <3>2, <3>3
  <2>7. e = f
    <3>1. e = [i \in 1 .. Len(f) |-> e[i]] /\ f = [i \in 1 .. Len(f) |-> f[i]]
      BY <2>3, <2>4, <2>5, TextFacts
    <3>2. QED
      BY <2>6, <3>1
  <2>8. QED
    BY <1>1, <1>2, <1>6, <2>1, <2>2, <2>7
<1>8. CASE idx = Len(c)
  <2>1. Len(d) = 0
    BY <1>1, <1>5, <1>8
  <2>2. Views(string_skip(sub, 0), SubSeq(d, 0 + 1, Len(d)))
    BY <1>4, <2>1, ViewSkip
  <2>3. string_skip(sub, 0) = string_skip(sub, 1)
    <3>1. sub.count = 0
      BY <1>4, <2>1 DEF Views
    <3>2. Atmost(sub.count, 0) = 0 /\ Atmost(sub.count, 1) = 0
      BY <3>1 DEF Atmost
    <3>3. QED
      BY <3>2 DEF string_skip
  <2>4. SubSeq(d, 0 + 1, Len(d)) = <<>>
    BY <2>1
  <2>5. e = <<>>
    <3>1. e = SubSeq(c, Len(c) + 2, Len(c))
      BY <1>6, <1>8
    <3>2. QED
      BY <1>1, <3>1 DEF IsText
  <2>6. QED
    BY <1>1, <1>2, <1>6, <2>2, <2>3, <2>4, <2>5
<1>9. QED
  BY <1>7, <1>8

\* What parse_args takes from an argument is what the argument has by definition.
LEMMA ArgumentSplit ==
  ASSUME NEW text, IsText(text), IsOption(text)
  PROVE  Chars(Cut(text).name) = Name(text) /\ Texts(Cut(text).values) = ValuesBehind(text)
<1>1. PICK string, c : string = Unprefixed(String(text)) /\ c = Stripped(text)
  OBVIOUS
<1>2. Views(string, c)
  BY <1>1, StrippedView
<1>3. IsText(c) /\ Len(c) \in Nat
  BY <1>2, TextFacts DEF Views
<1>4. PICK m, cuts : m = Cardinality(PlacesOf(c, "=")) /\ cuts = CutsOf(c, "=")
  OBVIOUS
<1>5. m \in Nat /\ Len(cuts) = m + 2 /\ cuts[1] = 0
  BY <1>3, <1>4, CutFacts
<1>6. PICK idx : idx = string_find_substring(string, 0, String(<<"=">>))
  OBVIOUS
<1>7. idx \in 0 .. Len(c) /\ idx = cuts[2] - 1
  <2>1. PICK b : b = PieceAt(c, "=", 0)
    OBVIOUS
  <2>2. 0 \in 0 .. Len(c) /\ 1 \in 1 .. m + 1
    BY <1>3, <1>5
  <2>3. cuts[b + 1] \in 0 + 1 .. Len(c) + 1 /\ string_find_substring(string, 0, String(<<"=">>)) = cuts[b + 1] - 1
    BY <1>2, <1>4, <2>1, <2>2, NextCut
  <2>4. 1 = b
    BY <1>3, <1>4, <1>5, <2>1, <2>2, PieceFacts
  <2>5. QED
    BY <1>3, <1>6, <2>3, <2>4
<1>8. Name(text) = SubSeq(c, 0 + 1, idx)
  <2>1. Pieces(c, "=") = [i \in 1 .. Len(cuts) - 1 |-> SubSeq(c, cuts[i] + 1, cuts[i + 1] - 1)]
    BY <1>4, Zenon DEF Pieces, CutsOf
  <2>2. 1 \in 1 .. Len(cuts) - 1
    BY <1>5
  <2>3. Pieces(c, "=")[1] = SubSeq(c, cuts[1] + 1, cuts[1 + 1] - 1)
    BY <2>1, <2>2
  <2>4. QED
    BY <1>1, <1>5, <1>7, <2>3 DEF Name
<1>9. Cut(text).name = string_substring(string, 0, idx)
  BY <1>1, <1>6 DEF Cut
<1>10. Cut(text).values = string_split(string_skip(string_substring(string, idx, string.count), 1), String(<<",">>))
  BY <1>1, <1>6 DEF Cut
<1>11. 0 \in 0 .. Len(c) /\ idx \in 0 .. Len(c)
  BY <1>3, <1>7
<1>12. Chars(Cut(text).name) = Name(text)
  <2>1. Views(string_substring(string, 0, idx), SubSeq(c, 0 + 1, idx))
    BY <1>2, <1>11, ViewPart
  <2>2. Chars(string_substring(string, 0, idx)) = SubSeq(c, 0 + 1, idx)
    BY <2>1, ViewChars
  <2>3. QED
    BY <1>8, <1>9, <2>2
<1>13. Len(Name(text)) = idx
  <2>1. Len(SubSeq(c, 0 + 1, idx)) = idx - 0
    BY <1>3, <1>11, TextPart
  <2>2. QED
    BY <1>7, <1>8, <2>1
<1>14. Texts(Cut(text).values) = ValuesBehind(text)
  <2>1. PICK behind, e : behind = string_skip(string_substring(string, idx, string.count), 1) /\ e = SubSeq(c, idx + 2, Len(c))
    OBVIOUS
  <2>2. Views(behind, e)
    BY <1>2, <1>7, <2>1, ViewBehind
  <2>3. Texts(string_split(behind, String(<<",">>))) = Pieces(e, ",")
    BY <2>2, TextsOfSplit
  <2>4. ValuesBehind(text) = Pieces(e, ",")
    BY <1>1, <1>13, <2>1 DEF ValuesBehind
  <2>5. QED
    BY <1>10, <2>1, <2>3, <2>4
<1>15. QED
  BY <1>12, <1>14

\* parse_args tells an option from a positional argument, and cuts out of it the name and the
\* values that it has by definition, although a name may be empty, a value may hold the mark "="
\* and delimiters may meet (string_starts_with, string_skip, string_find_substring,
\* string_substring, string_split).
THEOREM ArgumentsAreSplit == ArgumentsSplit
<1>1. ASSUME NEW text \in Arguments
      PROVE  /\ Prefixed(String(text)) <=> IsOption(text)
             /\ IsOption(text) => Chars(Cut(text).name) = Name(text) /\ Texts(Cut(text).values) = ValuesBehind(text)
  <2>1. IsText(text)
    BY ArgumentsAssumption
  <2>2. QED
    BY <2>1, PrefixedIs, ArgumentSplit
<1>2. QED
  BY <1>1 DEF ArgumentsSplit

-----------------------------------------------------------------------------
(* The arguments given.                                                    *)

\* The places of the arguments that give an option.
Givers(arguments, name) == {i \in 1 .. Len(arguments) : IsOption(arguments[i]) /\ NameIn[arguments[i]] = name}

LEMMA FirstGiver ==
  ASSUME NEW name, Givers(given, name) # {}, given \in Seq(Arguments)
  PROVE  FirstGiven(name) = given[Min(Givers(given, name))]
  BY Zenon DEF FirstGiven, SelectInSeq, Givers

\* The names of the options that are given.
LEMMA NamesGiven ==
  ASSUME given \in Seq(Arguments), NEW name
  PROVE  name \in GivenNames <=> Givers(given, name) # {}
<1>1. \A i \in 1 .. Len(given) : given[i] \in Arguments
  OBVIOUS
<1>2. ToSet(given) = {given[i] : i \in 1 .. Len(given)}
  BY DEF ToSet
<1>3. QED
  BY <1>1, <1>2 DEF GivenNames, Givers, OptionArguments

\* An argument more: names that were given keep their first argument.
LEMMA OneMoreGiven ==
  ASSUME given \in Seq(Arguments), NEW text \in Arguments, given' = Append(given, text)
  PROVE  /\ GivenNames' = GivenNames \cup (IF IsOption(text) THEN {NameIn[text]} ELSE {})
         /\ \A name \in GivenNames : FirstGiven(name)' = FirstGiven(name)
         /\ IsOption(text) /\ NameIn[text] \notin GivenNames => FirstGiven(NameIn[text])' = text
<1>1. /\ given' \in Seq(Arguments) /\ Len(given) \in Nat /\ Len(given') = Len(given) + 1
      /\ given'[Len(given) + 1] = text /\ \A i \in 1 .. Len(given) : given'[i] = given[i]
  OBVIOUS
<1>2. \A name : Givers(given', name) = Givers(given, name) \cup
                  (IF IsOption(text) /\ NameIn[text] = name THEN {Len(given) + 1} ELSE {})
  BY <1>1 DEF Givers
<1>3. \A name : name \in GivenNames' <=> Givers(given', name) # {}
  <2> SUFFICES ASSUME NEW name PROVE name \in GivenNames' <=> Givers(given', name) # {}
    OBVIOUS
  <2>1. \A i \in 1 .. Len(given') : given'[i] \in Arguments
    BY <1>1
  <2>2. ToSet(given') = {given'[i] : i \in 1 .. Len(given')}
    BY <1>1 DEF ToSet
  <2>3. QED
    BY <2>1, <2>2 DEF GivenNames, Givers, OptionArguments
<1>4. \A name : name \in GivenNames <=> Givers(given, name) # {}
  BY NamesGiven
<1>5. GivenNames' = GivenNames \cup (IF IsOption(text) THEN {NameIn[text]} ELSE {})
  BY <1>2, <1>3, <1>4
<1>6. \A name : FirstGiven(name)' = IF Givers(given', name) # {} THEN given'[Min(Givers(given', name))] ELSE given'[0]
  BY Zenon DEF FirstGiven, SelectInSeq, Givers
<1>7. ASSUME NEW name \in GivenNames PROVE FirstGiven(name)' = FirstGiven(name)
  <2> DEFINE I == Givers(given, name)
             J == Givers(given', name)
  <2>1. I # {} /\ I \in SUBSET (1 .. Len(given)) /\ J \in SUBSET (1 .. Len(given) + 1) /\ J # {} /\ I \subseteq J
    BY <1>1, <1>2, <1>4, <1>7 DEF Givers
  <2>2. Min(I) \in I /\ \A i \in I : Min(I) <= i
    BY <1>1, <2>1, FirstPlace
  <2>3. Min(J) \in J /\ \A i \in J : Min(J) <= i
    <3>1. Len(given) + 1 \in Nat
      BY <1>1
    <3> HIDE DEF J
    <3>2. QED
      BY <2>1, <3>1, FirstPlace
  <2>4. \A j \in J : j \in I \/ j = Len(given) + 1
    BY <1>2
  <2>5. FirstGiven(name)' = given'[Min(J)] /\ FirstGiven(name) = given[Min(I)]
    BY <1>6, <2>1, FirstGiver
  <2> HIDE DEF I, J
  <2>6. Min(J) = Min(I) /\ Min(I) \in 1 .. Len(given)
    <3> SUFFICES ASSUME NEW i, i = Min(I), NEW j, j = Min(J) PROVE j = i /\ i \in 1 .. Len(given)
      OBVIOUS
    <3>1. i \in I /\ i \in J /\ i \in 1 .. Len(given) /\ j \in J /\ j \in 1 .. Len(given) + 1 /\ j <= i
      BY <2>1, <2>2, <2>3
    <3>2. j # Len(given) + 1
      BY <1>1, <3>1
    <3>3. i <= j
      BY <2>2, <2>4, <3>1, <3>2
    <3>4. QED
      BY <1>1, <3>1, <3>3
  <2>7. QED
    BY <1>1, <2>5, <2>6
<1>8. ASSUME IsOption(text), NameIn[text] \notin GivenNames PROVE FirstGiven(NameIn[text])' = text
  <2>1. Givers(given', NameIn[text]) = {Len(given) + 1}
    BY <1>2, <1>4, <1>8
  <2>2. Min({Len(given) + 1}) = Len(given) + 1
    BY <1>1, Len(given) + 1 \in Nat, FirstPlace, {Len(given) + 1} \in SUBSET (1 .. Len(given) + 1)
  <2>3. QED
    BY <1>1, <1>6, <2>1, <2>2
<1>9. QED
  BY <1>5, <1>7, <1>8

-----------------------------------------------------------------------------
(* The table.                                                              *)

Record(text) == [name |-> NameIn[text], values |-> Cut(text).values]

LEMMA RecordOfArgument ==
  ASSUME NEW text \in Arguments, IsOption(text)
  PROVE  /\ Record(text) \in OptionRecord
         /\ Chars(Cut(text).name) = NameIn[text] /\ NameIn[text] = Name(text)
         /\ Texts(Cut(text).values) = ValuesIn[text] /\ ValuesIn[text] \in AllValues
         /\ NameIn[text] # <<>> => NameIn[text] \in AllNames
<1>1. text \in OptionArguments
  BY DEF OptionArguments
<1>2. Record(text) \in OptionRecord
  BY <1>1 DEF Record, OptionRecord
<1>3. NameIn[text] = Name(text) /\ ValuesIn[text] = ValuesBehind(text)
  BY <1>1 DEF NameIn, ValuesIn
<1>4. ValuesIn[text] \in AllValues /\ (NameIn[text] # <<>> => NameIn[text] \in AllNames)
  BY <1>1 DEF AllValues, AllNames
<1>5. Chars(Cut(text).name) = Name(text) /\ Texts(Cut(text).values) = ValuesBehind(text)
  BY ArgumentsAreSplit DEF ArgumentsSplit
<1>6. QED
  BY <1>2, <1>3, <1>4, <1>5

\* An option that is not there is added, and nothing else happens to its bucket.
LEMMA InsertedBucket ==
  ASSUME NEW bucket \in Seq(OptionRecord), NEW name, NEW values,
         [name |-> name, values |-> values] \in OptionRecord, ~Exists(bucket, name)
  PROVE  /\ Inserted(bucket, name, values) \in Seq(OptionRecord)
         /\ ToSet(Inserted(bucket, name, values)) = ToSet(bucket) \cup {[name |-> name, values |-> values]}
<1> DEFINE e == [name |-> name, values |-> values]
<1>1. Inserted(bucket, name, values) = IF bucket = <<>> THEN <<e>> ELSE InsertAt(bucket, 2, e)
  BY DEF Inserted
<1> HIDE DEF e
<1>2. e \in OptionRecord
  BY DEF e
<1>3. CASE bucket = <<>>
  <2>1. <<e>> \in Seq(OptionRecord) /\ ToSet(<<e>>) = {e} /\ ToSet(<<>>) = {}
    BY <1>2 DEF ToSet
  <2>2. QED
    BY <1>1, <1>3, <2>1 DEF e
<1>4. CASE bucket # <<>>
  BY <1>1, <1>2, <1>4, SecondPlace DEF e
<1>5. QED
  BY <1>3, <1>4

\* What an argument does to the table: its option is there, or it is added to its bucket.
LEMMA NextTable ==
  ASSUME TableInv, NEW text \in Arguments, ParseOption(text)
  PROVE  /\ IsOption(text) /\ TableInv'
         /\ \/ /\ InTable' = InTable
               /\ NameIn[text] = <<>> \/ \E option \in InTable : option.name = NameIn[text]
            \/ /\ InTable' = InTable \cup {Record(text)}
               /\ ~ \E option \in InTable : option.name = NameIn[text]
<1> DEFINE name == NameIn[text]
           b == hash[name]
           bucket == option_table[b]
           Buckets == 0 .. option_table_count - 1
<1>1. /\ hash' = hash /\ given' = Append(given, text) /\ Prefixed(String(text))
      /\ option_table' = [option_table EXCEPT ![hash[Chars(Cut(text).name)]] =
                            Inserted(@, Chars(Cut(text).name), Cut(text).values)]
  BY DEF ParseOption
<1>2. IsOption(text)
  BY <1>1, ArgumentsAreSplit DEF ArgumentsSplit
<1>3. /\ Record(text) \in OptionRecord /\ Chars(Cut(text).name) = name /\ name = Name(text)
  BY <1>2, RecordOfArgument
<1>4. option_table' = [option_table EXCEPT ![b] = Inserted(bucket, name, Cut(text).values)]
  <2> DEFINE cut == Chars(Cut(text).name)
  <2>1. cut = name
    BY <1>3
  <2> HIDE DEF cut, name
  <2>2. option_table' = [option_table EXCEPT ![hash[cut]] = Inserted(@, cut, Cut(text).values)]
    BY <1>1 DEF cut
  <2>3. QED
    BY <2>1, <2>2
<1>5. b \in Buckets
  BY <1>2, <1>3, HashAssumption DEF TableInv
<1>6. option_table \in [Buckets -> Seq(OptionRecord)] /\ bucket \in Seq(OptionRecord)
  BY <1>5 DEF TableInv
<1>7. \A o \in ToSet(bucket) : \E i \in DOMAIN bucket : o = bucket[i]
  BY DEF ToSet
<1>8. given' \in Seq(Arguments) /\ hash' \in Hashes
  BY <1>1 DEF TableInv
<1>9. InTable = UNION {ToSet(option_table[c]) : c \in Buckets}
  BY <1>6 DEF InTable
<1> HIDE DEF name, b, bucket
<1>10. CASE Exists(bucket, name)
  <2>1. Inserted(bucket, name, Cut(text).values) = bucket
    BY <1>10 DEF Inserted
  <2>2. option_table' = option_table
    BY <1>4, <1>6, <2>1 DEF bucket
  <2>3. name = <<>> \/ \E option \in InTable : option.name = name
    <3>1. CASE \E i \in DOMAIN bucket : bucket[i].name = name
      BY <1>5, <1>9, <3>1 DEF bucket, ToSet
    <3>2. QED
      BY <1>10, <3>1 DEF Exists
  <2>4. InTable' = InTable
    BY <2>2 DEF InTable
  <2>5. TableInv'
    BY <1>1, <1>8, <2>2, <2>4 DEF TableInv
  <2>6. QED
    BY <1>2, <2>3, <2>4, <2>5 DEF name
<1>11. CASE ~Exists(bucket, name)
  <2> DEFINE new == Inserted(bucket, name, Cut(text).values)
             r == Record(text)
  <2>1. new \in Seq(OptionRecord) /\ ToSet(new) = ToSet(bucket) \cup {r}
    BY <1>3, <1>6, <1>11, InsertedBucket DEF Record, name
  <2>2. r.name = name
    BY DEF Record, name
  <2> HIDE DEF new, r
  <2>3. option_table' \in [Buckets -> Seq(OptionRecord)]
        /\ option_table'[b] = new /\ \A c \in Buckets : c # b => option_table'[c] = option_table[c]
    BY <1>4, <1>5, <1>6, <2>1 DEF new
  <2>4. InTable' = InTable \cup {r}
    <3>1. InTable' = UNION {ToSet(option_table'[c]) : c \in Buckets}
      BY <2>3 DEF InTable
    <3>2. \A o : o \in InTable <=> \E c \in Buckets : o \in ToSet(option_table[c])
      BY <1>9
    <3>3. \A o : o \in InTable' <=> \E c \in Buckets : o \in ToSet(option_table'[c])
      BY <3>1
    <3>4. QED
      BY <1>5, <2>1, <2>3, <3>2, <3>3 DEF bucket
  <2>5. ~ \E option \in InTable : option.name = name
    <3> SUFFICES ASSUME NEW option \in InTable, option.name = name PROVE FALSE
      OBVIOUS
    <3>1. PICK c \in Buckets : option \in ToSet(option_table[c])
      BY <1>9
    <3>2. c = b
      BY <3>1 DEF TableInv, b
    <3>3. QED
      BY <1>7, <1>11, <3>1, <3>2 DEF Exists, bucket
  <2>6. \A c \in Buckets : \A option \in ToSet(option_table'[c]) : hash'[option.name] = c
    <3> SUFFICES ASSUME NEW c \in Buckets, NEW option \in ToSet(option_table'[c]) PROVE hash[option.name] = c
      BY <1>1
    <3>1. CASE option = r
      BY <2>2, <2>3, <3>1, <2>5, <1>9 DEF b, TableInv
    <3>2. CASE option # r
      BY <2>1, <2>3, <3>2 DEF bucket, TableInv
    <3>3. QED
      BY <3>1, <3>2
  <2>7. \A option, other \in InTable' : option.name = other.name => option = other
    BY <2>2, <2>4, <2>5 DEF TableInv
  <2>8. TableInv'
    BY <1>8, <2>3, <2>6, <2>7 DEF TableInv
  <2>9. QED
    BY <1>2, <2>4, <2>5, <2>8 DEF name, r
<1>12. QED
  BY <1>10, <1>11

-----------------------------------------------------------------------------
(* The invariant.                                                          *)

LEMMA InitTable == Init => TableInv /\ GivenInv
<1> SUFFICES ASSUME Init PROVE TableInv /\ GivenInv
  OBVIOUS
<1>1. hash \in Hashes /\ given = <<>> /\ option_table = [b \in 0 .. option_table_count - 1 |-> <<>>]
  BY DEF Init
<1>2. given \in Seq(Arguments) /\ ToSet(given) = {}
  BY <1>1 DEF ToSet
<1>3. \A b \in 0 .. option_table_count - 1 : ToSet(option_table[b]) = {}
  BY <1>1 DEF ToSet
<1>4. InTable = {}
  BY <1>1, <1>3 DEF InTable
<1>5. option_table \in [0 .. option_table_count - 1 -> Seq(OptionRecord)]
  BY <1>1
<1>6. TableInv
  BY <1>1, <1>2, <1>3, <1>4, <1>5 DEF TableInv
<1>7. GivenNames = {} /\ StoredNames = {}
  BY <1>2, <1>4 DEF GivenNames, StoredNames
<1>8. QED
  BY <1>4, <1>6, <1>7 DEF GivenInv

LEMMA ParseOptionGiven ==
  ASSUME TableInv, GivenInv, NEW text \in Arguments, ParseOption(text)
  PROVE  GivenInv'
<1> DEFINE name == NameIn[text]
           r == Record(text)
<1>1. given \in Seq(Arguments) /\ given' = Append(given, text) /\ IsOption(text)
  BY NextTable DEF TableInv, ParseOption
<1>2. /\ GivenNames' = GivenNames \cup {name}
      /\ \A n \in GivenNames : FirstGiven(n)' = FirstGiven(n)
      /\ name \notin GivenNames => FirstGiven(name)' = text
  BY <1>1, OneMoreGiven
<1>3. r.name = name /\ Texts(r.values) = ValuesIn[text]
  BY <1>1, RecordOfArgument DEF Record
<1>4. \/ InTable' = InTable /\ (name = <<>> \/ \E option \in InTable : option.name = name)
      \/ InTable' = InTable \cup {r} /\ ~ \E option \in InTable : option.name = name
  BY NextTable
<1>5. StoredNames' = {option.name : option \in InTable'} \ {<<>>}
  BY DEF StoredNames
<1>6. \A option \in InTable : option.name # <<>> => option.name \in GivenNames
  BY DEF GivenInv, StoredNames
<1> HIDE DEF name, r
<1>7. StoredNames' = GivenNames' \ {<<>>}
  <2>1. {option.name : option \in InTable} \ {<<>>} = GivenNames \ {<<>>}
    BY DEF GivenInv, StoredNames
  <2>2. QED
    BY <1>2, <1>3, <1>4, <1>5, <2>1
<1>8. ASSUME NEW option \in InTable', option.name # <<>>
      PROVE  Texts(option.values) = ValuesIn[FirstGiven(option.name)']
  <2>1. CASE option \in InTable
    <3>1. FirstGiven(option.name)' = FirstGiven(option.name)
      BY <1>2, <1>6, <1>8, <2>1
    <3>2. QED
      BY <1>8, <2>1, <3>1 DEF GivenInv
  <2>2. CASE option \notin InTable
    <3>1. option = r /\ ~ \E other \in InTable : other.name = name
      BY <1>4, <2>2
    <3>2. name \notin GivenNames
      <4>1. name \notin StoredNames
        BY <3>1 DEF StoredNames
      <4>2. QED
        BY <1>3, <1>8, <3>1, <4>1 DEF GivenInv
    <3>3. FirstGiven(option.name)' = text
      BY <1>2, <1>3, <3>1, <3>2
    <3>4. QED
      BY <1>3, <3>1, <3>3
  <2>3. QED
    BY <2>1, <2>2
<1>9. QED
  BY <1>7, <1>8 DEF GivenInv

LEMMA ParsePositionalGiven ==
  ASSUME TableInv, GivenInv, NEW text \in Arguments, ParsePositional(text)
  PROVE  TableInv' /\ GivenInv'
<1>1. /\ given \in Seq(Arguments) /\ given' = Append(given, text) /\ ~IsOption(text)
      /\ UNCHANGED <<hash, option_table>>
  BY ArgumentsAreSplit DEF TableInv, ParsePositional, ArgumentsSplit
<1>2. InTable' = InTable /\ StoredNames' = StoredNames
  BY <1>1 DEF InTable, StoredNames
<1>3. GivenNames' = GivenNames /\ \A n \in GivenNames : FirstGiven(n)' = FirstGiven(n)
  BY <1>1, OneMoreGiven
<1>4. given' \in Seq(Arguments)
  BY <1>1
<1>5. TableInv'
  BY <1>1, <1>2, <1>4 DEF TableInv
<1>6. \A option \in InTable : option.name # <<>> => option.name \in GivenNames
  BY DEF GivenInv, StoredNames
<1>7. QED
  BY <1>2, <1>3, <1>5, <1>6 DEF GivenInv

LEMMA SameTable ==
  ASSUME TableInv, GivenInv, UNCHANGED <<hash, given, option_table>>
  PROVE  TableInv' /\ GivenInv' /\ InTable' = InTable
<1>1. InTable' = InTable /\ StoredNames' = StoredNames /\ GivenNames' = GivenNames
  BY DEF InTable, StoredNames, GivenNames
<1>2. \A name : FirstGiven(name)' = FirstGiven(name)
  <2>1. \A name : FirstGiven(name) = IF Givers(given, name) # {} THEN given[Min(Givers(given, name))] ELSE given[0]
    BY Zenon DEF FirstGiven, SelectInSeq, Givers
  <2>2. \A name : FirstGiven(name)' = IF Givers(given', name) # {} THEN given'[Min(Givers(given', name))] ELSE given'[0]
    BY Zenon DEF FirstGiven, SelectInSeq, Givers
  <2>3. QED
    BY <2>1, <2>2
<1>3. QED
  BY <1>1, <1>2 DEF TableInv, GivenInv

LEMMA NextTables ==
  TableInv /\ GivenInv /\ [Next]_vars => TableInv' /\ GivenInv'
<1> SUFFICES ASSUME TableInv, GivenInv, [Next]_vars PROVE TableInv' /\ GivenInv'
  OBVIOUS
<1>1. ASSUME NEW text \in Arguments, ParseOption(text) PROVE TableInv' /\ GivenInv'
  BY <1>1, NextTable, ParseOptionGiven
<1>2. ASSUME NEW text \in Arguments, ParsePositional(text) PROVE TableInv' /\ GivenInv'
  BY <1>2, ParsePositionalGiven
<1>3. CASE UNCHANGED <<hash, given, option_table>>
  BY <1>3, SameTable
<1>4. CASE ParseEnd \/ Configure \/ ReadLine \/ Done \/ \E file \in Files : OpenFile(file)
  BY <1>3, <1>4 DEF ParseEnd, Configure, ReadLine, Done, OpenFile, vars
<1>5. CASE UNCHANGED vars
  BY <1>3, <1>5 DEF vars
<1>6. QED
  BY <1>1, <1>2, <1>4, <1>5 DEF Next

-----------------------------------------------------------------------------
(* What the table answers.                                                 *)

\* The option that a search in the bucket of its name finds.
LEMMA FoundInBucket ==
  ASSUME TableInv, GivenInv, NEW text \in OptionArguments, NameIn[text] # <<>>
  PROVE  /\ args_has_flag(NameIn[text]) <=> NameIn[text] \in GivenNames
         /\ NameIn[text] \in GivenNames => Texts(args_get_option_values(NameIn[text])) = ValuesIn[FirstGiven(NameIn[text])]
<1> DEFINE name == NameIn[text]
           b == hash[name]
           bucket == option_table[b]
           Buckets == 0 .. option_table_count - 1
           I == {i \in 1 .. Len(bucket) : bucket[i].name = name}
<1>1. b \in Buckets
  <2>1. NameIn[text] = Name(text) /\ IsOption(text) /\ text \in Arguments
    BY DEF NameIn, OptionArguments
  <2>2. QED
    BY <2>1, HashAssumption DEF TableInv
<1>2. bucket \in Seq(OptionRecord) /\ DOMAIN option_table = Buckets
  BY <1>1 DEF TableInv
<1>3. Len(bucket) \in Nat /\ DOMAIN bucket = 1 .. Len(bucket) /\ ToSet(bucket) = {bucket[i] : i \in 1 .. Len(bucket)}
  BY <1>2 DEF ToSet
<1>4. name \in GivenNames <=> \E option \in InTable : option.name = name
  BY DEF GivenInv, StoredNames
<1>5. \A option \in InTable : option.name = name => option \in ToSet(bucket)
  <2> SUFFICES ASSUME NEW option \in InTable, option.name = name PROVE option \in ToSet(bucket)
    OBVIOUS
  <2>1. PICK c \in Buckets : option \in ToSet(option_table[c])
    BY <1>2 DEF InTable
  <2>2. QED
    BY <2>1 DEF TableInv
<1>6. ToSet(bucket) \subseteq InTable
  BY <1>1, <1>2 DEF InTable
<1>7. name \in GivenNames <=> I # {}
  BY <1>3, <1>4, <1>5, <1>6
<1>8. args_has_flag(name) <=> I # {}
  BY <1>3 DEF args_has_flag, Exists
<1>9. ASSUME I # {} PROVE Texts(args_get_option_values(name)) = ValuesIn[FirstGiven(name)]
  <2>1. SelectInSeq(bucket, LAMBDA option : option.name = name) = Min(I)
    BY <1>9, Zenon DEF SelectInSeq
  <2>2. Min(I) \in I
    BY <1>3, <1>9, FirstPlace
  <2>3. args_get_option_values(name) = bucket[Min(I)].values
    <3>1. Min(I) # 0
      BY <2>2
    <3>2. args_get_option_values(name) =
            IF Min(I) = 0 THEN <<>> ELSE bucket[Min(I)].values
      BY <2>1 DEF args_get_option_values
    <3>3. QED
      BY <3>1, <3>2
  <2>4. bucket[Min(I)] \in InTable /\ bucket[Min(I)].name = name
    BY <1>3, <1>6, <2>2
  <2> HIDE DEF bucket, I, name
  <2>5. QED
    BY <2>3, <2>4 DEF GivenInv, name
<1>10. QED
  BY <1>7, <1>8, <1>9

\* An option is found exactly when it was given, and with the values of the first argument that
\* gave it (parse_args, insert_arg_option, args_has_flag, args_get_option_values).
THEOREM OptionsFoundAsGiven == Spec => []OptionsAsGiven
<1>1. Init => TableInv /\ GivenInv
  BY InitTable
<1>2. TableInv /\ GivenInv /\ [Next]_vars => TableInv' /\ GivenInv'
  BY NextTables
<1>3. TableInv /\ GivenInv => OptionsAsGiven
  <2> SUFFICES ASSUME TableInv, GivenInv, NEW name \in AllNames
               PROVE  /\ args_has_flag(name) <=> name \in GivenNames
                      /\ name \in GivenNames => Texts(args_get_option_values(name)) = ValuesIn[FirstGiven(name)]
    BY DEF OptionsAsGiven
  <2>1. PICK text \in OptionArguments : name = NameIn[text] /\ name # <<>>
    BY DEF AllNames
  <2>2. QED
    BY <2>1, FoundInBucket
<1>4. QED
  BY <1>1, <1>2, <1>3, PTL DEF Spec

-----------------------------------------------------------------------------
(* The table as a map.                                                     *)

ValuesOf(S, name) == Texts((CHOOSE option \in S : option.name = name).values)
MapOf(S) == [name \in {option.name : option \in S} \ {<<>>} |-> ValuesOf(S, name)]

\* A new option does not change which one is found under another name.
LEMMA OneMoreStored ==
  ASSUME NEW S, NEW new, \A option, other \in S : option.name = other.name => option = other,
         ~ \E option \in S : option.name = new.name
  PROVE  /\ \A option \in S : ValuesOf(S \cup {new}, option.name) = ValuesOf(S, option.name)
         /\ ValuesOf(S \cup {new}, new.name) = Texts(new.values)
<1>1. ASSUME NEW option \in S PROVE ValuesOf(S \cup {new}, option.name) = ValuesOf(S, option.name)
  <2>1. (CHOOSE other \in S : other.name = option.name) = option
    OBVIOUS
  <2>2. (CHOOSE other \in S \cup {new} : other.name = option.name) = option
    OBVIOUS
  <2>3. QED
    BY <2>1, <2>2 DEF ValuesOf
<1>2. (CHOOSE other \in S \cup {new} : other.name = new.name) = new
  OBVIOUS
<1>3. QED
  BY <1>1, <1>2 DEF ValuesOf

LEMMA NextMap ==
  ASSUME TableInv, NEW text \in Arguments, ParseOption(text)
  PROVE  \/ MapOf(InTable') = MapOf(InTable)
         \/ /\ NameIn[text] \in AllNames /\ ValuesIn[text] \in AllValues
            /\ MapOf(InTable') = [n \in DOMAIN MapOf(InTable) \cup {NameIn[text]} |->
                                   IF n \in DOMAIN MapOf(InTable) THEN MapOf(InTable)[n] ELSE ValuesIn[text]]
<1> DEFINE r == Record(text)
<1>1. \/ InTable' = InTable
      \/ InTable' = InTable \cup {r} /\ ~ \E option \in InTable : option.name = NameIn[text]
  BY NextTable
<1>2. IsOption(text)
  BY NextTable
<1>3. /\ r.name = NameIn[text] /\ Texts(r.values) = ValuesIn[text] /\ ValuesIn[text] \in AllValues
      /\ NameIn[text] # <<>> => NameIn[text] \in AllNames
  BY <1>2, RecordOfArgument DEF Record
<1> HIDE DEF r
<1>4. CASE InTable' = InTable \cup {r} /\ ~ \E option \in InTable : option.name = NameIn[text]
  <2>1. /\ \A option \in InTable : ValuesOf(InTable', option.name) = ValuesOf(InTable, option.name)
        /\ ValuesOf(InTable', r.name) = ValuesIn[text]
    <3>1. \A option, other \in InTable : option.name = other.name => option = other
      BY DEF TableInv
    <3>2. ~ \E option \in InTable : option.name = r.name
      BY <1>3, <1>4
    <3>3. /\ \A option \in InTable : ValuesOf(InTable \cup {r}, option.name) = ValuesOf(InTable, option.name)
          /\ ValuesOf(InTable \cup {r}, r.name) = Texts(r.values)
      BY <3>1, <3>2, OneMoreStored, Zenon
    <3>4. InTable' = InTable \cup {r}
      BY <1>4
    <3>5. QED
      BY <1>3, <3>3, <3>4, Zenon
  <2> DEFINE Old == {option.name : option \in InTable} \ {<<>>}
             New == {option.name : option \in InTable'} \ {<<>>}
  <2>2. \A n \in Old : ValuesOf(InTable', n) = ValuesOf(InTable, n)
    BY <2>1
  <2>3. New = IF NameIn[text] = <<>> THEN Old ELSE Old \cup {NameIn[text]}
    BY <1>3, <1>4
  <2>4. MapOf(InTable') = [n \in New |-> ValuesOf(InTable', n)] /\ MapOf(InTable) = [n \in Old |-> ValuesOf(InTable, n)]
    BY DEF MapOf
  <2>5. NameIn[text] \notin Old
    BY <1>4
  <2> HIDE DEF Old, New
  <2>6. CASE NameIn[text] = <<>>
    BY <2>2, <2>3, <2>4, <2>6
  <2>7. CASE NameIn[text] # <<>>
    <3>1. DOMAIN MapOf(InTable) = Old
      BY <2>4
    <3>2. MapOf(InTable') = [n \in Old \cup {NameIn[text]} |-> IF n \in Old THEN MapOf(InTable)[n] ELSE ValuesIn[text]]
      BY <1>3, <2>1, <2>2, <2>3, <2>4, <2>5, <2>7
    <3>3. QED
      BY <1>3, <2>7, <3>1, <3>2
  <2>8. QED
    BY <2>6, <2>7
<1>5. QED
  BY <1>1, <1>4

\* Parsing implements the abstract map: an argument adds its option or changes nothing, so that
\* the first values of a name stay (insert_arg_option), whatever names meet in a bucket.
THEOREM OptionsImplementMap == Spec => ImplementsMap
<1> DEFINE options == [name \in StoredNames |-> Texts((CHOOSE option \in InTable : option.name = name).values)]
<1>1. options = MapOf(InTable)
  BY DEF MapOf, ValuesOf, StoredNames
<1>2. Init => Map!Init
  <2> SUFFICES ASSUME Init PROVE Map!Init
    OBVIOUS
  <2>1. \A b \in 0 .. option_table_count - 1 : option_table[b] = <<>> /\ DOMAIN option_table = 0 .. option_table_count - 1
    BY DEF Init
  <2>2. ToSet(<<>>) = {}
    BY DEF ToSet
  <2>3. InTable = {}
    BY <2>1, <2>2 DEF InTable, Init
  <2>4. StoredNames = {}
    BY <2>3 DEF StoredNames
  <2>5. QED
    BY <2>4 DEF Map!Init
<1>3. TableInv /\ GivenInv /\ [Next]_vars => [Map!Next]_options
  <2> SUFFICES ASSUME TableInv, GivenInv, [Next]_vars PROVE [Map!Next]_options
    OBVIOUS
  <2>1. ASSUME NEW text \in Arguments, ParseOption(text) PROVE [Map!Next]_options
    <3>1. CASE MapOf(InTable') = MapOf(InTable)
      BY <3>1 DEF MapOf, ValuesOf, StoredNames
    <3>2. CASE MapOf(InTable') # MapOf(InTable)
      <4>1. /\ NameIn[text] \in AllNames /\ ValuesIn[text] \in AllValues
            /\ MapOf(InTable') = [n \in DOMAIN MapOf(InTable) \cup {NameIn[text]} |->
                                   IF n \in DOMAIN MapOf(InTable) THEN MapOf(InTable)[n] ELSE ValuesIn[text]]
        BY <2>1, <3>2, NextMap
      <4>2. Map!Insert(NameIn[text], ValuesIn[text])
        BY <4>1, Zenon DEF Map!Insert, MapOf, ValuesOf, StoredNames
      <4>3. QED
        BY <4>1, <4>2 DEF Map!Next
    <3>3. QED
      BY <3>1, <3>2
  <2>2. ASSUME InTable' = InTable PROVE [Map!Next]_options
    BY <2>2 DEF StoredNames
  <2>3. ASSUME UNCHANGED option_table PROVE [Map!Next]_options
    BY <2>2, <2>3 DEF InTable
  <2>4. CASE ParseEnd \/ Configure \/ ReadLine \/ Done \/ UNCHANGED vars \/ \E file \in Files : OpenFile(file)
    BY <2>3, <2>4 DEF ParseEnd, Configure, ReadLine, Done, OpenFile, vars
  <2>5. ASSUME NEW text \in Arguments, ParsePositional(text) PROVE [Map!Next]_options
    BY <2>3, <2>5 DEF ParsePositional
  <2>6. QED
    BY <2>1, <2>4, <2>5 DEF Next
<1>4. QED
  BY <1>2, <1>3, InitTable, NextTables, PTL DEF Spec, ImplementsMap, Map!Spec

-----------------------------------------------------------------------------
(* Where the values of an option lie.                                      *)

\* Where a view ends in its object.
Reach(string) == string.v + string.count

LEMMA SkipReach ==
  ASSUME NEW string, NEW c, Views(string, c), NEW n \in Nat, NEW skipped, skipped = string_skip(string, n)
  PROVE  skipped.text = string.text /\ Reach(skipped) = Reach(string)
<1>1. PICK clamp : clamp = Atmost(string.count, n)
  OBVIOUS
<1>2. /\ string = [text |-> string.text, v |-> string.v, count |-> string.count]
      /\ string.v \in Nat /\ string.count \in Nat
  BY TextFacts DEF Views
<1>3. clamp \in Nat
  BY <1>1, <1>2 DEF Atmost
<1>4. skipped = [string EXCEPT !.v = @ + clamp, !.count = @ - clamp]
  BY <1>1 DEF string_skip
<1>5. skipped = [text |-> string.text, v |-> string.v + clamp, count |-> string.count - clamp]
  BY <1>2, <1>4
<1>6. skipped.text = string.text /\ skipped.v = string.v + clamp /\ skipped.count = string.count - clamp
  BY <1>5
<1>7. QED
  BY <1>2, <1>3, <1>6 DEF Reach

\* What is left of a view behind a place, without the character there, ends where the view ends.
LEMMA BehindReach ==
  ASSUME NEW string, NEW c, Views(string, c), NEW idx \in 0 .. Len(c),
         NEW behind, behind = string_skip(string_substring(string, idx, string.count), 1)
  PROVE  behind.text = string.text /\ Reach(behind) = Reach(string)
<1>1. IsText(c) /\ Len(c) \in Nat /\ string.count = Len(c) /\ string.v \in Nat
  BY TextFacts DEF Views
<1>2. PICK sub : sub = string_substring(string, idx, Len(c))
  OBVIOUS
<1>3. Len(c) \in idx .. Len(c)
  BY <1>1
<1>4. Views(sub, SubSeq(c, idx + 1, Len(c)))
  BY <1>2, <1>3, ViewPart
<1>5. sub = [text |-> string.text, v |-> string.v + idx, count |-> Len(c) - idx]
  BY <1>2, <1>3, PartIs
<1>6. sub.text = string.text /\ Reach(sub) = Reach(string)
  BY <1>1, <1>5 DEF Reach
<1>7. behind.text = sub.text /\ Reach(behind) = Reach(sub)
  BY <1>1, <1>2, <1>4, SkipReach
<1>8. QED
  BY <1>6, <1>7

\* The first value of an option lies in its argument, and to the end when it is the only one.
LEMMA FirstOfSplit ==
  ASSUME NEW string, NEW c, Views(string, c), NEW ch, NEW values, values = string_split(string, String(<<ch>>)),
         NEW p, p = Pieces(c, ch)
  PROVE  /\ Len(values) \in Nat \ {0} /\ Len(p) = Len(values) /\ Views(values[1], p[1])
         /\ values[1].text = string.text
         /\ Len(p) = 1 => Reach(values[1]) = Reach(string)
<1>1. PICK m, cuts : m = Cardinality(PlacesOf(c, ch)) /\ cuts = CutsOf(c, ch)
  OBVIOUS
<1>2. IsText(c) /\ Len(c) \in Nat /\ string.count = Len(c) /\ string.v \in Nat
  BY TextFacts DEF Views
<1>3. m \in Nat /\ Len(cuts) = m + 2 /\ cuts[1] = 0 /\ cuts[m + 2] = Len(c) + 1
  BY <1>1, <1>2, CutFacts
<1>4. values = [i \in 1 .. m + 1 |-> string_substring(string, cuts[i], cuts[i + 1] - 1)]
  BY <1>1, SplitIs
<1>5. p = [i \in 1 .. m + 1 |-> SubSeq(c, cuts[i] + 1, cuts[i + 1] - 1)]
  <2>1. Len(cuts) - 1 = m + 1
    BY <1>3
  <2>2. p = [i \in 1 .. Len(cuts) - 1 |-> SubSeq(c, cuts[i] + 1, cuts[i + 1] - 1)]
    BY <1>1, Zenon DEF Pieces, CutsOf
  <2>3. QED
    BY <2>1, <2>2
<1>6. Len(values) = m + 1 /\ Len(p) = m + 1
  BY <1>3, <1>4, <1>5
<1>7. PICK to : to = cuts[2] - 1
  OBVIOUS
<1>8. to \in 0 .. Len(c) /\ (m = 0 => to = Len(c))
  <2>1. CASE m = 0
    BY <1>2, <1>3, <1>7, <2>1
  <2>2. CASE m # 0
    <3>1. 2 \in 2 .. m + 1
      BY <1>3, <2>2
    <3>2. cuts[2] \in 1 .. Len(c)
      BY <1>1, <1>2, <3>1, CutFacts
    <3>3. QED
      BY <1>2, <1>7, <2>2, <3>2
  <2>3. QED
    BY <2>1, <2>2
<1>9. values[1] = string_substring(string, 0, to) /\ p[1] = SubSeq(c, 0 + 1, to)
  <2>1. 1 \in 1 .. m + 1 /\ 1 + 1 = 2
    BY <1>3
  <2>2. QED
    BY <1>3, <1>4, <1>5, <1>7, <2>1
<1>10. 0 \in 0 .. Len(c)
  BY <1>2
<1>11. Views(values[1], p[1])
  BY <1>8, <1>9, <1>10, ViewPart
<1>12. values[1] = [text |-> string.text, v |-> string.v + 0, count |-> to - 0]
  BY <1>8, <1>9, <1>10, PartIs
<1>13. values[1].text = string.text /\ values[1].v = string.v + 0 /\ values[1].count = to - 0
  BY <1>12
<1>14. ASSUME Len(p) = 1 PROVE Reach(values[1]) = Reach(string)
  <2>1. to = string.count
    <3>1. PICK n : n = Len(p)
      OBVIOUS
    <3>2. n = m + 1 /\ n = 1
      BY <1>6, <1>14, <3>1
    <3>3. m = 0
      BY <1>3, <3>2
    <3>4. QED
      BY <1>2, <1>8, <3>3
  <2>2. to \in Nat
    BY <1>2, <1>8
  <2>3. PICK first, v : first = values[1] /\ v = string.v
    OBVIOUS
  <2>4. first.v = v + 0 /\ first.count = to - 0 /\ v \in Nat
    BY <1>2, <1>13, <2>3
  <2>5. first.v + first.count = v + to
    BY <2>2, <2>4
  <2>6. QED
    BY <2>1, <2>3, <2>5 DEF Reach
<1>15. QED
  BY <1>3, <1>6, <1>11, <1>13, <1>14

LEMMA ValuesView ==
  ASSUME NEW text, IsText(text), IsOption(text), NEW values, values = Cut(text).values, NEW p, p = ValuesBehind(text)
  PROVE  /\ Len(values) \in Nat \ {0} /\ Len(p) = Len(values) /\ Views(values[1], p[1])
         /\ values[1].text = text
         /\ Len(p) = 1 => Reach(values[1]) = Len(text)
<1>1. PICK string, c : string = Unprefixed(String(text)) /\ c = Stripped(text)
  OBVIOUS
<1>2. Views(string, c)
  BY <1>1, StrippedView
<1>3. string.text = text /\ Reach(string) = Len(text)
  <2>1. Views(String(text), text)
    BY ViewsOf
  <2>2. PICK n \in Nat : string = string_skip(String(text), n)
    BY <1>1 DEF Unprefixed
  <2>3. String(text).text = text /\ Reach(String(text)) = Len(text)
    BY TextFacts DEF String, Reach
  <2>4. QED
    BY <2>1, <2>2, <2>3, SkipReach
<1>4. PICK idx : idx = string_find_substring(string, 0, String(<<"=">>))
  OBVIOUS
<1>5. IsText(c) /\ Len(c) \in Nat
  BY <1>2, TextFacts DEF Views
<1>6. idx \in 0 .. Len(c)
  <2>1. 0 \in 0 .. Len(c) + 1
    BY <1>5
  <2>2. QED
    BY <1>2, <1>4, <2>1, FindIs
<1>7. Len(Name(text)) = idx
  <2>1. PICK name : name = Cut(text).name
    OBVIOUS
  <2>2. name = string_substring(string, 0, idx)
    BY <1>1, <1>4, <2>1 DEF Cut
  <2>3. 0 \in 0 .. Len(c) /\ idx \in 0 .. Len(c)
    BY <1>5, <1>6
  <2>4. Views(name, SubSeq(c, 0 + 1, idx))
    BY <1>2, <2>2, <2>3, ViewPart
  <2>5. Name(text) = SubSeq(c, 0 + 1, idx)
    BY <2>1, <2>4, ViewChars, ArgumentSplit
  <2>6. Len(SubSeq(c, 0 + 1, idx)) = idx - 0
    BY <1>5, <2>3, TextPart
  <2>7. QED
    BY <1>6, <2>5, <2>6
<1>8. PICK behind, e : behind = string_skip(string_substring(string, idx, string.count), 1) /\ e = SubSeq(c, idx + 2, Len(c))
  OBVIOUS
<1>9. Views(behind, e) /\ behind.text = text /\ Reach(behind) = Len(text)
  BY <1>2, <1>3, <1>6, <1>8, ViewBehind, BehindReach
<1>10. values = string_split(behind, String(<<",">>))
  BY <1>1, <1>4, <1>8 DEF Cut
<1>11. p = Pieces(e, ",")
  BY <1>1, <1>7, <1>8 DEF ValuesBehind
<1>12. PICK ch : ch = ","
  OBVIOUS
<1>13. PICK vals, q : vals = string_split(behind, String(<<ch>>)) /\ q = Pieces(e, ch)
  OBVIOUS
<1>14. /\ Len(vals) \in Nat \ {0} /\ Len(q) = Len(vals) /\ Views(vals[1], q[1]) /\ vals[1].text = behind.text
       /\ Len(q) = 1 => Reach(vals[1]) = Reach(behind)
  <2>1. Views(behind, e)
    BY <1>9
  <2>2. vals = string_split(behind, String(<<ch>>))
    BY <1>13
  <2>3. q = Pieces(e, ch)
    BY <1>13
  <2>4. QED
    BY <2>1, <2>2, <2>3, FirstOfSplit
<1>15. values = vals /\ p = q
  BY <1>10, <1>11, <1>12, <1>13
<1>16. QED
  BY <1>9, <1>14, <1>15

-----------------------------------------------------------------------------
(* What main finds in the table.                                           *)

\* The values that the table has for a name, or none.
LEMMA FoundValues ==
  ASSUME TableInv, GivenInv, NEW name, name # <<>>, hash[name] \in 0 .. option_table_count - 1,
         NEW values, values = args_get_option_values(name)
  PROVE  /\ name \notin GivenNames => values = <<>>
         /\ name \in GivenNames =>
              /\ Texts(values) = ValuesIn[FirstGiven(name)]
              /\ \E text \in Arguments : IsOption(text) /\ values = Cut(text).values
<1>1. PICK b, bucket : b = hash[name] /\ bucket = option_table[b]
  OBVIOUS
<1>2. PICK Buckets : Buckets = 0 .. option_table_count - 1
  OBVIOUS
<1>3. bucket \in Seq(OptionRecord) /\ DOMAIN option_table = Buckets /\ b \in Buckets
  BY <1>1, <1>2 DEF TableInv
<1>4. Len(bucket) \in Nat /\ DOMAIN bucket = 1 .. Len(bucket) /\ ToSet(bucket) = {bucket[i] : i \in 1 .. Len(bucket)}
  BY <1>3 DEF ToSet
<1>5. PICK I : I = {i \in 1 .. Len(bucket) : bucket[i].name = name}
  OBVIOUS
<1>6. values = IF I = {} THEN <<>> ELSE bucket[Min(I)].values
  <2>1. SelectInSeq(bucket, LAMBDA option : option.name = name) = IF I = {} THEN 0 ELSE Min(I)
    BY <1>5, Zenon DEF SelectInSeq
  <2>2. I # {} => Min(I) \in I
    BY <1>4, <1>5, FirstPlace
  <2>3. I # {} => Min(I) # 0
    BY <1>5, <2>2
  <2>4. PICK at : at = IF I = {} THEN 0 ELSE Min(I)
    OBVIOUS
  <2>5. values = IF at = 0 THEN <<>> ELSE bucket[at].values
    BY <1>1, <2>1, <2>4 DEF args_get_option_values
  <2>6. QED
    BY <2>3, <2>4, <2>5
<1>7. name \in GivenNames <=> \E option \in InTable : option.name = name
  BY DEF GivenInv, StoredNames
<1>8. \A option \in InTable : option.name = name => option \in ToSet(bucket)
  <2> SUFFICES ASSUME NEW option \in InTable, option.name = name PROVE option \in ToSet(bucket)
    OBVIOUS
  <2>1. PICK c \in Buckets : option \in ToSet(option_table[c])
    BY <1>3 DEF InTable
  <2>2. hash[option.name] = c
    BY <1>2, <2>1 DEF TableInv
  <2>3. QED
    BY <1>1, <2>1, <2>2
<1>9. ToSet(bucket) \subseteq InTable
  BY <1>1, <1>3 DEF InTable
<1>10. name \in GivenNames <=> I # {}
  BY <1>4, <1>5, <1>7, <1>8, <1>9
<1>11. ASSUME I # {}
       PROVE  Texts(values) = ValuesIn[FirstGiven(name)] /\ \E text \in Arguments : IsOption(text) /\ values = Cut(text).values
  <2>1. Min(I) \in I
    BY <1>4, <1>5, <1>11, FirstPlace
  <2>2. PICK option : option = bucket[Min(I)]
    OBVIOUS
  <2>3. option \in InTable /\ option.name = name /\ option \in OptionRecord /\ values = option.values
    BY <1>3, <1>4, <1>5, <1>6, <1>9, <1>11, <2>1, <2>2
  <2>4. Texts(values) = ValuesIn[FirstGiven(name)]
    BY <2>3 DEF GivenInv
  <2>5. \E text \in OptionArguments : values = Cut(text).values
    BY <2>3 DEF OptionRecord
  <2>6. QED
    BY <2>4, <2>5 DEF OptionArguments
<1>12. QED
  BY <1>6, <1>10, <1>11

\* Where the place of a value ends, of one that is given alone.
GivenAlone(name) == name \in GivenNames => Len(ValuesIn[FirstGiven(name)]) = 1

\* args_get_string_value returns a view of the first value, or the default.
LEMMA FirstValueIs ==
  ASSUME TableInv, GivenInv, NEW name, name # <<>>, hash[name] \in 0 .. option_table_count - 1,
         NEW default, IsText(default), NEW string, string = args_get_string_value(name, default)
  PROVE  /\ Views(string, FirstValue(name, default))
         /\ string.text \in Arguments \cup {default}
         /\ GivenAlone(name) => Reach(string) = Len(string.text)
<1>1. PICK values : values = args_get_option_values(name)
  OBVIOUS
<1>2. CASE name \notin GivenNames
  <2>1. values = <<>>
    BY <1>1, <1>2, FoundValues
  <2>2. string = String(default) /\ FirstValue(name, default) = default
    BY <1>1, <1>2, <2>1 DEF args_get_string_value, FirstValue
  <2>3. String(default).text = default /\ Reach(String(default)) = Len(default)
    BY TextFacts DEF String, Reach
  <2>4. QED
    BY <2>2, <2>3, ViewsOf
<1>3. CASE name \in GivenNames
  <2>1. Texts(values) = ValuesIn[FirstGiven(name)]
    BY <1>1, <1>3, FoundValues
  <2>2. PICK text \in Arguments : IsOption(text) /\ values = Cut(text).values
    BY <1>1, <1>3, FoundValues
  <2>3. PICK p : p = ValuesBehind(text)
    OBVIOUS
  <2>4. IsText(text)
    BY ArgumentsAssumption
  <2>5. /\ Len(values) \in Nat \ {0} /\ Len(p) = Len(values) /\ Views(values[1], p[1]) /\ values[1].text = text
        /\ Len(p) = 1 => Reach(values[1]) = Len(text)
    BY <2>2, <2>3, <2>4, ValuesView
  <2>6. values # <<>>
    BY <2>5
  <2>7. string = values[1]
    BY <1>1, <2>6 DEF args_get_string_value
  <2>8. p = ValuesIn[FirstGiven(name)]
    BY <2>1, <2>2, <2>3, <2>4, ArgumentSplit
  <2>9. FirstValue(name, default) = p[1]
    BY <1>3, <2>8 DEF FirstValue
  <2>10. QED
    BY <1>3, <2>5, <2>7, <2>8, <2>9 DEF GivenAlone
<1>4. QED
  BY <1>2, <1>3

\* A word that is negative but not below minus its width wraps once.
LEMMA WordIs ==
  ASSUME NEW x \in Int, W \in Nat \ {0}
  PROVE  /\ x \in 0 .. W - 1 => Word(x) = x
         /\ x < 0 /\ x + W >= 0 => Word(x) = x + W
<1>1. ASSUME x \in 0 .. W - 1 PROVE Word(x) = x
  BY <1>1 DEF Word
<1>2. ASSUME x < 0, x + W >= 0 PROVE Word(x) = x + W
  BY <1>2 DEF Word
<1>3. QED
  BY <1>1, <1>2

\* Where a word is in a text.
WordPlaces(word, c) == {i \in 1 .. Len(c) - Len(word) + 1 : SubSeq(c, i, i + Len(word) - 1) = word}

\* A search that does not stray finds a word where it first occurs.
LEMMA WordFound ==
  ASSUME NEW string, NEW c, Views(string, c), NEW name, IsText(name), name # <<>>, ~Strays(string, String(name)),
         NEW places, places = WordPlaces(name, c), NEW at, at = string_find_substring(string, 0, String(name))
  PROVE  /\ ~Occurs(name, c) => at = Len(c)
         /\ Occurs(name, c) => at # Len(c) /\ at = Min(places) - 1
<1>1. IsText(c) /\ Len(c) \in Nat /\ Len(c) < W /\ W \in Nat \ {0} /\ string.count = Len(c)
  BY TextFacts, WidthAssumption DEF Views
<1>2. Len(name) \in Nat /\ Len(name) < W
  BY TextFacts
<1>3. PICK n, l : n = Len(c) /\ l = Len(name)
  OBVIOUS
<1>4. n \in Nat /\ l \in Nat \ {0} /\ n < W /\ l < W /\ string.count = n /\ String(name).count = l
  <2>1. Len(name) # 0
    BY <1>2, TextFacts
  <2>2. String(name).count = Len(name)
    BY DEF String
  <2>3. QED
    BY <1>1, <1>2, <1>3, <2>1, <2>2
<1>5. PICK K : K = Comparisons(string, String(name))
  OBVIOUS
<1>6. K = Word(n - l + 1) /\ ~(K > n)
  BY <1>4, <1>5 DEF Comparisons, Strays
<1>7. K = n - l + 1 /\ K \in 0 .. n
  <2>1. n - l + 1 >= 0
    <3>1. SUFFICES ASSUME n - l + 1 < 0 PROVE FALSE
      BY <1>4
    <3>2. n - l + 1 \in Int /\ n - l + 1 + W >= 0
      BY <1>1, <1>4
    <3>3. K = n - l + 1 + W
      BY <1>1, <1>6, <3>1, <3>2, WordIs
    <3>4. QED
      BY <1>1, <1>4, <1>6, <3>3
  <2>2. n - l + 1 \in 0 .. W - 1
    BY <1>1, <1>4, <2>1
  <2>3. n - l + 1 \in Int
    BY <1>4
  <2>4. K = n - l + 1
    BY <1>1, <1>6, <2>2, <2>3, WordIs
  <2>5. QED
    BY <1>4, <2>1, <2>4
<1>8. PICK found : found = {i \in 0 .. K - 1 : string_match(string_substring(string, i, i + l), String(name))}
  OBVIOUS
<1>9. at = IF found = {} THEN n ELSE Min(found)
  <2> DEFINE hits(last, count) == {i \in 0 .. last : string_match(string_substring(string, i, i + count), String(name))}
  <2>1. string_find_substring(string, 0, String(name)) =
          LET m == Comparisons(string, String(name))
              k == String(name).count
          IN  IF k = 0 \/ hits(m - 1, k) = {} THEN string.count ELSE Min(hits(m - 1, k))
    BY DEF string_find_substring
  <2>2. hits(K - 1, l) = found
    BY <1>8
  <2> HIDE DEF hits
  <2>3. QED
    BY <1>4, <1>5, <2>1, <2>2
<1>10. ASSUME NEW i \in 0 .. K - 1
       PROVE  string_match(string_substring(string, i, i + l), String(name)) <=> SubSeq(c, i + 1, i + l) = name
  <2>1. i \in 0 .. Len(c) /\ i + l \in i .. Len(c)
    BY <1>3, <1>4, <1>7
  <2>2. PICK sub, d, j : sub = string_substring(string, i, j) /\ d = SubSeq(c, i + 1, j) /\ j = i + l
    OBVIOUS
  <2>3. Views(sub, d)
    BY <2>1, <2>2, ViewPart
  <2>4. Len(d) = j - i
    BY <1>1, <2>1, <2>2, TextPart
  <2>5. Chars(sub) = d /\ sub.count = l
    <3>1. sub.count = Len(d)
      BY <2>3 DEF Views
    <3>2. j - i = l
      BY <1>4, <2>2
    <3>3. QED
      BY <2>3, <2>4, <3>1, <3>2, ViewChars
  <2>6. Chars(String(name)) = name
    BY ViewsOf, ViewChars
  <2>7. string_match(sub, String(name)) <=> d = name
    BY <1>4, <2>5, <2>6 DEF string_match
  <2>8. QED
    BY <2>2, <2>7
<1>11. ASSUME NEW i \in 0 .. K - 1 PROVE i \in found <=> i + 1 \in places
  <2>1. PICK j : j = i + 1
    OBVIOUS
  <2>2. j \in 1 .. n - l + 1 /\ j + l - 1 = i + l
    BY <1>4, <1>7, <2>1
  <2>3. j \in places <=> SubSeq(c, j, j + l - 1) = name
    BY <1>3, <2>2 DEF WordPlaces
  <2>4. QED
    BY <1>8, <1>10, <2>1, <2>2, <2>3
<1>12. places \subseteq 1 .. n - l + 1 /\ found \subseteq 0 .. K - 1 /\ (Occurs(name, c) <=> places # {})
  <2>1. places \subseteq 1 .. n - l + 1
    BY <1>3 DEF WordPlaces
  <2>2. found \subseteq 0 .. K - 1
    BY <1>8
  <2>3. Occurs(name, c) <=> places # {}
    BY Zenon DEF WordPlaces, Occurs
  <2>4. QED
    BY <2>1, <2>2, <2>3
<1>13. \A j \in places : j - 1 \in found /\ j - 1 \in 0 .. K - 1
  <2> TAKE j \in places
  <2>1. PICK i : i = j - 1
    OBVIOUS
  <2>2. i \in 0 .. K - 1 /\ i + 1 = j
    BY <1>4, <1>7, <1>12, <2>1
  <2>3. QED
    BY <1>11, <2>1, <2>2
<1>14. CASE ~Occurs(name, c)
  <2>1. found = {}
    BY <1>11, <1>12, <1>14
  <2>2. QED
    BY <1>3, <1>9, <1>14, <2>1
<1>15. CASE Occurs(name, c)
  <2>1. PICK j : j \in places
    BY <1>12, <1>15
  <2>2. found # {} /\ found \subseteq Nat
    BY <1>12, <1>13, <2>1
  <2>3. Min(found) \in found /\ \A i \in found : Min(found) <= i
    <3>1. \E i \in found : \A k \in found : i <= k
      BY <2>2, LeastNumber
    <3>2. QED
      BY <3>1, Zenon DEF Min
  <2>4. places # {} /\ places \subseteq Nat
    BY <1>12, <2>1
  <2>5. Min(places) \in places /\ \A i \in places : Min(places) <= i
    <3>1. \E i \in places : \A k \in places : i <= k
      BY <2>4, LeastNumber
    <3>2. QED
      BY <3>1, Zenon DEF Min
  <2>6. PICK a, b : a = Min(found) /\ b = Min(places)
    OBVIOUS
  <2>7. a \in found /\ a \in 0 .. K - 1 /\ b \in places /\ b - 1 \in found /\ a + 1 \in places
    BY <1>11, <1>12, <1>13, <2>3, <2>5, <2>6
  <2>8. a <= b - 1 /\ b <= a + 1
    BY <2>3, <2>5, <2>6, <2>7
  <2>9. a \in Int /\ b \in Int
    BY <2>4, <2>7
  <2>10. a = b - 1
    BY <2>8, <2>9
  <2>11. at = a /\ a # n
    BY <1>4, <1>7, <1>9, <2>2, <2>6, <2>7
  <2>12. QED
    BY <1>3, <1>15, <2>6, <2>10, <2>11
<1>16. QED
  BY <1>14, <1>15

\* A search that does not stray finds a text exactly when it occurs.
LEMMA FormatFound ==
  ASSUME NEW string, NEW c, Views(string, c), NEW name, IsText(name), name # <<>>, ~Strays(string, String(name))
  PROVE  string_find_substring(string, 0, String(name)) # string.count <=> Occurs(name, c)
<1>1. PICK places, at : places = WordPlaces(name, c) /\ at = string_find_substring(string, 0, String(name))
  OBVIOUS
<1>2. (~Occurs(name, c) => at = Len(c)) /\ (Occurs(name, c) => at # Len(c))
  BY <1>1, WordFound
<1>3. string.count = Len(c)
  BY DEF Views
<1>4. QED
  BY <1>1, <1>2, <1>3

\* The number that a text without a sign starts with.
LEMMA DigitsAre ==
  ASSUME NEW string, NEW c, Views(string, c), ~Contains(c, "-"),
         NEW length, length = Max({n \in 0 .. Len(c) : \A i \in 1 .. n : IsDigit(c[i])})
  PROVE  string_to_u64(string) = Number(SubSeq(c, 1, length))
<1>1. IsText(c) /\ Len(c) \in Nat /\ DOMAIN c = 1 .. Len(c) /\ string.count = Len(c)
  BY TextFacts DEF Views
<1>2. PICK n : n = Len(c)
  OBVIOUS
<1>3. \A i \in 0 .. n - 1 : At(string, i) = c[i + 1]
  BY <1>2, ViewAt
<1>4. ~(string.count > 0 /\ At(string, 0) = "-")
  <2>1. ASSUME n > 0 PROVE At(string, 0) # "-"
    <3>1. 0 \in 0 .. n - 1 /\ 0 + 1 = 1 /\ 1 \in 1 .. Len(c)
      BY <1>1, <1>2, <2>1
    <3>2. At(string, 0) = c[1]
      BY <1>3, <3>1
    <3>3. QED
      BY <3>1, <3>2 DEF Contains
  <2>2. QED
    BY <1>1, <1>2, <2>1
<1>5. PICK S : S = {k \in 0 .. n : 0 + k >= n \/ ~IsDigit(At(string, 0 + k))}
  OBVIOUS
<1>6. PICK M : M = Min(S)
  OBVIOUS
<1>7. M \in S /\ \A k \in S : M <= k
  <2>1. n \in S /\ S \subseteq Nat
    BY <1>1, <1>2, <1>5
  <2>2. \E k \in S : \A j \in S : k <= j
    BY <2>1, LeastNumber
  <2>3. QED
    BY <1>6, <2>2, Zenon DEF Min
<1>8. M \in 0 .. n
  BY <1>5, <1>7
<1>9. \A i \in 1 .. M : IsDigit(c[i])
  <2> TAKE i \in 1 .. M
  <2>1. PICK k : k = i - 1
    OBVIOUS
  <2>2. k \in 0 .. n /\ k \in 0 .. n - 1 /\ ~(M <= k) /\ k + 1 = i /\ 0 + k = k
    BY <1>1, <1>2, <1>8, <2>1
  <2>3. k \notin S
    BY <1>7, <2>2
  <2>4. IsDigit(At(string, k))
    BY <1>5, <2>2, <2>3
  <2>5. QED
    BY <1>3, <2>2, <2>4
<1>10. ASSUME NEW k \in 0 .. n, \A i \in 1 .. k : IsDigit(c[i]) PROVE k <= M
  <2> SUFFICES ASSUME M < k PROVE FALSE
    BY <1>1, <1>2, <1>8
  <2>1. M + 1 \in 1 .. k /\ M \in 0 .. n - 1 /\ ~(M >= n) /\ 0 + M = M
    BY <1>1, <1>2, <1>8
  <2>2. IsDigit(c[M + 1])
    BY <1>10, <2>1
  <2>3. IsDigit(At(string, M))
    BY <1>3, <2>1, <2>2
  <2>4. QED
    BY <1>5, <1>7, <2>1, <2>3
<1>11. length = M
  <2>1. PICK P : P = {k \in 0 .. n : \A i \in 1 .. k : IsDigit(c[i])}
    OBVIOUS
  <2>2. M \in P /\ \A k \in P : M >= k
    BY <1>1, <1>2, <1>8, <1>9, <1>10, <2>1
  <2>3. Max(P) \in P /\ \A k \in P : Max(P) >= k
    BY <2>2, Zenon DEF Max
  <2>4. Max(P) = M
    BY <1>1, <1>2, <2>1, <2>2, <2>3
  <2>5. length = Max(P)
    BY <1>2, <2>1
  <2>6. QED
    BY <2>4, <2>5
<1>12. [i \in 1 .. M |-> At(string, 0 + i - 1)] = SubSeq(c, 1, M)
  <2>1. PICK d : d = SubSeq(c, 0 + 1, M)
    OBVIOUS
  <2>2. 0 \in 0 .. Len(c) /\ M \in 0 .. Len(c)
    BY <1>1, <1>2, <1>8
  <2>3. IsText(d) /\ Len(d) = M - 0 /\ \A i \in 1 .. M - 0 : d[i] = c[0 + i]
    BY <1>1, <2>1, <2>2, TextPart
  <2>4. M - 0 = M /\ \A i \in 1 .. M : 0 + i = i
    BY <2>2
  <2>5. d = [i \in 1 .. M |-> d[i]] /\ \A i \in 1 .. M : d[i] = c[i]
    BY <2>3, <2>4, TextFacts
  <2>6. ASSUME NEW i \in 1 .. M PROVE At(string, 0 + i - 1) = c[i]
    <3>1. PICK k : k = 0 + i - 1
      OBVIOUS
    <3>2. k \in 0 .. n - 1 /\ k + 1 = i
      BY <1>2, <2>2, <3>1
    <3>3. QED
      BY <1>3, <3>1, <3>2
  <2>7. QED
    BY <2>1, <2>5, <2>6
<1>13. string_to_u64(string) = Number([i \in 1 .. M |-> At(string, 0 + i - 1)])
  <2> DEFINE stops(at, count) == {k \in 0 .. count : at + k >= count \/ ~IsDigit(At(string, at + k))}
             digits(at, l) == Number([i \in 1 .. l |-> At(string, at + i - 1)])
  <2>1. string_to_u64(string) =
          LET at == IF string.count > 0 /\ At(string, 0) = "-" THEN 1 ELSE 0
              l == Min(stops(at, string.count))
          IN  digits(at, l)
    BY DEF string_to_u64
  <2>2. stops(0, n) = S
    BY <1>5
  <2> HIDE DEF stops, digits
  <2>3. string_to_u64(string) = digits(0, Min(stops(0, n)))
    BY <1>1, <1>2, <1>4, <2>1
  <2>4. string_to_u64(string) = digits(0, M)
    BY <1>6, <2>2, <2>3
  <2>5. QED
    BY <2>4 DEF digits
<1>14. QED
  BY <1>11, <1>12, <1>13

\* The last part of a path without a dot, as far as printf prints it.
LEMMA TitleIs ==
  ASSUME NEW string, NEW c, Views(string, c), Reach(string) = Len(string.text), IsText(string.text),
         \A i \in DOMAIN string.text : string.text[i] # "NUL", Contains(c, "/"), ~Dotted(c)
  PROVE  Printed(file_basename(string)) = Last(Pieces(c, "/"))
<1>1. IsText(c) /\ Len(c) \in Nat /\ DOMAIN c = 1 .. Len(c) /\ string.count = Len(c) /\ Len(c) < W /\ W \in Nat \ {0}
  BY TextFacts, WidthAssumption DEF Views
<1>2. PICK n, v, text : n = Len(c) /\ v = string.v /\ text = string.text
  OBVIOUS
<1>3. /\ v \in Nat /\ Len(text) \in Nat /\ Len(text) = v + n /\ DOMAIN text = 1 .. Len(text)
      /\ \A i \in 1 .. n : text[v + i] = c[i]
      /\ \A i \in 1 .. Len(text) : text[i] # "NUL"
  <2>1. v \in Nat /\ \A i \in 1 .. n : text[v + i] = c[i]
    BY <1>2 DEF Views
  <2>2. Len(text) = v + n
    BY <1>1, <1>2 DEF Reach
  <2>3. Len(text) \in Nat /\ DOMAIN text = 1 .. Len(text)
    BY <1>2, TextFacts
  <2>4. QED
    BY <1>2, <2>1, <2>2, <2>3
<1>4. \A i \in 0 .. n - 1 : At(string, i) = c[i + 1]
  BY <1>2, ViewAt
<1>5. PICK m, s : m = Cardinality(PlacesOf(c, "/")) /\ s = Positions(c, "/")
  OBVIOUS
<1>6. /\ m \in Nat /\ s \in [1 .. m -> 1 .. n]
      /\ \A k \in 1 .. m : c[s[k]] = "/"
      /\ \A i, j \in 1 .. m : s[i] < s[j] <=> i < j
      /\ \A i \in 1 .. n : c[i] = "/" => \E k \in 1 .. m : s[k] = i
  <2>1. Positioned(c, "/", m, s)
    BY <1>1, <1>5, PositionFacts
  <2>2. QED
    BY <1>2, <2>1 DEF Positioned
<1>7. m >= 1
  <2>1. PICK i \in 1 .. n : c[i] = "/"
    BY <1>2 DEF Contains
  <2>2. PICK k \in 1 .. m : s[k] = i
    BY <1>6, <2>1
  <2>3. QED
    BY <1>6, <2>2
<1>8. PICK start : start = s[m]
  OBVIOUS
<1>9. start \in 1 .. n /\ c[start] = "/" /\ \A i \in 1 .. n : c[i] = "/" => i <= start
  <2>1. m \in 1 .. m
    BY <1>6, <1>7
  <2>2. start \in 1 .. n /\ c[start] = "/"
    BY <1>6, <1>8, <2>1
  <2>3. ASSUME NEW i \in 1 .. n, c[i] = "/" PROVE i <= start
    <3>1. PICK k \in 1 .. m : s[k] = i
      BY <1>6, <2>3
    <3>2. ~(m < k)
      BY <1>6, <3>1
    <3>3. ~(start < i)
      BY <1>6, <1>8, <2>1, <3>1, <3>2
    <3>4. QED
      BY <1>1, <1>2, <2>2, <3>3
  <2>4. QED
    BY <2>2, <2>3
<1>10. PICK sub : sub = string_substring(string, start, 0)
  OBVIOUS
<1>11. file_basename(string) = sub
  <2>1. PICK dots, slashes : /\ dots = {i \in 0 .. n - 1 : At(string, i) = "."}
                             /\ slashes = {i \in 0 .. n - 1 : At(string, i) = "/"}
    OBVIOUS
  <2>2. dots = {}
    <3> SUFFICES ASSUME NEW i \in 0 .. n - 1, At(string, i) = "." PROVE FALSE
      BY <2>1
    <3>1. i + 1 \in 1 .. n /\ c[i + 1] = "."
      BY <1>1, <1>2, <1>4
    <3>2. QED
      BY <1>2, <3>1 DEF Dotted, Contains
  <2>3. start - 1 \in slashes /\ \A i \in slashes : start - 1 >= i
    <3>1. PICK k : k = start - 1
      OBVIOUS
    <3>2. k \in 0 .. n - 1 /\ k + 1 = start
      BY <1>1, <1>2, <1>9, <3>1
    <3>3. k \in slashes
      BY <1>4, <1>9, <2>1, <3>2
    <3>4. ASSUME NEW i \in slashes PROVE k >= i
      <4>1. i \in 0 .. n - 1 /\ i + 1 \in 1 .. n /\ c[i + 1] = "/"
        BY <1>1, <1>2, <1>4, <2>1
      <4>2. i + 1 <= start
        BY <1>9, <4>1
      <4>3. QED
        BY <1>9, <3>1, <4>1, <4>2
    <3>5. QED
      BY <3>1, <3>3, <3>4
  <2>4. Max(slashes) + 1 = start
    <3>1. Max(slashes) \in slashes /\ \A k \in slashes : Max(slashes) >= k
      BY <2>3, Zenon DEF Max
    <3>2. slashes \subseteq Int
      BY <2>1
    <3>3. PICK high, k : high = Max(slashes) /\ k = start - 1
      OBVIOUS
    <3>4. high \in Int /\ k \in Int /\ high >= k /\ k >= high
      BY <2>3, <3>1, <3>2, <3>3
    <3>5. start \in Int
      BY <1>9
    <3>6. high + 1 = start
      BY <3>3, <3>4, <3>5
    <3>7. QED
      BY <3>3, <3>6
  <2>5. slashes # {}
    BY <2>3
  <2> DEFINE Dots(count) == {i \in 0 .. count - 1 : At(string, i) = "."}
             Slashes(last) == {i \in 0 .. last - 1 : At(string, i) = "/"}
  <2>6. file_basename(string) =
          LET last == IF Dots(string.count) = {} THEN string.count ELSE Min(Dots(string.count))
          IN  string_substring(string, IF Slashes(last) = {} THEN 0 ELSE Max(Slashes(last)) + 1, IF Dots(string.count) = {} THEN 0 ELSE last)
    BY DEF file_basename
  <2>7. Dots(n) = dots /\ Slashes(n) = slashes
    BY <2>1
  <2> HIDE DEF Dots, Slashes
  <2>8. file_basename(string) = string_substring(string, Max(slashes) + 1, 0)
    BY <1>1, <1>2, <2>2, <2>5, <2>6, <2>7
  <2>9. QED
    BY <1>10, <2>4, <2>8
<1>12. sub.text = text /\ sub.v = v + start /\ sub.count = W - start
  <2>1. Atmost(start, string.count) = start /\ Atmost(0, string.count) = 0
    <3>1. string.count = n
      BY <1>1, <1>2
    <3>2. n \in Nat /\ start \in Nat /\ start <= n
      BY <1>1, <1>2, <1>9
    <3>3. Atmost(start, n) = start /\ Atmost(0, n) = 0
      BY <3>2 DEF Atmost
    <3>4. QED
      BY <3>1, <3>3
  <2>2. Word(0 - start) = W - start
    <3>1. PICK x : x = 0 - start
      OBVIOUS
    <3>2. x \in Int /\ x < 0 /\ x + W >= 0 /\ x + W = W - start
      BY <1>1, <1>2, <1>9, <3>1
    <3>3. Word(x) = x + W
      BY <1>1, <3>2, WordIs
    <3>4. QED
      BY <3>1, <3>2, <3>3
  <2>3. sub = [string EXCEPT !.v = @ + start, !.count = W - start]
    BY <1>10, <2>1, <2>2 DEF string_substring
  <2>4. string = [text |-> string.text, v |-> string.v, count |-> string.count]
    BY DEF Views
  <2>5. sub = [text |-> string.text, v |-> string.v + start, count |-> W - start]
    BY <2>3, <2>4
  <2>6. sub.text = string.text /\ sub.v = string.v + start /\ sub.count = W - start
    BY <2>5
  <2>7. QED
    BY <1>2, <2>6
<1>13. PICK length : length = n - start
  OBVIOUS
<1>14. length \in 0 .. W - start /\ length < W - start
  BY <1>1, <1>2, <1>9, <1>13
<1>15. \A i \in 0 .. length - 1 : At(sub, i) = c[start + i + 1] /\ At(sub, i) # "NUL"
  <2> TAKE i \in 0 .. length - 1
  <2>1. PICK j : j = start + i + 1
    OBVIOUS
  <2>2. j \in 1 .. n /\ v + start + i < Len(text) /\ v + start + i + 1 = v + j /\ v + j \in 1 .. Len(text)
    BY <1>1, <1>2, <1>3, <1>9, <1>13, <2>1
  <2>3. At(sub, i) = text[v + start + i + 1]
    BY <1>12, <2>2 DEF At
  <2>4. QED
    BY <1>3, <2>1, <2>2, <2>3
<1>16. At(sub, length) = "NUL"
  <2>1. ~(v + start + length < Len(text))
    BY <1>1, <1>2, <1>3, <1>9, <1>13
  <2>2. QED
    BY <1>12, <2>1 DEF At
<1>17. Printed(sub) = [i \in 1 .. length |-> At(sub, i - 1)]
  <2>1. PICK ends : ends = {k \in 0 .. W - start : k = W - start \/ At(sub, k) = "NUL"}
    OBVIOUS
  <2>2. length \in ends
    BY <1>14, <1>16, <2>1
  <2>3. ends \subseteq Nat
    BY <2>1
  <2>4. \E k \in ends : \A j \in ends : k <= j
    BY <2>2, <2>3, LeastNumber
  <2>5. Min(ends) \in ends /\ \A j \in ends : Min(ends) <= j
    BY <2>4, Zenon DEF Min
  <2>6. ASSUME NEW k \in ends PROVE length <= k
    <3> SUFFICES ASSUME k < length PROVE FALSE
      BY <1>1, <1>9, <1>14, <2>3
    <3>1. k \in 0 .. length - 1 /\ k # W - start
      BY <1>1, <1>9, <1>14, <2>3
    <3>2. QED
      BY <1>15, <2>1, <3>1
  <2>7. Min(ends) = length
    <3>1. PICK low : low = Min(ends)
      OBVIOUS
    <3>2. low \in Nat /\ low <= length /\ length <= low
      BY <2>2, <2>3, <2>5, <2>6, <3>1
    <3>3. QED
      BY <1>1, <1>9, <1>14, <3>1, <3>2
  <2> DEFINE Ends(count) == {k \in 0 .. count : k = count \/ At(sub, k) = "NUL"}
             Shown(l) == [i \in 1 .. l |-> At(sub, i - 1)]
  <2>8. Printed(sub) = Shown(Min(Ends(sub.count)))
    BY DEF Printed
  <2>9. Ends(W - start) = ends
    BY <2>1
  <2> HIDE DEF Ends, Shown
  <2>10. Printed(sub) = Shown(length)
    BY <1>12, <2>7, <2>8, <2>9
  <2>11. QED
    BY <2>10 DEF Shown
<1>18. Last(Pieces(c, "/")) = SubSeq(c, start + 1, n)
  <2>1. PICK cuts : cuts = CutsOf(c, "/")
    OBVIOUS
  <2>2. /\ Len(cuts) = m + 2 /\ cuts[m + 2] = n + 1
        /\ \A k \in 2 .. m + 1 : cuts[k] = s[k - 1]
    BY <1>1, <1>2, <1>5, <2>1, CutFacts
  <2>3. cuts[m + 1] = start
    <3>1. PICK k : k = m + 1
      OBVIOUS
    <3>2. k \in 2 .. m + 1 /\ k - 1 = m
      BY <1>6, <1>7, <3>1
    <3>3. cuts[k] = s[k - 1]
      BY <2>2, <3>2
    <3>4. QED
      BY <1>8, <3>1, <3>2, <3>3
  <2>4. Len(cuts) - 1 = m + 1
    BY <1>6, <2>2
  <2>5. Pieces(c, "/") = [i \in 1 .. Len(cuts) - 1 |-> SubSeq(c, cuts[i] + 1, cuts[i + 1] - 1)]
    BY <2>1, Zenon DEF Pieces, CutsOf
  <2>6. PICK p, k : p = Pieces(c, "/") /\ k = m + 1
    OBVIOUS
  <2>7. p = [i \in 1 .. k |-> SubSeq(c, cuts[i] + 1, cuts[i + 1] - 1)]
    BY <2>4, <2>5, <2>6
  <2>8. k \in 1 .. k /\ k \in Nat /\ k + 1 = m + 2 /\ n + 1 - 1 = n
    BY <1>1, <1>2, <1>6, <2>6
  <2>9. Len(p) = k /\ p[k] = SubSeq(c, start + 1, n)
    <3>1. PICK f : f = [i \in 1 .. k |-> SubSeq(c, cuts[i] + 1, cuts[i + 1] - 1)]
      OBVIOUS
    <3>2. f[k] = SubSeq(c, cuts[k] + 1, cuts[k + 1] - 1)
      BY <2>8, <3>1
    <3>3. DOMAIN f = 1 .. k /\ Len(f) = k
      BY <2>8, <3>1
    <3>4. cuts[k] = start /\ cuts[k + 1] - 1 = n
      <4>1. cuts[k] = start
        BY <2>3, <2>6
      <4>2. PICK q : q = k + 1
        OBVIOUS
      <4>3. q = m + 2
        BY <2>8, <4>2
      <4>4. cuts[q] = n + 1
        BY <2>2, <4>3
      <4>5. cuts[q] - 1 = n
        BY <1>1, <1>2, <4>4
      <4>6. QED
        BY <4>1, <4>2, <4>5
    <3>5. f[k] = SubSeq(c, start + 1, n)
      BY <3>2, <3>4
    <3>6. p = f
      BY <2>7, <3>1
    <3>7. QED
      BY <3>3, <3>5, <3>6
  <2>10. p[Len(p)] = SubSeq(c, start + 1, n)
    BY <2>9
  <2>11. QED
    BY <2>6, <2>10 DEF Last
<1>19. [i \in 1 .. length |-> At(sub, i - 1)] = SubSeq(c, start + 1, n)
  <2>1. PICK d : d = SubSeq(c, start + 1, n)
    OBVIOUS
  <2>2. start \in 0 .. Len(c) /\ n \in start .. Len(c)
    BY <1>1, <1>2, <1>9
  <2>3. IsText(d) /\ Len(d) = n - start /\ \A i \in 1 .. n - start : d[i] = c[start + i]
    BY <1>1, <2>1, <2>2, TextPart
  <2>4. d = [i \in 1 .. length |-> d[i]] /\ \A i \in 1 .. length : d[i] = c[start + i]
    BY <1>13, <2>3, TextFacts
  <2>5. ASSUME NEW i \in 1 .. length PROVE At(sub, i - 1) = c[start + i]
    <3>1. PICK k : k = i - 1
      OBVIOUS
    <3>2. k \in 0 .. length - 1 /\ start + k + 1 = start + i
      BY <1>9, <1>14, <3>1
    <3>3. QED
      BY <1>15, <3>1, <3>2
  <2>6. QED
    BY <2>1, <2>4, <2>5
<1>20. QED
  BY <1>11, <1>17, <1>18, <1>19

-----------------------------------------------------------------------------
(* The settings that main takes.                                           *)

\* What SettingsAsGiven says of settings, of the first values of the options.
Meant(new, formats, sampled, sample, folder) ==
  LET length == Max({n \in 0 .. Len(sample) : \A i \in 1 .. n : IsDigit(sample[i])})
  IN  /\ new.formats = {name \in FormatNames : Occurs(name, formats)}
      /\ new.folder = folder
      /\ IF ~sampled THEN new.sample = DefaultSample
         ELSE Contains(sample, "-") \/ new.sample = Number(SubSeq(sample, 1, length))
      /\ Contains(new.folder, "/") /\ ~Dotted(new.folder) => new.title = Last(Pieces(new.folder, "/"))

MeantNow(new) == Meant(new, FirstValue(output_format, CooFormat), s_option \in GivenNames,
                       FirstValue(s_option, <<>>), FirstValue(kron_dir, DefaultDir))

LEMMA FolderAlone == ASSUME TableInv, FoldersAlone PROVE GivenAlone(kron_dir)
<1> SUFFICES ASSUME kron_dir \in GivenNames PROVE Len(ValuesIn[FirstGiven(kron_dir)]) = 1
  BY DEF GivenAlone
<1>1. given \in Seq(Arguments)
  BY DEF TableInv
<1>2. PICK I : I = Givers(given, kron_dir)
  OBVIOUS
<1>3. I # {} /\ Len(given) \in Nat /\ I \in SUBSET (1 .. Len(given))
  BY <1>1, <1>2, NamesGiven DEF Givers
<1>4. Min(I) \in I
  BY <1>3, FirstPlace
<1>5. PICK text : text = FirstGiven(kron_dir)
  OBVIOUS
<1>6. text = given[Min(I)]
  BY <1>1, <1>2, <1>3, <1>5, FirstGiver
<1>7. IsOption(text) /\ NameIn[text] = kron_dir /\ text \in Arguments
  BY <1>1, <1>2, <1>3, <1>4, <1>6 DEF Givers
<1>8. text \in OptionArguments
  BY <1>7 DEF OptionArguments
<1>9. Name(text) = kron_dir /\ ValuesIn[text] = ValuesBehind(text)
  BY <1>7, <1>8 DEF NameIn, ValuesIn
<1>10. Len(ValuesBehind(text)) = 1
  BY <1>7, <1>9 DEF FoldersAlone
<1>11. QED
  BY <1>5, <1>9, <1>10

\* args_get_integer_value: the number that the first value starts with, or the default.
LEMMA SampleIs ==
  ASSUME TableInv, GivenInv, SettingsNamed, NEW text, text = FirstValue(s_option, <<>>),
         NEW length, length = Max({n \in 0 .. Len(text) : \A i \in 1 .. n : IsDigit(text[i])}),
         NEW sample, sample = args_get_integer_value(s_option, DefaultSample)
  PROVE  IF s_option \notin GivenNames THEN sample = DefaultSample
         ELSE Contains(text, "-") \/ sample = Number(SubSeq(text, 1, length))
<1>1. s_option # <<>> /\ hash[s_option] \in 0 .. option_table_count - 1
  BY DEF SettingsNamed, TableInv
<1>2. PICK values : values = args_get_option_values(s_option)
  OBVIOUS
<1>3. CASE s_option \notin GivenNames
  <2>1. values = <<>>
    BY <1>1, <1>2, <1>3, FoundValues
  <2>2. QED
    BY <1>2, <1>3, <2>1 DEF args_get_integer_value
<1>4. CASE s_option \in GivenNames
  <2>1. PICK argument \in Arguments : IsOption(argument) /\ values = Cut(argument).values
    BY <1>1, <1>2, <1>4, FoundValues
  <2>2. PICK p : p = ValuesBehind(argument)
    OBVIOUS
  <2>3. IsText(argument)
    BY ArgumentsAssumption
  <2>4. Len(values) \in Nat \ {0}
    BY <2>1, <2>2, <2>3, ValuesView
  <2>5. values # <<>>
    BY <2>4
  <2>6. PICK empty : empty = <<>>
    OBVIOUS
  <2>7. IsText(empty)
    <3>1. Len(empty) = 0 /\ empty \in Seq({empty[i] : i \in DOMAIN empty})
      BY <2>6
    <3>2. QED
      BY <3>1, WidthAssumption DEF IsText
  <2>8. PICK string : string = args_get_string_value(s_option, empty)
    OBVIOUS
  <2>9. string = values[1]
    BY <1>2, <2>5, <2>8 DEF args_get_string_value
  <2>10. text = FirstValue(s_option, empty)
    BY <2>6
  <2>11. Views(string, FirstValue(s_option, empty))
    BY <1>1, <2>7, <2>8, FirstValueIs
  <2>12. Views(string, text)
    BY <2>10, <2>11
  <2>13. sample = string_to_u64(string)
    BY <1>2, <2>5, <2>9 DEF args_get_integer_value
  <2>14. ASSUME ~Contains(text, "-") PROVE string_to_u64(string) = Number(SubSeq(text, 1, length))
    BY <2>12, <2>14, DigitsAre
  <2>15. QED
    BY <1>4, <2>13, <2>14
<1>5. QED
  BY <1>3, <1>4

LEMMA SettingsAre ==
  ASSUME TableInv, GivenInv, SettingsNamed, FoldersAlone,
         NEW formats, formats = args_get_string_value(output_format, CooFormat),
         NEW dir, dir = args_get_string_value(kron_dir, DefaultDir),
         ~ \E name \in FormatNames : Strays(formats, String(name))
  PROVE  MeantNow(Settings(formats, dir))
<1>1. PICK new, c, text, folder : /\ new = Settings(formats, dir)
                                  /\ c = FirstValue(output_format, CooFormat)
                                  /\ text = FirstValue(s_option, <<>>)
                                  /\ folder = FirstValue(kron_dir, DefaultDir)
  OBVIOUS
<1>2. /\ output_format # <<>> /\ hash[output_format] \in 0 .. option_table_count - 1
      /\ kron_dir # <<>> /\ hash[kron_dir] \in 0 .. option_table_count - 1
      /\ IsText(CooFormat) /\ IsText(DefaultDir)
  BY DEF SettingsNamed, TableInv
<1>3. Views(formats, c)
  BY <1>1, <1>2, FirstValueIs
<1>4. Views(dir, folder) /\ dir.text \in Arguments \cup {DefaultDir} /\ Reach(dir) = Len(dir.text)
  <2>1. Views(dir, FirstValue(kron_dir, DefaultDir)) /\ dir.text \in Arguments \cup {DefaultDir}
    BY <1>2, FirstValueIs
  <2>2. GivenAlone(kron_dir) => Reach(dir) = Len(dir.text)
    BY <1>2, FirstValueIs
  <2>3. QED
    BY <1>1, <2>1, <2>2, FolderAlone
<1>5. /\ new.formats = {name \in FormatNames : string_find_substring(formats, 0, String(name)) # formats.count}
      /\ new.sample = args_get_integer_value(s_option, DefaultSample)
      /\ new.folder = Chars(dir)
      /\ new.title = Printed(file_basename(dir))
  BY <1>1, Zenon DEF Settings
<1>6. new.formats = {name \in FormatNames : Occurs(name, c)}
  <2>1. ASSUME NEW name \in FormatNames
        PROVE  string_find_substring(formats, 0, String(name)) # formats.count <=> Occurs(name, c)
    <3>1. IsText(name) /\ name # <<>>
      BY DEF SettingsNamed
    <3>2. ~Strays(formats, String(name))
      OBVIOUS
    <3>3. QED
      BY <1>3, <3>1, <3>2, FormatFound
  <2>2. QED
    BY <1>5, <2>1
<1>7. new.folder = folder
  BY <1>4, <1>5, ViewChars
<1>8. PICK length : length = Max({n \in 0 .. Len(text) : \A i \in 1 .. n : IsDigit(text[i])})
  OBVIOUS
<1>9. PICK sample : sample = args_get_integer_value(s_option, DefaultSample)
  OBVIOUS
<1>10. IF s_option \notin GivenNames THEN sample = DefaultSample
       ELSE Contains(text, "-") \/ sample = Number(SubSeq(text, 1, length))
  BY <1>1, <1>8, <1>9, SampleIs
<1>11. ASSUME Contains(folder, "/"), ~Dotted(folder) PROVE new.title = Last(Pieces(folder, "/"))
  <2>1. IsText(dir.text)
    BY <1>2, <1>4, ArgumentsAssumption
  <2>2. \A i \in DOMAIN dir.text : dir.text[i] # "NUL"
    BY <1>4 DEF FoldersAlone
  <2>3. Printed(file_basename(dir)) = Last(Pieces(folder, "/"))
    BY <1>4, <1>11, <2>1, <2>2, TitleIs
  <2>4. QED
    BY <1>5, <2>3
<1>12. Meant(new, c, s_option \in GivenNames, text, folder)
  BY <1>5, <1>6, <1>7, <1>8, <1>9, <1>10, <1>11 DEF Meant
<1>13. QED
  BY <1>1, <1>12 DEF MeantNow

-----------------------------------------------------------------------------
(* SettingsAsGiven.                                                        *)

\* Until main has taken settings there are none.
SettingsInv ==
  /\ phase \in {"parsing", "parsed", "aborted"} => settings = NoSettings
  /\ SettingsAsGiven

LEMMA GivenIsMeant == SettingsAsGiven <=> (Configured => MeantNow(settings))
  BY Zenon DEF SettingsAsGiven, MeantNow, Meant

\* The first values of the options are those of the arguments given.
LEMMA SameMeant ==
  ASSUME UNCHANGED given
  PROVE  SettingsAsGiven' <=> (Configured' => MeantNow(settings'))
<1>1. GivenNames' = GivenNames
  BY DEF GivenNames
<1>2. \A name : FirstGiven(name)' = FirstGiven(name)
  <2>1. \A name : FirstGiven(name) = IF Givers(given, name) # {} THEN given[Min(Givers(given, name))] ELSE given[0]
    BY Zenon DEF FirstGiven, SelectInSeq, Givers
  <2>2. \A name : FirstGiven(name)' = IF Givers(given', name) # {} THEN given'[Min(Givers(given', name))] ELSE given'[0]
    BY Zenon DEF FirstGiven, SelectInSeq, Givers
  <2>3. QED
    BY <2>1, <2>2
<1>3. \A name, default : FirstValue(name, default)' = FirstValue(name, default)
  BY <1>1, <1>2 DEF FirstValue
<1>4. SettingsAsGiven' <=> (Configured' => Meant(settings', FirstValue(output_format, CooFormat)', (s_option \in GivenNames)',
                                                 FirstValue(s_option, <<>>)', FirstValue(kron_dir, DefaultDir)'))
  BY Zenon DEF SettingsAsGiven, Meant
<1>5. QED
  BY <1>1, <1>3, <1>4 DEF MeantNow

LEMMA NextSettings ==
  ASSUME SettingsNamed, FoldersAlone, TableInv, GivenInv, SettingsInv, [Next]_vars
  PROVE  SettingsInv'
<1>1. CASE UNCHANGED <<given, settings>> /\ (phase' \in {"parsing", "parsed", "aborted"} => settings' = NoSettings)
           /\ (phase \in {"parsing", "parsed", "aborted"} => ~Configured')
  <2>1. Configured' => Configured
    BY <1>1 DEF Configured
  <2>2. QED
    BY <1>1, <2>1, GivenIsMeant, SameMeant DEF SettingsInv
<1>2. ASSUME NEW text \in Arguments, ParseOption(text) \/ ParsePositional(text) PROVE SettingsInv'
  <2>1. phase = "parsing" /\ settings' = settings /\ phase' \in {"parsing", "aborted"}
    BY <1>2 DEF ParseOption, ParsePositional
  <2>2. settings' = NoSettings
    BY <2>1 DEF SettingsInv
  <2>3. ~Configured'
    BY <2>1 DEF Configured
  <2>4. SettingsAsGiven'
    BY <2>3 DEF SettingsAsGiven
  <2>5. QED
    BY <2>2, <2>4 DEF SettingsInv
<1>3. CASE ParseEnd
  <2>1. UNCHANGED <<given, settings>> /\ phase = "parsing" /\ phase' = "parsed"
    BY <1>3 DEF ParseEnd
  <2>2. settings' = NoSettings /\ ~Configured'
    BY <2>1 DEF SettingsInv, Configured
  <2>3. QED
    BY <1>1, <2>1, <2>2
<1>4. CASE Configure
  <2>1. PICK formats, dir : /\ formats = args_get_string_value(output_format, CooFormat)
                            /\ dir = args_get_string_value(kron_dir, DefaultDir)
    OBVIOUS
  <2>2. /\ phase = "parsed" /\ UNCHANGED given
        /\ IF \E name \in FormatNames : Strays(formats, String(name))
           THEN phase' = "crashed" /\ UNCHANGED settings
           ELSE phase' = "named" /\ settings' = Settings(formats, dir)
    BY <1>4, <2>1 DEF Configure
  <2>3. CASE \E name \in FormatNames : Strays(formats, String(name))
    <3>1. settings' = NoSettings /\ phase' = "crashed"
      BY <2>2, <2>3 DEF SettingsInv
    <3>2. NoSettings' = NoSettings
      BY DEF NoSettings
    <3>3. ~Configured'
      BY <3>1, <3>2 DEF Configured
    <3>4. QED
      BY <3>1, <3>3 DEF SettingsInv, SettingsAsGiven
  <2>4. CASE ~ \E name \in FormatNames : Strays(formats, String(name))
    <3>1. MeantNow(Settings(formats, dir))
      BY <2>1, <2>4, SettingsAre
    <3>2. MeantNow(settings') /\ phase' = "named"
      BY <2>2, <2>4, <3>1
    <3>3. SettingsAsGiven'
      BY <2>2, <3>2, SameMeant
    <3>4. QED
      BY <3>2, <3>3 DEF SettingsInv
  <2>5. QED
    BY <2>3, <2>4
<1>5. ASSUME NEW file \in Files, OpenFile(file) PROVE SettingsInv'
  <2>1. UNCHANGED <<given, settings>> /\ phase = "named" /\ phase' = "reading"
    BY <1>5 DEF OpenFile
  <2>2. QED
    BY <1>1, <2>1
<1>6. CASE ReadLine
  <2>1. UNCHANGED <<given, settings>> /\ phase = "reading" /\ phase' \in {"reading", "read", "crashed"}
    BY <1>6 DEF ReadLine
  <2>2. QED
    BY <1>1, <2>1
<1>7. CASE UNCHANGED vars
  <2>1. UNCHANGED <<given, settings, phase>>
    BY <1>7 DEF vars
  <2>2. phase \in {"parsing", "parsed", "aborted"} => ~Configured'
    BY <2>1 DEF Configured
  <2>3. QED
    BY <1>1, <2>1, <2>2 DEF SettingsInv
<1>8. QED
  BY <1>2, <1>3, <1>4, <1>5, <1>6, <1>7 DEF Next, Done

\* What main takes of the command line is what the first argument of each option says, or the
\* default of an option that was not given, also the title that is printed from a view with a
\* count that wrapped; of folders that are given alone (args_get_string_value,
\* args_get_integer_value, string_find_substring, string_to_u64, file_basename, main).
THEOREM OptionsSettingsAsGiven ==
  ASSUME SettingsNamed, FoldersAlone
  PROVE  Spec => []SettingsAsGiven
<1>1. Init => TableInv /\ GivenInv /\ SettingsInv
  <2> SUFFICES ASSUME Init PROVE SettingsInv
    BY InitTable
  <2>1. settings = NoSettings /\ ~Configured
    BY DEF Init, Configured
  <2>2. QED
    BY <2>1 DEF SettingsInv, SettingsAsGiven
<1>2. TableInv /\ GivenInv /\ SettingsInv /\ [Next]_vars => TableInv' /\ GivenInv' /\ SettingsInv'
  BY NextTables, NextSettings
<1>3. SettingsInv => SettingsAsGiven
  BY DEF SettingsInv
<1>4. QED
  BY <1>1, <1>2, <1>3, PTL DEF Spec

-----------------------------------------------------------------------------
(* Words in a line, and the numbers behind them.                           *)

\* The number that a view starts with, also a view that reaches behind its object.
LEMMA DigitsOf ==
  ASSUME NEW string, string.count \in Nat, NEW n \in 0 .. string.count,
         \A i \in 0 .. n - 1 : IsDigit(At(string, i)),
         n < string.count => ~IsDigit(At(string, n)),
         ~(string.count > 0 /\ At(string, 0) = "-"),
         NEW digits, digits = [i \in 1 .. n |-> At(string, i - 1)]
  PROVE  string_to_u64(string) = Number(digits)
<1>1. PICK count : count = string.count
  OBVIOUS
<1>2. count \in Nat /\ n \in 0 .. count
  BY <1>1
<1>3. PICK S : S = {k \in 0 .. count : 0 + k >= count \/ ~IsDigit(At(string, 0 + k))}
  OBVIOUS
<1>4. n \in S /\ S \subseteq Nat
  <2>1. 0 + n = n
    BY <1>2
  <2>2. QED
    BY <1>1, <1>2, <1>3, <2>1
<1>5. Min(S) \in S /\ \A k \in S : Min(S) <= k
  <2>1. \E k \in S : \A j \in S : k <= j
    BY <1>4, LeastNumber
  <2>2. QED
    BY <2>1, Zenon DEF Min
<1>6. ASSUME NEW k \in S PROVE n <= k
  <2> SUFFICES ASSUME k < n PROVE FALSE
    BY <1>2, <1>4
  <2>1. k \in 0 .. n - 1 /\ 0 + k = k /\ ~(k >= count)
    BY <1>2, <1>4
  <2>2. QED
    BY <1>3, <2>1
<1>7. Min(S) = n
  <2>1. PICK low : low = Min(S)
    OBVIOUS
  <2>2. low \in Nat /\ n <= low /\ low <= n
    BY <1>4, <1>5, <1>6, <2>1
  <2>3. QED
    BY <1>2, <2>1, <2>2
<1>8. string_to_u64(string) = Number([i \in 1 .. n |-> At(string, 0 + i - 1)])
  <2> DEFINE stops(at, last) == {k \in 0 .. last : at + k >= last \/ ~IsDigit(At(string, at + k))}
             read(at, l) == Number([i \in 1 .. l |-> At(string, at + i - 1)])
  <2>1. string_to_u64(string) =
          LET at == IF string.count > 0 /\ At(string, 0) = "-" THEN 1 ELSE 0
              l == Min(stops(at, string.count))
          IN  read(at, l)
    BY DEF string_to_u64
  <2>2. stops(0, count) = S
    BY <1>3
  <2> HIDE DEF stops, read
  <2>3. string_to_u64(string) = read(0, Min(stops(0, count)))
    BY <1>1, <2>1
  <2>4. string_to_u64(string) = read(0, n)
    BY <1>7, <2>2, <2>3
  <2>5. QED
    BY <2>4 DEF read
<1>9. [i \in 1 .. n |-> At(string, 0 + i - 1)] = digits
  <2>1. \A i \in 1 .. n : 0 + i - 1 = i - 1
    BY <1>2
  <2>2. QED
    BY <2>1
<1>10. QED
  BY <1>8, <1>9

\* The digits that a text starts with.
LEMMA LeadingIs ==
  ASSUME NEW c, IsText(c), NEW d, d = Leading(c), NEW n, n = Len(d)
  PROVE  /\ n \in 0 .. Len(c) /\ d = [i \in 1 .. n |-> c[i]]
         /\ \A i \in 1 .. n : IsDigit(c[i])
         /\ n < Len(c) => ~IsDigit(c[n + 1])
<1>1. Len(c) \in Nat
  BY TextFacts
<1>2. PICK P : P = {k \in 0 .. Len(c) : \A i \in 1 .. k : IsDigit(c[i])}
  OBVIOUS
<1>3. PICK m : m = Max(P)
  OBVIOUS
<1>4. m \in P /\ \A k \in P : m >= k
  <2>1. PICK B : B = {x \in Nat : \E k \in P : x = Len(c) - k}
    OBVIOUS
  <2>2. Len(c) \in B /\ B \subseteq Nat
    <3>1. 0 \in P
      BY <1>1, <1>2
    <3>2. Len(c) = Len(c) - 0
      BY <1>1
    <3>3. QED
      BY <1>1, <2>1, <3>1, <3>2
  <2>3. PICK x \in B : \A y \in B : x <= y
    BY <2>2, LeastNumber
  <2>4. PICK k \in P : x = Len(c) - k
    BY <2>1, <2>3
  <2>5. \A j \in P : k >= j
    <3> TAKE j \in P
    <3>1. j \in 0 .. Len(c) /\ k \in 0 .. Len(c)
      BY <1>2
    <3>2. Len(c) - j \in B
      BY <1>1, <2>1, <3>1
    <3>3. Len(c) - k <= Len(c) - j
      BY <2>3, <2>4, <3>2
    <3>4. QED
      BY <1>1, <3>1, <3>3
  <2>6. \E k2 \in P : \A j \in P : k2 >= j
    BY <2>5
  <2>7. QED
    BY <1>3, <2>6, Zenon DEF Max
<1>5. m \in 0 .. Len(c) /\ \A i \in 1 .. m : IsDigit(c[i])
  BY <1>2, <1>4
<1>6. ASSUME m < Len(c), IsDigit(c[m + 1]) PROVE FALSE
  <2>1. PICK k : k = m + 1
    OBVIOUS
  <2>2. k \in 0 .. Len(c) /\ ~(m >= k)
    BY <1>1, <1>5, <1>6, <2>1
  <2>3. \A i \in 1 .. k : IsDigit(c[i])
    <3> TAKE i \in 1 .. k
    <3>1. i = k \/ i \in 1 .. m
      BY <1>5, <2>1
    <3>2. QED
      BY <1>5, <1>6, <2>1, <3>1
  <2>4. QED
    BY <1>2, <1>4, <2>2, <2>3
<1>7. d = SubSeq(c, 0 + 1, m)
  BY <1>2, <1>3 DEF Leading
<1>8. IsText(d) /\ Len(d) = m - 0 /\ \A i \in 1 .. m - 0 : d[i] = c[0 + i]
  <2>1. 0 \in 0 .. Len(c) /\ m \in 0 .. Len(c)
    BY <1>1, <1>5
  <2>2. QED
    BY <1>7, <2>1, TextPart
<1>9. n = m
  BY <1>5, <1>8
<1>10. d = [i \in 1 .. n |-> d[i]]
  BY <1>8, TextFacts
<1>11. \A i \in 1 .. n : d[i] = c[i]
  <2> TAKE i \in 1 .. n
  <2>1. i \in 1 .. m - 0 /\ 0 + i = i
    BY <1>5, <1>9
  <2>2. QED
    BY <1>8, <2>1
<1>12. QED
  BY <1>5, <1>6, <1>9, <1>10, <1>11

LEMMA NotDigits == ~IsDigit("NUL") /\ ~IsDigit("NL") /\ ~IsDigit("-")
<1>1. PICK d : d = Digits
  OBVIOUS
<1>2. Len(d) = 10 /\ \A i \in 1 .. 10 : d[i] # "NUL" /\ d[i] # "NL" /\ d[i] # "-"
  BY <1>1 DEF Digits
<1>3. QED
  BY <1>1, <1>2 DEF IsDigit, Contains

\* What follows a word in a text.
LEMMA BehindIs ==
  ASSUME NEW c, IsText(c), NEW word, IsText(word), word # <<>>, Occurs(word, c),
         NEW at, at = Min(WordPlaces(word, c)) - 1 + Len(word), NEW rest, rest = Behind(word, c)
  PROVE  /\ at \in Len(word) .. Len(c) /\ IsText(rest) /\ Len(rest) = Len(c) - at
         /\ rest = SubSeq(c, at + 1, Len(c))
         /\ \A i \in 1 .. Len(c) - at : rest[i] = c[at + i]
<1>1. Len(c) \in Nat /\ Len(word) \in Nat
  BY TextFacts
<1>2. PICK places, l, low : places = WordPlaces(word, c) /\ l = Len(word) /\ low = Min(places)
  OBVIOUS
<1>3. places # {} /\ places \subseteq 1 .. Len(c) - l + 1
  <2>1. places # {}
    BY <1>2, Zenon DEF WordPlaces, Occurs
  <2>2. places \subseteq 1 .. Len(c) - l + 1
    BY <1>2 DEF WordPlaces
  <2>3. QED
    BY <2>1, <2>2
<1>4. low \in places
  <2>1. places \subseteq Nat
    BY <1>3
  <2>2. \E i \in places : \A k \in places : i <= k
    BY <1>3, <2>1, LeastNumber
  <2>3. QED
    BY <1>2, <2>2, Zenon DEF Min
<1>5. low \in 1 .. Len(c) - l + 1 /\ l \in Nat
  BY <1>1, <1>2, <1>3, <1>4
<1>6. at = low - 1 + l
  BY <1>2
<1>7. at \in l .. Len(c) /\ low + l = at + 1
  BY <1>1, <1>5, <1>6
<1>8. rest = SubSeq(c, low + l, Len(c))
  BY <1>2, Zenon DEF Behind, WordPlaces
<1>9. rest = SubSeq(c, at + 1, Len(c))
  BY <1>7, <1>8
<1>10. at \in 0 .. Len(c) /\ Len(c) \in at .. Len(c)
  BY <1>1, <1>5, <1>7
<1>11. IsText(rest) /\ Len(rest) = Len(c) - at /\ \A i \in 1 .. Len(c) - at : rest[i] = c[at + i]
  BY <1>9, <1>10, TextPart
<1>12. QED
  BY <1>2, <1>7, <1>9, <1>11

\* The number behind a word, from a view that begins there and is long enough for the digits.
LEMMA NumberBehind ==
  ASSUME NEW line, NEW c, Views(line, c), NEW word, IsText(word), word # <<>>, Occurs(word, c), NEW number, Says(c, word, number),
         line.v + Len(c) = Len(line.text) \/ c[Len(c)] = "NL",
         NEW at, at = Min(WordPlaces(word, c)) - 1 + Len(word), NEW rest, rest = Behind(word, c),
         NEW sub, sub.text = line.text, sub.v = line.v + at, sub.count \in Nat, sub.count >= Len(Leading(rest))
  PROVE  string_to_u64(sub) = number
<1>1. IsText(c) /\ Len(c) \in Nat /\ line.v \in Nat /\ line.v + Len(c) <= Len(line.text) /\ Len(line.text) \in Nat
  BY TextFacts DEF Views
<1>2. Len(word) \in Nat
  BY TextFacts
<1>3. /\ at \in Len(word) .. Len(c) /\ IsText(rest) /\ Len(rest) = Len(c) - at
      /\ \A i \in 1 .. Len(c) - at : rest[i] = c[at + i]
  BY <1>1, BehindIs
<1>4. rest # <<>> /\ IsDigit(rest[1]) /\ Number(Leading(rest)) = number
  BY Zenon DEF Says
<1>5. PICK d, m, n, r, v, k : d = Leading(rest) /\ m = Len(d) /\ n = Len(c) /\ r = Len(rest) /\ v = line.v /\ k = sub.count
  OBVIOUS
<1>6. /\ m \in 0 .. r /\ d = [i \in 1 .. m |-> rest[i]]
      /\ \A i \in 1 .. m : IsDigit(rest[i])
      /\ m < r => ~IsDigit(rest[m + 1])
  <2>1. IsText(rest) /\ d = Leading(rest) /\ m = Len(d)
    BY <1>3, <1>5
  <2>2. /\ m \in 0 .. Len(rest) /\ d = [i \in 1 .. m |-> rest[i]]
        /\ \A i \in 1 .. m : IsDigit(rest[i])
        /\ m < Len(rest) => ~IsDigit(rest[m + 1])
    BY <2>1, LeadingIs
  <2>3. r = Len(rest)
    BY <1>5
  <2>4. QED
    BY <2>2, <2>3
<1>7. /\ at \in Nat /\ n \in Nat /\ v \in Nat /\ k \in Nat /\ k >= m
      /\ r = n - at /\ r \in Nat
      /\ v + n <= Len(line.text) /\ Len(line.text) \in Nat
      /\ v + n = Len(line.text) \/ c[n] = "NL"
      /\ \A i \in 1 .. r : rest[i] = c[at + i]
      /\ sub.text = line.text /\ sub.v = v + at
  BY <1>1, <1>2, <1>3, <1>5
<1>8. r # 0
  <2>1. Len(rest) # 0
    BY <1>3, <1>4, TextFacts
  <2>2. QED
    BY <1>5, <2>1
<1>9. \A i \in 1 .. n : line.text[v + i] = c[i]
  BY <1>5 DEF Views
<1>10. \A i \in 0 .. r - 1 : At(sub, i) = rest[i + 1]
  <2> TAKE i \in 0 .. r - 1
  <2>1. PICK j : j = at + (i + 1)
    OBVIOUS
  <2>2. j \in 1 .. n /\ i + 1 \in 1 .. r /\ v + at + i < Len(line.text) /\ v + at + i + 1 = v + j
    <3>1. PICK e : e = Len(line.text)
      OBVIOUS
    <3>2. e \in Nat /\ v + n <= e /\ at \in Nat /\ n \in Nat /\ v \in Nat /\ r \in Nat /\ r = n - at
      BY <1>7, <3>1
    <3>a. i \in Nat /\ i + 1 <= r /\ i < r /\ r \in Int
      BY <3>2
    <3>b. i + 1 \in 1 .. r
      BY <3>a
    <3>c. j \in Nat /\ j >= 1 /\ j <= n
      BY <2>1, <3>2, <3>a
    <3>d. v + at + i + 1 = v + j
      BY <2>1, <3>2, <3>a
    <3>e. v + at + i < e
      BY <2>1, <3>2, <3>a
    <3>3. j \in 1 .. n /\ i + 1 \in 1 .. r /\ v + at + i < e /\ v + at + i + 1 = v + j
      BY <3>2, <3>b, <3>c, <3>d, <3>e
    <3>4. QED
      BY <3>1, <3>3
  <2>3. At(sub, i) = line.text[v + at + i + 1]
    BY <1>7, <2>2 DEF At
  <2>4. rest[i + 1] = c[j]
    BY <1>7, <2>1, <2>2
  <2>5. line.text[v + j] = c[j]
    BY <1>9, <2>2
  <2>6. QED
    BY <2>2, <2>3, <2>4, <2>5
<1>11. ASSUME m = r PROVE ~IsDigit(At(sub, m))
  <2>1. r \in 1 .. m /\ r \in 1 .. r /\ at + r = n
    BY <1>6, <1>7, <1>8, <1>11
  <2>2. IsDigit(rest[r]) /\ rest[r] = c[n]
    BY <1>6, <1>7, <2>1
  <2>3. c[n] # "NL"
    BY <2>2, NotDigits
  <2>4. ~(v + at + m < Len(line.text))
    <3>1. PICK e : e = Len(line.text)
      OBVIOUS
    <3>2. e \in Nat /\ v + n = e /\ at \in Nat /\ n \in Nat /\ v \in Nat /\ r \in Nat
      BY <1>7, <2>3, <3>1
    <3>3. v + at + m = e
      BY <1>11, <2>1, <3>2
    <3>4. QED
      BY <3>1, <3>2, <3>3
  <2>5. At(sub, m) = "NUL"
    BY <1>7, <2>4 DEF At
  <2>6. QED
    BY <2>5, NotDigits
<1>12. ASSUME m < r PROVE ~IsDigit(At(sub, m))
  <2>1. m \in 0 .. r - 1
    BY <1>6, <1>7, <1>12
  <2>2. QED
    BY <1>6, <1>10, <1>12, <2>1
<1>13. \A i \in 0 .. m - 1 : IsDigit(At(sub, i))
  <2> TAKE i \in 0 .. m - 1
  <2>1. i \in 0 .. r - 1 /\ i + 1 \in 1 .. m
    BY <1>6, <1>7
  <2>2. QED
    BY <1>6, <1>10, <2>1
<1>14. At(sub, 0) # "-"
  <2>1. 0 \in 0 .. r - 1 /\ 0 + 1 = 1
    BY <1>7, <1>8
  <2>2. At(sub, 0) = rest[1]
    BY <1>10, <2>1
  <2>3. QED
    BY <1>4, <2>2, NotDigits
<1>15. d = [i \in 1 .. m |-> At(sub, i - 1)]
  <2>1. ASSUME NEW i \in 1 .. m PROVE At(sub, i - 1) = rest[i]
    <3>1. PICK j : j = i - 1
      OBVIOUS
    <3>2. j \in 0 .. r - 1 /\ j + 1 = i
      BY <1>6, <1>7, <3>1
    <3>3. QED
      BY <1>10, <3>1, <3>2
  <2>2. QED
    BY <1>6, <2>1
<1>16. string_to_u64(sub) = Number(d)
  <2>1. m \in 0 .. sub.count /\ sub.count \in Nat
    BY <1>5, <1>6, <1>7
  <2>2. ~IsDigit(At(sub, m))
    BY <1>6, <1>7, <1>11, <1>12
  <2>3. QED
    BY <1>13, <1>14, <1>15, <2>1, <2>2, DigitsOf
<1>17. QED
  BY <1>4, <1>5, <1>16

\* What load_kron reads of a line: the number behind the word, or what was read before.
LEMMA ReadIs ==
  ASSUME NEW line, NEW c, Views(line, c), NEW word, IsText(word), word # <<>>, ~Strays(line, String(word)),
         NEW number, Says(c, word, number),
         line.v + Len(c) = Len(line.text) \/ c[Len(c)] = "NL",
         NEW stop, stop = line.count \/ (stop = Word(line.count - Len(word)) /\ Uncut(c, word)), NEW before
  PROVE  Read(line, word, stop, before) = IF Occurs(word, c) THEN number ELSE before
<1>1. IsText(c) /\ Len(c) \in Nat /\ Len(c) < W /\ W \in Nat \ {0} /\ line.v \in Nat /\ line.count = Len(c)
  BY TextFacts, WidthAssumption DEF Views
<1>2. Len(word) \in Nat /\ Len(word) < W
  BY TextFacts
<1>3. PICK places, found : places = WordPlaces(word, c) /\ found = string_find_substring(line, 0, String(word))
  OBVIOUS
<1>4. /\ ~Occurs(word, c) => found = Len(c)
      /\ Occurs(word, c) => found # Len(c) /\ found = Min(places) - 1
  BY <1>3, WordFound
<1>5. Read(line, word, stop, before) =
        IF found = line.count THEN before ELSE string_to_u64(string_substring(line, found + Len(word), stop))
  BY <1>3, Zenon DEF Read
<1>6. CASE ~Occurs(word, c)
  BY <1>1, <1>4, <1>5, <1>6
<1>7. CASE Occurs(word, c)
  <2>1. PICK at, rest : at = Min(places) - 1 + Len(word) /\ rest = Behind(word, c)
    OBVIOUS
  <2>2. at \in Len(word) .. Len(c) /\ IsText(rest) /\ Len(rest) = Len(c) - at
    BY <1>1, <1>3, <1>7, <2>1, BehindIs
  <2>3. PICK sub : sub = string_substring(line, at, stop)
    OBVIOUS
  <2>4. Read(line, word, stop, before) = string_to_u64(sub)
    BY <1>1, <1>4, <1>5, <1>7, <2>1, <2>3
  <2>5. PICK n, l, r, m : n = Len(c) /\ l = Len(word) /\ r = Len(rest) /\ m = Len(Leading(rest))
    OBVIOUS
  <2>6. n \in Nat /\ n < W /\ l \in Nat /\ l < W /\ at \in l .. n /\ r = n - at /\ r \in 0 .. n /\ line.count = n
    BY <1>1, <1>2, <2>2, <2>5
  <2>7. m \in 0 .. r
    BY <2>2, <2>5, LeadingIs
  <2>8. PICK end : end = IF stop = line.count THEN n ELSE n - l
    OBVIOUS
  <2>9. stop = end /\ end \in 0 .. n /\ (end = n \/ (end = n - l /\ (r < l \/ r - l >= m)))
    <3>1. CASE stop = line.count
      BY <2>6, <2>8, <3>1
    <3>2. CASE stop # line.count
      <4>1. stop = Word(n - l) /\ Uncut(c, word)
        BY <2>5, <2>6, <3>2
      <4>2. n - l \in 0 .. W - 1 /\ n - l \in Int
        BY <1>1, <2>6
      <4>3. stop = n - l
        BY <1>1, <4>1, <4>2, WordIs
      <4>4. r < l \/ r - l >= m
        BY <1>7, <2>1, <2>5, <4>1, Zenon DEF Uncut
      <4>5. QED
        BY <2>6, <2>8, <3>2, <4>2, <4>3, <4>4
    <3>3. QED
      BY <3>1, <3>2
  <2>10. Atmost(at, n) = at /\ Atmost(end, n) = end
    BY <2>6, <2>9 DEF Atmost
  <2>11. PICK k : k = Word(end - at)
    OBVIOUS
  <2>12. k \in Nat /\ k >= m
    <3>1. end - at \in Int /\ end - at < W
      BY <1>1, <2>6, <2>9
    <3>2. CASE end - at >= 0
      <4>1. end - at \in 0 .. W - 1
        BY <1>1, <3>1, <3>2
      <4>2. k = end - at
        BY <1>1, <2>11, <3>1, <4>1, WordIs
      <4>3. QED
        BY <2>6, <2>7, <2>9, <3>2, <4>2
    <3>3. CASE end - at < 0
      <4>1. end - at + W >= 0
        BY <1>1, <2>6, <2>9
      <4>2. k = end - at + W
        BY <1>1, <2>11, <3>1, <3>3, <4>1, WordIs
      <4>3. end = n - l
        BY <2>6, <2>9, <3>3
      <4>4. QED
        BY <1>1, <2>6, <2>7, <4>1, <4>2, <4>3
    <3>4. QED
      BY <3>1, <3>2, <3>3
  <2>13. sub.text = line.text /\ sub.v = line.v + at /\ sub.count = k
    <3>1. string_substring(line, at, end) = [line EXCEPT !.v = @ + at, !.count = k]
      BY <2>6, <2>10, <2>11 DEF string_substring
    <3>2. line = [text |-> line.text, v |-> line.v, count |-> line.count]
      BY DEF Views
    <3>3. sub = [text |-> line.text, v |-> line.v + at, count |-> k]
      BY <2>3, <2>9, <3>1, <3>2
    <3>4. QED
      BY <3>3
  <2>14. sub.count \in Nat /\ sub.count >= Len(Leading(rest))
    BY <2>5, <2>12, <2>13
  <2>15. string_to_u64(sub) = number
    BY <1>3, <1>7, <2>1, <2>13, <2>14, NumberBehind
  <2>16. QED
    BY <1>7, <2>4, <2>15
<1>8. QED
  BY <1>6, <1>7

\* The number behind a mark in a name that ends where its view is cut off, before a dot.
LEMMA MarkedIs ==
  ASSUME NEW name, NEW c, Views(name, c), NEW ch, Occurs(<<ch>>, c), NEW number, Says(c, <<ch>>, number)
  PROVE  Marked(name, <<ch>>) = number
<1>1. IsText(c) /\ Len(c) \in Nat /\ Len(c) < W /\ W \in Nat \ {0} /\ name.count = Len(c)
  BY TextFacts, WidthAssumption DEF Views
<1>2. PICK word : word = <<ch>>
  OBVIOUS
<1>3. word # <<>> /\ Len(word) = 1 /\ word \in Seq({word[i] : i \in DOMAIN word})
  BY <1>2
<1>4. PICK places, found, at, rest : /\ places = WordPlaces(word, c) /\ found = string_find_substring(name, 0, String(word))
                                     /\ at = Min(places) - 1 + Len(word) /\ rest = Behind(word, c)
  OBVIOUS
<1>5. Occurs(word, c) /\ Says(c, word, number)
  BY <1>2
<1>6. Len(c) # 0
  <2> SUFFICES ASSUME Len(c) = 0 PROVE FALSE
    OBVIOUS
  <2>1. 1 .. Len(c) - Len(word) + 1 = {}
    BY <1>3
  <2>2. QED
    BY <1>5, <2>1, Zenon DEF Occurs
<1>7. IsText(word)
  <2>1. Len(word) < W
    BY <1>1, <1>3, <1>6
  <2>2. QED
    BY <1>3, <2>1 DEF IsText
<1>8. ~Strays(name, String(word))
  <2>1. String(word).count = 1
    BY <1>3 DEF String
  <2>2. Word(Len(c)) = Len(c)
    <3>1. Len(c) \in 0 .. W - 1 /\ Len(c) \in Int
      BY <1>1
    <3>2. QED
      BY <1>1, <3>1, WordIs
  <2>3. Len(c) - 1 + 1 = Len(c)
    BY <1>1
  <2>4. Comparisons(name, String(word)) = Len(c)
    BY <1>1, <2>1, <2>2, <2>3 DEF Comparisons
  <2>5. QED
    BY <1>1, <2>4 DEF Strays
<1>9. found = Min(places) - 1
  BY <1>3, <1>4, <1>5, <1>7, <1>8, WordFound
<1>10. at \in Len(word) .. Len(c) /\ IsText(rest) /\ Len(rest) = Len(c) - at /\ rest = SubSeq(c, at + 1, Len(c))
  <2>1. at = Min(WordPlaces(word, c)) - 1 + Len(word)
    BY <1>4
  <2>2. rest = Behind(word, c)
    BY <1>4
  <2>3. IsText(c) /\ IsText(word) /\ word # <<>> /\ Occurs(word, c)
    BY <1>1, <1>3, <1>5, <1>7
  <2>4. QED
    BY <2>1, <2>2, <2>3, BehindIs
<1>11. rest # <<>> /\ IsDigit(rest[1]) /\ Number(Leading(rest)) = number
  BY <1>4, <1>5, Zenon DEF Says
<1>12. PICK sub : sub = string_substring(name, at, Len(c))
  OBVIOUS
<1>13. at \in 0 .. Len(c) /\ Len(c) \in at .. Len(c)
  BY <1>1, <1>3, <1>10
<1>14. Views(sub, rest)
  BY <1>10, <1>12, <1>13, ViewPart
<1>15. at = found + 1
  BY <1>3, <1>4, <1>9
<1>16. Marked(name, word) = string_to_u64(sub)
  BY <1>1, <1>4, <1>12, <1>15 DEF Marked
<1>17. PICK d, m, r : d = Leading(rest) /\ m = Len(d) /\ r = Len(rest)
  OBVIOUS
<1>18. r \in Nat /\ r # 0 /\ sub.count = r
  <2>1. Len(rest) \in Nat /\ Len(rest) # 0
    BY <1>10, <1>11, TextFacts
  <2>2. sub.count = Len(rest)
    BY <1>14 DEF Views
  <2>3. QED
    BY <1>17, <2>1, <2>2
<1>19. /\ m \in 0 .. r /\ d = [i \in 1 .. m |-> rest[i]]
       /\ \A i \in 1 .. m : IsDigit(rest[i])
       /\ m < r => ~IsDigit(rest[m + 1])
  <2>1. IsText(rest) /\ d = Leading(rest) /\ m = Len(d)
    BY <1>10, <1>17
  <2>2. /\ m \in 0 .. Len(rest) /\ d = [i \in 1 .. m |-> rest[i]]
        /\ \A i \in 1 .. m : IsDigit(rest[i])
        /\ m < Len(rest) => ~IsDigit(rest[m + 1])
    BY <2>1, LeadingIs
  <2>3. r = Len(rest)
    BY <1>17
  <2>4. QED
    BY <2>2, <2>3
<1>20. \A i \in 0 .. r - 1 : At(sub, i) = rest[i + 1]
  BY <1>14, <1>17, ViewAt
<1>21. \A i \in 0 .. m - 1 : IsDigit(At(sub, i))
  <2> TAKE i \in 0 .. m - 1
  <2>1. i \in 0 .. r - 1 /\ i + 1 \in 1 .. m
    BY <1>18, <1>19
  <2>2. QED
    BY <1>19, <1>20, <2>1
<1>22. m < sub.count => ~IsDigit(At(sub, m))
  <2> SUFFICES ASSUME m < r PROVE ~IsDigit(At(sub, m))
    BY <1>18
  <2>1. m \in 0 .. r - 1
    BY <1>18, <1>19
  <2>2. QED
    BY <1>19, <1>20, <2>1
<1>23. At(sub, 0) # "-"
  <2>1. 0 \in 0 .. r - 1 /\ 0 + 1 = 1
    BY <1>18
  <2>2. At(sub, 0) = rest[1]
    BY <1>20, <2>1
  <2>3. QED
    BY <1>11, <2>2, NotDigits
<1>24. d = [i \in 1 .. m |-> At(sub, i - 1)]
  <2>1. ASSUME NEW i \in 1 .. m PROVE At(sub, i - 1) = rest[i]
    <3>1. PICK j : j = i - 1
      OBVIOUS
    <3>2. j \in 0 .. r - 1 /\ j + 1 = i
      BY <1>18, <1>19, <3>1
    <3>3. QED
      BY <1>20, <3>1, <3>2
  <2>2. QED
    BY <1>19, <2>1
<1>25. string_to_u64(sub) = Number(d)
  <2>1. m \in 0 .. sub.count /\ sub.count \in Nat
    BY <1>18, <1>19
  <2>2. QED
    BY <1>21, <1>22, <1>23, <1>24, <2>1, DigitsOf
<1>26. QED
  BY <1>2, <1>11, <1>16, <1>17, <1>25

\* The path of a file in a folder.
PathOf(full, folder, name) ==
  /\ IsText(full) /\ Len(full) = Len(folder) + 1 + Len(name)
  /\ \A i \in 1 .. Len(folder) : full[i] = folder[i]
  /\ full[Len(folder) + 1] = "/"
  /\ \A i \in 1 .. Len(name) : full[Len(folder) + 1 + i] = name[i]

LEMMA JoinedIs ==
  ASSUME NEW folder, IsText(folder), NEW name, IsText(name),
         NEW f, f = Len(folder), NEW n, n = Len(name), f + 1 + n < W,
         NEW mark, mark = <<"/">>, NEW half, half = folder \o mark, NEW full, full = half \o name
  PROVE  PathOf(full, folder, name)
<1>1. f \in Nat /\ n \in Nat /\ f + 1 + n < W
  BY TextFacts
<1>3. PICK A, B, C : A = {folder[i] : i \in DOMAIN folder} /\ B = {name[i] : i \in DOMAIN name} /\ C = A \cup B \cup {"/"}
  OBVIOUS
<1>4. folder \in Seq(A) /\ name \in Seq(B)
  BY <1>3 DEF IsText
<1>5. folder \in Seq(C) /\ name \in Seq(C) /\ mark \in Seq(C) /\ Len(mark) = 1 /\ mark[1] = "/"
  BY <1>3, <1>4
<1>7. half \in Seq(C) /\ Len(half) = f + 1 /\ (\A i \in 1 .. f : half[i] = folder[i]) /\ half[f + 1] = "/"
  <2>1. /\ half \in Seq(C) /\ Len(half) = Len(folder) + Len(mark)
        /\ \A i \in 1 .. Len(folder) + Len(mark) : half[i] = IF i <= Len(folder) THEN folder[i] ELSE mark[i - Len(folder)]
    BY <1>5, ConcatProperties
  <2>2. /\ half \in Seq(C) /\ Len(half) = f + 1
        /\ \A i \in 1 .. f + 1 : half[i] = IF i <= f THEN folder[i] ELSE mark[i - f]
    BY <1>5, <2>1
  <2>3. \A i \in 1 .. f : i \in 1 .. f + 1 /\ i <= f
    BY <1>1
  <2>4. f + 1 \in 1 .. f + 1 /\ ~(f + 1 <= f) /\ f + 1 - f = 1
    BY <1>1
  <2>5. half[f + 1] = mark[1]
    BY <2>2, <2>4
  <2>6. \A i \in 1 .. f : half[i] = folder[i]
    BY <2>2, <2>3
  <2>7. QED
    BY <1>5, <2>2, <2>5, <2>6
<1>9. /\ full \in Seq(C) /\ Len(full) = f + 1 + n
      /\ \A i \in 1 .. f + 1 + n : full[i] = IF i <= f + 1 THEN half[i] ELSE name[i - (f + 1)]
  <2>1. /\ full \in Seq(C) /\ Len(full) = Len(half) + Len(name)
        /\ \A i \in 1 .. Len(half) + Len(name) : full[i] = IF i <= Len(half) THEN half[i] ELSE name[i - Len(half)]
    BY <1>5, <1>7, ConcatProperties
  <2>2. Len(half) = f + 1
    BY <1>7
  <2>3. QED
    BY <2>1, <2>2
<1>10. \A i \in 1 .. f + 1 : full[i] = half[i]
  <2>1. \A i \in 1 .. f + 1 : i \in 1 .. f + 1 + n /\ i <= f + 1
    BY <1>1
  <2>2. QED
    BY <1>9, <2>1
<1>11. \A i \in 1 .. n : full[f + 1 + i] = name[i]
  <2> TAKE i \in 1 .. n
  <2>1. PICK j : j = f + 1 + i
    OBVIOUS
  <2>2. j \in 1 .. f + 1 + n /\ ~(j <= f + 1) /\ j - (f + 1) = i
    BY <1>1, <2>1
  <2>3. full[j] = name[j - (f + 1)]
    BY <1>9, <2>2
  <2>4. QED
    BY <2>1, <2>2, <2>3
<1>12. IsText(full)
  <2>1. full \in Seq({full[i] : i \in DOMAIN full})
    <3>1. full = [i \in 1 .. Len(full) |-> full[i]] /\ DOMAIN full = 1 .. Len(full) /\ Len(full) \in Nat
      <4>1. full \in Seq(C)
        BY <1>9
      <4>2. QED
        BY <4>1
    <3>2. PICK D : D = {full[i] : i \in DOMAIN full}
      OBVIOUS
    <3>3. \A i \in 1 .. Len(full) : full[i] \in D
      BY <3>1, <3>2
    <3>4. PICK m : m = Len(full)
      OBVIOUS
    <3>5. m \in Nat /\ full \in [1 .. m -> D]
      BY <3>1, <3>3, <3>4
    <3>7. full \in Seq(D)
      BY <3>5, SeqDef
    <3>6. QED
      BY <3>2, <3>7
  <2>2. Len(full) < W
    BY <1>1, <1>9
  <2>3. QED
    BY <2>1, <2>2 DEF IsText
<1>13. \A i \in 1 .. f + 1 : i \in 1 .. f \/ i = f + 1
  BY <1>1
<1>14. f + 1 \in 1 .. f + 1 /\ \A i \in 1 .. f : i \in 1 .. f + 1
  BY <1>1
<1>15. QED
  <2>1. /\ IsText(full) /\ Len(full) = f + 1 + n
        /\ \A i \in 1 .. f : full[i] = folder[i]
        /\ full[f + 1] = "/"
        /\ \A i \in 1 .. n : full[f + 1 + i] = name[i]
    BY <1>7, <1>9, <1>10, <1>11, <1>12, <1>14
  <2>2. QED
    BY <2>1 DEF PathOf

\* file_basename of a file in a folder without a dot: the part of its name before the first dot.
LEMMA BaseIs ==
  ASSUME NEW folder, IsText(folder), ~Dotted(folder), NEW name, IsText(name), Len(folder) + 1 + Len(name) < W,
         NEW dot \in DOMAIN name, name[dot] = ".",
         NEW base, base = SubSeq(name, 1, dot - 1), ~Dotted(base), ~Contains(base, "/")
  PROVE  Views(file_basename(String(folder \o <<"/">> \o name)), base)
<1>1. PICK f, n, full : f = Len(folder) /\ n = Len(name) /\ full = folder \o <<"/">> \o name
  OBVIOUS
<1>2. f \in Nat /\ n \in Nat /\ dot \in 1 .. n
  BY <1>1, TextFacts
<1>3. /\ IsText(full) /\ Len(full) = f + 1 + n
      /\ \A i \in 1 .. f : full[i] = folder[i]
      /\ full[f + 1] = "/"
      /\ \A i \in 1 .. n : full[f + 1 + i] = name[i]
  <2>1. PICK mark, half : mark = <<"/">> /\ half = folder \o mark
    OBVIOUS
  <2>2. full = half \o name
    BY <1>1, <2>1
  <2>3. f + 1 + n < W
    BY <1>1
  <2>4. PathOf(full, folder, name)
    BY <1>1, <2>1, <2>2, <2>3, JoinedIs
  <2>5. QED
    BY <1>1, <2>4 DEF PathOf
<1>4. IsText(base) /\ Len(base) = dot - 1 /\ \A i \in 1 .. dot - 1 : base[i] = name[i]
  <2>1. PICK to : to = dot - 1
    OBVIOUS
  <2>2. 0 \in 0 .. Len(name) /\ to \in 0 .. Len(name)
    BY <1>1, <1>2, <2>1
  <2>3. base = SubSeq(name, 0 + 1, to)
    BY <2>1
  <2>4. IsText(base) /\ Len(base) = to - 0 /\ \A i \in 1 .. to - 0 : base[i] = name[0 + i]
    BY <2>2, <2>3, TextPart
  <2>5. to - 0 = to /\ \A i \in 1 .. to : 0 + i = i
    BY <1>2, <2>1
  <2>6. QED
    BY <2>1, <2>4, <2>5
<1>5. \A i \in 1 .. f : folder[i] # "."
  BY <1>1 DEF Dotted, Contains
<1>6. \A i \in 1 .. dot - 1 : name[i] # "." /\ name[i] # "/"
  BY <1>4 DEF Dotted, Contains
<1>7. PICK string : string = String(full)
  OBVIOUS
<1>8. Views(string, full)
  BY <1>3, <1>7, ViewsOf
<1>9. string.count = f + 1 + n
  BY <1>3, <1>8 DEF Views
<1>10. \A i \in 0 .. f + n : At(string, i) = full[i + 1]
  <2>1. \A i \in 0 .. Len(full) - 1 : At(string, i) = full[i + 1]
    BY <1>8, ViewAt
  <2>2. Len(full) - 1 = f + n
    BY <1>2, <1>3
  <2>3. QED
    BY <2>1, <2>2
<1>11. PICK mark : mark = f + dot
  OBVIOUS
<1>12. mark \in Nat /\ mark \in 0 .. f + n /\ mark <= f + n /\ f <= mark - 1 /\ mark - 1 \in Int
  BY <1>2, <1>11
<1>13. ASSUME NEW i \in 0 .. mark - 1
       PROVE  At(string, i) # "." /\ (i > f => At(string, i) # "/")
  <2>1. i \in 0 .. f + n /\ i \in Nat
    BY <1>2, <1>12
  <2>2. At(string, i) = full[i + 1]
    BY <1>10, <2>1
  <2>3. CASE i < f
    <3>1. i + 1 \in 1 .. f /\ ~(i > f)
      BY <1>2, <2>1, <2>3
    <3>2. QED
      BY <1>3, <1>5, <2>2, <3>1
  <2>4. CASE i = f
    <3>1. ~(i > f)
      BY <1>2, <2>4
    <3>2. QED
      BY <1>3, <2>2, <2>4, <3>1
  <2>5. CASE i > f
    <3>1. PICK j : j = i - f
      OBVIOUS
    <3>2. j \in 1 .. dot - 1 /\ j \in 1 .. n /\ i + 1 = f + 1 + j
      BY <1>2, <1>11, <2>1, <2>5, <3>1
    <3>3. full[i + 1] = name[j]
      BY <1>3, <3>2
    <3>4. QED
      BY <1>6, <2>2, <3>2, <3>3
  <2>6. i < f \/ i = f \/ i > f
    BY <1>2, <2>1
  <2>7. QED
    BY <2>3, <2>4, <2>5, <2>6
<1>14. At(string, mark) = "."
  <2>1. At(string, mark) = full[mark + 1]
    BY <1>10, <1>12
  <2>2. mark + 1 = f + 1 + dot
    BY <1>2, <1>11
  <2>3. QED
    BY <1>2, <1>3, <2>1, <2>2
<1>15. At(string, f) = "/"
  <2>1. f \in 0 .. f + n
    BY <1>2
  <2>2. QED
    BY <1>3, <1>10, <2>1
<1>16. PICK dots : dots = {i \in 0 .. string.count - 1 : At(string, i) = "."}
  OBVIOUS
<1>17. mark \in dots /\ dots # {} /\ \A i \in dots : mark <= i
  <2>1. string.count - 1 = f + n
    BY <1>2, <1>9
  <2>2. mark \in dots
    BY <1>12, <1>14, <1>16, <2>1
  <2>3. ASSUME NEW i \in dots, i < mark PROVE FALSE
    <3>1. i \in 0 .. mark - 1
      BY <1>12, <1>16, <2>1, <2>3
    <3>2. QED
      BY <1>13, <1>16, <3>1
  <2>4. dots \subseteq Nat
    BY <1>2, <1>16, <2>1
  <2>5. \A i \in dots : mark <= i
    BY <1>12, <2>3, <2>4
  <2>6. QED
    BY <2>2, <2>5
<1>18. Min(dots) = mark
  <2>1. Min(dots) \in dots /\ \A i \in dots : Min(dots) <= i
    BY <1>17, Zenon DEF Min
  <2>2. PICK low : low = Min(dots)
    OBVIOUS
  <2>3. low <= mark /\ mark <= low /\ low \in Int
    BY <1>9, <1>16, <1>17, <2>1, <2>2
  <2>4. QED
    BY <1>12, <2>2, <2>3
<1>19. PICK slashes : slashes = {i \in 0 .. mark - 1 : At(string, i) = "/"}
  OBVIOUS
<1>20. f \in slashes /\ slashes # {} /\ slashes \subseteq Nat /\ \A i \in slashes : f >= i
  <2>1. f \in slashes
    BY <1>2, <1>12, <1>15, <1>19
  <2>2. slashes \subseteq Nat
    BY <1>12, <1>19
  <2>3. ASSUME NEW i \in slashes PROVE ~(i > f)
    BY <1>13, <1>19
  <2>4. QED
    BY <1>2, <2>1, <2>2, <2>3
<1>21. Max(slashes) = f
  <2>1. Max(slashes) \in slashes /\ \A i \in slashes : Max(slashes) >= i
    BY <1>20, Zenon DEF Max
  <2>2. PICK high : high = Max(slashes)
    OBVIOUS
  <2>3. high \in slashes /\ high >= f
    BY <1>20, <2>1, <2>2
  <2>5. f >= high /\ high \in Nat
    BY <1>20, <2>3
  <2>4. QED
    BY <1>2, <2>2, <2>3, <2>5
<1>22. file_basename(string) = string_substring(string, f + 1, mark)
  <2> DEFINE D == {i \in 0 .. string.count - 1 : At(string, i) = "."}
             S(last) == {i \in 0 .. last - 1 : At(string, i) = "/"}
  <2>1. file_basename(string) =
          LET last == IF D = {} THEN string.count ELSE Min(D)
          IN  string_substring(string, IF S(last) = {} THEN 0 ELSE Max(S(last)) + 1, IF D = {} THEN 0 ELSE last)
    BY DEF file_basename
  <2>2. D = dots /\ S(mark) = slashes
    BY <1>16, <1>19
  <2> HIDE DEF D, S
  <2>3. file_basename(string) = string_substring(string, IF S(mark) = {} THEN 0 ELSE Max(S(mark)) + 1, mark)
    BY <1>17, <1>18, <2>1, <2>2
  <2>4. QED
    BY <1>20, <1>21, <2>2, <2>3
<1>23. PICK from : from = f + 1
  OBVIOUS
<1>24. from \in 0 .. Len(full) /\ mark \in from .. Len(full) /\ mark - from = dot - 1
  BY <1>2, <1>3, <1>11, <1>23
<1>25. PICK d : d = SubSeq(full, from + 1, mark)
  OBVIOUS
<1>26. IsText(d) /\ Len(d) = dot - 1 /\ \A i \in 1 .. dot - 1 : d[i] = full[from + i]
  BY <1>3, <1>24, <1>25, TextPart
<1>27. \A i \in 1 .. dot - 1 : d[i] = base[i]
  <2> TAKE i \in 1 .. dot - 1
  <2>1. i \in 1 .. n
    BY <1>2
  <2>2. QED
    BY <1>3, <1>4, <1>23, <1>26, <2>1
<1>28. d = base
  <2>1. d = [i \in 1 .. Len(d) |-> d[i]]
    BY <1>26, TextFacts
  <2>2. base = [i \in 1 .. Len(base) |-> base[i]]
    BY <1>4, TextFacts
  <2>3. QED
    BY <1>4, <1>26, <1>27, <2>1, <2>2
<1>29. Views(string_substring(string, from, mark), d)
  BY <1>8, <1>24, <1>25, ViewPart
<1>30. QED
  BY <1>1, <1>7, <1>22, <1>23, <1>28, <1>29

\* A search that does not stray is for a word that is at most one longer than the string.
LEMMA NotStrayed ==
  ASSUME NEW string, NEW c, Views(string, c), NEW name, IsText(name), name # <<>>, ~Strays(string, String(name))
  PROVE  Len(name) <= Len(c) + 1
<1>1. Len(c) \in Nat /\ Len(c) < W /\ W \in Nat \ {0} /\ string.count = Len(c)
  BY TextFacts, WidthAssumption DEF Views
<1>2. Len(name) \in Nat /\ Len(name) < W /\ Len(name) # 0
  BY TextFacts
<1>3. PICK n, l : n = Len(c) /\ l = Len(name)
  OBVIOUS
<1>4. n \in Nat /\ l \in Nat \ {0} /\ n < W /\ l < W /\ string.count = n /\ String(name).count = l
  BY <1>1, <1>2, <1>3 DEF String
<1>5. PICK K : K = Comparisons(string, String(name))
  OBVIOUS
<1>6. K = Word(n - l + 1) /\ ~(K > n)
  BY <1>4, <1>5 DEF Comparisons, Strays
<1>7. n - l + 1 >= 0
  <2>1. SUFFICES ASSUME n - l + 1 < 0 PROVE FALSE
    BY <1>4
  <2>2. n - l + 1 \in Int /\ n - l + 1 + W >= 0
    BY <1>1, <1>4
  <2>3. K = n - l + 1 + W
    BY <1>1, <1>6, <2>1, <2>2, WordIs
  <2>4. QED
    BY <1>1, <1>4, <1>6, <2>3
<1>8. l <= n + 1
  BY <1>4, <1>7
<1>9. QED
  BY <1>3, <1>8

-----------------------------------------------------------------------------
(* The lines of a stream.                                                  *)

\* The line that starts behind the cursor ends at j, and the next one starts behind next.
NextLine(text, cursor, j, line, next) ==
  /\ j \in cursor + 1 .. Len(text)
  /\ \A i \in cursor + 1 .. j - 1 : text[i] # "NL"
  /\ j = Len(text) \/ text[j] = "NL"
  /\ line = string_substring(String(text), cursor, j)
  /\ next = j \/ (next = j + 1 /\ j = Len(text))

LEMMA NextLineIs ==
  ASSUME NEW text, IsText(text), NEW cursor \in Nat, cursor < Len(text),
         NEW stm, stm.buffer = String(text), stm.cursor = cursor,
         NEW line, line = stream_get_next_line(stm).line, NEW next, next = stream_get_next_line(stm).cursor
  PROVE  \E j \in Nat : NextLine(text, cursor, j, line, next)
<1>1. PICK n, buffer : n = Len(text) /\ buffer = String(text)
  OBVIOUS
<1>2. n \in Nat /\ cursor < n /\ n \in Int /\ cursor \in Int
  BY <1>1, TextFacts
<1>3. Views(buffer, text)
  BY <1>1, ViewsOf
<1>4. buffer.count = n /\ \A i \in 0 .. n - 1 : At(buffer, i) = text[i + 1]
  <2>1. \A i \in 0 .. Len(text) - 1 : At(buffer, i) = text[i + 1]
    BY <1>3, ViewAt
  <2>2. buffer.count = Len(text)
    BY <1>3 DEF Views
  <2>3. QED
    BY <1>1, <2>1, <2>2
<1>5. PICK ends : ends = {i \in cursor .. n - 1 : At(buffer, i) = "NL"}
  OBVIOUS
<1>6. PICK index : index = IF ends = {} THEN n ELSE Min(ends)
  OBVIOUS
<1>7. line = string_substring(buffer, cursor, index + 1) /\ next = index + 1
  <2> DEFINE E == {i \in stm.cursor .. stm.buffer.count - 1 : At(stm.buffer, i) = "NL"}
             at == IF E = {} THEN (IF stm.cursor > stm.buffer.count THEN stm.cursor ELSE stm.buffer.count) ELSE Min(E)
  <2>1. stream_get_next_line(stm) = [line |-> string_substring(stm.buffer, stm.cursor, at + 1), cursor |-> at + 1]
    BY DEF stream_get_next_line
  <2>2. E = ends
    BY <1>1, <1>4, <1>5
  <2> HIDE DEF E
  <2>3. ~(stm.cursor > stm.buffer.count) /\ stm.buffer.count = n
    BY <1>1, <1>2, <1>4
  <2>4. at = index
    BY <1>6, <2>2, <2>3
  <2> HIDE DEF at
  <2>5. QED
    BY <1>1, <2>1, <2>4
<1>8. \A i \in cursor .. n - 1 : i \in ends <=> text[i + 1] = "NL"
  <2>1. \A i \in cursor .. n - 1 : i \in 0 .. n - 1
    BY <1>2
  <2>2. QED
    BY <1>4, <1>5, <2>1
<1>9. CASE ends = {}
  <2>1. \A i \in cursor + 1 .. n - 1 : text[i] # "NL"
    <3> TAKE i \in cursor + 1 .. n - 1
    <3>1. PICK k : k = i - 1
      OBVIOUS
    <3>2. k \in cursor .. n - 1 /\ k + 1 = i
      BY <1>2, <3>1
    <3>3. QED
      BY <1>8, <1>9, <3>2
  <2>2. index = n /\ n \in cursor + 1 .. n
    BY <1>2, <1>6, <1>9
  <2>3. string_substring(buffer, cursor, n + 1) = string_substring(buffer, cursor, n)
    <3>1. Atmost(n + 1, n) = n /\ Atmost(n, n) = n
      BY <1>2 DEF Atmost
    <3>2. QED
      BY <1>4, <3>1 DEF string_substring
  <2>4. NextLine(text, cursor, n, line, next)
    BY <1>1, <1>7, <2>1, <2>2, <2>3 DEF NextLine
  <2>5. QED
    BY <1>2, <2>4
<1>10. CASE ends # {}
  <2>1. ends \subseteq Nat
    BY <1>2, <1>5
  <2>2. index \in ends /\ \A i \in ends : index <= i
    <3>1. \E i \in ends : \A k \in ends : i <= k
      BY <1>10, <2>1, LeastNumber
    <3>2. QED
      BY <1>6, <1>10, <3>1, Zenon DEF Min
  <2>3. index \in cursor .. n - 1 /\ text[index + 1] = "NL"
    BY <1>5, <1>8, <2>2
  <2>4. PICK j : j = index + 1
    OBVIOUS
  <2>5. j \in cursor + 1 .. n /\ j \in Nat
    BY <1>2, <2>3, <2>4
  <2>6. \A i \in cursor + 1 .. j - 1 : text[i] # "NL"
    <3> TAKE i \in cursor + 1 .. j - 1
    <3>1. PICK k : k = i - 1
      OBVIOUS
    <3>2. k \in cursor .. n - 1 /\ k + 1 = i /\ ~(index <= k)
      BY <1>2, <2>3, <2>4, <3>1
    <3>3. QED
      BY <1>8, <2>2, <3>2
  <2>7. NextLine(text, cursor, j, line, next)
    BY <1>1, <1>7, <2>3, <2>4, <2>5, <2>6 DEF NextLine
  <2>8. QED
    BY <2>5, <2>7
<1>11. QED
  BY <1>9, <1>10

\* Behind the last character there is no line.
LEMMA NoLine ==
  ASSUME NEW text, IsText(text), NEW cursor \in Nat, cursor >= Len(text),
         NEW stm, stm.buffer = String(text), stm.cursor = cursor,
         NEW line, line = stream_get_next_line(stm).line, NEW next, next = stream_get_next_line(stm).cursor
  PROVE  ~string_valid(line) /\ next = cursor + 1
<1>1. PICK n, buffer : n = Len(text) /\ buffer = String(text)
  OBVIOUS
<1>2. n \in Nat /\ cursor >= n /\ W \in Nat \ {0}
  BY <1>1, TextFacts, WidthAssumption
<1>3. buffer.count = n
  BY <1>1 DEF String
<1>4. cursor .. n - 1 = {}
  BY <1>2
<1>5. PICK index : index = IF cursor > n THEN cursor ELSE n
  OBVIOUS
<1>6. index = cursor
  BY <1>2, <1>5
<1>7. line = string_substring(buffer, cursor, cursor + 1) /\ next = cursor + 1
  <2> DEFINE E == {i \in stm.cursor .. stm.buffer.count - 1 : At(stm.buffer, i) = "NL"}
             at == IF E = {} THEN (IF stm.cursor > stm.buffer.count THEN stm.cursor ELSE stm.buffer.count) ELSE Min(E)
  <2>1. stream_get_next_line(stm) = [line |-> string_substring(stm.buffer, stm.cursor, at + 1), cursor |-> at + 1]
    BY DEF stream_get_next_line
  <2>2. E = {}
    BY <1>1, <1>3, <1>4
  <2> HIDE DEF E
  <2>3. at = cursor
    BY <1>1, <1>3, <1>5, <1>6, <2>2
  <2> HIDE DEF at
  <2>4. QED
    BY <1>1, <2>1, <2>3
<1>8. line.count = Word(n - n)
  <2>1. Atmost(cursor, n) = n /\ Atmost(cursor + 1, n) = n
    BY <1>2 DEF Atmost
  <2>2. line = [buffer EXCEPT !.v = @ + n, !.count = Word(n - n)]
    BY <1>3, <1>7, <2>1 DEF string_substring
  <2>3. buffer = [text |-> text, v |-> 0, count |-> n]
    BY <1>1 DEF String
  <2>4. QED
    BY <2>2, <2>3
<1>9. line.count = 0
  <2>1. n - n = 0 /\ 0 \in 0 .. W - 1 /\ 0 \in Int
    BY <1>2
  <2>2. Word(0) = 0
    BY <1>2, <2>1, WordIs
  <2>3. QED
    BY <1>8, <2>1, <2>2
<1>10. QED
  BY <1>7, <1>9 DEF string_valid

\* What the next line adds to the lines before the cursor.
LineAdded(text, cursor, next, line, c) ==
  /\ AtLine(text, next) /\ c \in Lines(text)
  /\ LinesRead(text, next) = LinesRead(text, cursor) \cup {c}
  /\ Views(line, c) /\ Len(c) \in Nat /\ Len(c) # 0
  /\ line.v + Len(c) = Len(line.text) \/ c[Len(c)] = "NL"

LEMMA OneMoreLine ==
  ASSUME NEW text, IsText(text), NEW cursor, AtLine(text, cursor), cursor < Len(text),
         NEW j, NEW line, NEW next, NextLine(text, cursor, j, line, next), NEW c, c = SubSeq(text, cursor + 1, j)
  PROVE  LineAdded(text, cursor, next, line, c)
<1>1. PICK n : n = Len(text)
  OBVIOUS
<1>2. n \in Nat /\ DOMAIN text = 1 .. n /\ cursor \in Nat /\ cursor < n
  BY <1>1, TextFacts DEF AtLine
<1>3. /\ j \in cursor + 1 .. n
      /\ \A i \in cursor + 1 .. j - 1 : text[i] # "NL"
      /\ j = n \/ text[j] = "NL"
      /\ line = string_substring(String(text), cursor, j)
      /\ next = j \/ (next = j + 1 /\ j = n)
  BY <1>1, Zenon DEF NextLine
<1>4. j \in Nat /\ j <= n /\ cursor + 1 <= j /\ next \in Nat /\ next >= j
  BY <1>2, <1>3
<1>5. AtLine(text, next)
  <2>1. next >= n \/ text[next] = "NL"
    BY <1>2, <1>3, <1>4
  <2>2. QED
    BY <1>1, <1>4, <2>1 DEF AtLine
<1>6. PICK p : p = <<cursor + 1, j>>
  OBVIOUS
<1>7. p \in LinePlaces(text)
  <2>1. p \in (DOMAIN text) \X (DOMAIN text) /\ p[1] = cursor + 1 /\ p[2] = j /\ p[1] <= p[2]
    BY <1>2, <1>4, <1>6
  <2>2. p[1] = 1 \/ text[p[1] - 1] = "NL"
    <3>1. cursor = 0 \/ text[cursor] = "NL"
      BY <1>1, <1>2 DEF AtLine
    <3>2. p[1] - 1 = cursor /\ (cursor = 0 => p[1] = 1)
      BY <1>2, <2>1
    <3>3. QED
      BY <3>1, <3>2
  <2>3. QED
    BY <1>1, <1>3, <2>1, <2>2 DEF LinePlaces
<1>8. c = SubSeq(text, p[1], p[2])
  BY <1>6
<1>9. ASSUME NEW q \in LinePlaces(text), q[1] <= next, ~(q[1] <= cursor) PROVE q = p
  <2>1. PICK a, b : a = q[1] /\ b = q[2]
    OBVIOUS
  <2>2. q \in (DOMAIN text) \X (DOMAIN text) /\ a <= b /\ (\A i \in a .. b - 1 : text[i] # "NL")
    BY <2>1 DEF LinePlaces
  <2>3. (a = 1 \/ text[a - 1] = "NL") /\ (b = n \/ text[b] = "NL")
    BY <1>1, <2>1 DEF LinePlaces
  <2>4. a \in 1 .. n /\ b \in 1 .. n /\ q = <<a, b>>
    BY <1>2, <2>1, <2>2
  <2>5. a = cursor + 1
    <3> SUFFICES ASSUME a > cursor + 1 PROVE FALSE
      BY <1>2, <1>9, <2>1, <2>4
    <3>1. PICK i : i = a - 1
      OBVIOUS
    <3>2. i \in cursor + 1 .. j - 1
      <4>1. a <= j
        BY <1>3, <1>4, <1>9, <2>1, <2>4
      <4>2. QED
        BY <1>2, <1>4, <2>4, <3>1, <4>1
    <3>3. a # 1
      BY <1>2
    <3>4. QED
      BY <1>3, <2>3, <3>1, <3>2, <3>3
  <2>6. ~(b < j)
    <3> SUFFICES ASSUME b < j PROVE FALSE
      OBVIOUS
    <3>1. b \in cursor + 1 .. j - 1 /\ b # n
      BY <1>4, <2>2, <2>4, <2>5
    <3>2. QED
      BY <1>3, <2>3, <3>1
  <2>7. ~(j < b)
    <3> SUFFICES ASSUME j < b PROVE FALSE
      OBVIOUS
    <3>1. j \in a .. b - 1 /\ j # n
      BY <1>4, <2>4, <2>5
    <3>2. QED
      BY <1>3, <2>2, <3>1
  <2>8. b = j
    BY <1>4, <2>4, <2>6, <2>7
  <2>9. QED
    BY <1>6, <2>4, <2>5, <2>8
<1>10. LinesRead(text, next) = LinesRead(text, cursor) \cup {c}
  <2>1. PICK P, Q : /\ P = {q \in LinePlaces(text) : q[1] <= cursor}
                    /\ Q = {q \in LinePlaces(text) : q[1] <= next}
    OBVIOUS
  <2>2. p \in Q
    <3>1. p[1] = cursor + 1
      BY <1>6
    <3>2. cursor + 1 <= next
      BY <1>2, <1>4
    <3>3. QED
      BY <1>7, <2>1, <3>1, <3>2
  <2>3. ASSUME NEW q \in P PROVE q \in Q
    <3>1. q \in (DOMAIN text) \X (DOMAIN text) /\ q[1] <= cursor /\ q \in LinePlaces(text)
      BY <2>1 DEF LinePlaces
    <3>2. PICK a : a = q[1]
      OBVIOUS
    <3>3. a \in Nat /\ a <= cursor
      BY <1>2, <3>1, <3>2
    <3>4. a <= next
      BY <1>2, <1>4, <3>3
    <3>5. QED
      BY <2>1, <3>1, <3>2, <3>4
  <2>4. ASSUME NEW q \in Q PROVE q \in P \/ q = p
    BY <1>9, <2>1
  <2>5. Q = P \cup {p}
    BY <2>2, <2>3, <2>4
  <2>6. LinesRead(text, cursor) = {SubSeq(text, q[1], q[2]) : q \in P} /\ LinesRead(text, next) = {SubSeq(text, q[1], q[2]) : q \in Q}
    BY <2>1 DEF LinesRead
  <2>7. {SubSeq(text, q[1], q[2]) : q \in P \cup {p}} = {SubSeq(text, q[1], q[2]) : q \in P} \cup {SubSeq(text, p[1], p[2])}
    OBVIOUS
  <2>8. QED
    BY <1>8, <2>5, <2>6, <2>7
<1>11. c \in Lines(text)
  BY <1>7, <1>8 DEF Lines
<1>12. cursor \in 0 .. Len(text) /\ j \in cursor .. Len(text)
  BY <1>1, <1>2, <1>4
<1>13. Views(String(text), text)
  BY ViewsOf
<1>14. Views(line, c)
  BY <1>3, <1>12, <1>13, ViewPart
<1>15. Len(c) = j - cursor /\ \A i \in 1 .. j - cursor : c[i] = text[cursor + i]
  BY <1>12, TextPart
<1>16. line.text = text /\ line.v = cursor
  <2>1. line = [text |-> String(text).text, v |-> String(text).v + cursor, count |-> j - cursor]
    BY <1>3, <1>12, <1>13, PartIs
  <2>2. String(text).text = text /\ String(text).v = 0
    BY DEF String
  <2>3. 0 + cursor = cursor
    BY <1>2
  <2>4. QED
    BY <2>1, <2>2, <2>3
<1>17. Len(c) \in Nat /\ Len(c) # 0
  BY <1>2, <1>4, <1>15
<1>18. line.v + Len(c) = Len(line.text) \/ c[Len(c)] = "NL"
  <2>1. PICK i : i = j - cursor
    OBVIOUS
  <2>2. i \in 1 .. j - cursor /\ cursor + i = j
    BY <1>2, <1>4, <2>1
  <2>3. Len(c) = i /\ c[i] = text[j]
    BY <1>15, <2>1, <2>2
  <2>4. QED
    BY <1>1, <1>3, <1>16, <2>2, <2>3
<1>19. QED
  BY <1>5, <1>10, <1>11, <1>14, <1>17, <1>18 DEF LineAdded

\* Behind the text all its lines have been read.
LEMMA AllLinesRead ==
  ASSUME NEW text, IsText(text), NEW cursor \in Nat, cursor >= Len(text)
  PROVE  LinesRead(text, cursor) = Lines(text)
<1>1. Len(text) \in Nat /\ DOMAIN text = 1 .. Len(text)
  BY TextFacts
<1>2. ASSUME NEW p \in LinePlaces(text) PROVE p[1] <= cursor
  <2>1. p \in (DOMAIN text) \X (DOMAIN text)
    BY DEF LinePlaces
  <2>2. PICK a : a = p[1]
    OBVIOUS
  <2>3. a \in 1 .. Len(text)
    BY <1>1, <2>1, <2>2
  <2>4. QED
    BY <1>1, <2>2, <2>3
<1>3. {q \in LinePlaces(text) : q[1] <= cursor} = LinePlaces(text)
  BY <1>2
<1>4. QED
  BY <1>3 DEF LinesRead, Lines

LEMMA NoLineRead ==
  ASSUME NEW text, IsText(text)
  PROVE  LinesRead(text, 0) = {}
<1>1. DOMAIN text = 1 .. Len(text) /\ Len(text) \in Nat
  BY TextFacts
<1>2. ASSUME NEW p \in LinePlaces(text) PROVE ~(p[1] <= 0)
  <2>1. p \in (DOMAIN text) \X (DOMAIN text)
    BY DEF LinePlaces
  <2>2. PICK a : a = p[1]
    OBVIOUS
  <2>3. a \in 1 .. Len(text)
    BY <1>1, <2>1, <2>2
  <2>4. QED
    BY <1>1, <2>2, <2>3
<1>3. {q \in LinePlaces(text) : q[1] <= 0} = {}
  BY <1>2
<1>4. QED
  BY <1>3 DEF LinesRead

-----------------------------------------------------------------------------
(* The numbers of a file.                                                  *)

\* load_kron takes from the name of a file what it was named after.
LEMMA NamedIs ==
  ASSUME NEW folder, IsText(folder), ~Dotted(folder), NEW file, IsText(file.name), NamedAfter(file),
         Len(folder) + 1 + Len(file.name) < W,
         NEW name, name = file_basename(String(folder \o <<"/">> \o file.name))
  PROVE  Marked(name, <<"k">>) = file.k /\ Marked(name, <<"s">>) = file.s
<1>1. PICK dot \in DOMAIN file.name :
        LET base == SubSeq(file.name, 1, dot - 1)
        IN  /\ file.name[dot] = "." /\ ~Dotted(base) /\ ~Contains(base, "/")
            /\ Occurs(<<"k">>, base) /\ Says(base, <<"k">>, file.k)
            /\ Occurs(<<"s">>, base) /\ Says(base, <<"s">>, file.s)
  BY Zenon DEF NamedAfter
<1>2. PICK base : base = SubSeq(file.name, 1, dot - 1)
  OBVIOUS
<1>3. /\ file.name[dot] = "." /\ ~Dotted(base) /\ ~Contains(base, "/")
      /\ Occurs(<<"k">>, base) /\ Says(base, <<"k">>, file.k)
      /\ Occurs(<<"s">>, base) /\ Says(base, <<"s">>, file.s)
  BY <1>1, <1>2, Zenon
<1>4. PICK fn : fn = file.name
  OBVIOUS
<1>5. IsText(fn) /\ Len(folder) + 1 + Len(fn) < W /\ dot \in DOMAIN fn /\ fn[dot] = "." /\ base = SubSeq(fn, 1, dot - 1)
  BY <1>2, <1>3, <1>4
<1>6. Views(file_basename(String(folder \o <<"/">> \o fn)), base)
  BY <1>3, <1>5, BaseIs, Zenon
<1>7. Views(name, base)
  BY <1>4, <1>6
<1>8. PICK k : k = "k"
  OBVIOUS
<1>9. PICK s : s = "s"
  OBVIOUS
<1>10. Occurs(<<k>>, base) /\ Says(base, <<k>>, file.k)
  BY <1>3, <1>8, Zenon
<1>11. Occurs(<<s>>, base) /\ Says(base, <<s>>, file.s)
  BY <1>3, <1>9, Zenon
<1>12. Marked(name, <<k>>) = file.k
  BY <1>7, <1>10, MarkedIs, Zenon
<1>13. Marked(name, <<s>>) = file.s
  BY <1>7, <1>11, MarkedIs, Zenon
<1>14. QED
  BY <1>8, <1>9, <1>12, <1>13, Zenon

\* A number is known after a line when the line has its word, or when it was known before.
LEMMA KnownThen ==
  ASSUME NEW lines, NEW word, NEW number, NEW c
  PROVE  Known(lines \cup {c}, word, number) = IF Occurs(word, c) THEN number ELSE Known(lines, word, number)
  BY Zenon DEF Known

\* A turn of load_kron's loop.
LEMMA TurnIs ==
  ASSUME FilesAsWritten, NEW file \in Files, NEW folder, NEW read, NEW header, NEW cursor, HeaderOf(read, header, folder, file, cursor),
         cursor < Len(file.text), NEW line, line = stream_get_next_line(header).line,
         NEW next, next = stream_get_next_line(header).cursor,
         ~ \E word \in HeaderTexts : Strays(line, String(word)), NEW now,
         now = [read EXCEPT !.k = Read(line, k_line, Word(line.count - Len(k_line)), @),
                            !.s = Read(line, s_line, line.count, @),
                            !.nnz = Read(line, nnz_line, Word(line.count - Len(nnz_line)), @)]
  PROVE  HeaderOf(now, [header EXCEPT !.cursor = next], folder, file, next)
<1>1. PICK text, lines : text = file.text /\ lines = LinesRead(text, cursor)
  OBVIOUS
<1>2. IsText(text) /\ HeaderSays(file) /\ \A word \in HeaderTexts : IsText(word) /\ word # <<>>
  BY <1>1 DEF FilesAsWritten
<1>3. /\ read = [file |-> file, named |-> read.named, k |-> Known(lines, k_line, file.k),
                 s |-> Known(lines, s_line, file.s), nnz |-> Known(lines, nnz_line, file.nnz)]
      /\ ~Dotted(folder) => read.named = <<file.k, file.s>>
      /\ header = [buffer |-> String(text), cursor |-> cursor]
      /\ AtLine(text, cursor)
      /\ \A c \in lines : Searchable(c)
  BY <1>1, Zenon DEF HeaderOf
<1>4. cursor \in Nat /\ cursor < Len(text)
  BY <1>1, <1>3 DEF AtLine
<1>5. header.buffer = String(text) /\ header.cursor = cursor
  BY <1>3
<1>6. PICK j \in Nat : NextLine(text, cursor, j, line, next)
  BY <1>2, <1>4, <1>5, NextLineIs
<1>7. PICK c : c = SubSeq(text, cursor + 1, j)
  OBVIOUS
<1>8. /\ AtLine(text, next) /\ c \in Lines(text)
      /\ LinesRead(text, next) = LinesRead(text, cursor) \cup {c}
      /\ Views(line, c)
      /\ line.v + Len(c) = Len(line.text) \/ c[Len(c)] = "NL"
  <2>1. LineAdded(text, cursor, next, line, c)
    BY <1>2, <1>3, <1>4, <1>6, <1>7, OneMoreLine
  <2>2. QED
    BY <2>1 DEF LineAdded
<1>9. \A word \in HeaderTexts : ~Strays(line, String(word))
  OBVIOUS
<1>10. Searchable(c)
  <2> SUFFICES ASSUME NEW word \in HeaderTexts PROVE Len(word) <= Len(c) + 1
    BY DEF Searchable
  <2>1. IsText(word) /\ word # <<>> /\ ~Strays(line, String(word))
    BY <1>2, <1>9
  <2>2. QED
    BY <1>8, <2>1, NotStrayed
<1>11. Says(c, k_line, file.k) /\ Says(c, s_line, file.s) /\ Says(c, nnz_line, file.nnz) /\ Uncut(c, k_line) /\ Uncut(c, nnz_line)
  <2>1. PICK all : all = Lines(text)
    OBVIOUS
  <2>2. /\ Stated(all, k_line, file.k) /\ Stated(all, s_line, file.s) /\ Stated(all, nnz_line, file.nnz)
        /\ \A d \in all : Searchable(d) => Uncut(d, k_line) /\ Uncut(d, nnz_line)
    BY <1>1, <1>2, <2>1, Zenon DEF HeaderSays
  <2>3. QED
    BY <1>8, <1>10, <2>1, <2>2, Zenon DEF Stated
<1>12. k_line \in HeaderTexts /\ s_line \in HeaderTexts /\ nnz_line \in HeaderTexts
  BY DEF HeaderTexts
<1>13. PICK a, b, d : /\ a = Read(line, k_line, Word(line.count - Len(k_line)), read.k)
                      /\ b = Read(line, s_line, line.count, read.s)
                      /\ d = Read(line, nnz_line, Word(line.count - Len(nnz_line)), read.nnz)
  OBVIOUS
<1>14. a = IF Occurs(k_line, c) THEN file.k ELSE read.k
  <2>1. PICK stop : stop = Word(line.count - Len(k_line))
    OBVIOUS
  <2>2. Read(line, k_line, stop, read.k) = IF Occurs(k_line, c) THEN file.k ELSE read.k
    <3>1. IsText(k_line) /\ k_line # <<>> /\ ~Strays(line, String(k_line)) /\ Uncut(c, k_line) /\ Says(c, k_line, file.k)
      BY <1>2, <1>9, <1>11, <1>12
    <3>2. stop = line.count \/ (stop = Word(line.count - Len(k_line)) /\ Uncut(c, k_line))
      BY <2>1, <3>1
    <3>3. QED
      BY <1>8, <3>1, <3>2, ReadIs
  <2>3. QED
    BY <1>13, <2>1, <2>2
<1>15. b = IF Occurs(s_line, c) THEN file.s ELSE read.s
  <2>1. PICK stop : stop = line.count
    OBVIOUS
  <2>2. Read(line, s_line, stop, read.s) = IF Occurs(s_line, c) THEN file.s ELSE read.s
    <3>1. IsText(s_line) /\ s_line # <<>> /\ ~Strays(line, String(s_line)) /\ Says(c, s_line, file.s)
      BY <1>2, <1>9, <1>11, <1>12
    <3>2. stop = line.count \/ (stop = Word(line.count - Len(s_line)) /\ Uncut(c, s_line))
      BY <2>1
    <3>3. QED
      BY <1>8, <3>1, <3>2, ReadIs
  <2>3. QED
    BY <1>13, <2>1, <2>2
<1>16. d = IF Occurs(nnz_line, c) THEN file.nnz ELSE read.nnz
  <2>1. PICK stop : stop = Word(line.count - Len(nnz_line))
    OBVIOUS
  <2>2. Read(line, nnz_line, stop, read.nnz) = IF Occurs(nnz_line, c) THEN file.nnz ELSE read.nnz
    <3>1. IsText(nnz_line) /\ nnz_line # <<>> /\ ~Strays(line, String(nnz_line)) /\ Uncut(c, nnz_line) /\ Says(c, nnz_line, file.nnz)
      BY <1>2, <1>9, <1>11, <1>12
    <3>2. stop = line.count \/ (stop = Word(line.count - Len(nnz_line)) /\ Uncut(c, nnz_line))
      BY <2>1, <3>1
    <3>3. QED
      BY <1>8, <3>1, <3>2, ReadIs
  <2>3. QED
    BY <1>13, <2>1, <2>2
<1>17. PICK more : more = LinesRead(text, next)
  OBVIOUS
<1>18. a = Known(more, k_line, file.k) /\ b = Known(more, s_line, file.s) /\ d = Known(more, nnz_line, file.nnz)
  <2>1. more = lines \cup {c}
    BY <1>1, <1>8, <1>17
  <2>2. read.k = Known(lines, k_line, file.k) /\ read.s = Known(lines, s_line, file.s) /\ read.nnz = Known(lines, nnz_line, file.nnz)
    BY <1>3
  <2>3. a = Known(lines \cup {c}, k_line, file.k)
    <3>1. Known(lines \cup {c}, k_line, file.k) = IF Occurs(k_line, c) THEN file.k ELSE Known(lines, k_line, file.k)
      BY KnownThen
    <3>2. QED
      BY <1>14, <2>2, <3>1
  <2>4. b = Known(lines \cup {c}, s_line, file.s)
    <3>1. Known(lines \cup {c}, s_line, file.s) = IF Occurs(s_line, c) THEN file.s ELSE Known(lines, s_line, file.s)
      BY KnownThen
    <3>2. QED
      BY <1>15, <2>2, <3>1
  <2>5. d = Known(lines \cup {c}, nnz_line, file.nnz)
    <3>1. Known(lines \cup {c}, nnz_line, file.nnz) = IF Occurs(nnz_line, c) THEN file.nnz ELSE Known(lines, nnz_line, file.nnz)
      BY KnownThen
    <3>2. QED
      BY <1>16, <2>2, <3>1
  <2>6. QED
    BY <2>1, <2>3, <2>4, <2>5
<1>19. now = [file |-> file, named |-> read.named, k |-> a, s |-> b, nnz |-> d]
  <2>1. now = [read EXCEPT !.k = a, !.s = b, !.nnz = d]
    BY <1>3, <1>13
  <2>2. PICK x, y, z, w : x = Known(lines, k_line, file.k) /\ y = Known(lines, s_line, file.s) /\ z = Known(lines, nnz_line, file.nnz) /\ w = read.named
    OBVIOUS
  <2>3. read = [file |-> file, named |-> w, k |-> x, s |-> y, nnz |-> z]
    BY <1>3, <2>2
  <2>4. now = [file |-> file, named |-> w, k |-> a, s |-> b, nnz |-> d]
    BY <2>1, <2>3
  <2>5. QED
    BY <2>2, <2>4
<1>20. [header EXCEPT !.cursor = next] = [buffer |-> String(text), cursor |-> next]
  BY <1>3
<1>21. \A e \in more : Searchable(e)
  BY <1>1, <1>3, <1>8, <1>10, <1>17
<1>22. now.named = read.named
  BY <1>19
<1>23. now = [file |-> file, named |-> now.named, k |-> Known(more, k_line, file.k), s |-> Known(more, s_line, file.s),
              nnz |-> Known(more, nnz_line, file.nnz)]
  BY <1>18, <1>19, <1>22
<1>24. ~Dotted(folder) => now.named = <<file.k, file.s>>
  BY <1>3, <1>22
<1>25. QED
  BY <1>1, <1>8, <1>17, <1>20, <1>21, <1>23, <1>24, Zenon DEF HeaderOf

\* The end of the loop.
LEMMA EndIs ==
  ASSUME FilesAsWritten, NEW file \in Files, NEW folder, NEW read, NEW header, NEW cursor, HeaderOf(read, header, folder, file, cursor),
         cursor >= Len(file.text), NEW next, next = stream_get_next_line(header).cursor
  PROVE  /\ ~string_valid(stream_get_next_line(header).line) /\ next = cursor + 1
         /\ HeaderOf(read, [header EXCEPT !.cursor = next], folder, file, next)
<1>1. PICK text, lines : text = file.text /\ lines = LinesRead(text, cursor)
  OBVIOUS
<1>2. IsText(text)
  BY <1>1 DEF FilesAsWritten
<1>3. /\ read = [file |-> file, named |-> read.named, k |-> Known(lines, k_line, file.k),
                 s |-> Known(lines, s_line, file.s), nnz |-> Known(lines, nnz_line, file.nnz)]
      /\ ~Dotted(folder) => read.named = <<file.k, file.s>>
      /\ header = [buffer |-> String(text), cursor |-> cursor]
      /\ AtLine(text, cursor)
      /\ \A c \in lines : Searchable(c)
  BY <1>1, Zenon DEF HeaderOf
<1>4. cursor \in Nat /\ cursor >= Len(text) /\ Len(text) \in Nat
  BY <1>1, <1>2, <1>3, TextFacts DEF AtLine
<1>5. header.buffer = String(text) /\ header.cursor = cursor
  BY <1>3
<1>6. ~string_valid(stream_get_next_line(header).line) /\ next = cursor + 1
  BY <1>2, <1>4, <1>5, NoLine
<1>7. next \in Nat /\ next >= Len(text)
  BY <1>4, <1>6
<1>8. AtLine(text, next)
  BY <1>7 DEF AtLine
<1>9. LinesRead(text, next) = lines
  BY <1>1, <1>2, <1>4, <1>7, AllLinesRead
<1>10. [header EXCEPT !.cursor = next] = [buffer |-> String(text), cursor |-> next]
  BY <1>3
<1>11. QED
  BY <1>1, <1>3, <1>6, <1>8, <1>9, <1>10, Zenon DEF HeaderOf

\* A line before the end of the text is valid.
LEMMA LineValid ==
  ASSUME FilesAsWritten, NEW file \in Files, NEW folder, NEW read, NEW header, NEW cursor, HeaderOf(read, header, folder, file, cursor),
         cursor < Len(file.text)
  PROVE  string_valid(stream_get_next_line(header).line)
<1>1. PICK text, line, next : text = file.text /\ line = stream_get_next_line(header).line /\ next = stream_get_next_line(header).cursor
  OBVIOUS
<1>2. IsText(text)
  BY <1>1 DEF FilesAsWritten
<1>3. header = [buffer |-> String(text), cursor |-> cursor] /\ AtLine(text, cursor)
  BY <1>1, Zenon DEF HeaderOf
<1>4. cursor \in Nat /\ cursor < Len(text)
  BY <1>1, <1>3 DEF AtLine
<1>5. header.buffer = String(text) /\ header.cursor = cursor
  BY <1>3
<1>6. PICK j \in Nat : NextLine(text, cursor, j, line, next)
  BY <1>1, <1>2, <1>4, <1>5, NextLineIs
<1>7. PICK c : c = SubSeq(text, cursor + 1, j)
  OBVIOUS
<1>8. Views(line, c) /\ Len(c) \in Nat /\ Len(c) # 0
  <2>1. LineAdded(text, cursor, next, line, c)
    BY <1>2, <1>3, <1>4, <1>6, <1>7, OneMoreLine
  <2>2. QED
    BY <2>1 DEF LineAdded
<1>9. line.count = Len(c)
  BY <1>8 DEF Views
<1>10. QED
  BY <1>1, <1>8, <1>9 DEF string_valid

\* The folder that main takes is a part of an argument, or the default.
LEMMA FolderIs ==
  ASSUME TableInv, GivenInv, SettingsNamed, NEW dir, dir = args_get_string_value(kron_dir, DefaultDir)
  PROVE  IsText(Chars(dir)) /\ \E text \in Arguments \cup {DefaultDir} : Len(Chars(dir)) <= Len(text)
<1>1. kron_dir # <<>> /\ hash[kron_dir] \in 0 .. option_table_count - 1 /\ IsText(DefaultDir)
  BY DEF SettingsNamed, TableInv
<1>2. PICK c : c = FirstValue(kron_dir, DefaultDir)
  OBVIOUS
<1>3. Views(dir, c) /\ dir.text \in Arguments \cup {DefaultDir}
  BY <1>1, <1>2, FirstValueIs
<1>4. Chars(dir) = c
  BY <1>3, ViewChars
<1>5. IsText(c) /\ dir.v \in Nat /\ dir.v + Len(c) <= Len(dir.text) /\ Len(dir.text) \in Nat
  BY <1>3 DEF Views
<1>6. Len(c) <= Len(dir.text)
  <2>1. PICK n, v, e : n = Len(c) /\ v = dir.v /\ e = Len(dir.text)
    OBVIOUS
  <2>2. n \in Nat /\ v \in Nat /\ e \in Nat /\ v + n <= e
    BY <1>5, <2>1, TextFacts
  <2>3. n <= e
    BY <2>2
  <2>4. QED
    BY <2>1, <2>3
<1>7. QED
  BY <1>3, <1>4, <1>5, <1>6

\* A file that has been opened.
LEMMA OpenedIs ==
  ASSUME FilesAsWritten, NEW file \in Files, NEW folder, IsText(folder),
         \E text \in Arguments \cup {DefaultDir} : Len(folder) <= Len(text),
         NEW name, name = file_basename(String(folder \o <<"/">> \o file.name)),
         NEW read, read = [NoGraph EXCEPT !.file = file, !.named = <<Marked(name, <<"k">>), Marked(name, <<"s">>)>>]
  PROVE  HeaderOf(read, [buffer |-> String(file.text), cursor |-> 0], folder, file, 0)
<1>1. IsText(file.text) /\ IsText(file.name) /\ NamedAfter(file)
  BY DEF FilesAsWritten
<1>2. Len(folder) + 1 + Len(file.name) < W
  <2>1. PICK text \in Arguments \cup {DefaultDir} : Len(folder) <= Len(text)
    OBVIOUS
  <2>2. Len(text) + 1 + Len(file.name) < W
    BY DEF FilesAsWritten
  <2>3. PICK a, b, n : a = Len(folder) /\ b = Len(text) /\ n = Len(file.name)
    OBVIOUS
  <2>4. a \in Nat /\ n \in Nat /\ W \in Nat
    BY <1>1, <2>3, TextFacts
  <2>5. a <= b /\ b + 1 + n < W
    BY <2>1, <2>2, <2>3
  <2>6. b \in Nat
    <3>1. IsText(text) \/ text = DefaultDir
      BY ArgumentsAssumption
    <3>2. QED
      BY <2>3, <3>1, TextFacts
  <2>7. a + 1 + n < W
    BY <2>4, <2>5, <2>6
  <2>8. QED
    BY <2>3, <2>7
<1>3. LinesRead(file.text, 0) = {}
  BY <1>1, NoLineRead
<1>4. PICK lines : lines = LinesRead(file.text, 0)
  OBVIOUS
<1>5. Known(lines, k_line, file.k) = 0 /\ Known(lines, s_line, file.s) = 0 /\ Known(lines, nnz_line, file.nnz) = 0
  BY <1>3, <1>4 DEF Known
<1>6. PICK named : named = <<Marked(name, <<"k">>), Marked(name, <<"s">>)>>
  OBVIOUS
<1>7. read = [file |-> file, named |-> named, k |-> 0, s |-> 0, nnz |-> 0]
  BY <1>6 DEF NoGraph
<1>13. read.named = named
  <2>1. PICK r : r = [file |-> file, named |-> named, k |-> 0, s |-> 0, nnz |-> 0]
    OBVIOUS
  <2>2. r.named = named
    BY <2>1
  <2>3. read = r
    BY <1>7, <2>1
  <2>4. QED
    BY <2>2, <2>3
<1>8. read = [file |-> file, named |-> read.named, k |-> Known(lines, k_line, file.k), s |-> Known(lines, s_line, file.s),
              nnz |-> Known(lines, nnz_line, file.nnz)]
  BY <1>5, <1>7, <1>13
<1>9. ~Dotted(folder) => read.named = <<file.k, file.s>>
  <2> SUFFICES ASSUME ~Dotted(folder) PROVE named = <<file.k, file.s>>
    BY <1>13
  <2>1. Marked(name, <<"k">>) = file.k /\ Marked(name, <<"s">>) = file.s
    BY <1>1, <1>2, NamedIs, Zenon
  <2>2. QED
    BY <1>6, <2>1
<1>10. AtLine(file.text, 0)
  BY DEF AtLine
<1>11. \A line \in lines : Searchable(line)
  BY <1>3, <1>4
<1>12. QED
  BY <1>4, <1>8, <1>9, <1>10, <1>11, Zenon DEF HeaderOf

\* What has been read of a file at the end of its lines is what it was written with.
LEMMA HeaderWritten ==
  ASSUME FilesAsWritten, HeaderInv
  PROVE  HeaderAsWritten
<1>1. CASE phase \notin {"reading", "read"}
  BY <1>1 DEF HeaderAsWritten
<1>2. CASE phase \in {"reading", "read"}
  <2>1. PICK file \in Files : /\ HeaderOf(graph, stream, settings.folder, file, stream.cursor)
                              /\ phase = "read" => stream.cursor >= Len(file.text)
    BY <1>2 DEF HeaderInv
  <2>2. PICK text, cursor, lines, named : text = file.text /\ cursor = stream.cursor /\ lines = LinesRead(text, cursor) /\ named = graph.named
    OBVIOUS
  <2>3. /\ graph = [file |-> file, named |-> named, k |-> Known(lines, k_line, file.k),
                    s |-> Known(lines, s_line, file.s), nnz |-> Known(lines, nnz_line, file.nnz)]
        /\ ~Dotted(settings.folder) => named = <<file.k, file.s>>
        /\ AtLine(text, cursor)
        /\ \A line \in lines : Searchable(line)
    BY <2>1, <2>2, Zenon DEF HeaderOf
  <2>4. /\ graph.file = file /\ graph.named = named /\ graph.k = Known(lines, k_line, file.k)
        /\ graph.s = Known(lines, s_line, file.s) /\ graph.nnz = Known(lines, nnz_line, file.nnz)
    BY <2>3
  <2>5. ASSUME phase = "read"
        PROVE  graph.k = file.k /\ graph.s = file.s /\ graph.nnz = file.nnz
    <3>1. cursor \in Nat /\ cursor >= Len(text) /\ IsText(text)
      BY <2>1, <2>2, <2>3, <2>5 DEF AtLine, FilesAsWritten
    <3>2. lines = Lines(text)
      BY <2>2, <3>1, AllLinesRead
    <3>3. Stated(lines, k_line, file.k) /\ Stated(lines, s_line, file.s) /\ Stated(lines, nnz_line, file.nnz)
      <4>1. HeaderSays(file)
        BY DEF FilesAsWritten
      <4>2. QED
        BY <2>2, <3>2, <4>1, Zenon DEF HeaderSays
    <3>4. ASSUME NEW word, NEW number, Stated(lines, word, number) PROVE Known(lines, word, number) = number
      <4>1. number # 0 => \E line \in lines : Occurs(word, line)
        BY <2>3, <3>4 DEF Stated
      <4>2. QED
        BY <4>1 DEF Known
    <3>5. QED
      BY <2>4, <3>3, <3>4
  <2>6. QED
    BY <2>3, <2>4, <2>5 DEF HeaderAsWritten
<1>3. QED
  BY <1>1, <1>2

LEMMA ReadLineHeader ==
  ASSUME FilesAsWritten, HeaderInv, ReadLine
  PROVE  HeaderInv'
<1>1. PICK line, next, cursor, folder : /\ line = stream_get_next_line(stream).line /\ next = stream_get_next_line(stream).cursor
                                        /\ cursor = stream.cursor /\ folder = settings.folder
  OBVIOUS
<1>2. /\ phase = "reading"
      /\ stream' = [stream EXCEPT !.cursor = next]
      /\ UNCHANGED settings
      /\ IF ~string_valid(line) THEN phase' = "read" /\ UNCHANGED graph
         ELSE IF \E word \in HeaderTexts : Strays(line, String(word))
         THEN phase' = "crashed" /\ UNCHANGED graph
         ELSE /\ graph' = [graph EXCEPT !.k = Read(line, k_line, Word(line.count - Len(k_line)), @),
                                        !.s = Read(line, s_line, line.count, @),
                                        !.nnz = Read(line, nnz_line, Word(line.count - Len(nnz_line)), @)]
              /\ UNCHANGED phase
  BY <1>1 DEF ReadLine, HeaderTexts
<1>3. PICK file \in Files : HeaderOf(graph, stream, folder, file, cursor)
  BY <1>1, <1>2 DEF HeaderInv
<1>4. IsText(folder) /\ \E text \in Arguments \cup {DefaultDir} : Len(folder) <= Len(text)
  BY <1>1, <1>2 DEF HeaderInv
<1>5. settings'.folder = folder
  BY <1>1, <1>2
<1>6. stream'.cursor = next
  <2>1. stream = [buffer |-> String(file.text), cursor |-> cursor]
    BY <1>3, Zenon DEF HeaderOf
  <2>2. QED
    BY <1>2, <2>1
<1>7. cursor \in Nat /\ Len(file.text) \in Nat
  <2>1. AtLine(file.text, cursor)
    BY <1>3, Zenon DEF HeaderOf
  <2>2. IsText(file.text)
    BY DEF FilesAsWritten
  <2>3. QED
    BY <2>1, <2>2, TextFacts DEF AtLine
<1>8. CASE cursor >= Len(file.text)
  <2>1. /\ ~string_valid(line) /\ next = cursor + 1
        /\ HeaderOf(graph, [stream EXCEPT !.cursor = next], folder, file, next)
    BY <1>1, <1>3, <1>8, EndIs
  <2>2. phase' = "read" /\ graph' = graph
    BY <1>2, <2>1
  <2>3. HeaderOf(graph', stream', settings'.folder, file, stream'.cursor)
    BY <1>2, <1>5, <1>6, <2>1, <2>2
  <2>4. stream'.cursor >= Len(file.text)
    BY <1>6, <1>7, <1>8, <2>1
  <2>5. QED
    BY <1>4, <1>5, <2>2, <2>3, <2>4 DEF HeaderInv
<1>9. CASE cursor < Len(file.text)
  <2>1. string_valid(line)
    BY <1>1, <1>3, <1>9, LineValid
  <2>2. CASE \E word \in HeaderTexts : Strays(line, String(word))
    <3>1. phase' = "crashed"
      BY <1>2, <2>1, <2>2
    <3>2. QED
      BY <3>1 DEF HeaderInv
  <2>3. CASE ~ \E word \in HeaderTexts : Strays(line, String(word))
    <3>1. PICK now : now = [graph EXCEPT !.k = Read(line, k_line, Word(line.count - Len(k_line)), @),
                                         !.s = Read(line, s_line, line.count, @),
                                         !.nnz = Read(line, nnz_line, Word(line.count - Len(nnz_line)), @)]
      OBVIOUS
    <3>2. graph' = now /\ phase' = "reading"
      BY <1>2, <2>1, <2>3, <3>1
    <3>3. HeaderOf(now, [stream EXCEPT !.cursor = next], folder, file, next)
      BY <1>1, <1>3, <1>9, <2>3, <3>1, TurnIs
    <3>4. HeaderOf(graph', stream', settings'.folder, file, stream'.cursor)
      BY <1>2, <1>5, <1>6, <3>2, <3>3
    <3>5. QED
      BY <1>4, <1>5, <3>2, <3>4 DEF HeaderInv
  <2>4. QED
    BY <2>2, <2>3
<1>10. QED
  BY <1>7, <1>8, <1>9

LEMMA NextHeader ==
  ASSUME SettingsNamed, FilesAsWritten, TableInv, GivenInv, HeaderInv, [Next]_vars
  PROVE  HeaderInv'
<1>1. CASE phase' \notin {"named", "reading", "read"}
  BY <1>1 DEF HeaderInv
<1>2. ASSUME NEW text \in Arguments, ParseOption(text) \/ ParsePositional(text) PROVE HeaderInv'
  BY <1>1, <1>2 DEF ParseOption, ParsePositional
<1>3. CASE ParseEnd
  BY <1>1, <1>3 DEF ParseEnd
<1>4. CASE Configure
  <2>1. PICK formats, dir : /\ formats = args_get_string_value(output_format, CooFormat)
                            /\ dir = args_get_string_value(kron_dir, DefaultDir)
    OBVIOUS
  <2>2. IF \E name \in FormatNames : Strays(formats, String(name))
        THEN phase' = "crashed" /\ UNCHANGED settings
        ELSE phase' = "named" /\ settings' = Settings(formats, dir)
    BY <1>4, <2>1 DEF Configure
  <2>3. CASE phase' = "crashed"
    BY <1>1, <2>3
  <2>4. CASE phase' = "named" /\ settings' = Settings(formats, dir)
    <3>1. settings'.folder = Chars(dir)
      BY <2>4 DEF Settings
    <3>2. IsText(Chars(dir)) /\ \E text \in Arguments \cup {DefaultDir} : Len(Chars(dir)) <= Len(text)
      BY <2>1, FolderIs
    <3>3. QED
      BY <2>4, <3>1, <3>2 DEF HeaderInv
  <2>5. QED
    BY <2>2, <2>3, <2>4
<1>5. ASSUME NEW file \in Files, OpenFile(file) PROVE HeaderInv'
  <2>1. PICK folder, name, read : /\ folder = settings.folder /\ name = file_basename(String(folder \o <<"/">> \o file.name))
                                  /\ read = [NoGraph EXCEPT !.file = file, !.named = <<Marked(name, <<"k">>), Marked(name, <<"s">>)>>]
    OBVIOUS
  <2>2. /\ phase = "named" /\ phase' = "reading" /\ UNCHANGED settings
        /\ graph' = read /\ stream' = [buffer |-> String(file.text), cursor |-> 0]
    BY <1>5, <2>1 DEF OpenFile
  <2>3. IsText(folder) /\ \E text \in Arguments \cup {DefaultDir} : Len(folder) <= Len(text)
    BY <2>1, <2>2 DEF HeaderInv
  <2>4. HeaderOf(read, [buffer |-> String(file.text), cursor |-> 0], folder, file, 0)
    BY <2>1, <2>3, OpenedIs
  <2>5. settings'.folder = folder /\ stream'.cursor = 0
    BY <2>1, <2>2
  <2>6. HeaderOf(graph', stream', settings'.folder, file, stream'.cursor)
    BY <2>2, <2>4, <2>5
  <2>7. QED
    BY <2>2, <2>3, <2>5, <2>6 DEF HeaderInv
<1>6. CASE ReadLine
  BY <1>6, ReadLineHeader
<1>7. CASE UNCHANGED vars
  <2>1. UNCHANGED <<phase, settings, graph, stream>>
    BY <1>7 DEF vars
  <2>2. QED
    BY <2>1 DEF HeaderInv
<1>8. QED
  BY <1>2, <1>3, <1>4, <1>5, <1>6, <1>7 DEF Next, Done

\* The numbers that load_kron takes from the name of a file and from the lines of its header are
\* those that the file was written with, although two of the views behind the texts of the header
\* stop early or have counts that wrapped (load_kron, string_find_substring, string_substring,
\* string_to_u64, file_basename, stream_get_next_line).
THEOREM OptionsHeaderAsWritten ==
  ASSUME SettingsNamed, FilesAsWritten
  PROVE  Spec => []HeaderAsWritten
<1>1. Init => TableInv /\ GivenInv /\ HeaderInv
  <2> SUFFICES ASSUME Init PROVE HeaderInv
    BY InitTable
  <2>1. phase = "parsing"
    BY DEF Init
  <2>2. QED
    BY <2>1 DEF HeaderInv
<1>2. TableInv /\ GivenInv /\ HeaderInv /\ [Next]_vars => TableInv' /\ GivenInv' /\ HeaderInv'
  BY NextTables, NextHeader
<1>3. HeaderInv => HeaderAsWritten
  BY HeaderWritten
<1>4. QED
  BY <1>1, <1>2, <1>3, PTL DEF Spec
=============================================================================
