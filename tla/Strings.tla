------------------------------- MODULE Strings -------------------------------
(* Strings (runtime_data.cpp, builtins_strings.cpp): a list of cells of four   *)
(* characters, in which 0 is no character.  They are built a character at a    *)
(* time, changed in place, and read by functions that each walk the cells in   *)
(* a way of their own.                                                        *)
EXTENDS Integers, Sequences, FiniteSetsExt, SequencesExt

CONSTANTS
  Char,       \* codes of characters; 0 has no place in a string
  Quote,      \* the code of "
  Backslash,  \* the code of \
  MaxLength   \* a bound: the most characters of a string

StringAssumption ==
  Char \subseteq 1 .. 255 /\ Quote \in Nat /\ Backslash \in Nat /\ MaxLength \in Nat

VARIABLES
  cells,  \* the cells of two strings
  texts   \* the characters they stand for

Which == {1, 2}
Quad  == 4  \* sizeof(int)

(***************************************************************************)
(* Building and reading.                                                    *)
(***************************************************************************)
\* A character goes to the first place from which on the last cell is empty,
\* the first place of a cell excepted.
buildstring(string, ch) ==
  LET cell == Last(string)
      free == {p \in 2 .. Quad : \A q \in p .. Quad : cell[q] = 0}
  IN  IF string = <<>> \/ free = {}
      THEN Append(string, [p \in 1 .. Quad |-> IF p = 1 THEN ch ELSE 0])
      ELSE ReplaceAt(string, Len(string), [cell EXCEPT ![Min(free)] = ch])

newstring(text) == FoldLeft(buildstring, <<>>, text)

\* All characters in order: cstring, plispstr and the count of stringlength
\* pass over the empty places.
Characters(string) ==
  SelectSeq(FlattenSeq(string), LAMBDA ch : ch # 0)
stringlength(string) == Len(Characters(string))

\* Place n mod 4 of cell n \div 4; 0 if there is none.  A negative index, which
\* nobody refuses, stays in the first cell.
nthchar(string, n) ==
  LET top == Max({0, n \div Quad})
  IN  IF top < Len(string) THEN string[top + 1][(n % Quad) + 1] ELSE 0

(***************************************************************************)
(* Comparing a cell at a time, as numbers; the index of the difference is   *)
(* found by shifting both to the right until they are equal.                *)
(***************************************************************************)
Below(n, m) == \E p \in 1 .. Quad : n[p] < m[p] /\ \A q \in 1 .. p - 1 : n[q] = m[q]
Mismatch(n, m) == Min({p \in 1 .. Quad : n[p] # m[p]}) - 1
None == -1

stringcompare(arg1, arg2, lt, gt, eq) ==
  LET differ == {k \in 1 .. Min({Len(arg1), Len(arg2)}) : arg1[k] # arg2[k]}
      k == Min(differ)
      at == Quad * (k - 1) + Mismatch(arg1[k], arg2[k])
      shared == Quad * Min({Len(arg1), Len(arg2)})
      \* Equal to the end: back one cell, and on over the characters of the last.
      whole == shared - Quad + IF arg1 = <<>> THEN 0 ELSE Len(SelectSeq(Last(arg1), LAMBDA ch : ch # 0))
  IN  IF differ # {} THEN IF IF Below(arg1[k], arg2[k]) THEN lt ELSE gt THEN at ELSE None
      ELSE IF Len(arg1) < Len(arg2) THEN IF lt THEN shared ELSE None
      ELSE IF Len(arg1) > Len(arg2) THEN IF gt THEN shared ELSE None
      ELSE IF eq THEN whole ELSE None

\* string= answers whether they are equal, the others the index of the difference.
fn_stringeq(x, y)        == stringcompare(x, y, FALSE, FALSE, TRUE) # None
fn_stringless(x, y)      == stringcompare(x, y, TRUE, FALSE, FALSE)
fn_stringgreater(x, y)   == stringcompare(x, y, FALSE, TRUE, FALSE)
fn_stringnoteq(x, y)     == stringcompare(x, y, TRUE, TRUE, FALSE)
fn_stringlesseq(x, y)    == stringcompare(x, y, TRUE, FALSE, TRUE)
fn_stringgreatereq(x, y) == stringcompare(x, y, FALSE, TRUE, TRUE)

\* The characters of a cell up to the first place from which on it is empty.
fn_concatenate(strings) ==
  LET used(cell) == {p \in 1 .. Quad : \E q \in p .. Quad : cell[q] # 0}
      chars(string) == FlattenSeq([k \in DOMAIN string |->
                         SubSeq(string[k], 1, Cardinality(used(string[k])))])
  IN  newstring(FlattenSeq([k \in DOMAIN strings |-> chars(strings[k])]))

\* char refuses an index at which there is no character.
IndexRange == -1
fn_char(string, n) == IF nthchar(string, n) = 0 THEN IndexRange ELSE nthchar(string, n)

fn_subseq(string, start, end) ==
  newstring([i \in 1 .. end - start |-> nthchar(string, start + i - 1)])

fn_search_Short(pattern, target) ==
  LET m == stringlength(pattern)
      fits == {i \in 0 .. stringlength(target) - m - 1 :
                 \A j \in 0 .. m - 1 : nthchar(target, i + j) = nthchar(pattern, j)}
  IN  IF fits = {} THEN None ELSE Min(fits)

\* The index of the first place where the pattern fits, None if there is none.
fn_search(pattern, target) ==
  LET m == stringlength(pattern)
      fits == {i \in 0 .. stringlength(target) - m :
                 \A j \in 0 .. m - 1 : nthchar(target, i + j) = nthchar(pattern, j)}
  IN  IF fits = {} THEN None ELSE Min(fits)

(***************************************************************************)
(* Printing to be read again, and reading up to the closing quote.          *)
(***************************************************************************)
plispstr(string) ==
  FlattenSeq([k \in DOMAIN Characters(string) |->
    LET ch == Characters(string)[k]
    IN  IF ch \in {Quote, Backslash} THEN <<Backslash, ch>> ELSE <<ch>>])

readstring(printed) ==
  LET step(acc, ch) ==
        IF acc.closed THEN acc
        ELSE IF acc.escaped THEN [acc EXCEPT !.string = buildstring(@, ch), !.escaped = FALSE]
        ELSE IF ch = Quote THEN [acc EXCEPT !.closed = TRUE]
        ELSE IF ch = Backslash THEN [acc EXCEPT !.escaped = TRUE]
        ELSE [acc EXCEPT !.string = buildstring(@, ch)]
  IN  FoldLeft(step, [string |-> <<>>, escaped |-> FALSE, closed |-> FALSE],
               printed).string

\* The texts a string has for a program: as it is, and as it is read again.
fn_princtostring(string) == newstring(Characters(string))
fn_prin1tostring(string) == newstring(<<Quote>> \o plispstr(string) \o <<Quote>>)

(***************************************************************************)
(* Two strings and what a program does to them.                             *)
(***************************************************************************)
Init == cells = [i \in Which |-> <<>>] /\ texts = [i \in Which |-> <<>>]

\* princ to the string being built.
Princ == \E i \in Which, ch \in Char :
  /\ Len(texts[i]) < MaxLength
  /\ cells' = [cells EXCEPT ![i] = buildstring(@, ch)]
  /\ texts' = [texts EXCEPT ![i] = Append(@, ch)]

\* (setf (char string n) ch), which is refused where there is no character.
SetChar == \E i \in Which, n \in 0 .. MaxLength, ch \in Char :
  /\ nthchar(cells[i], n) # 0
  /\ cells' = [cells EXCEPT ![i][(n \div Quad) + 1][(n % Quad) + 1] = ch]
  /\ texts' = [texts EXCEPT ![i][n + 1] = ch]

Concatenate ==
  /\ Len(texts[1]) + Len(texts[2]) <= MaxLength
  /\ cells' = [cells EXCEPT ![1] = fn_concatenate(<<cells[1], cells[2]>>)]
  /\ texts' = [texts EXCEPT ![1] = texts[1] \o texts[2]]

\* subseq refuses an end before the start or beyond the length.
Subseq == \E i \in Which, start, end \in 0 .. MaxLength :
  /\ start <= end /\ end <= stringlength(cells[i])
  /\ cells' = [cells EXCEPT ![i] = fn_subseq(cells[i], start, end)]
  /\ texts' = [texts EXCEPT ![i] = SubSeq(@, start + 1, end)]

Next == Princ \/ SetChar \/ Concatenate \/ Subseq
Spec == Init /\ [][Next]_<<cells, texts>>

(***************************************************************************)
(* What the functions promise, of sequences of characters.                  *)
(***************************************************************************)
Prefix(x, y) == Cardinality({n \in 1 .. Min({Len(x), Len(y)}) : SubSeq(x, 1, n) = SubSeq(y, 1, n)})
Less(x, y) ==
  LET n == Prefix(x, y) + 1
  IN  n <= Len(y) /\ (n > Len(x) \/ x[n] < y[n])

\* A string is its characters, whatever was done to it: it is as long, has them
\* at their places and none beyond, is its own princ text and can be read from its
\* prin1 text, with the same cells, which symbols and string= go by.
StoresText == \A i \in Which :
  LET string == cells[i]  text == texts[i] IN
  /\ stringlength(string) = Len(text)
  /\ \A n \in 0 .. MaxLength :
       fn_char(string, n) = IF n < Len(text) THEN text[n + 1] ELSE IndexRange
  /\ \A printed \in {Characters(fn_prin1tostring(string))} : readstring(Tail(printed)) = string
  /\ fn_princtostring(string) = string /\ string = newstring(text)

\* The comparisons give the index of the first difference; that they go by whole
\* cells does not show, but for <= and >= of two empty strings, which are -4.
ComparesText == \A i, j \in Which :
  LET x == texts[i]  y == texts[j]  s == cells[i]  r == cells[j]
      index(holds) == IF holds THEN Prefix(x, y) ELSE None
  IN  /\ fn_stringeq(s, r) = (x = y)
      /\ fn_stringless(s, r) = index(Less(x, y))
      /\ fn_stringgreater(s, r) = index(Less(y, x))
      /\ fn_stringnoteq(s, r) = index(x # y)
      /\ x # <<>> \/ y # <<>> =>
           /\ fn_stringlesseq(s, r) = index(~Less(y, x))
           /\ fn_stringgreatereq(s, r) = index(~Less(x, y))

\* search finds the first occurrence.
FindsText == \A i, j \in Which :
  LET at == {n \in 0 .. MaxLength : n + Len(texts[i]) <= Len(texts[j])
                /\ SubSeq(texts[j], n + 1, n + Len(texts[i])) = texts[i]}
  IN  fn_search(cells[i], cells[j]) = IF at = {} THEN None ELSE Min(at)

StringsAreText == StoresText /\ ComparesText /\ FindsText

\* What the documentation of string<= says, "the index to the first mismatch", is
\* not so of two empty strings: the walk back over a last cell that is not there
\* gives -4.
IndexIsNatural == \A i, j \in Which :
  fn_stringlesseq(cells[i], cells[j]) \in Nat \cup {None}
=============================================================================
