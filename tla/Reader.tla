------------------------------- MODULE Reader -------------------------------
(* The reader (ulisp_reader.cpp): characters from a stream, the one that is    *)
(* given back (LastChar), and the calls of read and readrest that wait for the *)
(* next item.  A name is a sequence of characters; numbers and strings are     *)
(* names here, as they are in Printer, whose texts are read.                   *)
EXTENDS Printer

CONSTANTS
  Letters,  \* characters that names are made of, "n" alone being nil and "q" quote
  MaxText,  \* bounds: the most characters of a text that nothing was printed for,
  MaxReads  \* and the most reads

VARIABLES
  streams,     \* what each stream still has
  GFun,      \* the stream that is read
  LastChar,  \* the character given back, or None
  stack,     \* the calls that wait, the last first
  value,     \* the object a call returns, or Nothing
  outcome,   \* of the last read: "none", "reading", "value" or what went wrong
  reads,     \* how many reads have begun
  origin     \* the object that was printed to make the text that is typed, or
             \* Nothing, and the characters that follow

None    == ""
issp(ch) == ch \in {" ", "\n"}
isbr(ch) == ch \in {"(", ")", "'", "#"}
Chars    == Letters \cup {" ", "(", ")", "'", "#", "\\", "*", ".", ";"}

(***************************************************************************)
(* The next item: what is left, what it is, and the character given back.   *)
(***************************************************************************)
\* A string has new lines after its end; a line that is typed has one.
After(text) == IF text = <<>> THEN <<"\n">> ELSE text
Pending_Forgets == streams[GFun]
Pending     == IF LastChar = None THEN streams[GFun] ELSE <<LastChar>> \o streams[GFun]

\* The text from the first character for which p.
From(text, p(_)) ==
  LET k == SelectInSeq(text, p) IN IF k = 0 THEN <<>> ELSE SubSeq(text, k, Len(text))

\* Spaces are passed over, and so is a comment, up to the next bracket.
Start(text) ==
  LET from == From(text, LAMBDA ch : ~issp(ch))
  IN  IF from # <<>> /\ from[1] = ";" THEN From(from, LAMBDA ch : ch = "(") ELSE from

Item(kind, object, rest, back) == [kind |-> kind, object |-> object, rest |-> rest, back |-> back]
Mark(kind, text) == Item(kind, Nothing, Tail(text), None)

\* A name ends before a space, which is taken, or a bracket, which is given back.
Name(text, object(_)) ==
  LET rest == From(text, LAMBDA ch : issp(ch) \/ isbr(ch))
      name == SubSeq(text, 1, Len(text) - Len(rest))
      end  == Head(After(rest))
  IN  Item("object", object(name), IF rest = <<>> THEN <<>> ELSE Tail(rest),
           IF isbr(end) THEN end ELSE None)

\* #\ and a character; a name of more than one is none of the control codes'.
Character(text) ==
  LET ch == Head(After(text))
  IN  IF issp(ch) \/ isbr(ch) THEN Item("object", CharObject(ch), Tail(After(text)), None)
      ELSE Name(text, LAMBDA name : IF Len(name) = 1 THEN CharObject(name[1]) ELSE Nothing)

\* #* and bits, up to a space or a bracket, either of which is given back.
readbitarray(text) ==
  LET rest == From(text, LAMBDA ch : ch \notin {"0", "1"})
      bits == SubSeq(text, 1, Len(text) - Len(rest))
      end  == Head(After(rest))
      left == IF rest = <<>> THEN <<>> ELSE Tail(rest)
  IN  IF issp(end) \/ isbr(end) THEN Item("object", BitArray(bits), left, end)
      ELSE Item("illegal", Nothing, left, None)

\* Of what begins with # only characters and bit arrays are here.
nextitem(text) ==
  LET ch == text[1]  next == After(Tail(text)) IN
  CASE ch = ")"  -> Mark("KET", text)
    [] ch = "("  -> Mark("BRA", text)
    [] ch = "'"  -> Mark("QUO", text)
    [] ch = "." /\ next[1] = " " -> Mark("DOT", next)
    [] ch = "#" /\ next[1] = "*" -> readbitarray(Tail(next))
    [] ch = "#"  -> Character(Tail(next))
    [] OTHER     -> Name(text, Symbol)

(***************************************************************************)
(* read waits for one object, after a quote or a dot or for its caller;     *)
(* readrest for the items of a list, of which dotted says that the tail is   *)
(* there and only the bracket may follow.                                    *)
(***************************************************************************)
Read(call) == [call |-> call, items |-> <<>>, tail |-> EmptyList, dotted |-> FALSE]
List(frame) == FoldRight(Pair, frame.items, frame.tail)

Fail(error) == stack' = <<>> /\ value' = Nothing /\ outcome' = error
Push(frames) == stack' = frames \o stack /\ UNCHANGED <<value, outcome>>
Returns(object) == stack' = Tail(stack) /\ value' = object /\ UNCHANGED outcome
Change(frame) == stack' = <<frame>> \o Tail(stack) /\ value' = Nothing /\ UNCHANGED outcome

\* An item for the call that waits for one.
Take(item) ==
  LET frame == Head(stack)  list == frame.call = "readrest" IN
  CASE item.kind = "BRA" -> Push(<<Read("readrest")>>)
    [] item.kind = "QUO" -> Push(<<Read("quote")>>)
    [] item.kind = "KET" -> IF list THEN Returns(List(frame)) ELSE Fail("incomplete list")
    \* A dot is nothing to read; a list must have an item to hang the tail on.
    [] item.kind = "DOT" -> IF ~list THEN UNCHANGED <<stack, value, outcome>>
                            ELSE IF frame.items = <<>> THEN Fail("crash")
                            ELSE Push(<<Read("dot")>>)
    [] item.kind = "illegal" -> Fail("illegal character in bit array")
    [] item.kind = "object" ->
         IF item.object = Nothing THEN Fail("unknown character")
         ELSE IF list THEN Change([frame EXCEPT !.items = Append(@, item.object)])
         ELSE value' = item.object /\ UNCHANGED <<stack, outcome>>

NextItem ==
  /\ outcome = "reading" /\ value = Nothing
  /\ \E text \in {Start(Pending)} \ {<<>>} : \E item \in {nextitem(text)} :
       /\ streams' = [streams EXCEPT ![GFun] = item.rest]
       /\ LastChar' = item.back
       /\ Take(item)
  /\ UNCHANGED <<GFun, reads, origin>>

\* The object goes to the call that asked for it.
Return ==
  /\ outcome = "reading" /\ value # Nothing
  /\ LET frame == Head(stack) IN
     CASE frame.call = "main"  -> stack' = <<>> /\ outcome' = "value" /\ UNCHANGED value
       [] frame.call = "quote" -> Returns(Quoted(value))
       [] frame.call = "dot"   ->
            /\ stack' = <<Read("readrest"), [stack[2] EXCEPT !.tail = value, !.dotted = TRUE]>>
                        \o SubSeq(stack, 3, Len(stack))
            /\ value' = Nothing /\ UNCHANGED outcome
       [] frame.call = "readrest" ->
            IF ~frame.dotted THEN Change([frame EXCEPT !.items = Append(@, value)])
            ELSE IF value = EmptyList THEN Returns(List(frame))
            ELSE Fail("malformed list")
  /\ UNCHANGED <<streams, GFun, LastChar, reads, origin>>

readmain_Unchecked(gfun) ==
  /\ outcome # "reading" /\ reads < MaxReads
  /\ reads' = reads + 1 /\ GFun' = gfun
  /\ stack' = <<Read("main")>> /\ value' = Nothing /\ outcome' = "reading"
  /\ UNCHANGED <<origin, LastChar>>

\* A form is read from the line, or from a string while a form is evaluated.
readmain(gfun) ==
  /\ outcome # "reading" /\ reads < MaxReads
  /\ reads' = reads + 1
  /\ GFun' = gfun
  /\ LastChar' = None
  /\ IF LastChar # None THEN Fail("one stream at a time")
     ELSE stack' = <<Read("main")>> /\ value' = Nothing /\ outcome' = "reading"
  /\ UNCHANGED origin

ReadLine == readmain("serial") /\ UNCHANGED streams
fn_readfromstring == \E string \in {<<"a">>, <<"a", ")">>, <<"(", "a">>} :
  readmain("string") /\ streams' = [streams EXCEPT !["string"] = string]

(***************************************************************************)
(* What is typed: something printed and what follows it, or any text.       *)
(***************************************************************************)
Atoms   == {EmptyList, Symbol(<<"a">>), CharObject("(")}
Parts   == Atoms \cup {Pair(x, y) : x, y \in Atoms} \cup {Quoted(x) : x \in Atoms}
OneZero == BitArray(<<"1", "0">>)
Objects == Parts \cup {Pair(x, y) : x, y \in Parts} \cup {Quoted(x) : x \in Parts}
           \cup {OneZero, Pair(OneZero, OneZero), Quoted(OneZero)}
           \cup {Pair(OneZero, x) : x \in Parts} \cup {Pair(x, OneZero) : x \in Parts}
Follows == {<<>>, <<" ", "a">>, <<")">>, <<"(", "a", ")">>}
\* What pprint breaks into lines, and what pprintall prints.
Tall    == {ListOf(<<f, x, y>>) : f \in {Symbol(<<name>>) : name \in {"a", "d", "w"}}, x, y \in Parts}
           \cup {Definition(Symbol(<<"a">>), x) : x \in Parts \cup {Pair(Symbol(<<"l">>), y) : y \in Parts}}
Texts   == {text \in SeqOf(Chars, MaxText) :
              \A k \in DOMAIN text :
                /\ text[k] = "#" => k < Len(text) /\ text[k + 1] \in {"\\", "*"}
                /\ text[k] = "*" => k > 1 /\ text[k - 1] = "#"}

Init ==
  /\ GFun = "serial" /\ LastChar = None /\ stack = <<>>
  /\ value = Nothing /\ outcome = "none" /\ reads = 0
  /\ \/ \E x \in Objects, rest \in Follows :
          /\ origin = [object |-> x, rest |-> rest]
          /\ streams = [serial |-> printobject(x) \o rest, string |-> <<>>]
     \/ \E x \in Tall :
          /\ origin = [object |-> x, rest |-> <<"\n">>]
          /\ streams = [serial |-> superprint(x, 0) \o <<"\n">>, string |-> <<>>]
     \/ \E text \in Texts :
          /\ origin = [object |-> Nothing, rest |-> <<>>]
          /\ streams = [serial |-> text, string |-> <<>>]

Next == NextItem \/ Return \/ ReadLine \/ fn_readfromstring
vars == <<streams, GFun, LastChar, stack, value, outcome, reads, origin>>
\* The reader runs on while it has characters.
Spec == Init /\ [][Next]_vars /\ WF_vars(NextItem \/ Return)

(***************************************************************************)
(* What reading promises.                                                   *)
(***************************************************************************)
Printed == reads = 1 /\ GFun = "serial" /\ origin.object # Nothing
\* What the next read will find, the character given back first.
Left == IF LastChar = None THEN streams["serial"] ELSE <<LastChar>> \o streams["serial"]

\* What is printed, on one line or on several, reads back as the same object, whatever follows it, and what
\* follows is still there, but for a space right after it, and with the end of the
\* line after a bit array.  A string gives the object it begins with, whatever another
\* stream was left with.
ReadsWhatWasPrinted ==
  /\ Printed =>
       /\ outcome \in {"reading", "value"}
       /\ outcome = "value" => /\ value = origin.object
                               /\ \/ origin.rest \in {Left, <<" ">> \o Left, <<"\n">> \o Left}
                                  \/ value.type = "bits" /\ Left = After(origin.rest)
  /\ GFun = "string" /\ outcome = "value" => value = Symbol(<<"a">>)

\* pprint breaks what is too long, and only that.
KeepsToTheWidth ==
  reads = 0 /\ origin.object # Nothing => \A lm \in 0 .. PPINDENT :
    /\ FitsOnOneLine(origin.object, lm)
    /\ Plain(origin.object) => FitsInWidth(origin.object, lm)

\* Reading it ends: none of the calls waits for more than was printed.
ReadingEnds == Printed ~> outcome # "reading"

\* A line that is an object is read, and so is the next.  It does not hold: after a bit
\* array the end of the line is given back, and the next line is taken for another
\* stream's.
LinesAreRead ==
  GFun = "serial" /\ origin.object # Nothing /\ origin.rest = <<>> =>
    outcome # "one stream at a time"

\* No text stops the program: but (. a) writes a tail to no cell.
NeverCrashes == outcome # "crash"

\* Every string is read to its end: but in one with an open bracket the new lines
\* after the end are passed over for ever.
StringsEnd == (outcome = "reading" /\ GFun = "string") ~> outcome # "reading"
=============================================================================
