------------------------------- MODULE MCData -------------------------------
(* Model-checking instance of the modules about data: numbers, strings,       *)
(* arrays, list functions, the sorting of lists, the names of symbols, the    *)
(* reader and the editor.  They share nothing; part says which of them a     *)
(* behaviour is of, and the variables of the others are left alone.          *)
EXTENDS Integers, Sequences

CONSTANTS
  Bits, Mantissa, MaxArgs, Float, Other, Tee, Error,
  Char, Quote, Backslash, MaxLength,
  Value, IntBits, MaxSize, MaxRank, MaxRead, Nil,
  MaxCells, Key,
  Letters, MaxText, MaxReads, ppwidth, MaxEdits,
  Literals, MaxItems, MaxOutput, SigDigits,
  Atom, MaxOps, MaxTurns,
  WordBits, Radix, FirstLetter, PackLength, ChunkLength, Base, MaxName, MaxDigits, MaxTokens

VARIABLES
  part,
  call,
  cells, texts,
  array, content, dimlist,
  key, cdr, ptr, go, pred, calls, state,
  streams, GFun, LastChar, stack, value, outcome, reads, origin,
  heap, held, shown, lent, ops, mapping,
  symbols, tokens, number,
  bound, editing, EXITEDITOR, fun, waiting, edits, meant, back,
  form, given, formatstr, n, args, save, saved, bra, tilde, mute, comma, quote, width, pad,
  output, status,
  written, spelt, read

\* A builtin with a short name, a keyword, and one whose name is no packed one.
Table == <<<<"a">>, <<":", "a">>, <<"a", "1", "-">>>>
Chars == {"1", "a", "A", "-", ":"}

Numbers == INSTANCE Arithmetic
Text    == INSTANCE Strings
Tables  == INSTANCE Arrays
Sorting == INSTANCE Sort
Reading == INSTANCE Reader
Listing == INSTANCE Lists WITH call <- mapping
Printed == INSTANCE Printer
Editing == INSTANCE Editor
  WITH LastChar <- back,
       Typed <- {Printed!Symbol(<<"a">>), Printed!ListOf(<<Printed!EmptyList, Printed!Symbol(<<"a">>)>>)}
Formatting == INSTANCE Format
\* Floats of up to five digits, of which three are printed.
Spelling == INSTANCE Literals
  WITH Least <- -2, Most <- 2, Exponents <- -6 .. 4, text <- spelt,
       Mantissas <- (0 .. 1105) \union (1990 .. 2010) \union (9940 .. 10001) \union (99940 .. 99999)
Naming  == INSTANCE Tokens WITH Bits <- WordBits, MaxRead <- MaxTokens

ASSUME PartsAssumption ==
  /\ Numbers!ArithmeticAssumption /\ Text!StringAssumption
  /\ Tables!ArrayAssumption /\ Sorting!SortAssumption
  /\ Listing!ListsAssumption /\ Naming!TokenAssumption
  /\ Spelling!LiteralsAssumption

numbers == <<call>>
text    == <<cells, texts>>
tables  == <<array, content, dimlist>>
sorting == <<key, cdr, ptr, go, pred, calls, state>>
reading == <<streams, GFun, LastChar, stack, value, outcome, reads, origin>>
listing == <<heap, held, shown, lent, ops, mapping>>
naming  == <<symbols, tokens, number>>
edited  == <<bound, editing, EXITEDITOR, fun, waiting, edits, meant, back>>
formatted == <<form, given, formatstr, n, args, save, saved, bra, tilde, mute, comma, quote,
               width, pad, output, status>>
spelling == <<written, spelt, read>>
vars    == <<part, numbers, text, tables, sorting, reading, listing, naming, edited, formatted, spelling>>

\* Lists and texts are only chosen where they are used.
IdleSorting == /\ key = "idle" /\ cdr = "idle" /\ ptr = "idle" /\ go = "idle"
               /\ pred = "idle" /\ calls = "idle" /\ state = "idle"
IdleReading == /\ streams = "idle" /\ GFun = "idle" /\ LastChar = "idle" /\ stack = "idle"
               /\ value = "idle" /\ outcome = "idle" /\ reads = "idle" /\ origin = "idle"
IdleListing == /\ heap = "idle" /\ held = "idle" /\ shown = "idle" /\ lent = "idle"
               /\ ops = "idle" /\ mapping = "idle"
IdleEditing == /\ bound = "idle" /\ editing = "idle" /\ EXITEDITOR = "idle" /\ fun = "idle"
               /\ waiting = "idle" /\ edits = "idle" /\ meant = "idle" /\ back = "idle"
IdleFormat ==  /\ form = "idle" /\ given = "idle" /\ formatstr = "idle" /\ n = "idle"
               /\ args = "idle" /\ save = "idle" /\ saved = "idle" /\ bra = "idle"
               /\ tilde = "idle" /\ mute = "idle" /\ comma = "idle" /\ quote = "idle"
               /\ width = "idle" /\ pad = "idle" /\ output = "idle" /\ status = "idle"

Init ==
  /\ part \in {"numbers", "text", "tables", "sorting", "reading", "listing", "naming", "editing",
             "formatting", "spelling"}
  /\ Numbers!Init /\ Text!Init /\ Tables!Init /\ Naming!Init /\ Spelling!Init
  /\ IF part = "sorting" THEN Sorting!Init ELSE IdleSorting
  /\ IF part = "reading" THEN Reading!Init ELSE IdleReading
  /\ IF part = "listing" THEN Listing!Init ELSE IdleListing
  /\ IF part = "editing" THEN Editing!Init ELSE IdleEditing
  /\ IF part = "formatting" THEN Formatting!Init ELSE IdleFormat

Next ==
  \/ part = "numbers" /\ Numbers!Next
     /\ UNCHANGED <<part, text, tables, sorting, reading, listing, naming, edited, formatted,
                  spelling>>
  \/ part = "text" /\ Text!Next
     /\ UNCHANGED <<part, numbers, tables, sorting, reading, listing, naming, edited, formatted,
                  spelling>>
  \/ part = "tables" /\ Tables!Next
     /\ UNCHANGED <<part, numbers, text, sorting, reading, listing, naming, edited, formatted,
                  spelling>>
  \/ part = "sorting" /\ Sorting!Next
     /\ UNCHANGED <<part, numbers, text, tables, reading, listing, naming, edited, formatted,
                  spelling>>
  \/ part = "reading" /\ Reading!Next
     /\ UNCHANGED <<part, numbers, text, tables, sorting, listing, naming, edited, formatted,
                  spelling>>
  \/ part = "listing" /\ Listing!Next
     /\ UNCHANGED <<part, numbers, text, tables, sorting, reading, naming, edited, formatted,
                  spelling>>
  \/ part = "naming" /\ Naming!Next
     /\ UNCHANGED <<part, numbers, text, tables, sorting, reading, listing, edited, formatted,
                  spelling>>
  \/ part = "editing" /\ Editing!Next
     /\ UNCHANGED <<part, numbers, text, tables, sorting, reading, listing, naming, formatted,
                  spelling>>
  \/ part = "formatting" /\ Formatting!Next
     /\ UNCHANGED <<part, numbers, text, tables, sorting, reading, listing, naming, edited,
                  spelling>>
  \/ part = "spelling" /\ Spelling!Next
     /\ UNCHANGED <<part, numbers, text, tables, sorting, reading, listing, naming, edited, formatted>>

\* What Reader and Format ask for, of the behaviours that are their own.
Spec == Init /\ [][Next]_vars
        /\ WF_reading(part = "reading" /\ (Reading!NextItem \/ Reading!Return))
        /\ WF_formatted(part = "formatting" /\ Formatting!Next)

\* The properties, as the modules state them.
NumbersAreExact     == Numbers!NumbersAreExact
StringsAreText      == /\ Text!StringsAreText
                       /\ part = "formatting" => Formatting!FormatsAsDirected
\* Lists, and the arrays that are made of them.
ListsHold           == /\ Tables!ArraysAreTables
                       /\ part = "sorting" => Sorting!ListsAreSorted
                       /\ part = "listing" => Listing!ListsHold
                       /\ part = "editing" => Editing!EditsInPlace
ReadsWhatWasPrinted == /\ part = "reading" => Reading!ReadsWhatWasPrinted /\ Reading!KeepsToTheWidth
                       /\ Naming!TokensReadBack /\ Spelling!LiteralsReadBack
ReadingEnds         == /\ (part = "reading" /\ Reading!Printed) ~> outcome # "reading"
                       /\ (part = "formatting" /\ Formatting!Ends) ~> status # "formatting"

\* What does not hold.
PadsToWidth    == part = "formatting" => Formatting!PadsToWidth
ModIsModulo    == Numbers!ModIsModulo
RoundKeepsIntegers == Numbers!RoundKeepsIntegers
IndexIsNatural == Text!IndexIsNatural
NeverCrashes   == part = "reading" => Reading!NeverCrashes
ApplyKeepsList == part = "listing" => Listing!ApplyKeepsList
MappingReturns == part = "listing" => Listing!MappingReturns
LinesAreRead   == part = "reading" => Reading!LinesAreRead
ListIsKept     == Tables!ListIsKept
NothingIsLeftOver == part = "editing" => Editing!NothingIsLeftOver
LargeIsFloat   == Naming!LargeIsFloat
FloatsStayFloats == Spelling!FloatsStayFloats
CaseIsFolded   == Naming!CaseIsFolded
StringsEnd     == (part = "reading" /\ outcome = "reading" /\ GFun = "string") ~> outcome # "reading"
=============================================================================
