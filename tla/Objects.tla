------------------------------ MODULE Objects ------------------------------
(***************************************************************************)
(* What builtins ask of an object: whether it is eq or equal to another,     *)
(* and its length (ulisp_runtime_symbols.cpp, ulisp_builtins_core.cpp), and  *)
(* what is asked of the table of the builtins: the entry of a name, how many *)
(* arguments it takes, where a keyword may be given (ulisp_tables.cpp).      *)
(* A cell's first word is its type, or, when it is no type but an address or *)
(* 0, the car of a pair; the second word is its value, or the cdr.           *)
(***************************************************************************)
EXTENDS Integers, Sequences, FiniteSetsExt, SequencesExt

CONSTANTS
  Word,        \* second words, of numbers, floats, characters, symbols and streams alike
  Text,        \* of strings
  Main,        \* the two tables: sequences of
  Extension,   \*   [string, keyword, min, max: 7 is any number, context]
  MaxObjects,  \* bounds: the cells, and
  MaxArgs      \* the arguments of a call

ObjectsAssumption ==
  /\ {MaxObjects, MaxArgs} \union Word \subseteq Nat /\ Text \subseteq Seq(Nat)
  /\ \A k \in DOMAIN (Main \o Extension) :
       LET e == (Main \o Extension)[k]
       IN e.keyword \in BOOLEAN /\ {e.min, e.max} \subseteq 0 .. 7
          /\ e.context \in 0 .. 255

VARIABLES
  cells,   \* [first, second]: two words, the second of a string its text
  asked    \* the last call of a builtin: [name: asked for, nargs, context: of the call,
           \*  found: its entry, taken: whether it was let through]

vars == <<cells, asked>>

NULL == 0

\* The types are even, as addresses are, which are above them.
ZZERO == 0
SYMBOL == 2
NUMBER == 6
STREAM == 8
CHARACTER == 10
FLOAT == 12
STRINGS == 16
PAIR == 18
Typed == {NUMBER, FLOAT, CHARACTER, SYMBOL}
Pointer(x) == IF x = NULL THEN 0 ELSE PAIR + 2 * x
NoCall == [name |-> "", nargs |-> 0, context |-> 0, found |-> 0, taken |-> FALSE]

Init == cells = << >> /\ asked = NoCall

-----------------------------------------------------------------------------
(* Objects.                                                                *)

Object == DOMAIN cells \union {NULL}

type(x) == cells[x].first
car(x) == IF cells[x].first = 0 THEN NULL ELSE (cells[x].first - PAIR) \div 2
cdr(x) == IF cells[x].second = <<0>> THEN NULL ELSE (cells[x].second[1] - PAIR) \div 2
word(x) == cells[x].second
Is(x, kind) == x # NULL /\ type(x) = kind
consp(x) == x # NULL /\ (type(x) >= PAIR \/ type(x) = ZZERO)
listp(x) == x = NULL \/ type(x) >= PAIR \/ type(x) = ZZERO
atom(x) == ~consp(x)

\* What an argument is worth, or that it is refused: its second word, no Nat.
Refused == -1
checkinteger(x) == IF Is(x, NUMBER) THEN word(x)[1] ELSE Refused
checkbitvalue(x) == IF Is(x, NUMBER) /\ word(x)[1] \in {0, 1} THEN word(x)[1] ELSE Refused
checkchar(x) == IF Is(x, CHARACTER) THEN word(x)[1] ELSE Refused
isstream(x) == IF Is(x, STREAM) THEN word(x)[1] ELSE Refused
checkstring(x) == IF Is(x, STRINGS) THEN x ELSE Refused

New(cell) ==
  /\ Len(cells) < MaxObjects /\ asked = NoCall
  /\ cells' = Append(cells, cell)
  /\ UNCHANGED asked

\* Where a cell is makes no difference: pairs are built last.
BeforePairs == \A x \in DOMAIN cells : ~consp(x)

\* Symbols are interned: there is one of a name.
Atom ==
  /\ BeforePairs
  /\ \E kind \in Typed \union {STREAM}, w \in Word :
       /\ kind = SYMBOL =>
            \A x \in DOMAIN cells : ~(type(x) = SYMBOL /\ word(x) = <<w>>)
       /\ New([first |-> kind, second |-> <<w>>])

String == BeforePairs /\ \E text \in Text : New([first |-> STRINGS, second |-> text])

fn_cons ==
  \E x, y \in Object : New([first |-> Pointer(x), second |-> <<Pointer(y)>>])

\* Mutant: the type is not looked at when the words are the same.
eq_Word(x, y) ==
  \/ x = y
  \/ /\ x # NULL /\ y # NULL
     /\ type(x) \in Typed /\ type(y) \in Typed
     /\ word(x) = word(y)

\* The same cell, or two of one type with the same word.
eq(x, y) ==
  \/ x = y
  \/ /\ x # NULL /\ y # NULL
     /\ type(x) = type(y) /\ type(x) \in Typed
     /\ word(x) = word(y)

\* Strings by their characters, pairs part by part.
equal(x, y) ==
  LET same[a, b \in Object] ==
        IF Is(a, STRINGS) /\ Is(b, STRINGS) THEN word(a) = word(b)
        ELSE IF consp(a) /\ consp(b) THEN same[car(a), car(b)] /\ same[cdr(a), cdr(b)]
        ELSE eq(a, b)
  IN  same[x, y]

\* -1 where it is an error: "list must be proper".
listlength(list) ==
  LET length[x \in Object] ==
        IF x = NULL THEN 0
        ELSE IF ~listp(x) \/ length[cdr(x)] = -1 THEN -1 ELSE length[cdr(x)] + 1
  IN  length[list]

fn_length(x) ==
  IF listp(x) THEN listlength(x)
  ELSE IF Is(x, STRINGS) THEN Len(word(x))
  ELSE -1

\* The list in a place of a form that must have one, of min elements to max.
checkarguments(args, min, max) ==
  IF args = NULL \/ ~listp(car(args)) THEN FALSE ELSE listlength(car(args)) \in min .. max

-----------------------------------------------------------------------------
(* The table.  A builtin is numbered through the first table and the second.*)

tablesize(n) == Len(IF n = 0 THEN Main ELSE Extension)
table(name) == IF name < tablesize(0) THEN Main[name + 1]
               ELSE Extension[name - tablesize(0) + 1]

ENDFUNCTIONS == tablesize(0) + tablesize(1)

\* The extension's entries come first.
lookupbuiltin(c) ==
  LET here(t) == {i \in DOMAIN t : t[i].string = c}
  IN IF here(Extension) # {} THEN tablesize(0) + Min(here(Extension)) - 1
     ELSE IF here(Main) # {} THEN Min(here(Main)) - 1
     ELSE ENDFUNCTIONS

\* One byte: min and max of three bits each, or a keyword's context.
getminmax(name) ==
  LET e == table(name) IN IF e.keyword THEN e.context ELSE 8 * e.min + e.max

checkminmax(name, nargs) ==
  LET minmax == getminmax(name)
  IN /\ nargs >= (minmax \div 8) % 8
     /\ minmax % 8 = 7 \/ nargs <= minmax % 8

\* A keyword of no context may be given anywhere.
checkkeyword(name, context) == getminmax(name) \in {0, context}

Names == {Main[k].string : k \in DOMAIN Main} \union {Extension[k].string : k \in DOMAIN Extension}

Call ==
  /\ cells = << >>
  /\ \E c \in Names, nargs \in 0 .. MaxArgs, context \in 1 .. 2 :
       LET name == lookupbuiltin(c)
       IN asked' = [name |-> c, nargs |-> nargs, context |-> context, found |-> name,
                    taken |-> IF table(name).keyword THEN checkkeyword(name, context)
                              ELSE checkminmax(name, nargs)]
  /\ UNCHANGED cells

Next == Atom \/ String \/ fn_cons \/ Call

Spec == Init /\ [][Next]_vars

-----------------------------------------------------------------------------
(* Properties.                                                             *)

\* An object as a sequence that has all of it, its cells' places apart; a stream has
\* no more than its place.
Spelled ==
  LET spelled[x \in Object] ==
        IF x = NULL THEN <<0>>
        ELSE IF consp(x) THEN <<PAIR>> \o spelled[car(x)] \o spelled[cdr(x)] \o <<-1>>
        ELSE IF type(x) = STREAM THEN <<STREAM, x>>
        ELSE <<type(x), Len(word(x))>> \o word(x)
  IN  spelled

\* Objects are equal when they are written alike; they are eq when they also are one
\* cell, or neither a pair nor a string.  A length is the number of pairs to the end.
EqualIsLooksAlike ==
  \A x, y \in Object :
    LET alike == Spelled[x] = Spelled[y]
    IN /\ equal(x, y) <=> alike
       /\ eq(x, y) <=> alike /\ (x = y \/ type(x) \in Typed)

LengthCountsPairs ==
  \A x \in DOMAIN cells : consp(x) /\ fn_length(x) # -1 =>
    fn_length(x) = fn_length(cdr(x)) + 1 /\ (cdr(x) # NULL => consp(cdr(x)))

\* An object is taken by one of the checks, or is a list, a float or a symbol; a list of
\* arguments is let through when it has as many as are wanted.
KindsAreApart ==
  \A x \in DOMAIN cells :
    /\ Cardinality({k \in 1 .. 4 :
         <<checkinteger(x), checkchar(x), isstream(x), checkstring(x)>>[k] # Refused})
         = IF consp(x) \/ Is(x, FLOAT) \/ Is(x, SYMBOL) THEN 0 ELSE 1
    /\ checkbitvalue(x) # Refused => checkbitvalue(x) = checkinteger(x)
    /\ \A min, max \in 0 .. 2 : consp(x) =>
         (checkarguments(x, min, max) <=>
            car(x) \in {NULL} \union {y \in DOMAIN cells : consp(y)} /\ fn_length(car(x)) \in min .. max)

\* A name's entry is one of that name, the extension's if there is one, and a call is
\* let through by what that entry says.
CallsAreChecked ==
  asked # NoCall =>
    LET e == table(asked.found)
    IN /\ e.string = asked.name
       /\ (\E k \in DOMAIN Extension : Extension[k].string = asked.name)
            => asked.found >= tablesize(0)
       /\ asked.taken <=>
            IF e.keyword THEN e.context \in {0, asked.context}
            ELSE asked.nargs >= e.min /\ (asked.nargs <= e.max \/ e.max = 7)

ObjectsTell == EqualIsLooksAlike /\ LengthCountsPairs /\ KindsAreApart /\ CallsAreChecked
=============================================================================
