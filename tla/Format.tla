-------------------------------- MODULE Format --------------------------------
(* fn_format (ulisp_builtins_system.cpp) a character at a time: the directive   *)
(* that is being read, the arguments that are left, and the one level of        *)
(* iteration, which goes back in the string and may fall silent to its end.     *)
EXTENDS Integers, Sequences, SequencesExt

CONSTANTS
  Literals,  \* characters that stand for themselves
  MaxItems,  \* bounds: literals and directives in a string without iteration,
  MaxOutput  \* and the characters that are written

(***************************************************************************)
(* Arguments: what they print as, readably and not, and in base 16, and the    *)
(* elements of a list, of which nil is one.                                  *)
(***************************************************************************)
Arg(text, readable, hex) ==
  [text |-> text, readable |-> readable, hex |-> hex, list |-> FALSE, items |-> <<>>]
Fifteen  == Arg(<<"1", "5">>, <<"1", "5">>, <<"f">>)
Letter   == Arg(<<"z">>, <<"\"", "z", "\"">>, <<>>)
ListArg(items) == [Arg(<<"(", ")">>, <<"(", ")">>, <<>>) EXCEPT !.list = TRUE, !.items = items]
Lists    == {ListArg(<<>>), ListArg(<<Letter>>), ListArg(<<Fifteen, Letter>>)}
Args     == {<<>>, <<Letter>>, <<Fifteen, Letter>>}
            \cup {<<list>> : list \in Lists} \cup {<<list, Letter>> : list \in Lists}

Spaces(k, pad) == [j \in 1 .. k |-> pad]
Room(width, text) == IF width < Len(text) THEN 0 ELSE width - Len(text)

(***************************************************************************)
(* What a string says: literals, directives with a width and a padding        *)
(* character, ~%, ~~, ~^ and, around some of those, one iteration.  ~& is left  *)
(* out: it looks at what was printed last, to whatever stream.                *)
(***************************************************************************)
Item(kind, ch, width, pad) == [kind |-> kind, ch |-> ch, width |-> width, pad |-> pad]
Simple == {Item("literal", ch, 0, " ") : ch \in Literals}
          \cup {Item("directive", ch, width, " ") : ch \in {"a", "s", "d", "x"}, width \in {0, 3}}
          \cup {Item("directive", "d", 3, "-"), Item("newline", "%", 0, " "), Item("tilde", "~", 0, " ")}
Exit   == Item("exit", "^", 0, " ")
A == Item("directive", "a", 0, " ")
Consuming(body) == \E k \in DOMAIN body : body[k].kind = "directive"
Bodies == {<<i>> : i \in Simple}
          \cup {<<i, j>> : i \in Simple, j \in Simple \cup {Exit}} \cup {<<Exit, i>> : i \in Simple}
          \cup {<<i, Exit, j>> : i, j \in Simple}
Plain  == SeqOf(Simple, MaxItems)
Form(before, body, after) == [before |-> before, body |-> body, after |-> after]
Forms  == {Form(before, <<>>, <<>>) : before \in Plain}
          \cup {Form(<<>>, body, after) : body \in Bodies, after \in {<<>>, <<A>>}}

Written(item) ==
  CASE item.kind = "literal" -> <<item.ch>>
    [] item.width = 0        -> <<"~", item.ch>>
    [] item.pad # " "        -> <<"~", "3", ",", "'", item.pad, item.ch>>
    [] OTHER                 -> <<"~", "3", item.ch>>
AllWritten(items) == FlattenSeq([k \in DOMAIN items |-> Written(items[k])])
Text(form) ==
  AllWritten(form.before)
  \o (IF form.body = <<>> THEN <<>> ELSE <<"~", "{">> \o AllWritten(form.body) \o <<"~", "}">>)
  \o AllWritten(form.after)

VARIABLES
  form, given,  \* what the string was written from, and the arguments
  formatstr, n, \* the string and the place in it
  args,         \* the arguments that are left, of the list inside an iteration
  save,         \* and those after the list; saved says whether there is an iteration
  saved, bra,   \* that began at bra
  tilde, mute, comma, quote, width, pad,
  output, status  \* status is "formatting", "done" or the error

locals == <<n, args, save, saved, bra, tilde, mute, comma, quote, width, pad>>
vars == <<form, given, formatstr, locals, output, status>>

Start(f, a) ==
  /\ form = f /\ given = a /\ formatstr = Text(f) /\ n = 1 /\ args = a
  /\ save = <<>> /\ saved = FALSE /\ bra = 0
  /\ tilde = FALSE /\ mute = FALSE /\ comma = FALSE /\ quote = FALSE /\ width = 0 /\ pad = " "
  /\ output = <<>> /\ status = "formatting"
Init == \E f \in Forms, a \in Args : Start(f, a)

-----------------------------------------------------------------------------
Same(these) == UNCHANGED <<form, given, formatstr>> /\ UNCHANGED these
Put(text) == output' = output \o text
Next1 == n' = n + 1 /\ UNCHANGED status
DirectiveDone == tilde' = FALSE /\ Next1

\* formaterr: a message, and the jump to the handler.
formaterr(message) == status' = message /\ Same(<<locals, output>>)

\* ~} goes back for the arguments that are left.
Ket ==
  IF ~saved THEN formaterr("no matching ~{")
  ELSE /\ mute' = FALSE /\ tilde' = FALSE /\ UNCHANGED status
       /\ IF args = <<>> THEN args' = save /\ save' = <<>> /\ saved' = FALSE /\ n' = n + 1
          ELSE n' = bra + 1 /\ UNCHANGED <<args, save, saved>>
       /\ Same(<<bra, comma, quote, width, pad, output>>)

\* Mutant: arguments that are at an end do not silence what is left.
Hat_Loud == DirectiveDone /\ Same(<<args, save, saved, bra, mute, comma, quote, width, pad, output>>)
Hat == /\ mute' = (mute \/ (saved /\ args = <<>>)) /\ DirectiveDone
       /\ Same(<<args, save, saved, bra, comma, quote, width, pad, output>>)

Bra ==
  IF saved THEN formaterr("can't nest ~{")
  ELSE IF args = <<>> THEN formaterr("missing argument")
  ELSE IF ~args[1].list THEN formaterr("not a list")
  ELSE /\ save' = Tail(args) /\ saved' = TRUE /\ args' = args[1].items /\ bra' = n
       /\ mute' = (args[1].items = <<>>) /\ DirectiveDone
       /\ Same(<<comma, quote, width, pad, output>>)

\* An argument with its padding, on the side the directive says: the width is that
\* of what would be printed readably.
Padded(ch, arg, w, p) ==
  LET integer == arg.hex # <<>>
      spaces  == Spaces(Room(w, IF ch = "x" /\ integer THEN arg.hex ELSE arg.readable), p) IN
  CASE ch = "a" -> arg.text \o spaces
    [] ch = "s" -> arg.readable \o spaces
    [] ch = "x" /\ integer -> spaces \o arg.hex
    [] OTHER    -> spaces \o arg.text

Directive(ch) ==
  IF args = <<>> THEN formaterr("missing argument")
  ELSE /\ Put(Padded(ch, args[1], width, pad)) /\ args' = Tail(args) /\ DirectiveDone
       /\ Same(<<save, saved, bra, mute, comma, quote, width, pad>>)

AfterTilde(ch) ==
  CASE ch = "}" -> Ket
    \* What is muted is passed over, the tilde with it.
    [] ch # "}" /\ mute -> Next1 /\ Same(<<args, save, saved, bra, tilde, mute, comma, quote, width, pad, output>>)
    [] ~mute /\ comma /\ quote ->
         /\ pad' = ch /\ comma' = FALSE /\ quote' = FALSE /\ Next1
         /\ Same(<<args, save, saved, bra, tilde, mute, width, output>>)
    [] OTHER ->
         CASE ch = "'" -> IF ~comma THEN formaterr("quote not valid")
                          ELSE /\ quote' = TRUE /\ Next1
                               /\ Same(<<args, save, saved, bra, tilde, mute, comma, width, pad, output>>)
           [] ch = "3" -> /\ width' = width * 10 + 3 /\ Next1
                          /\ Same(<<args, save, saved, bra, tilde, mute, comma, quote, pad, output>>)
           [] ch = "," -> /\ comma' = TRUE /\ Next1
                          /\ Same(<<args, save, saved, bra, tilde, mute, quote, width, pad, output>>)
           [] ch \in {"%", "~"} ->
                          /\ Put(IF ch = "%" THEN <<"\n">> ELSE <<"~">>) /\ DirectiveDone
                          /\ Same(<<args, save, saved, bra, mute, comma, quote, width, pad>>)
           [] ch = "^" -> Hat
           [] ch = "{" -> Bra
           [] ch \in {"a", "s", "d", "x"} -> Directive(ch)
           [] OTHER    -> formaterr("invalid directive")

NoTilde(ch) ==
  IF ch = "~"
  THEN /\ tilde' = TRUE /\ pad' = " " /\ width' = 0 /\ comma' = FALSE /\ quote' = FALSE /\ Next1
       /\ Same(<<args, save, saved, bra, mute, output>>)
  ELSE /\ (IF mute THEN UNCHANGED output ELSE Put(<<ch>>)) /\ Next1
       /\ Same(<<args, save, saved, bra, tilde, mute, comma, quote, width, pad>>)

fn_format ==
  /\ status = "formatting" /\ n <= Len(formatstr) /\ Len(output) < MaxOutput
  /\ IF tilde THEN AfterTilde(formatstr[n]) ELSE NoTilde(formatstr[n])

End == /\ status = "formatting" /\ n > Len(formatstr)
       /\ status' = "done" /\ UNCHANGED <<form, given, formatstr, locals, output>>

Next == fn_format \/ End
Spec == Init /\ [][Next]_vars /\ WF_vars(Next)

-----------------------------------------------------------------------------
(* What a string means, by its structure.                                   *)
Meaning(out, left, error, stopped) ==
  [out |-> out, left |-> left, error |-> error, stopped |-> stopped]

\* One item, of an iteration if inside.
Said(m, item, inside) ==
  IF m.error # "" \/ m.stopped THEN m
  ELSE CASE item.kind = "literal" -> [m EXCEPT !.out = Append(@, item.ch)]
         [] item.kind = "newline" -> [m EXCEPT !.out = Append(@, "\n")]
         [] item.kind = "tilde"   -> [m EXCEPT !.out = Append(@, "~")]
         [] item.kind = "exit"    -> [m EXCEPT !.stopped = inside /\ m.left = <<>>]
         [] OTHER -> IF m.left = <<>> THEN [m EXCEPT !.error = "missing argument"]
                     ELSE [m EXCEPT !.out = @ \o Padded(item.ch, m.left[1], item.width, item.pad),
                                    !.left = Tail(@)]
AllSaid(m, items, inside) == FoldLeft(LAMBDA a, item : Said(a, item, inside), m, items)

RECURSIVE Iterated(_, _)
Iterated(m, body) ==
  IF m.left = <<>> \/ m.error # "" THEN m ELSE Iterated(AllSaid(m, body, TRUE), body)

Meant ==
  LET m == AllSaid(Meaning(<<>>, given, "", FALSE), form.before, FALSE) IN
  IF m.error # "" \/ form.body = <<>> THEN m
  ELSE IF m.left = <<>> THEN [m EXCEPT !.error = "missing argument"]
  ELSE IF ~m.left[1].list THEN [m EXCEPT !.error = "not a list"]
  ELSE LET i == Iterated(Meaning(m.out, m.left[1].items, "", FALSE), form.body)
       IN  AllSaid(Meaning(i.out, Tail(m.left), i.error, FALSE), form.after, FALSE)

\* Formatting writes what the string means, up to the error if there is one; only an
\* iteration that takes no argument does not end.
Ends == form.body = <<>> \/ Consuming(form.body) \/ given = <<>> \/ given[1].items = <<>>
FormatsAsDirected ==
  status # "formatting" /\ Ends =>
    output = Meant.out /\ status = IF Meant.error = "" THEN "done" ELSE Meant.error

\* It does end.
FormattingEnds == Ends ~> status # "formatting"

\* What does not hold.
FormattingAlwaysEnds == TRUE ~> status # "formatting"

\* A width is a width: but that of a string counts its quotes.
PadsToWidth ==
  status = "done" /\ form.body = <<>> /\ Len(form.before) = 1 /\ form.before[1].width > 0 =>
    Len(output) >= form.before[1].width
=============================================================================
