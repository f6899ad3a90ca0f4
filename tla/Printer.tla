------------------------------- MODULE Printer -------------------------------
(* The objects that have a text, and the two texts they have: the one of print *)
(* (ulisp_print.cpp) and the indented one of pprint (ulisp_pretty.cpp).         *)
EXTENDS Integers, Sequences, SequencesExt

CONSTANT ppwidth  \* the columns pprint keeps to, 52

PPINDENT == 2

Nothing == [type |-> "nothing"]
EmptyList     == [type |-> "nil"]
Pair(a, d)   == [type |-> "pair", car |-> a, cdr |-> d]
Symbol(name) == IF name = <<"n">> THEN EmptyList ELSE [type |-> "symbol", name |-> name]
CharObject(ch)     == [type |-> "character", ch |-> ch]
BitArray(bits) == [type |-> "bits", bits |-> bits]
Quoted(x)    == Pair(Symbol(<<"q">>), Pair(x, EmptyList))
ListOf(items) == FoldRight(Pair, items, EmptyList)

atom(form) == form.type # "pair"
quoted(form) ==
  ~atom(form) /\ form.car = Symbol(<<"q">>) /\ ~atom(form.cdr) /\ form.cdr.cdr = EmptyList

(***************************************************************************)
(* On one line.                                                             *)
(***************************************************************************)
RECURSIVE printobject(_), plist(_)
printobject(form) ==
  CASE form.type = "nil"       -> <<"n">>
    [] form.type = "symbol"    -> form.name
    [] form.type = "character" -> <<"#", "\\", form.ch>>
    [] form.type = "bits"      -> <<"#", "*">> \o form.bits
    [] form.type = "pair"      -> <<"(">> \o plist(form) \o <<")">>
plist(form) ==
  printobject(form.car) \o
  CASE form.cdr.type = "nil"  -> <<>>
    [] form.cdr.type = "pair" -> <<" ">> \o plist(form.cdr)
    [] OTHER                  -> <<" ", ".", " ">> \o printobject(form.cdr)

(***************************************************************************)
(* Indented.                                                                *)
(***************************************************************************)
atomwidth(form) == Len(printobject(form))

\* What is left of w columns after a form, below 0 if they are too few.
RECURSIVE subwidth(_, _), subwidthlist(_, _)
subwidth(form, w) ==
  IF atom(form) THEN w - atomwidth(form)
  ELSE subwidthlist(IF quoted(form) THEN form.cdr.car ELSE form, w - 1)
subwidthlist(form, w) ==
  IF form = EmptyList \/ w < 0 THEN w
  ELSE IF atom(form) THEN w - (2 + atomwidth(form))
  ELSE subwidthlist(form.cdr, subwidth(form.car, w - 1))

\* The arguments that stay on the first line: two of defun, setq and their like, one
\* of let, when and theirs.
special(form) == CASE form.car = Symbol(<<"d">>) -> 2
                   [] form.car = Symbol(<<"w">>) -> 1
                   [] OTHER -> 0

Fits(form, lm) == subwidth(form, ppwidth - lm - PPINDENT) >= 0
Separator(oneline, lm) == IF oneline THEN <<" ">> ELSE <<"\n">> \o [k \in 1 .. lm |-> " "]

RECURSIVE superprint(_, _), superlist(_, _, _, _)
superprint(form, lm) ==
  IF atom(form) THEN printobject(form)
  ELSE IF quoted(form) THEN <<"'">> \o superprint(form.cdr.car, lm + 1)
  ELSE <<"(">> \o superlist(form, lm + PPINDENT, Fits(form, lm + PPINDENT), special(form)) \o <<")">>
superlist(form, lm, fits, stay) ==
  superprint(form.car, lm) \o
  CASE form.cdr.type = "nil"  -> <<>>
    [] form.cdr.type = "pair" -> Separator(stay > 0 \/ fits, lm)
                                 \o superlist(form.cdr, lm, fits, stay - 1)
    [] OTHER                  -> <<" ", ".", " ">> \o printobject(form.cdr)

\* pprintall prints a form that defines the variable again.
Definition(var, val) ==
  IF ~atom(val) /\ val.car = Symbol(<<"l">>)
  THEN Pair(Symbol(<<"d">>), Pair(var, val.cdr))
  ELSE ListOf(<<Symbol(<<"d">>), var, Quoted(val)>>)

(***************************************************************************)
(* What printing promises beside what Reader does.                          *)
(***************************************************************************)
\* A form that fits is printed on one line.
FitsOnOneLine(form, lm) ==
  ~atom(form) /\ ~quoted(form) /\ Fits(form, lm + PPINDENT) => ~Contains(superprint(form, lm), "\n")

\* And the line is not too long.
RECURSIVE Plain(_)
Plain(form) == atom(form) \/ (~quoted(form) /\ Plain(form.car) /\ Plain(form.cdr))
FitsInWidth(form, lm) ==
  ~atom(form) /\ Fits(form, lm + PPINDENT) => lm + Len(superprint(form, lm)) <= ppwidth
=============================================================================
