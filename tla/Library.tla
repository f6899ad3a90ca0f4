------------------------------ MODULE Library ------------------------------
(***************************************************************************)
(* The Lisp library and what is known of names: loading it whole, require    *)
(* for one definition of it (ulisp_reader.cpp, ulisp_builtins_system.cpp),    *)
(* globals, apropos and documentation (ulisp_runtime_data.cpp).  There is     *)
(* one place in the library, GlobalStringIndex, for all that read it, and     *)
(* what is read is evaluated at once; a defvar's value may require again.     *)
(* The library as it stands is empty, and nothing loads it when the program   *)
(* starts: a filled one is what defining lisplibrary is for.                  *)
(***************************************************************************)
EXTENDS Naturals, Sequences, FiniteSetsExt, SequencesExt

CONSTANTS
  Libraries,   \* each a sequence of [name, needs: the names its value requires]
  Builtins,    \* the table: a sequence of [name, doc]
  Parts,       \* what apropos is asked for, and
  PartLength,  \*   the most characters of that (16), and
  NameLength,  \*   of a variable's name (32), that it has room for
  MaxDepth,    \* bounds: calls of require in one another, and
  MaxGlobals   \* the variables

LibraryAssumption == {PartLength, NameLength, MaxDepth, MaxGlobals} \subseteq Nat

VARIABLES
  library,
  GlobalEnv,          \* [name, doc], the newest first; doc "none" if it has none
  GlobalStringIndex,  \* the definitions of the library before the place
  stack,              \* [op, name, needs: yet to be required by the line under
                      \*  evaluation, line: its number or 0], the innermost first
  answer              \* of the last of these at the prompt: [op, name, value], op being
                      \* the error where there is one

vars == <<library, GlobalEnv, GlobalStringIndex, stack, answer>>

Defined == {GlobalEnv[k].name : k \in DOMAIN GlobalEnv}
Here == {library[k].name : k \in DOMAIN library}
NoAnswer == [op |-> "none", name |-> << >>, value |-> << >>]

Init ==
  /\ library \in Libraries
  /\ GlobalEnv = << >> /\ GlobalStringIndex = 0 /\ stack = << >> /\ answer = NoAnswer

Frame(op, name) == [op |-> op, name |-> name, needs |-> << >>, line |-> 0]

\* Tells the prompt, or goes on with the form that asked.
Return(frame, value) ==
  /\ stack' = Tail(stack)
  /\ answer' = IF Len(stack) = 1 THEN [op |-> frame.op, name |-> frame.name, value |-> value]
               ELSE answer

-----------------------------------------------------------------------------
(* Loading and requiring.                                                  *)

loadfromlibrary ==
  /\ stack = << >>
  /\ GlobalStringIndex' = 0
  /\ stack' = <<Frame("load", << >>)>> /\ answer' = NoAnswer
  /\ UNCHANGED <<library, GlobalEnv>>

\* Nothing is read for a name that is defined.
Require(name, rest) ==
  IF name \in Defined
  THEN stack' = rest /\ UNCHANGED GlobalStringIndex
  ELSE stack' = <<Frame("require", name)>> \o rest /\ GlobalStringIndex' = 0

fn_require ==
  /\ stack = << >>
  /\ \E name \in Here \union Parts :
       /\ Require(name, << >>)
       /\ answer' = IF name \in Defined THEN [op |-> "require", name |-> name, value |-> <<"nil">>]
                    ELSE NoAnswer
  /\ UNCHANGED <<library, GlobalEnv>>

Reading == stack # << >> /\ Head(stack).line = 0

\* Mutant: require goes on to the definition after the one it wants.
ReadLine_Next ==
  /\ Reading /\ GlobalStringIndex < Len(library)
  /\ GlobalStringIndex' = GlobalStringIndex + 1
  /\ LET k == GlobalStringIndex + 1  frame == Head(stack)
     IN stack' = IF frame.op = "load" \/ (k > 1 /\ library[k - 1].name = frame.name)
                 THEN [stack EXCEPT ![1].line = k, ![1].needs = library[k].needs]
                 ELSE stack
  /\ UNCHANGED <<library, GlobalEnv, answer>>

\* readmain(glibrary): loading evaluates every line, requiring the one it wants.
ReadLine ==
  /\ Reading /\ GlobalStringIndex < Len(library)
  /\ GlobalStringIndex' = GlobalStringIndex + 1
  /\ LET k == GlobalStringIndex + 1  frame == Head(stack)
     IN stack' = IF frame.op = "load" \/ library[k].name = frame.name
                 THEN [stack EXCEPT ![1].line = k, ![1].needs = library[k].needs]
                 ELSE stack
  /\ UNCHANGED <<library, GlobalEnv, answer>>

EndOfLibrary ==
  /\ Reading /\ GlobalStringIndex = Len(library)
  /\ Return(Head(stack), <<"nil">>)
  /\ UNCHANGED <<library, GlobalEnv, GlobalStringIndex>>

\* The value of the line asks for what it needs, before the line defines its name.
Need ==
  /\ stack # << >> /\ Head(stack).line # 0 /\ Head(stack).needs # << >>
  /\ Len(stack) < MaxDepth
  /\ Require(Head(Head(stack).needs), [stack EXCEPT ![1].needs = Tail(@)])
  /\ UNCHANGED <<library, GlobalEnv, answer>>

Push(pair) ==
  GlobalEnv' = IF pair.name \in Defined
               THEN [k \in DOMAIN GlobalEnv |->
                       IF GlobalEnv[k].name = pair.name THEN pair ELSE GlobalEnv[k]]
               ELSE <<pair>> \o GlobalEnv

\* Then require returns, and loading reads on from where the place is now.
Define ==
  /\ stack # << >> /\ Head(stack).line # 0 /\ Head(stack).needs = << >>
  /\ Push([name |-> library[Head(stack).line].name, doc |-> "none"])
  /\ IF Head(stack).op = "require" THEN Return(Head(stack), <<"t">>)
     ELSE stack' = [stack EXCEPT ![1].line = 0] /\ UNCHANGED answer
  /\ UNCHANGED <<library, GlobalStringIndex>>

-----------------------------------------------------------------------------
(* What is known of names.                                                 *)

Prompt(op, name, value) ==
  /\ stack = << >> /\ answer' = [op |-> op, name |-> name, value |-> value]
  /\ UNCHANGED <<library, GlobalEnv, GlobalStringIndex, stack>>

\* defun with a documentation string, or defvar.
UserDefines ==
  /\ stack = << >> /\ Len(GlobalEnv) < MaxGlobals
  /\ \E name \in Parts, doc \in {"none", "user"} : Push([name |-> name, doc |-> doc])
  /\ answer' = NoAnswer /\ UNCHANGED <<library, GlobalStringIndex, stack>>

\* It reads the library to its end.
fn_listlibrary ==
  /\ stack = << >> /\ GlobalStringIndex' = Len(library)
  /\ answer' = [op |-> "list-library", name |-> << >>,
                value |-> [k \in DOMAIN library |-> library[k].name]]
  /\ UNCHANGED <<library, GlobalEnv, stack>>

fn_globals == Prompt("globals", << >>, [k \in DOMAIN GlobalEnv |-> GlobalEnv[k].name])

strstr(full, part) == \E i \in 0 .. Len(full) - Len(part) :
                        SubSeq(full, i + 1, i + Len(part)) = part

\* The variables before the first whose name has no room.
TooLong == {k \in DOMAIN GlobalEnv : Len(GlobalEnv[k].name) > NameLength}
Reached == IF TooLong = {} THEN GlobalEnv ELSE SubSeq(GlobalEnv, 1, Min(TooLong) - 1)

\* The user's names first.  A part or a name that has no room is an error; what apropos
\* has told by then is told.
apropos(op, part) ==
  LET named(entries) == LET those == SelectSeq(entries, LAMBDA e : strstr(e.name, part))
                        IN [k \in DOMAIN those |-> those[k].name]
      noroom(names) == Prompt("no room for string", part, names)
  IN IF Len(part) > PartLength THEN noroom(<< >>)
     ELSE IF TooLong # {} THEN noroom(IF op = "apropos" THEN named(Reached) ELSE << >>)
     ELSE Prompt(op, part, named(GlobalEnv \o Builtins))

fn_aproposlist == \E part \in Parts : apropos("apropos-list", part)

\* Tells them, and returns nothing.
fn_apropos == \E part \in Parts : apropos("apropos", part)

\* Of a user's function with a string in its place; else of the builtin of the name.
documentation(arg) ==
  LET users == {k \in DOMAIN GlobalEnv : GlobalEnv[k].name = arg /\ GlobalEnv[k].doc # "none"}
      built == {k \in DOMAIN Builtins : Builtins[k].name = arg}
  IN IF users # {} THEN <<GlobalEnv[Min(users)].doc>>
     ELSE IF built # {} THEN <<Builtins[Min(built)].doc>> ELSE <<"nil">>

fn_documentation == \E name \in Parts : Prompt("documentation", name, documentation(name))

\* Tells it, if there is one, of a name that is not evaluated.
sp_help == \E name \in Parts : Prompt("help", name, documentation(name))

Next ==
  \/ loadfromlibrary \/ fn_require \/ ReadLine \/ EndOfLibrary \/ Need \/ Define
  \/ UserDefines \/ fn_listlibrary \/ fn_globals \/ fn_aproposlist \/ fn_apropos
  \/ fn_documentation \/ sp_help

Spec == Init /\ [][Next]_vars

-----------------------------------------------------------------------------
(* Properties.                                                             *)

\* What was required is defined afterwards, if the library has it, whatever was
\* required on the way; and t is only said of what was not defined before.
RequireDefines ==
  answer.op = "require" =>
    /\ answer.name \in Here \union Defined => answer.name \in Defined
    /\ answer.value = <<"t">> => answer.name \in Here

\* A definition that needs only what stands before it.
InOrder == \A k \in DOMAIN library : \A n \in DOMAIN library[k].needs :
             \E j \in 1 .. k - 1 : library[j].name = library[k].needs[n]

\* Such a library is loaded to its end.
LoadsAll == answer.op = "load" /\ InOrder => Here \subseteq Defined

\* Every name with the part in it is told, and no other, none twice of the same kind;
\* and where there is an error, something is too long and no other name was told.
AproposFinds ==
  LET builtin == {Builtins[k].name : k \in DOMAIN Builtins}
      with == {n \in Defined \union builtin : strstr(n, answer.name)}
  IN /\ answer.op \in {"apropos", "apropos-list"} =>
          /\ ToSet(answer.value) = with
          /\ Len(answer.value) <= Cardinality(Defined) + Len(Builtins)
     /\ answer.op = "no room for string" =>
          /\ Len(answer.name) > PartLength \/ \E n \in Defined : Len(n) > NameLength
          /\ ToSet(answer.value) \subseteq with

LibraryTells == RequireDefines /\ LoadsAll /\ AproposFinds

\* A part that has room is always told of.  It does not hold: one variable with a name
\* that is too long, and apropos is an error whatever it is asked for.
AproposTells == answer.op = "no room for string" => Len(answer.name) > PartLength

\* Every library is loaded to its end.  It does not hold: what is required while a
\* line is evaluated moves the place from which loading reads on.
EveryLoadEnds == answer.op = "load" => Here \subseteq Defined
=============================================================================
