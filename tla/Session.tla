------------------------------ MODULE Session ------------------------------
(***************************************************************************)
(* What a session keeps outside the heap while forms call one another: the *)
(* flags, the error handler and the level of breaks                        *)
(* (src/ulisp_builtins_system.cpp, ulisp_builtins_control.cpp,             *)
(* ulisp_error.cpp, ulisp_entry.cpp, ulisp_print.cpp).  Any form may call  *)
(* any other and raise an error at any moment; values, the GCStack and     *)
(* RETURNFLAG are those of Evaluator, keys those of ReplWindow.            *)
(***************************************************************************)
EXTENDS Integers, Sequences, FiniteSets, FiniteSetsExt

CONSTANTS
  Levels,     \* the values of BreakLevel, 256
  MaxCalls,   \* forms under way at a time (bound of the model)
  MaxBreak,   \* the level at which no further break is begun (bound of the model)
  MaxTyped    \* forms on a line that is typed in (bound of the model)

ASSUME SessionAssumption ==
  {Levels, MaxCalls, MaxBreak, MaxTyped} \subseteq Nat \ {0}

Flag == {"PRINTREADABLY", "NOESC", "MUFFLEERRORS"}
Form == {"break", "ignore-errors", "unwind-protect", "defvar", "princ"}

VARIABLES
  Flags,
  handler,      \* the call whose jmp_buf it is; 0 is toplevel_handler
  BreakLevel,
  calls,        \* the forms under way, the innermost last: [form, Flags, handler:
                \*  as they were before it, cleanup: the second part of
                \*  unwind-protect, signaled]
  typed,        \* forms of the committed line that were not read yet
  torn          \* flags that an error left as they should not be

vars == <<Flags, handler, BreakLevel, calls, typed, torn>>

Frame == [form : Form, Flags : SUBSET Flag, handler : Nat, cleanup : BOOLEAN,
          signaled : BOOLEAN]

TypeOK ==
  /\ Flags \subseteq Flag /\ handler \in 0 .. Len(calls) /\ BreakLevel \in 0 .. Levels - 1
  /\ calls \in Seq(Frame) /\ Len(calls) <= MaxCalls
  /\ typed \in 0 .. MaxTyped /\ torn \subseteq Flag

Init ==
  /\ Flags = {"PRINTREADABLY"} /\ handler = 0 /\ BreakLevel = 0
  /\ calls = << >> /\ typed = 0 /\ torn = {}

Top == calls[Len(calls)]
Popped == SubSeq(calls, 1, Len(calls) - 1)
Under(form) == {i \in DOMAIN calls : calls[i].form = form}

\* repl is where the prompt is: at the top level, or in the innermost break.
AtPrompt == IF calls = << >> THEN TRUE ELSE Top.form = "break"

\* Lisp is evaluated: at the prompt when a form was read, and in every form but those
\* that print.
Evaluating == IF AtPrompt THEN typed > 0 ELSE Top.form # "princ"
Read == typed' = IF AtPrompt THEN typed - 1 ELSE typed

-----------------------------------------------------------------------------
(* Errors: error, errorend, ulisperror.                                    *)

\* What forms that are left by a jump to call k do not put back.
LeftBy(k) ==
  LET left == {calls[i].form : i \in {j \in DOMAIN calls : j > k}} IN
  (IF "defvar" \in left THEN {"NOESC"} ELSE {})
  \union (IF "princ" \in left THEN {"PRINTREADABLY"} ELSE {})

\* loop: what toplevel_handler does, and a repl(NULL) that returns.
ulisperror ==
  /\ calls' = << >> /\ handler' = 0 /\ BreakLevel' = 0
  /\ Flags' = Flags \ {"NOESC"}
  /\ torn' = (torn \union LeftBy(0)) \ {"NOESC"}

Unmuffled(frame) == IF "MUFFLEERRORS" \in frame.Flags THEN Flags ELSE Flags \ {"MUFFLEERRORS"}

\* Back in the form that set handler.
longjmp ==
  IF handler = 0 THEN ulisperror
  ELSE LET frame == calls[handler] IN
       /\ handler' = frame.handler
       /\ calls' = IF frame.form = "ignore-errors"
                   THEN SubSeq(calls, 1, handler - 1)
                   ELSE Append(SubSeq(calls, 1, handler - 1),
                               [frame EXCEPT !.cleanup = TRUE, !.signaled = TRUE])
       /\ Flags' = IF frame.form = "ignore-errors" THEN Unmuffled(frame) ELSE Flags
       /\ torn' = torn \union LeftBy(handler)
       /\ UNCHANGED BreakLevel

\* An error, or the escape key, in what is evaluated or printed.  What is left of the
\* line that was typed in is read all the same.
Error == (AtPrompt => typed > 0) /\ longjmp /\ Read

-----------------------------------------------------------------------------
(* The forms.                                                              *)

Call(form, flags, hand, level) ==
  /\ Evaluating /\ Len(calls) < MaxCalls /\ Read
  /\ calls' = Append(calls, [form |-> form, Flags |-> Flags, handler |-> handler,
                             cleanup |-> FALSE, signaled |-> FALSE])
  /\ Flags' = flags /\ handler' = hand /\ BreakLevel' = level

Return(flags, hand, level) ==
  /\ calls' = Popped /\ Flags' = flags /\ handler' = hand /\ BreakLevel' = level
  /\ UNCHANGED typed

\* Mutant: the flags stay as printing sets them.
Printed_Keep == ~AtPrompt /\ Top.form = "princ" /\ Return(Flags, handler, BreakLevel)
                /\ UNCHANGED torn

\* prin1object, fn_writestring, fn_writeline, sp_help: the whole word of flags is
\* saved, and put back unless printing is broken off.
prin1object == Call("princ", Flags \ {"PRINTREADABLY"}, handler, BreakLevel)
               /\ UNCHANGED torn
Printed == ~AtPrompt /\ Top.form = "princ" /\ Return(Top.Flags, handler, BreakLevel)
           /\ UNCHANGED torn

\* sp_defvar with a value; sp_defcode and the reader's #. set and clear NOESC so too.
sp_defvar == Call("defvar", Flags \union {"NOESC"}, handler, BreakLevel) /\ UNCHANGED torn
DefvarReturns ==
  /\ ~AtPrompt /\ Top.form = "defvar" /\ torn' = torn \ {"NOESC"}
  /\ Return(Flags \ {"NOESC"}, handler, BreakLevel)

\* Mutant: the flag is cleared whatever it was before.
IgnoreErrorsReturns_Clear ==
  /\ ~AtPrompt /\ Top.form = "ignore-errors" /\ UNCHANGED torn
  /\ Return(Flags \ {"MUFFLEERRORS"}, Top.handler, BreakLevel)

sp_ignoreerrors ==
  Call("ignore-errors", Flags \union {"MUFFLEERRORS"}, Len(calls) + 1, BreakLevel)
  /\ UNCHANGED torn
IgnoreErrorsReturns ==
  /\ ~AtPrompt /\ Top.form = "ignore-errors" /\ UNCHANGED torn
  /\ Return(Unmuffled(Top), Top.handler, BreakLevel)

sp_unwindprotect ==
  Call("unwind-protect", Flags, Len(calls) + 1, BreakLevel) /\ UNCHANGED torn
ProtectedReturns ==
  /\ ~AtPrompt /\ Top.form = "unwind-protect" /\ ~Top.cleanup
  /\ handler' = Top.handler /\ calls' = [calls EXCEPT ![Len(calls)].cleanup = TRUE]
  /\ UNCHANGED <<Flags, BreakLevel, typed, torn>>
CleanupReturns ==
  /\ ~AtPrompt /\ Top.form = "unwind-protect" /\ Top.cleanup
  /\ IF Top.signaled THEN longjmp /\ UNCHANGED typed
     ELSE Return(Flags, handler, BreakLevel) /\ UNCHANGED torn

fn_break ==
  /\ BreakLevel < MaxBreak
  /\ Call("break", Flags, handler, (BreakLevel + 1) % Levels) /\ UNCHANGED torn

-----------------------------------------------------------------------------
(* The prompt: repl.                                                       *)

\* A line is typed in when the last one is read to its end.
TypeLine ==
  /\ AtPrompt /\ typed = 0 /\ typed' \in 1 .. MaxTyped
  /\ UNCHANGED <<Flags, handler, BreakLevel, calls, torn>>

\* Mutant: the level is lowered by the one who leaves the innermost break only.
Continue_Zero ==
  /\ AtPrompt /\ typed > 0 /\ BreakLevel # 0 /\ typed' = typed - 1
  /\ IF calls = << >> THEN ulisperror
     ELSE /\ calls' = Popped /\ BreakLevel' = 0
          /\ UNCHANGED <<Flags, handler, torn>>

\* nil or :c.  At a level that an error left raised, it is the top level's repl that
\* returns.
Continue ==
  /\ AtPrompt /\ typed > 0 /\ BreakLevel # 0 /\ typed' = typed - 1
  /\ IF calls = << >> THEN ulisperror
     ELSE /\ calls' = Popped /\ BreakLevel' = (BreakLevel - 1) % Levels
          /\ UNCHANGED <<Flags, handler, torn>>

\* :a, which goes to the innermost handler, not to the top level.
Abort == AtPrompt /\ typed > 0 /\ BreakLevel # 0 /\ longjmp /\ typed' = typed - 1

\* :b, or any form that calls none of those.
Evaluate ==
  /\ AtPrompt /\ typed > 0 /\ typed' = typed - 1
  /\ UNCHANGED <<Flags, handler, BreakLevel, calls, torn>>

Next ==
  \/ TypeLine \/ Continue \/ Abort \/ Evaluate \/ Error
  \/ prin1object \/ Printed \/ sp_defvar \/ DefvarReturns
  \/ sp_ignoreerrors \/ IgnoreErrorsReturns \/ fn_break
  \/ sp_unwindprotect \/ ProtectedReturns \/ CleanupReturns

Spec == Init /\ [][Next]_vars

-----------------------------------------------------------------------------
(* Properties.                                                             *)

\* handler is never the jmp_buf of a call that is over: it is the innermost
\* ignore-errors, or unwind-protect that is not at its cleanup forms, of those under
\* way.
HandlerLive ==
  handler = Max({0} \union {i \in Under("ignore-errors") \union Under("unwind-protect") :
                              ~calls[i].cleanup})

\* Error messages are muffled inside ignore-errors and nowhere else, however it and
\* the forms around it and in it are left.
MuffledInside == "MUFFLEERRORS" \in Flags <=> Under("ignore-errors") # {}

\* Of the handlers: their type, that none is dead, and what they muffle.
HandlersNest == TypeOK /\ HandlerLive /\ MuffledInside

\* In a break, a continue leaves it: the level is raised at least as often as there
\* are breaks under way, although an error puts none back.
BreakCanLeave == BreakLevel >= Cardinality(Under("break"))

\* Printing is readable, and the escape key heard, but inside the forms that say
\* otherwise and after an error in one of them.
FlagsReturn ==
  /\ "PRINTREADABLY" \notin Flags => Under("princ") # {} \/ "PRINTREADABLY" \in torn
  /\ "NOESC" \in Flags => Under("defvar") # {} \/ "NOESC" \in torn

\* What the source says of the first flag ("Set by default"), the exception left out.
ReadableAtPrompt == AtPrompt => "PRINTREADABLY" \in Flags

\* The escape key is heard at the top level.
EscapeAtTop == calls = << >> => "NOESC" \notin Flags

\* ulisperror throws away the rest of the input: that of the serial port, not that of
\* the edit line.
ErrorDropsLine == [][Error /\ calls' = << >> => typed' = 0]_vars

-----------------------------------------------------------------------------
(* The inductive invariant.                                                *)

\* Of a sequence of calls, number i set the handler and has not given it back.
Catching(s, i) == s[i].form \in {"ignore-errors", "unwind-protect"} /\ ~s[i].cleanup

\* h is the innermost of the first n that catches errors, 0 when none does.
Innermost(s, h, n) ==
  /\ h \in 0 .. n /\ (h # 0 => Catching(s, h))
  /\ \A i \in DOMAIN s : h < i /\ i <= n => ~Catching(s, i)

\* What a call saved is what its end must put back, whatever its callees did.
HandlersSaved ==
  /\ Innermost(calls, handler, Len(calls))
  /\ \A i \in DOMAIN calls :
       /\ Innermost(calls, calls[i].handler, i - 1)
       /\ calls[i].cleanup => calls[i].form = "unwind-protect"

MuffleSaved ==
  \A i \in DOMAIN calls :
    "MUFFLEERRORS" \in calls[i].Flags <=> \E j \in Under("ignore-errors") : j < i

\* Printing calls nothing, and the flags it puts back are as good as those it found.
PrintingIsLast ==
  \A i \in DOMAIN calls : calls[i].form = "princ" =>
    /\ i = Len(calls)
    /\ "PRINTREADABLY" \notin calls[i].Flags => "PRINTREADABLY" \in torn
    /\ "NOESC" \in calls[i].Flags => Under("defvar") # {} \/ "NOESC" \in torn

IInv == TypeOK /\ HandlersSaved /\ MuffledInside /\ MuffleSaved /\ PrintingIsLast /\ FlagsReturn
=============================================================================
