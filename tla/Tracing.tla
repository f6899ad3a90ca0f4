------------------------------- MODULE Tracing -------------------------------
(* trace and backtrace: what is kept of the functions that are called, beside  *)
(* the calls themselves (ulisp_runtime_symbols.cpp, ulisp_eval.cpp,             *)
(* ulisp_runtime_env.cpp, ulisp_error.cpp, ulisp_tables.cpp).  An error jumps   *)
(* over the calls it ends, and puts nothing back unless it is the top level's.  *)
EXTENDS Integers, Sequences, FiniteSetsExt

CONSTANTS
  Name,          \* functions,
  Closures,      \* and which of them are closures
  NoName,
  TRACEMAX, BACKTRACESIZE,
  Modulus,       \* the values of a counter, 2^32
  MaxCalls, MaxDepth, \* bounds: calls in one another, how far a counter goes,
  MaxChanges     \* and how often trace, untrace or backtrace is called

TraceAssumption ==
  /\ {TRACEMAX, BACKTRACESIZE, Modulus} \subseteq Nat \ {0} /\ {MaxCalls, MaxChanges} \subseteq Nat
  /\ MaxDepth \in 0 .. Modulus - 1
  /\ Closures \subseteq Name /\ NoName \notin Name

VARIABLES
  TraceFn, TraceDepth,               \* the traced functions and their depths
  Backtrace, TraceStart, TraceTop,   \* a ring of names
  BACKTRACE,                         \* whether it is kept
  active,    \* calls that wait for their body, and ignore-errors, the innermost last
  changes,   \* how often they were called
  missed,    \* how many calls the ring had no place for, at most, since it was reset
  caught,    \* an error was caught that left a call, or a closure was traced
  retraced, switched, \* what is traced, or BACKTRACE, was changed inside a call
  overrun    \* more calls have ended than the ring holds

ring   == <<Backtrace, TraceStart, TraceTop>>
traced == <<TraceFn, TraceDepth>>
ghosts == <<missed, caught, retraced, switched, overrun>>
vars   == <<traced, ring, BACKTRACE, active, changes, ghosts>>

Init ==
  /\ TraceFn = [i \in 1 .. TRACEMAX |-> NoName] /\ TraceDepth = [i \in 1 .. TRACEMAX |-> 0]
  /\ Backtrace = [i \in 0 .. BACKTRACESIZE - 1 |-> NoName] /\ TraceStart = 0 /\ TraceTop = 0
  /\ BACKTRACE = FALSE /\ active = <<>> /\ changes = 0
  /\ missed = 0 /\ caught = FALSE /\ retraced = FALSE /\ switched = FALSE /\ overrun = FALSE

-----------------------------------------------------------------------------
(* The tables.                                                             *)

\* The first slot that holds name, 0 if none does.
tracing(name) == LET at == {i \in 1 .. TRACEMAX : TraceFn[i] = name} IN
                 IF at = {} THEN 0 ELSE Min(at)

modbacktrace(n) == (n + BACKTRACESIZE) % BACKTRACESIZE

\* What an error message says: the newest name first.
printbacktrace ==
  [i \in 1 .. modbacktrace(TraceTop - TraceStart) |-> Backtrace[modbacktrace(TraceTop - i)]]

\* A new name takes the place of the oldest one when the ring is full.
backtrace(name) ==
  LET top == modbacktrace(TraceTop + 1) IN
  /\ Backtrace' = [Backtrace EXCEPT ![TraceTop] = name]
  /\ TraceTop' = top
  /\ TraceStart' = IF TraceStart = top THEN modbacktrace(TraceStart + 1) ELSE TraceStart

Told == {k \in DOMAIN active : active[k].told}
Active(i) == Cardinality({k \in DOMAIN active : active[k].trace = i})

-----------------------------------------------------------------------------
(* Errors.                                                                 *)

\* The rest of an error in a state whose tables are what they are: ulisperror at the
\* top level, the innermost ignore-errors otherwise.
Unwound(depths) ==
  LET handlers == {k \in DOMAIN active : active[k].name = NoName} IN
  IF handlers = {}
  THEN /\ active' = << >> /\ TraceStart' = 0 /\ TraceTop' = 0
       /\ TraceDepth' = [i \in 1 .. TRACEMAX |-> 0]
       /\ missed' = 0 /\ caught' = FALSE /\ retraced' = FALSE /\ switched' = FALSE
       /\ overrun' = FALSE
  ELSE /\ active' = SubSeq(active, 1, Max(handlers) - 1)
       /\ caught' = (caught \/ Max(handlers) < Len(active) \/ depths # TraceDepth)
       /\ TraceDepth' = depths /\ UNCHANGED <<TraceStart, TraceTop, missed, retraced, switched, overrun>>

Error == Unwound(TraceDepth) /\ UNCHANGED <<TraceFn, Backtrace, BACKTRACE, changes>>

ignoreerrors ==
  /\ Len(active) < MaxCalls
  /\ active' = Append(active, [name |-> NoName, trace |-> 0, told |-> FALSE])
  /\ UNCHANGED <<traced, ring, BACKTRACE, changes, ghosts>>

-----------------------------------------------------------------------------
(* Calls.                                                                  *)

\* A call counts in the table before its arguments are bound.
Entered(name) ==
  IF tracing(name) = 0 THEN TraceDepth ELSE [TraceDepth EXCEPT ![tracing(name)] = @ + 1]

\* A closure is traced when it is entered and not when it returns.
Call(name) ==
  LET i == tracing(name)
      trace == IF name \in Closures THEN 0 ELSE i
      called == [name |-> name, trace |-> trace, told |-> BACKTRACE] IN
  /\ Len(active) < MaxCalls /\ (i # 0 => TraceDepth[i] < MaxDepth)
  /\ TraceDepth' = Entered(name)
  /\ IF BACKTRACE
     THEN /\ backtrace(name)
          /\ missed' = Max({missed, Cardinality(Told) + 2 - BACKTRACESIZE})
     ELSE UNCHANGED <<ring, missed>>
  /\ active' = IF BACKTRACE \/ trace # 0 THEN Append(active, called) ELSE active
  /\ caught' = (caught \/ i # trace)
  /\ UNCHANGED <<TraceFn, BACKTRACE, changes, retraced, switched, overrun>>

\* A call whose arguments do not fit; with BACKTRACE its name is in the ring by then,
\* as of any call that fails.
CallFails(name) ==
  /\ ~BACKTRACE /\ tracing(name) # 0 /\ TraceDepth[tracing(name)] < MaxDepth
  /\ Unwound(Entered(name)) /\ UNCHANGED <<TraceFn, Backtrace, BACKTRACE, changes>>

\* The slot is the one the call found, whatever it holds now.
Left(i) == IF i = 0 THEN TraceDepth ELSE [TraceDepth EXCEPT ![i] = (@ - 1) % Modulus]

Return_Keep ==
  /\ active # << >> /\ active' = SubSeq(active, 1, Len(active) - 1)
  /\ TraceDepth' = Left(active[Len(active)].trace)
  /\ UNCHANGED <<TraceFn, ring, BACKTRACE, changes, ghosts>>

\* The end of a call that waited, or of ignore-errors: a closure's name is dropped, any
\* other one if the flag is set now.
Return ==
  /\ active # << >> /\ active' = SubSeq(active, 1, Len(active) - 1)
  /\ TraceDepth' = Left(active[Len(active)].trace)
  /\ TraceTop' = IF active[Len(active)].name \in IF BACKTRACE THEN Name ELSE Closures
                 THEN modbacktrace(TraceTop - 1) ELSE TraceTop
  /\ overrun' = (overrun \/ Cardinality(Told \ {Len(active)}) < missed)
  /\ UNCHANGED <<TraceFn, Backtrace, TraceStart, BACKTRACE, changes, missed, caught, retraced, switched>>

-----------------------------------------------------------------------------
(* The forms.  One name at a time: what trace and untrace have done to the      *)
(* names before one that is an error stays.                                    *)

Change == changes < MaxChanges /\ changes' = changes + 1

Changed(i, name) ==
  /\ Change
  /\ TraceFn' = [TraceFn EXCEPT ![i] = name]
  /\ retraced' = (retraced \/ Active(i) > 0)
  /\ UNCHANGED <<ring, BACKTRACE, active, missed, caught, switched, overrun>>

\* A name that is traced, or one too many, is an Error.
trace(name) ==
  /\ tracing(name) = 0 /\ tracing(NoName) # 0
  /\ Changed(tracing(NoName), name)
  /\ TraceDepth' = [TraceDepth EXCEPT ![tracing(NoName)] = 0]

\* A name that is not traced is an Error; a slot keeps its depth.
untrace(name) == tracing(name) # 0 /\ Changed(tracing(name), NoName) /\ UNCHANGED TraceDepth

untraceAll ==
  /\ Change
  /\ TraceFn' = [i \in 1 .. TRACEMAX |-> NoName]
  /\ retraced' = (retraced \/ \E i \in 1 .. TRACEMAX : Active(i) > 0)
  /\ UNCHANGED <<TraceDepth, ring, BACKTRACE, active, missed, caught, switched, overrun>>

fn_backtrace ==
  /\ Change
  /\ BACKTRACE' \in BOOLEAN
  /\ switched' = (switched \/ \E k \in DOMAIN active : active[k].name # NoName)
  /\ UNCHANGED <<traced, ring, active, missed, caught, retraced, overrun>>

Next ==
  \/ Error \/ ignoreerrors \/ Return
  \/ \E name \in Name : Call(name) \/ CallFails(name) \/ trace(name) \/ untrace(name)
  \/ untraceAll \/ fn_backtrace

Spec == Init /\ [][Next]_vars

-----------------------------------------------------------------------------
(* Properties.                                                             *)

Frame == [name : Name \union {NoName}, trace : 0 .. TRACEMAX, told : BOOLEAN]

\* An ignore-errors is neither traced nor told.
TypeOK ==
  /\ TraceFn \in [1 .. TRACEMAX -> Name \union {NoName}]
  /\ TraceDepth \in [1 .. TRACEMAX -> 0 .. Modulus - 1]
  /\ Backtrace \in [0 .. BACKTRACESIZE - 1 -> Name \union {NoName}]
  /\ TraceStart \in 0 .. BACKTRACESIZE - 1 /\ TraceTop \in 0 .. BACKTRACESIZE - 1
  /\ BACKTRACE \in BOOLEAN /\ missed \in Nat
  /\ active \in Seq(Frame)
  /\ \A k \in DOMAIN active : active[k].name = NoName => active[k].trace = 0 /\ ~active[k].told
  /\ {caught, retraced, switched, overrun} \subseteq BOOLEAN

\* The depth a traced call is printed with is the number of calls of that function
\* around it; an error that is caught makes it too large, never too small.
DepthsCount ==
  ~retraced => \A i \in 1 .. TRACEMAX :
    /\ TraceDepth[i] >= Active(i)
    /\ ~caught => TraceDepth[i] = Active(i)

\* An error message names the calls under way, the innermost first, but for the
\* outermost ones that the ring had no place for; once the others have all ended, what
\* it names is anything.
Rank(k) == Cardinality({j \in Told : j <= k})

NamesTheCalls ==
  ~caught /\ ~switched /\ ~overrun =>
    /\ DOMAIN printbacktrace = 1 .. Cardinality(Told) - missed
    /\ \A k \in Told : Rank(k) > missed =>
         printbacktrace[Cardinality(Told) - Rank(k) + 1] = active[k].name

\* What does not hold: that it names no other ones.
NamesNoOthers ==
  ~caught /\ ~switched => Cardinality(DOMAIN printbacktrace) <= Cardinality(Told)

-----------------------------------------------------------------------------
(* Why they hold: an invariant of every step.                              *)

\* A closure waits only if it was told; unless the flag was changed inside a call, all
\* calls were told or none.
ToldNow ==
  /\ \A k \in DOMAIN active : active[k].name \in Closures => active[k].told
  /\ ~switched => \A k \in DOMAIN active : active[k].name # NoName => active[k].told = BACKTRACE

\* No more calls had no place than there are.
SomeHeld == ~caught /\ ~switched /\ ~overrun => missed <= Cardinality(Told)

IInv == TypeOK /\ ToldNow /\ DepthsCount /\ NamesTheCalls /\ SomeHeld
=============================================================================
