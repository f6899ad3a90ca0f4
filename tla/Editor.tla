-------------------------------- MODULE Editor --------------------------------
(* edit (ulisp_pretty.cpp, fn_edit in ulisp_builtins_system.cpp): a walk through *)
(* the value of a variable by keys, one call of edit for every car and cdr that *)
(* was entered; the cells on the way are made anew as the calls return.  What   *)
(* is typed in is read past LastChar: the bracket that ends a name is lost to   *)
(* that read, which waits for another, and is there for the next of the others. *)
EXTENDS Printer

CONSTANTS Typed,  \* the objects that are typed in, for r and c
          MaxEdits  \* bound: how many changes are made

VARIABLES
  bound,      \* what the variable's value is
  editing,    \* whether fn_edit runs
  EXITEDITOR,
  fun,        \* what the innermost call of edit has
  waiting,    \* the calls around it, the innermost first: the key that made the
              \* call, and the other half of the cell
  edits,      \* how many changes were made
  meant,      \* the object as it would be with every change made in place
  LastChar    \* the character given back, or None

None == ""
vars == <<bound, editing, EXITEDITOR, fun, waiting, edits, meant, LastChar>>

Init ==
  /\ bound \in Typed /\ editing = FALSE /\ EXITEDITOR = FALSE
  /\ fun = EmptyList /\ waiting = <<>> /\ meant = bound /\ edits = 0 /\ LastChar = None

\* The object with what is at the end of the way replaced: the keys, the last first.
RECURSIVE Put(_, _, _)
Put(object, way, new) ==
  IF way = <<>> THEN new
  ELSE IF Last(way) = "a" THEN Pair(Put(object.car, Front(way), new), object.cdr)
  ELSE Pair(object.car, Put(object.cdr, Front(way), new))
Way == [k \in DOMAIN waiting |-> waiting[k].key]

\* The form that calls it was read, with nothing given back.
fn_edit ==
  /\ ~editing /\ LastChar = None /\ editing' = TRUE
  /\ EXITEDITOR' = FALSE /\ fun' = bound
  /\ UNCHANGED <<bound, waiting, edits, meant, LastChar>>

\* The next line or string after the editor is refused if something is given back.
readmain ==
  /\ ~editing /\ LastChar # None /\ LastChar' = None
  /\ UNCHANGED <<bound, editing, EXITEDITOR, fun, waiting, edits, meant>>

\* The call returns to the one around it, or the variable has a new value.
Returned(object) ==
  IF waiting = <<>>
  THEN editing' = FALSE /\ bound' = object /\ fun' = EmptyList /\ UNCHANGED waiting
  ELSE LET w == Head(waiting) IN
       /\ fun' = IF w.key = "d" THEN Pair(w.half, object) ELSE Pair(object, w.half)
       /\ waiting' = Tail(waiting) /\ UNCHANGED <<bound, editing>>

\* After q every call returns what it has.
Leave == editing /\ EXITEDITOR /\ Returned(fun) /\ UNCHANGED <<EXITEDITOR, edits, meant, LastChar>>

Entered(key, object, half) ==
  /\ fun' = object /\ waiting' = <<[key |-> key, half |-> half]>> \o waiting
  /\ UNCHANGED <<bound, editing, EXITEDITOR, edits, meant, LastChar>>

Changed(object) ==
  /\ edits < MaxEdits /\ edits' = edits + 1
  /\ fun' = object /\ meant' = Put(meant, Way, object)
  /\ UNCHANGED <<bound, editing, EXITEDITOR, waiting>>

\* An object that is typed in: a name in it may have ended with a bracket.
Read == LastChar' \in {LastChar, ")"}

\* A key.  One that prints the object, or is none, changes nothing; a, d and x are
\* none for an atom.
KeyRead(key) ==
  CASE key = "q" -> EXITEDITOR' = TRUE
                    /\ UNCHANGED <<bound, editing, fun, waiting, edits, meant, LastChar>>
    [] key = "b" -> Returned(fun) /\ UNCHANGED <<EXITEDITOR, edits, meant, LastChar>>
    [] key = "r" -> Read /\ \E x \in Typed : Changed(x)
    [] key = "c" -> Read /\ \E x \in Typed : Changed(Pair(x, fun))
    [] key = "d" -> ~atom(fun) /\ Entered("d", fun.cdr, fun.car)
    [] key = "a" -> ~atom(fun) /\ Entered("a", fun.car, fun.cdr)
    [] key = "x" -> ~atom(fun) /\ Changed(fun.cdr) /\ UNCHANGED LastChar

\* An error in what is typed in, or the escape key, leaves all the calls.
ErrorLeaves == /\ editing /\ ~EXITEDITOR /\ editing' = FALSE /\ waiting' = <<>> /\ meant' = bound
         /\ fun' = EmptyList /\ Read /\ UNCHANGED <<bound, EXITEDITOR, edits>>

edit == editing /\ ~EXITEDITOR /\ \E key \in {"q", "b", "r", "c", "d", "a", "x"} : KeyRead(key)

Next == fn_edit \/ readmain \/ edit \/ Leave \/ ErrorLeaves
Spec == Init /\ [][Next]_vars

\* Leaving the editor by q now, or by b from every call, gives the object with the
\* changes made where they were made, and nothing else changed; left by an error it
\* changes nothing.
EditsInPlace ==
  /\ editing => Put(meant, Way, fun) = meant
  /\ ~editing => bound = meant

\* Nothing of what was typed in the editor is left for the next read.  It does not hold:
\* the bracket that ends a name is.
NothingIsLeftOver == ~editing => LastChar = None
=============================================================================
