------------------------------ MODULE Compact ------------------------------
(***************************************************************************)
(* compactimage and movepointer (src/ulisp_memory.cpp): before an image is *)
(* saved the live cells are moved to the bottom of the workspace, the      *)
(* highest into the lowest gap, and every pointer to a moved cell is       *)
(* corrected.                                                              *)
(*                                                                         *)
(* The code cannot tell a block of text from a pair: the first pass of     *)
(* movepointer corrects characters that read as the old address, the       *)
(* second pass changes them back.  Here a cell carries its kind, which the *)
(* passes consult only where the code does.                                *)
(***************************************************************************)
EXTENDS Integers

CONSTANTS
  WORKSPACESIZE,
  Text,     \* what the four characters of a block of text can read as
  Heaps     \* the workspaces to compact: [cell, GlobalEnv, GCStack, arg]

ASSUME SizeAssumption == WORKSPACESIZE \in Nat \ {0}

Nil   == 0
Cells == 1 .. WORKSPACESIZE
tee   == 1     \* initenv makes it first: it has the lowest address
NoData == -1   \* a number, a character, a float or a short name
Ptrs  == Cells \union {Nil}

\* The workspace as the data structures of the interpreter fill it.
Pairs   == [kind : {"pair"}, car : Ptrs, cdr : Ptrs]
Strings == [kind : {"string"}, car : {NoData}, cdr : Ptrs]  \* and long symbols
Arrays  == [kind : {"array"}, car : {NoData}, cdr : Ptrs]
Blocks  == [kind : {"text"}, car : Ptrs, cdr : Text]
Atoms   == [kind : {"atom"}, car : {NoData}, cdr : {NoData}]
Cell    == Pairs \union Strings \union Arrays \union Blocks \union Atoms
Heap    == [cell : [Cells -> Cell], GlobalEnv : Ptrs, GCStack : Ptrs, arg : Ptrs]

Links(o) == CASE o.kind = "pair" -> {o.car, o.cdr}
              [] o.kind \in {"string", "array"} -> {o.cdr}
              [] o.kind = "text" -> {o.car}
              [] o.kind = "atom" -> {}

\* What markobject leaves marked in workspace s: the least set with the roots that
\* has what its cells point to.
Holds(s, S) ==
  /\ {tee, s.GlobalEnv, s.GCStack} \ {Nil} \subseteq S
  /\ \A c \in S : Links(s.cell[c]) \ {Nil} \subseteq S
Live(s) == {c \in Cells : \A S \in SUBSET Cells : Holds(s, S) => c \in S}

\* The argument of save-image is in the list of arguments eval protects, or the
\* value of a global variable.
ASSUME HeapsAssumption ==
  \A s \in Heaps : s \in Heap /\ s.arg \in Live(s) \union {Nil}

VARIABLES
  start,      \* the workspace before the compaction; never changes
  cell,       \* the workspace
  marked,     \* the cells marked
  GlobalEnv, GCStack, arg,
  firstfree,  \* the lowest gap
  obj,        \* the next cell to move
  pc,         \* "mark", "move" or "done"
  now         \* where each live cell of start is now

vars == <<start, cell, marked, GlobalEnv, GCStack, arg, firstfree, obj, pc, now>>

-----------------------------------------------------------------------------

Init ==
  /\ start \in Heaps
  /\ cell = start.cell /\ marked = {}
  /\ GlobalEnv = start.GlobalEnv /\ GCStack = start.GCStack /\ arg = start.arg
  /\ firstfree = 1 /\ obj = WORKSPACESIZE /\ pc = "mark"
  /\ now = [c \in Live(start) |-> c]

MarkFrom(top) ==
  /\ pc = "mark" /\ pc' = "move"
  /\ marked' = DOMAIN now
  /\ firstfree' = 1 /\ obj' = top
  /\ UNCHANGED <<start, cell, GlobalEnv, GCStack, arg, now>>

\* The scan from above starts at the last cell.
Mark == MarkFrom(WORKSPACESIZE)

\* while (marked(firstfree)) firstfree++: in a full workspace it ends one past it.
Scan ==
  /\ pc = "move" /\ firstfree \in marked
  /\ firstfree' = firstfree + 1
  /\ UNCHANGED <<start, cell, marked, GlobalEnv, GCStack, arg, obj, pc, now>>

\* The scan from below is at a gap.
AtGap == firstfree \notin marked

Forward(p, from, to) == IF p = from THEN to ELSE p

\* First pass: the cells whose fields are corrected, and the fields.
Corrected(o, from, to) ==
  CASE o.kind \in {"pair", "text"} ->
         [o EXCEPT !.car = Forward(@, from, to), !.cdr = Forward(@, from, to)]
    [] o.kind \in {"string", "array"} -> [o EXCEPT !.cdr = Forward(@, from, to)]
    [] o.kind = "atom" -> o

\* Second pass: characters that look corrected; and a movepointer without the pass.
Recovered_None(o, from, to) == o
Recovered(o, from, to) ==
  IF o.kind = "text" THEN [o EXCEPT !.cdr = Forward(@, to, from)] ELSE o

movepointer(w, from, to, S) ==
  [c \in Cells |->
     IF c \in S /\ c <= from THEN Recovered(Corrected(w[c], from, to), from, to)
     ELSE w[c]]

\* One turn of the loop.
Move ==
  /\ pc = "move" /\ AtGap /\ firstfree < obj
  /\ IF obj \in marked
     THEN LET S == (marked \ {obj}) \union {firstfree} IN
          /\ cell' = movepointer([cell EXCEPT ![firstfree] = cell[obj]], obj, firstfree, S)
          /\ marked' = S
          /\ GlobalEnv' = Forward(GlobalEnv, obj, firstfree)
          /\ GCStack' = Forward(GCStack, obj, firstfree)
          /\ arg' = Forward(arg, obj, firstfree)
          /\ now' = [c \in DOMAIN now |-> Forward(now[c], obj, firstfree)]
     ELSE UNCHANGED <<cell, marked, GlobalEnv, GCStack, arg, now>>
  /\ obj' = obj - 1
  /\ UNCHANGED <<start, firstfree, pc>>

\* sweep; firstfree - Workspace cells are in the image.
Finish ==
  /\ pc = "move" /\ AtGap /\ pc' = "done"
  /\ marked' = {}
  /\ UNCHANGED <<start, cell, GlobalEnv, GCStack, arg, firstfree, obj, now>>

\* The scans have met; and slips in the condition.
Sweep_Early  == firstfree >= obj - 1 /\ Finish
Sweep_Strict == firstfree > obj /\ Finish
Sweep        == firstfree >= obj /\ Finish

Done == pc = "done" /\ UNCHANGED vars

Next == Mark \/ Scan \/ Move \/ Sweep \/ Done

Spec == Init /\ [][Next]_vars
FairSpec == Spec /\ WF_vars(Mark \/ Scan \/ Move \/ Sweep)

-----------------------------------------------------------------------------
(* Properties.                                                             *)

TypeOK ==
  /\ start \in Heap
  /\ cell \in [Cells -> Cell]
  /\ marked \subseteq Cells
  /\ GlobalEnv \in Ptrs /\ GCStack \in Ptrs /\ arg \in Ptrs
  /\ firstfree \in 1 .. WORKSPACESIZE + 1 /\ obj \in Cells
  /\ pc \in {"mark", "move", "done"}
  /\ now \in [Live(start) -> Cells]

\* A pointer, and a cell, of start with the cells where n puts them.
At(n, p) == IF p = Nil THEN Nil ELSE n[p]
Renamed(n, o) ==
  CASE o.kind = "pair" -> [o EXCEPT !.car = At(n, @), !.cdr = At(n, @)]
    [] o.kind \in {"string", "array"} -> [o EXCEPT !.cdr = At(n, @)]
    [] o.kind = "text" -> [o EXCEPT !.car = At(n, @)]
    [] o.kind = "atom" -> o

\* compactimage, movepointer: at every turn the workspace is the one it was, up to
\* where its cells are: no pointer, type or character is lost or changed.
Faithful ==
  /\ \A c \in DOMAIN now : cell[now[c]] = Renamed(now, start.cell[c])
  /\ GlobalEnv = At(now, start.GlobalEnv)
  /\ GCStack = At(now, start.GCStack)
  /\ arg = At(now, start.arg)

\* No two cells are moved to the same place.
Apart == \A c, d \in DOMAIN now : now[c] = now[d] => c = d

\* compactimage, saveimage: what is live is below firstfree, with no gap, so the
\* words that saveimage writes are the whole image.
Dense == pc = "done" => {now[c] : c \in DOMAIN now} = 1 .. firstfree - 1

\* compactimage: the scans meet.
CompactionEnds == <>(pc = "done")

\* The inductive invariant: what is moved is below obj, what is below firstfree stays.
Scanned ==
  /\ start.arg \in DOMAIN now \union {Nil}
  /\ pc = "mark" => \A c \in DOMAIN now : now[c] = c
  /\ pc = "move" => /\ marked = {now[c] : c \in DOMAIN now}
                    /\ 1 .. firstfree - 1 \subseteq marked
                    /\ marked \subseteq 1 .. obj

\* No characters read as the address of a cell that something is moved to.
PlainText == Text \intersect (1 .. WORKSPACESIZE - 1) = {}

IInv == TypeOK /\ Faithful /\ Apart /\ Dense /\ Scanned
=============================================================================
