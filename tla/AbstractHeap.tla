---------------------------- MODULE AbstractHeap ----------------------------
(***************************************************************************)
(* What the object memory promises to the evaluator: objects that point to *)
(* objects, a set of roots, one new object at a time, and a collection     *)
(* that in a single step leaves exactly the objects in use.  No free list, *)
(* no marks.                                                               *)
(***************************************************************************)
CONSTANT Objects

VARIABLES
  allocated,    \* the objects that exist
  points,       \* the objects each of them points to, {} for one that does not exist
  root          \* the objects the evaluator holds

avars == <<allocated, points, root>>

ClosedUnder(S) == \A o \in S : points[o] \subseteq S

InUse == LET Upper == {S \in SUBSET Objects : root \subseteq S /\ ClosedUnder(S)}
         IN  {o \in Objects : \A S \in Upper : o \in S}

AbsInit ==
  /\ root = allocated /\ \E o \in Objects : root = {o}
  /\ points = [o \in Objects |-> {}]

\* The evaluator may make one object, rewrite one it can reach, and take other
\* objects that exist for its roots, one that nothing refers to included.
AbsMutate ==
  /\ allocated \subseteq allocated'
  /\ \E o \in Objects : allocated' \subseteq allocated \union {o}
  /\ \E o \in InUse : \A p \in Objects :
       points'[p] # points[p] => p \in {o} \union (allocated' \ allocated)
  /\ UNION {points'[p] : p \in Objects} \subseteq allocated'
  /\ root' \subseteq allocated'

AbsCollect ==
  /\ allocated' = InUse
  /\ points' = [o \in Objects |-> IF o \in InUse THEN points[o] ELSE {}]
  /\ UNCHANGED root

AbsSpec == AbsInit /\ [][AbsMutate \/ AbsCollect]_avars

=============================================================================
