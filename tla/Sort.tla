-------------------------------- MODULE Sort --------------------------------
(* sort (fn_sort of builtins_strings.cpp): an insertion sort that takes the    *)
(* cells of the list out and puts them in elsewhere, with a call of the        *)
(* program's predicate, which may say anything or fail, before each move.     *)
EXTENDS Naturals, Sequences, FiniteSets, SequencesExt

CONSTANTS
  MaxCells,  \* a bound: the longest list
  Key        \* what the predicate goes by, numbers

VARIABLES
  key,    \* the key of each cell, the cells numbered as the list was given
  cdr,    \* the cell after each, 0 if none; Before stands before the first
  ptr,    \* the last cell of the part that is sorted
  go,     \* the cell before the one that the next is compared with
  pred,   \* the predicate: "<", or "any" for one that is no order
  calls,  \* of the predicate
  state   \* "sorting", "done" or "error"

vars == <<key, cdr, ptr, go, pred, calls, state>>

SortAssumption == MaxCells \in Nat \ {0} /\ Key \subseteq Nat

Cells  == DOMAIN key
NULL   == 0
Before == MaxCells + 1

Init ==
  /\ key \in SeqOf(Key, MaxCells) \ {<<>>}
  /\ cdr = [c \in Cells \cup {Before} |->
              IF c = Before THEN 1 ELSE IF c = Len(key) THEN NULL ELSE c + 1]
  /\ ptr = 1 /\ go = Before
  /\ pred \in {"<", "any"} /\ calls = 0
  /\ state = IF Len(key) = 1 THEN "done" ELSE "sorting"

\* The cell after ptr is next, unless there is none.
Continue(list, last) ==
  /\ cdr' = list /\ ptr' = last /\ go' = Before
  /\ state' = IF list[last] = NULL THEN "done" ELSE "sorting"

Insert_LeavesLink ==
  LET obj == cdr[ptr]
  IN  Continue([cdr EXCEPT ![obj] = cdr[go], ![go] = obj], ptr)

\* The next cell goes after go.
Insert ==
  LET obj == cdr[ptr]
  IN  Continue([cdr EXCEPT ![ptr] = cdr[obj], ![obj] = cdr[go], ![go] = obj], ptr)

\* The list so far is passed over, up to ptr, which the next cell may stay after.
Pass ==
  IF cdr[go] = ptr THEN Continue(cdr, cdr[ptr])
  ELSE go' = cdr[go] /\ UNCHANGED <<cdr, ptr, state>>

\* What the predicate says of the next cell and the one after go.
Answers ==
  IF pred = "any" THEN BOOLEAN ELSE {key[cdr[ptr]] < key[cdr[go]]}

Compare ==
  /\ state = "sorting"
  /\ \E true \in Answers : IF true THEN Insert ELSE Pass
  /\ calls' = calls + 1
  /\ UNCHANGED <<key, pred>>

\* The predicate ends in an error, or escape is pressed in it.
Abandon ==
  /\ state = "sorting"
  /\ state' = "error" /\ calls' = calls + 1
  /\ UNCHANGED <<key, cdr, ptr, go, pred>>

Next == Compare \/ Abandon
Spec == Init /\ [][Next]_vars

(***************************************************************************)
(* What sorting promises.                                                   *)
(***************************************************************************)
\* The cells from one on, as many as there are at most.
Chain(first) ==
  LET from[n \in 0 .. Len(key) + 1] ==
        IF n = 0 THEN <<first>>
        ELSE LET c == Last(from[n - 1])
             IN  IF c = NULL \/ cdr[c] = NULL THEN from[n - 1] ELSE Append(from[n - 1], cdr[c])
  IN  from[Len(key) + 1]
Sorted == Tail(Chain(Before))

\* What sort returns is the list in order, equal elements in the order they had.
SortsStably == state = "done" /\ pred = "<" =>
  \A j, k \in DOMAIN Sorted : j < k =>
    \/ key[Sorted[j]] < key[Sorted[k]]
    \/ key[Sorted[j]] = key[Sorted[k]] /\ Sorted[j] < Sorted[k]

\* Whatever the predicate says, and wherever it fails, no cell is lost or linked
\* twice: the list has each of its cells, and what the program still calls its
\* list, the first cell of old, is a part of it that ends.
KeepsCells ==
  /\ Len(Sorted) = Len(key) /\ ToSet(Sorted) = Cells
  /\ \E k \in DOMAIN Sorted : Chain(1) = SubSeq(Sorted, k, Len(Sorted))

\* It ends, with no more calls than there are pairs, for any predicate.
FewCalls == 2 * calls <= Len(key) * (Len(key) - 1)

ListsAreSorted == SortsStably /\ KeepsCells /\ FewCalls
=============================================================================
