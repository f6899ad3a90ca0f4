----------------------------- MODULE MCCompact -----------------------------
(* Small workspaces for Compact: a few structures of up to four cells, each *)
(* with its cells at all addresses in all orders.                          *)
EXTENDS Compact

Pair(a, d) == [kind |-> "pair", car |-> a, cdr |-> d]
Str(d)     == [kind |-> "string", car |-> NoData, cdr |-> d]
Arr(d)     == [kind |-> "array", car |-> NoData, cdr |-> d]
Block(n, t) == [kind |-> "text", car |-> n, cdr |-> t]
Atom       == [kind |-> "atom", car |-> NoData, cdr |-> NoData]

\* The structures: cells 1 to 4 of a graph, then the roots.
Structures ==
  LET S(w, e, g, a) == [w |-> w, GlobalEnv |-> e, GCStack |-> g, arg |-> a] IN
  \* a list in the environment, one that shares its tail on the stack
  {S(<<Pair(0, 2), Pair(4, 0), Pair(3, 2), Atom>>, 1, 3, 0),
  \* a ring, and a pair that holds it twice and the ring's other cell
   S(<<Pair(2, 2), Pair(1, 3), Pair(3, 1), Atom>>, 1, 0, 0),
  \* the argument is a list of the environment
   S(<<Pair(2, 0), Pair(3, 3), Pair(0, 0), Atom>>, 1, 1, 2),
  \* an array with its list
   S(<<Pair(2, 0), Arr(3), Pair(4, 3), Atom>>, 0, 1, 0)}
  \union
  \* a string of two blocks, or of one beside a number, protected as an argument
  UNION {{S(<<Pair(2, 0), Str(3), Block(4, t), Block(0, u)>>, 0, 1, 2),
          S(<<Pair(2, 2), Str(3), Block(0, t), Atom>>, 1, 1, 2),
          S(<<Pair(2, 4), Str(0), Atom, Pair(3, 1)>>, 1, 4, 2)}
         : t \in Text, u \in Text}

\* s with its cells at the addresses that at says.
Place(s, at) ==
  LET A(p) == IF p > 0 THEN at[p] ELSE p
      live == {c \in 1 .. 4 : \/ c \in {s.GlobalEnv, s.GCStack}
                              \/ \E d \in 1 .. 4 : c \in Links(s.w[d])}
      back(c) == CHOOSE d \in live : at[d] = c
  IN [cell |-> [c \in Cells |->
                  IF \E d \in live : at[d] = c
                  THEN LET o == s.w[back(c)] IN
                       [o EXCEPT !.car = A(@), !.cdr = IF o.kind = "text" THEN @ ELSE A(@)]
                  ELSE IF c = tee THEN Atom ELSE Pair(Nil, Nil)],
      GlobalEnv |-> A(s.GlobalEnv), GCStack |-> A(s.GCStack), arg |-> A(s.arg)]

Placements ==
  {at \in [1 .. 4 -> Cells \ {tee}] : \A c, d \in 1 .. 4 : at[c] = at[d] => c = d}

MCHeaps == {Place(s, at) : s \in Structures, at \in Placements}
=============================================================================
