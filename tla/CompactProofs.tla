--------------------------- MODULE CompactProofs ---------------------------
(***************************************************************************)
(* The compaction keeps the workspace, for every size and every contents   *)
(* in which no four characters read as the address of a lower cell.        *)
(***************************************************************************)
EXTENDS Compact, TLAPS

\* markobject: what is live is closed under the links of its cells.
LEMMA LiveClosed ==
  ASSUME NEW s \in Heap
  PROVE  /\ Live(s) \subseteq Cells
         /\ s.GlobalEnv \in Live(s) \union {Nil}
         /\ s.GCStack \in Live(s) \union {Nil}
         /\ \A c \in Live(s) : Links(s.cell[c]) \subseteq Live(s) \union {Nil}
<1>1. Live(s) \subseteq Cells
  BY DEF Live
<1>2. s.GlobalEnv \in Ptrs /\ s.GCStack \in Ptrs
  BY DEF Heap
<1>3. s.GlobalEnv \in Live(s) \union {Nil} /\ s.GCStack \in Live(s) \union {Nil}
  BY <1>2 DEF Live, Holds, Ptrs
<1>4. ASSUME NEW c \in Live(s), NEW p \in Links(s.cell[c]), p # Nil
      PROVE  p \in Live(s)
  <2>1. s.cell[c] \in Cell
    BY <1>1, <1>4 DEF Heap
  <2>2. p \in Ptrs
    BY <1>4, <2>1 DEF Links, Cell, Pairs, Strings, Arrays, Blocks, Atoms
  <2>3. p \in Cells
    BY <1>4, <2>2 DEF Ptrs
  <2>4. ASSUME NEW S \in SUBSET Cells, Holds(s, S) PROVE p \in S
    <3>1. c \in S
      BY <1>4, <2>4 DEF Live
    <3> QED
      BY <1>4, <2>4, <3>1 DEF Holds
  <2> QED
    BY <2>3, <2>4 DEF Live
<1> QED
  BY <1>1, <1>3, <1>4

-----------------------------------------------------------------------------
(* The renaming of a cell.                                                 *)

\* At: the pointers of live cells stay pointers.
LEMMA AtType ==
  ASSUME NEW s \in Heap, NEW n \in [Live(s) -> Cells], NEW p \in Live(s) \union {Nil}
  PROVE  At(n, p) \in Ptrs
BY DEF At, Ptrs

\* Renamed: the cells of the workspace, renamed, are cells.
LEMMA RenamedType ==
  ASSUME NEW s \in Heap, NEW n \in [Live(s) -> Cells], NEW c \in Live(s)
  PROVE  Renamed(n, s.cell[c]) \in Cell
<1> DEFINE o == s.cell[c]
<1>1. Links(o) \subseteq Live(s) \union {Nil} /\ o \in Cell
  BY LiveClosed DEF Heap
<1>2. \A p \in Links(o) : At(n, p) \in Ptrs
  BY <1>1, AtType
<1> HIDE DEF o
<1>3. CASE o \in Pairs
  <2>1. Renamed(n, o) = [o EXCEPT !.car = At(n, o.car), !.cdr = At(n, o.cdr)]
    BY <1>3 DEF Renamed, Pairs
  <2>2. At(n, o.car) \in Ptrs /\ At(n, o.cdr) \in Ptrs
    BY <1>2, <1>3 DEF Links, Pairs
  <2> QED
    BY <1>3, <2>1, <2>2 DEF Cell, Pairs, o
<1>4. CASE o \in Strings \union Arrays
  <2>1. Renamed(n, o) = [o EXCEPT !.cdr = At(n, o.cdr)]
    BY <1>4 DEF Renamed, Strings, Arrays
  <2>2. At(n, o.cdr) \in Ptrs
    BY <1>2, <1>4 DEF Links, Strings, Arrays
  <2> QED
    BY <1>4, <2>1, <2>2 DEF Cell, Strings, Arrays, o
<1>5. CASE o \in Blocks
  <2>1. Renamed(n, o) = [o EXCEPT !.car = At(n, o.car)]
    BY <1>5 DEF Renamed, Blocks
  <2>2. At(n, o.car) \in Ptrs
    BY <1>2, <1>5 DEF Links, Blocks
  <2> QED
    BY <1>5, <2>1, <2>2 DEF Cell, Blocks, o
<1>6. CASE o \in Atoms
  BY <1>1, <1>6 DEF Renamed, Atoms, o
<1> QED
  BY <1>1, <1>3, <1>4, <1>5, <1>6 DEF Cell

\* movepointer: the two passes forward the pointers of a cell and leave its characters
\* as they were.
LEMMA CorrectedCell ==
  ASSUME PlainText, NEW s \in Heap, NEW c \in Live(s),
         NEW n \in [Live(s) -> Cells], NEW m \in [Live(s) -> Cells],
         NEW from \in Cells, NEW to \in 1 .. WORKSPACESIZE - 1,
         \A d \in Live(s) : m[d] = Forward(n[d], from, to)
  PROVE  Recovered(Corrected(Renamed(n, s.cell[c]), from, to), from, to)
           = Renamed(m, s.cell[c])
<1> DEFINE o == s.cell[c]
           F(p) == Forward(p, from, to)
<1>1. Links(o) \subseteq Live(s) \union {Nil} /\ o \in Cell
  BY LiveClosed DEF Heap
<1>2. ASSUME NEW p \in Links(o) PROVE At(m, p) = F(At(n, p))
  BY <1>1, <1>2 DEF At, Forward, Nil, Cells
<1> HIDE DEF o
<1>3. CASE o \in Pairs
  <2>1. /\ Renamed(n, o) = [o EXCEPT !.car = At(n, o.car), !.cdr = At(n, o.cdr)]
        /\ Renamed(m, o) = [o EXCEPT !.car = At(m, o.car), !.cdr = At(m, o.cdr)]
    BY <1>3 DEF Renamed, Pairs
  <2>2. At(m, o.car) = F(At(n, o.car)) /\ At(m, o.cdr) = F(At(n, o.cdr))
    BY <1>2, <1>3 DEF Links, Pairs
  <2> QED
    BY <1>3, <2>1, <2>2 DEF Corrected, Recovered, Pairs, o
<1>4. CASE o \in Strings \union Arrays
  <2>1. /\ Renamed(n, o) = [o EXCEPT !.cdr = At(n, o.cdr)]
        /\ Renamed(m, o) = [o EXCEPT !.cdr = At(m, o.cdr)]
    BY <1>4 DEF Renamed, Strings, Arrays
  <2>2. At(m, o.cdr) = F(At(n, o.cdr))
    BY <1>2, <1>4 DEF Links, Strings, Arrays
  <2> QED
    BY <1>4, <2>1, <2>2 DEF Corrected, Recovered, Strings, Arrays, o
<1>5. CASE o \in Blocks
  <2>1. /\ Renamed(n, o) = [o EXCEPT !.car = At(n, o.car)]
        /\ Renamed(m, o) = [o EXCEPT !.car = At(m, o.car)]
    BY <1>5 DEF Renamed, Blocks
  <2>2. At(m, o.car) = F(At(n, o.car))
    BY <1>2, <1>5 DEF Links, Blocks
  <2>3. Forward(F(o.cdr), to, from) = o.cdr
    BY <1>5 DEF PlainText, Blocks, Forward
  <2>4. Corrected(Renamed(n, o), from, to)
          = [o EXCEPT !.car = F(At(n, o.car)), !.cdr = F(o.cdr)]
    BY <1>5, <2>1 DEF Corrected, Blocks
  <2>5. Recovered(Corrected(Renamed(n, o), from, to), from, to)
          = [o EXCEPT !.car = F(At(n, o.car)), !.cdr = o.cdr]
    BY <1>5, <2>3, <2>4 DEF Recovered, Blocks
  <2> QED
    BY <1>5, <2>1, <2>2, <2>5 DEF Blocks, o
<1>6. CASE o \in Atoms
  BY <1>6 DEF Renamed, Corrected, Recovered, Atoms, o
<1> QED
  BY <1>1, <1>3, <1>4, <1>5, <1>6 DEF Cell

-----------------------------------------------------------------------------
(* The invariant.                                                          *)

\* Move: the invariant holds after a cell is moved.
LEMMA MovePreserves ==
  ASSUME PlainText, IInv, Move, obj \in marked
  PROVE  IInv'
<1> DEFINE from == obj
           to == firstfree
           S == (marked \ {from}) \union {to}
           w == [cell EXCEPT ![to] = cell[from]]
<1>1. /\ pc = "move" /\ pc' = "move" /\ start' = start
      /\ to \notin marked /\ to < from /\ firstfree' = firstfree /\ obj' = obj - 1
      /\ marked' = S
      /\ cell' = movepointer(w, from, to, S)
      /\ GlobalEnv' = Forward(GlobalEnv, from, to)
      /\ GCStack' = Forward(GCStack, from, to)
      /\ arg' = Forward(arg, from, to)
      /\ now' = [c \in DOMAIN now |-> Forward(now[c], from, to)]
  BY DEF Move, AtGap
<1>2. TypeOK /\ Faithful /\ Apart /\ Dense /\ Scanned
  BY DEF IInv
<1>3. from \in Cells /\ to \in Cells /\ from - 1 \in Cells /\ to # from
  BY <1>1, <1>2, SizeAssumption DEF TypeOK, Cells
<1>4. now \in [Live(start) -> Cells] /\ start \in Heap
  BY <1>2 DEF TypeOK
<1>5. marked = {now[c] : c \in DOMAIN now} /\ marked \subseteq 1 .. from
  BY <1>1, <1>2 DEF Scanned
<1>6. now' \in [Live(start) -> Cells] /\ DOMAIN now' = DOMAIN now
  BY <1>1, <1>3, <1>4 DEF Forward
<1>7. \A c \in DOMAIN now : now'[c] = Forward(now[c], from, to)
  BY <1>1
<1>8. S = {now'[c] : c \in DOMAIN now'} /\ S \subseteq 1 .. from - 1
  <2>1. \A c \in DOMAIN now : now'[c] \in S
    BY <1>5, <1>7 DEF Forward
  <2>2. ASSUME NEW a \in S PROVE \E c \in DOMAIN now : now'[c] = a
    <3>1. CASE a = to
      BY <1>5, <1>7, <3>1 DEF Forward
    <3>2. CASE a # to
      <4>1. PICK c \in DOMAIN now : now[c] = a
        BY <1>5, <3>2
      <4>2. a # from
        BY <1>3, <3>2
      <4> QED
        BY <1>7, <4>1, <4>2 DEF Forward
    <3> QED
      BY <3>1, <3>2
  <2>3. S \subseteq 1 .. from - 1
    BY <1>1, <1>3, <1>5 DEF Cells
  <2> QED
    BY <1>6, <2>1, <2>2, <2>3
<1>9. Apart'
  <2> SUFFICES ASSUME NEW c \in DOMAIN now, NEW d \in DOMAIN now, now'[c] = now'[d]
               PROVE  c = d
    BY <1>6 DEF Apart
  <2>1. now[c] # to /\ now[d] # to
    BY <1>1, <1>5
  <2>2. now[c] = now[d]
    BY <1>7, <2>1 DEF Forward
  <2> QED
    BY <1>2, <2>2 DEF Apart
<1>10. \A p \in DOMAIN now \union {Nil} : At(now', p) = Forward(At(now, p), from, to)
  BY <1>3, <1>7 DEF At, Forward, Nil, Cells
<1>11. ASSUME NEW c \in DOMAIN now
       PROVE  cell'[now'[c]] = Renamed(now', start.cell[c])
  <2>1. w[now'[c]] = Renamed(now, start.cell[c])
    <3>1. cell[now[c]] = Renamed(now, start.cell[c]) /\ now[c] # to
      BY <1>1, <1>2, <1>5 DEF Faithful
    <3>2. cell \in [Cells -> Cell] /\ now[c] \in Cells
      BY <1>2, <1>4 DEF TypeOK
    <3> QED
      BY <1>3, <1>7, <3>1, <3>2 DEF Forward
  <2>2. now'[c] \in S /\ now'[c] \in Cells /\ now'[c] <= from
    BY <1>3, <1>6, <1>8 DEF Cells
  <2>3. cell'[now'[c]] = Recovered(Corrected(w[now'[c]], from, to), from, to)
    BY <1>1, <2>2 DEF movepointer
  <2>4. to \in 1 .. WORKSPACESIZE - 1
    BY <1>1, <1>3, SizeAssumption DEF Cells
  <2> QED
    BY <1>3, <1>4, <1>6, <1>7, <2>1, <2>3, <2>4, CorrectedCell
<1>12. Faithful'
  <2>1. \A p \in {start.GlobalEnv, start.GCStack, start.arg} : p \in DOMAIN now \union {Nil}
    BY <1>2, <1>4, LiveClosed DEF Scanned
  <2>2. /\ GlobalEnv' = At(now', start.GlobalEnv)
        /\ GCStack' = At(now', start.GCStack)
        /\ arg' = At(now', start.arg)
    BY <1>1, <1>2, <1>10, <2>1 DEF Faithful
  <2> QED
    BY <1>1, <1>6, <1>11, <2>2 DEF Faithful
<1>13. TypeOK'
  <2>1. \A c \in DOMAIN now : cell'[now'[c]] \in Cell
    BY <1>4, <1>6, <1>11, RenamedType
  <2>2. \A a \in S : cell'[a] \in Cell
    BY <1>8, <1>6, <2>1
  <2>3. \A a \in Cells \ S : cell'[a] = cell[a]
    BY <1>1, <1>3 DEF movepointer
  <2>4. cell' \in [Cells -> Cell]
    <3>1. cell \in [Cells -> Cell]
      BY <1>2 DEF TypeOK
    <3>2. cell' = [a \in Cells |-> cell'[a]]
      BY <1>1 DEF movepointer
    <3> QED
      BY <2>2, <2>3, <3>1, <3>2
  <2>5. GlobalEnv' \in Ptrs /\ GCStack' \in Ptrs /\ arg' \in Ptrs
    BY <1>1, <1>2, <1>3 DEF TypeOK, Forward, Ptrs
  <2> QED
    BY <1>1, <1>2, <1>3, <1>6, <1>8, <2>4, <2>5 DEF TypeOK, Cells
<1>14. Scanned'
  <2>1. 1 .. to - 1 \subseteq marked
    BY <1>1, <1>2 DEF Scanned
  <2>2. 1 .. to - 1 \subseteq S
    BY <1>1, <1>3, <2>1 DEF Cells
  <2>3. start.arg \in DOMAIN now \union {Nil}
    BY <1>2 DEF Scanned
  <2> QED
    BY <1>1, <1>6, <1>8, <2>2, <2>3 DEF Scanned
<1>15. Dense'
  BY <1>1 DEF Dense
<1> QED
  BY <1>9, <1>12, <1>13, <1>14, <1>15 DEF IInv

\* The invariant is inductive: it holds at first, and every step keeps it.
LEMMA InitIInv == Init => IInv
<1> SUFFICES ASSUME Init PROVE IInv
  OBVIOUS
<1>1. start \in Heap /\ start.arg \in Live(start) \union {Nil}
  BY HeapsAssumption DEF Init
<1>2. /\ Live(start) \subseteq Cells
      /\ {start.GlobalEnv, start.GCStack} \subseteq Live(start) \union {Nil}
  BY <1>1, LiveClosed
<1>3. now = [c \in Live(start) |-> c] /\ now \in [Live(start) -> Cells]
  BY <1>2 DEF Init
<1>4. \A p \in Live(start) \union {Nil} : At(now, p) = p
  BY <1>3 DEF At
<1>5. TypeOK
  BY <1>1, <1>3, SizeAssumption DEF Init, TypeOK, Heap, Cells
<1>6. ASSUME NEW c \in Live(start) PROVE cell[now[c]] = Renamed(now, start.cell[c])
  <2> DEFINE o == start.cell[c]
  <2>1. o \in Cell /\ Links(o) \subseteq Live(start) \union {Nil}
    BY <1>1, LiveClosed DEF Heap
  <2>2. \A p \in Links(o) : At(now, p) = p
    BY <1>4, <2>1
  <2>3. cell[now[c]] = o
    BY <1>3 DEF Init
  <2> HIDE DEF o
  <2>4. Renamed(now, o) = o
    BY <2>1, <2>2 DEF Renamed, Links, Cell, Pairs, Strings, Arrays, Blocks, Atoms
  <2> QED
    BY <2>3, <2>4 DEF o
<1>7. Faithful
  BY <1>1, <1>2, <1>3, <1>4, <1>6 DEF Faithful, Init
<1>8. Apart /\ Dense /\ Scanned
  BY <1>1, <1>3 DEF Init, Apart, Dense, Scanned
<1> QED
  BY <1>5, <1>7, <1>8 DEF IInv

LEMMA NextIInv == PlainText /\ IInv /\ [Next]_vars => IInv'
<1> SUFFICES ASSUME PlainText, IInv, [Next]_vars PROVE IInv'
  OBVIOUS
<1>0. TypeOK /\ Faithful /\ Apart /\ Dense /\ Scanned
  BY DEF IInv
<1>1. CASE Mark
  <2>1. /\ pc = "mark" /\ pc' = "move" /\ firstfree' = 1 /\ obj' = WORKSPACESIZE
        /\ marked' = DOMAIN now
        /\ UNCHANGED <<start, cell, GlobalEnv, GCStack, arg, now>>
    BY <1>1 DEF Mark, MarkFrom
  <2>2. DOMAIN now \subseteq Cells /\ \A c \in DOMAIN now : now[c] = c
    BY <1>0, <2>1 DEF TypeOK, Live, Scanned
  <2>3. TypeOK'
    BY <1>0, <2>1, <2>2, SizeAssumption DEF TypeOK, Cells
  <2>4. Faithful' /\ Apart' /\ Dense'
    BY <1>0, <2>1 DEF Faithful, Apart, Dense
  <2>5. Scanned'
    BY <1>0, <2>1, <2>2 DEF Scanned, Cells
  <2> QED
    BY <2>3, <2>4, <2>5 DEF IInv
<1>2. CASE Scan
  <2>1. /\ pc = "move" /\ pc' = "move" /\ firstfree \in marked /\ firstfree' = firstfree + 1
        /\ UNCHANGED <<start, cell, marked, GlobalEnv, GCStack, arg, obj, now>>
    BY <1>2 DEF Scan
  <2>2. TypeOK'
    BY <1>0, <2>1, SizeAssumption DEF TypeOK, Cells
  <2>3. Faithful' /\ Apart' /\ Dense'
    BY <1>0, <2>1 DEF Faithful, Apart, Dense
  <2>4. Scanned'
    BY <1>0, <2>1 DEF Scanned, TypeOK
  <2> QED
    BY <2>2, <2>3, <2>4 DEF IInv
<1>3. CASE Move /\ obj \in marked
  BY <1>3, MovePreserves
<1>4. CASE Move /\ obj \notin marked
  <2>1. /\ pc = "move" /\ pc' = "move" /\ firstfree < obj /\ obj' = obj - 1
        /\ UNCHANGED <<start, cell, marked, GlobalEnv, GCStack, arg, firstfree, now>>
    BY <1>4 DEF Move
  <2>2. TypeOK'
    BY <1>0, <2>1, SizeAssumption DEF TypeOK, Cells
  <2>3. Faithful' /\ Apart' /\ Dense'
    BY <1>0, <2>1 DEF Faithful, Apart, Dense
  <2>4. Scanned'
    BY <1>0, <1>4, <2>1 DEF Scanned, TypeOK, Cells
  <2> QED
    BY <2>2, <2>3, <2>4 DEF IInv
<1>5. CASE Sweep
  <2>1. /\ pc = "move" /\ pc' = "done" /\ firstfree \notin marked /\ firstfree >= obj
        /\ marked' = {}
        /\ UNCHANGED <<start, cell, GlobalEnv, GCStack, arg, firstfree, obj, now>>
    BY <1>5 DEF Sweep, Finish, AtGap
  <2>2. TypeOK' /\ Faithful' /\ Apart' /\ Scanned'
    BY <1>0, <2>1 DEF TypeOK, Faithful, Apart, Scanned
  <2>3. marked = 1 .. firstfree - 1
    <3>1. marked \subseteq 1 .. obj /\ 1 .. firstfree - 1 \subseteq marked
      BY <1>0, <2>1 DEF Scanned
    <3>2. obj \in Nat /\ firstfree \in Nat
      BY <1>0 DEF TypeOK, Cells
    <3>3. ASSUME NEW c \in marked PROVE c \in 1 .. firstfree - 1
      <4>1. c \in 1 .. obj /\ c # firstfree
        BY <2>1, <3>1
      <4> QED
        BY <2>1, <3>2, <4>1
    <3> QED
      BY <3>1, <3>3
  <2>4. {now'[c] : c \in DOMAIN now'} = marked
    BY <1>0, <2>1 DEF Scanned
  <2>5. Dense'
    BY <2>1, <2>3, <2>4 DEF Dense
  <2> QED
    BY <2>2, <2>5 DEF IInv
<1>6. CASE Done \/ UNCHANGED vars
  BY <1>0, <1>6 DEF Done, vars, IInv, TypeOK, Faithful, Apart, Dense, Scanned
<1> QED
  BY <1>1, <1>2, <1>3, <1>4, <1>5, <1>6 DEF Next

\* compactimage: the invariant holds throughout every compaction of a workspace whose
\* text does not read as an address.
THEOREM Invariance ==
  ASSUME PlainText
  PROVE  Spec => []IInv
<1>1. Init => IInv
  BY InitIInv
<1>2. IInv /\ [Next]_vars => IInv'
  BY NextIInv
<1> QED
  BY <1>1, <1>2, PTL DEF Spec

\* compactimage, movepointer: no pointer, type or character is lost or changed.
THEOREM CompactionFaithful ==
  ASSUME PlainText
  PROVE  Spec => []Faithful
<1>1. IInv => Faithful
  BY DEF IInv
<1> QED
  BY <1>1, Invariance, PTL

\* compactimage, saveimage: what is live is the first cells of the workspace.
THEOREM ImageDense ==
  ASSUME PlainText
  PROVE  Spec => []Dense
<1>1. IInv => Dense
  BY DEF IInv
<1> QED
  BY <1>1, Invariance, PTL
=============================================================================
