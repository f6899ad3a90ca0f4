----------------------------- MODULE HeapProofs -----------------------------
(***************************************************************************)
(* Proofs about Heap, for a workspace of any size: the inductive invariant *)
(* IInv, and from it that no reachable cell is ever free, that nothing     *)
(* dangles, that the free list is exact and that a collection keeps        *)
(* exactly what is reachable.                                              *)
(***************************************************************************)
EXTENDS Heap, FiniteSetTheorems, TLAPS

-----------------------------------------------------------------------------
(* Facts about reachability.                                               *)

\* Every closed set that holds the roots holds all that is live.
LEMMA LiveLeast ==
  ASSUME NEW S \in SUBSET Cells, Roots \subseteq S, Closed(S)
  PROVE  Live \subseteq S
BY DEF Live

\* The roots are live.
LEMMA RootsLive ==
  ASSUME Roots \subseteq Cells
  PROVE  Roots \subseteq Live
BY DEF Live

\* What a live cell points to is live.
LEMMA LiveClosed ==
  ASSUME NEW c \in Live, Children(c) \subseteq Cells
  PROVE  Children(c) \subseteq Live
BY DEF Live, Closed

\* Reachability is a matter of the words and the roots only.
LEMMA LiveUnchanged ==
  ASSUME UNCHANGED <<words, roots>>
  PROVE  Live' = Live /\ \A c : Children(c)' = Children(c)
<1>1. \A c : Children(c)' = Children(c)
  BY DEF Children, words
<1>2. Roots' = Roots
  BY DEF Roots, roots
<1>3. \A S : Closed(S)' = Closed(S)
  BY <1>1 DEF Closed
<1>4. QED
  BY <1>1, <1>2, <1>3 DEF Live

\* Outside a sweep a cell exists when it is allocated.
LEMMA ExistsRunning ==
  ASSUME phase # "sweep"
  PROVE  Exists = Allocated /\ Threaded = FreeCells
BY DEF Exists, Threaded, FreeCells

\* What exists is closed and holds the roots, so what is live exists.
LEMMA LiveExists ==
  ASSUME TypeOK, WellKinded, RootsExist
  PROVE  /\ Live \subseteq Exists
         /\ \A c \in Exists : Children(c) \subseteq Exists
<1>1. Exists \subseteq Cells
  BY DEF Exists, Allocated
<1>2. \A c \in Exists : Children(c) \subseteq Exists
  BY <1>1 DEF WellKinded, Children, ObjRef, CharsRef
<1>3. Roots \subseteq Exists
  BY DEF RootsExist, Roots, ObjRef
<1>4. Live \subseteq Exists
  BY <1>1, <1>2, <1>3, LiveLeast DEF Closed
<1>5. QED
  BY <1>2, <1>4

\* While no sweep is on, the evaluator's handles are objects that exist.
LEMMA HandlesExist ==
  ASSUME TypeOK, WellKinded, RootsExist
  PROVE  Handles \subseteq ObjRef
BY LiveExists DEF Handles, ObjRef

\* The cells of the free list are finitely many.
LEMMA ThreadedFinite ==
  IsFiniteSet(Threaded) /\ Threaded \subseteq Cells
<1>1. IsFiniteSet(Cells)
  BY SizeAssumption, FS_Interval DEF Cells
<1>2. Threaded \in SUBSET Cells
  BY DEF Threaded, FreeCells
<1>3. QED
  BY <1>1, <1>2, FS_Subset

-----------------------------------------------------------------------------
(* Initial states.                                                         *)

LEMMA InitIInv == Init => IInv
<1> SUFFICES ASSUME Init PROVE IInv
  OBVIOUS
<1> USE SizeAssumption
<1>1. TypeOK
  BY DEF Init, TypeOK, Cells, Nil, Ref, Kinds, tee
<1>2. Threaded = 1 .. WORKSPACESIZE - 1
  BY DEF Init, Threaded, FreeCells, Cells, tee
<1>3. FreeListExact
  <2>1. Cardinality(Threaded) = WORKSPACESIZE - 1
    BY <1>2, FS_Interval
  <2>2. IsNext(Threaded, 0, Freelist)
    BY <1>2 DEF Init, IsNext, Nil
  <2>3. ASSUME NEW c \in Threaded
        PROVE  car[c] = Nil /\ IsNext(Threaded, c + 1, cdr[c])
    BY <1>2, <2>3 DEF Init, IsNext, Nil, Cells, tee
  <2>4. QED
    BY <2>1, <2>2, <2>3 DEF FreeListExact, Init
<1>4. tee \in Allocated /\ Exists = {tee}
  BY DEF Init, Allocated, FreeCells, Exists, Cells, tee
<1>5. WellKinded
  BY <1>4 DEF Init, WellKinded, Cells
<1>6. RootsExist
  BY <1>4 DEF Init, RootsExist, ObjRef, Cells, tee
<1>7. Idle /\ Marking /\ Sweeping
  BY DEF Init, Idle, Marking, Sweeping
<1>8. QED
  BY <1>1, <1>3, <1>5, <1>6, <1>7 DEF IInv

-----------------------------------------------------------------------------
(* The mutator.                                                            *)

\* While there is a free cell, Freelist is one.
LEMMA AllocFreeHead ==
  ASSUME IInv, phase = "run", Freespace # 0
  PROVE  Freelist \in FreeCells /\ \A c \in FreeCells : Freelist <= c
<1>1. Threaded = FreeCells /\ FreeCells \subseteq Cells
  BY ExistsRunning DEF FreeCells
<1>2. IsNext(FreeCells, 0, Freelist) /\ Freespace = Cardinality(FreeCells)
  BY <1>1 DEF IInv, FreeListExact
<1>3. FreeCells # {}
  BY <1>1, <1>2, ThreadedFinite, FS_EmptySet
<1>4. \A c \in FreeCells : c \in Int /\ c >= 0 /\ ~(c < 0)
  BY <1>1 DEF Cells
<1>5. QED
  BY <1>2, <1>3, <1>4 DEF IsNext

\* myalloc takes a free cell and leaves the free list exact, whatever is stored
\* in the new cell and in cells that are not free.
LEMMA AllocFree ==
  ASSUME IInv, phase = "run", phase' = "run", Freespace # 0,
         NEW k \in Kinds, k # "free",
         kind' = [kind EXCEPT ![Freelist] = k],
         car' \in [Cells -> Ref], cdr' \in [Cells -> Ref],
         \A c \in FreeCells \ {Freelist} : car'[c] = car[c] /\ cdr'[c] = cdr[c],
         Freelist' = cdr[Freelist], Freespace' = Freespace - 1
  PROVE  /\ Freelist \in FreeCells
         /\ FreeCells' = FreeCells \ {Freelist}
         /\ FreeListExact'
         /\ Freelist' \in Ref
         /\ Freespace' \in 0 .. WORKSPACESIZE
<1> USE SizeAssumption
<1>1. Threaded = FreeCells /\ FreeCells \subseteq Cells
  BY ExistsRunning DEF FreeCells
<1>2. IsNext(FreeCells, 0, Freelist) /\ Freespace = Cardinality(FreeCells)
  BY <1>1 DEF IInv, FreeListExact
<1>4. Freelist \in FreeCells /\ \A c \in FreeCells : Freelist <= c
  BY AllocFreeHead
<1>5. FreeCells' = FreeCells \ {Freelist}
  BY <1>4 DEF FreeCells, IInv, TypeOK
<1>6. Threaded' = FreeCells \ {Freelist}
  BY <1>5 DEF Threaded
<1>7. Cardinality(Threaded') = Freespace - 1
  BY <1>1, <1>2, <1>4, <1>6, ThreadedFinite, FS_RemoveElement
<1>8. IsNext(Threaded', 0, Freelist')
  <2>1. IsNext(FreeCells, Freelist + 1, cdr[Freelist])
    BY <1>1, <1>4 DEF IInv, FreeListExact
  <2>2. \A c \in FreeCells : c \in Int /\ c >= 0 /\ (c # Freelist <=> c >= Freelist + 1)
    BY <1>1, <1>4 DEF Cells
  <2>3. CASE cdr[Freelist] = Nil
    <3>1. \A c \in FreeCells : c = Freelist
      BY <2>1, <2>2, <2>3, <1>4 DEF IsNext
    <3>2. QED
      BY <3>1, <2>3, <1>6 DEF IsNext
  <2>4. CASE cdr[Freelist] # Nil
    BY <2>1, <2>2, <2>4, <1>4, <1>6 DEF IsNext
  <2>5. QED
    BY <2>3, <2>4
<1>9. ASSUME NEW c \in Threaded'
      PROVE  car'[c] = Nil /\ IsNext(Threaded', c + 1, cdr'[c])
  <2>1. c \in FreeCells /\ c # Freelist /\ c \in Int /\ Freelist < c
    BY <1>1, <1>4, <1>6 DEF Cells
  <2>2. car[c] = Nil /\ IsNext(FreeCells, c + 1, cdr[c])
    BY <1>1, <2>1 DEF IInv, FreeListExact
  <2>3. car'[c] = Nil /\ cdr'[c] = cdr[c]
    BY <2>1, <2>2
  <2>4. QED
    BY <2>1, <2>2, <2>3, <1>1, <1>4, <1>6 DEF IsNext, Cells, Nil
<1>10. Freelist' \in Ref
  BY <1>1, <1>4 DEF IInv, TypeOK
<1>11. Freespace' \in 0 .. WORKSPACESIZE
  BY DEF IInv, TypeOK
<1>12. QED
  BY <1>4, <1>5, <1>7, <1>8, <1>9, <1>10, <1>11 DEF FreeListExact

\* A constructor stores references to objects that exist, and the roots become
\* such references or the new object.
LEMMA AllocStep ==
  ASSUME IInv, Running, NEW k, NEW a, NEW d, myalloc(k, a, d),
         k \in Kinds \ {"free", "chars"},
         a \in Ref, d \in Ref,
         k = "pair" => a \in ObjRef /\ d \in ObjRef,
         k = "array" => d \in ObjRef,
         k = "text" => d = Nil,
         {GlobalEnv', GCStack', form', env'} \subseteq ObjRef \union {Freelist}
  PROVE  IInv'
<1> USE SizeAssumption
<1>1. phase = "run" /\ phase' = "run" /\ UNCHANGED gcvars
  BY DEF Running, gcvars
<1>a. car' \in [Cells -> Ref] /\ cdr' \in [Cells -> Ref]
  BY DEF myalloc, IInv, TypeOK
<1>b. \A c \in FreeCells \ {Freelist} : car'[c] = car[c] /\ cdr'[c] = cdr[c]
  BY DEF myalloc, IInv, TypeOK, FreeCells
<1>3. /\ Freelist \in FreeCells
      /\ FreeCells' = FreeCells \ {Freelist}
      /\ FreeListExact'
      /\ Freelist' \in Ref
      /\ Freespace' \in 0 .. WORKSPACESIZE
  BY <1>1, <1>a, <1>b, AllocFree DEF myalloc
<1>4. Freelist \in Cells /\ Freelist # Nil
  BY <1>3 DEF FreeCells, Cells, Nil
<1>5. Exists = Allocated /\ Exists' = Allocated'
  BY <1>1 DEF Exists, Allocated, FreeCells
<1>6. Exists' = Exists \union {Freelist} /\ Freelist \notin Exists /\ Exists \subseteq Cells
  BY <1>3, <1>4, <1>5 DEF Allocated
<1>7. /\ car' = [car EXCEPT ![Freelist] = a]
      /\ cdr' = [cdr EXCEPT ![Freelist] = d]
      /\ kind' = [kind EXCEPT ![Freelist] = k]
  BY DEF myalloc
<1>8. /\ kind'[Freelist] = k /\ car'[Freelist] = a /\ cdr'[Freelist] = d
      /\ \A c \in Exists : kind'[c] = kind[c] /\ car'[c] = car[c] /\ cdr'[c] = cdr[c]
  BY <1>4, <1>6, <1>7 DEF IInv, TypeOK
<1>9. ObjRef' = ObjRef \union {Freelist} /\ CharsRef' = CharsRef
  BY <1>6, <1>8 DEF ObjRef, CharsRef
<1>10. TypeOK'
  <2>1. kind' \in [Cells -> Kinds]
    BY <1>7 DEF IInv, TypeOK
  <2>2. {GlobalEnv', GCStack', form', env'} \subseteq Ref
    BY <1>4, <1>6 DEF ObjRef, Ref
  <2>3. QED
    BY <2>1, <2>2, <1>1, <1>a, <1>3 DEF IInv, TypeOK, gcvars
<1>11. WellKinded'
  <2> SUFFICES ASSUME NEW c \in Exists'
               PROVE  /\ kind'[c] = "pair"  => car'[c] \in ObjRef' /\ cdr'[c] \in ObjRef'
                      /\ kind'[c] = "array" => cdr'[c] \in ObjRef'
                      /\ kind'[c] = "text"  => cdr'[c] \in CharsRef'
                      /\ kind'[c] = "chars" => car'[c] \in CharsRef'
    BY DEF WellKinded
  <2>1. CASE c = Freelist
    BY <2>1, <1>8, <1>9 DEF CharsRef
  <2>2. CASE c \in Exists
    BY <2>2, <1>8, <1>9 DEF IInv, WellKinded
  <2>3. QED
    BY <2>1, <2>2, <1>6
<1>12. RootsExist'
  BY <1>9 DEF IInv, RootsExist, tee
<1>13. Idle' /\ Marking' /\ Sweeping'
  BY <1>1 DEF IInv, Idle, Marking, Sweeping, gcvars
<1>14. QED
  BY <1>3, <1>10, <1>11, <1>12, <1>13 DEF IInv

\* A new block is linked behind the last one of a text.
LEMMA BuildStringStep ==
  ASSUME IInv, NEW t \in Cells, BuildString(t)
  PROVE  IInv'
<1> USE SizeAssumption
<1>1. phase = "run" /\ phase' = "run" /\ UNCHANGED gcvars /\ UNCHANGED roots
  BY DEF BuildString, Running, gcvars
<1>2. t \in Exists /\ kind[t] \in {"text", "chars"}
  BY LiveExists DEF BuildString, IInv
<1>3. Exists = Allocated /\ Exists' = Allocated' /\ t \notin FreeCells
  BY <1>1, <1>2 DEF Exists, Allocated, FreeCells
<1>b. car' \in [Cells -> Ref] /\ cdr' \in [Cells -> Ref]
  BY DEF BuildString, IInv, TypeOK, Ref
<1>c. \A c \in FreeCells \ {Freelist} : car'[c] = car[c] /\ cdr'[c] = cdr[c]
  BY <1>3 DEF BuildString, IInv, TypeOK, FreeCells
<1>4. /\ Freelist \in FreeCells
      /\ FreeCells' = FreeCells \ {Freelist}
      /\ FreeListExact'
      /\ Freelist' \in Ref
      /\ Freespace' \in 0 .. WORKSPACESIZE
  BY <1>1, <1>b, <1>c, AllocFree DEF BuildString, Kinds
<1>5. Freelist \in Cells /\ Freelist # Nil /\ Freelist # t
  BY <1>3, <1>4 DEF FreeCells, Cells, Nil
<1>6. Exists' = Exists \union {Freelist} /\ Freelist \notin Exists /\ Exists \subseteq Cells
  BY <1>3, <1>4, <1>5 DEF Allocated
<1>7. /\ kind'[Freelist] = "chars" /\ car'[Freelist] = Nil
      /\ \A c \in Exists : kind'[c] = kind[c]
      /\ \A c \in Exists \ {t} : car'[c] = car[c] /\ cdr'[c] = cdr[c]
      /\ kind[t] = "text" => cdr'[t] = Freelist
      /\ kind[t] = "chars" => car'[t] = Freelist
  BY <1>2, <1>5, <1>6 DEF BuildString, IInv, TypeOK
<1>8. ObjRef' = ObjRef /\ CharsRef' = CharsRef \union {Freelist}
  BY <1>6, <1>7 DEF ObjRef, CharsRef
<1>9. TypeOK'
  <2>1. kind' \in [Cells -> Kinds]
    BY DEF BuildString, IInv, TypeOK, Kinds
  <2>2. QED
    BY <2>1, <1>1, <1>b, <1>4 DEF IInv, TypeOK, gcvars, roots
<1>10. WellKinded'
  <2> SUFFICES ASSUME NEW c \in Exists'
               PROVE  /\ kind'[c] = "pair"  => car'[c] \in ObjRef' /\ cdr'[c] \in ObjRef'
                      /\ kind'[c] = "array" => cdr'[c] \in ObjRef'
                      /\ kind'[c] = "text"  => cdr'[c] \in CharsRef'
                      /\ kind'[c] = "chars" => car'[c] \in CharsRef'
    BY DEF WellKinded
  <2>1. CASE c = Freelist
    BY <2>1, <1>7, <1>8 DEF CharsRef
  <2>2. CASE c = t
    BY <2>2, <1>2, <1>7, <1>8
  <2>3. CASE c \in Exists \ {t}
    BY <2>3, <1>7, <1>8 DEF IInv, WellKinded
  <2>4. QED
    BY <2>1, <2>2, <2>3, <1>6
<1>11. RootsExist'
  BY <1>1, <1>8 DEF IInv, RootsExist, tee, roots
<1>12. Idle' /\ Marking' /\ Sweeping'
  BY <1>1 DEF IInv, Idle, Marking, Sweeping, gcvars
<1>13. QED
  BY <1>4, <1>9, <1>10, <1>11, <1>12 DEF IInv

\* Steps that keep every word but the fields of one pair, and the free list.
LEMMA StoreStep ==
  ASSUME IInv, Running, UNCHANGED <<kind, free, roots>>,
         NEW p \in Cells, kind[p] = "pair", NEW v \in ObjRef,
         \/ car' = [car EXCEPT ![p] = v] /\ UNCHANGED cdr
         \/ cdr' = [cdr EXCEPT ![p] = v] /\ UNCHANGED car
  PROVE  IInv'
<1>1. phase = "run" /\ phase' = "run" /\ UNCHANGED gcvars
  BY DEF Running, gcvars
<1>2. Exists' = Exists /\ Exists \subseteq Cells /\ FreeCells' = FreeCells
  BY <1>1 DEF Exists, Allocated, FreeCells, gcvars
<1>3. ObjRef' = ObjRef /\ CharsRef' = CharsRef /\ Threaded' = Threaded
  BY <1>1, <1>2 DEF ObjRef, CharsRef, Threaded, gcvars
<1>4. v \in Ref
  BY <1>2 DEF ObjRef, Ref
<1>5. car' \in [Cells -> Ref] /\ cdr' \in [Cells -> Ref]
  BY <1>4 DEF IInv, TypeOK
<1>6. TypeOK'
  BY <1>1, <1>5 DEF IInv, TypeOK, gcvars, free, roots
<1>7. FreeListExact'
  <2>1. \A c \in Threaded : c # p /\ c \in Cells
    BY DEF Threaded, FreeCells
  <2>2. \A c \in Threaded : car'[c] = car[c] /\ cdr'[c] = cdr[c]
    BY <2>1 DEF IInv, TypeOK
  <2>3. QED
    BY <2>2, <1>3 DEF IInv, FreeListExact, IsNext, free
<1>8. WellKinded'
  <2> SUFFICES ASSUME NEW c \in Exists
               PROVE  /\ kind[c] = "pair"  => car'[c] \in ObjRef /\ cdr'[c] \in ObjRef
                      /\ kind[c] = "array" => cdr'[c] \in ObjRef
                      /\ kind[c] = "text"  => cdr'[c] \in CharsRef
                      /\ kind[c] = "chars" => car'[c] \in CharsRef
    BY <1>2, <1>3 DEF WellKinded
  <2>1. CASE c = p
    <3>1. kind[c] = "pair" /\ car[c] \in ObjRef /\ cdr[c] \in ObjRef
      BY <2>1 DEF IInv, WellKinded
    <3>2. car'[c] \in {v, car[c]} /\ cdr'[c] \in {v, cdr[c]}
      BY <2>1 DEF IInv, TypeOK
    <3>3. car'[c] \in ObjRef /\ cdr'[c] \in ObjRef
      BY <3>1, <3>2
    <3>4. QED
      BY <3>1, <3>3
  <2>2. CASE c # p
    <3>1. car'[c] = car[c] /\ cdr'[c] = cdr[c]
      BY <2>2, <1>2 DEF IInv, TypeOK
    <3>2. QED
      BY <3>1 DEF IInv, WellKinded
  <2>3. QED
    BY <2>1, <2>2
<1>9. RootsExist' /\ Idle' /\ Marking' /\ Sweeping'
  BY <1>1, <1>3 DEF IInv, RootsExist, Idle, Marking, Sweeping, tee, roots, gcvars
<1>10. QED
  BY <1>6, <1>7, <1>8, <1>9 DEF IInv

\* Steps that only choose other objects that exist for roots.
LEMMA RootStep ==
  ASSUME IInv, Running, UNCHANGED <<words, free>>,
         {GlobalEnv', GCStack', form', env'} \subseteq ObjRef
  PROVE  IInv'
<1>1. phase = "run" /\ phase' = "run" /\ UNCHANGED gcvars
  BY DEF Running, gcvars
<1>2. Exists' = Exists /\ Exists \subseteq Cells /\ FreeCells' = FreeCells
  BY <1>1 DEF Exists, Allocated, FreeCells, gcvars, words
<1>3. ObjRef' = ObjRef /\ CharsRef' = CharsRef /\ Threaded' = Threaded
  BY <1>1, <1>2 DEF ObjRef, CharsRef, Threaded, gcvars, words
<1>4. {GlobalEnv', GCStack', form', env'} \subseteq Ref
  BY <1>2 DEF ObjRef, Ref
<1>5. TypeOK'
  BY <1>1, <1>4 DEF IInv, TypeOK, words, free, gcvars
<1>6. FreeListExact'
  BY <1>3 DEF IInv, FreeListExact, IsNext, words, free
<1>7. WellKinded'
  BY <1>2, <1>3 DEF IInv, WellKinded, words
<1>8. RootsExist' /\ Idle' /\ Marking' /\ Sweeping'
  BY <1>1, <1>3 DEF IInv, RootsExist, Idle, Marking, Sweeping, tee, gcvars
<1>9. QED
  BY <1>5, <1>6, <1>7, <1>8 DEF IInv

LEMMA MutateStep == IInv /\ Mutate => IInv'
<1> SUFFICES ASSUME IInv, Mutate PROVE IInv'
  OBVIOUS
<1> DEFINE P == {c \in Handles : c # Nil /\ kind[c] = "pair"}
<1>1. Handles \subseteq ObjRef /\ phase = "run"
  BY HandlesExist DEF IInv, Mutate
<1>2. Exists \subseteq Cells /\ ObjRef \subseteq Ref /\ Nil \in ObjRef
  BY DEF Exists, Allocated, ObjRef, Ref
<1>3. {GlobalEnv, GCStack, form, env} \subseteq ObjRef
  BY DEF IInv, RootsExist
<1>4. P \subseteq Cells
  BY <1>1, <1>2 DEF ObjRef
<1>5. CASE \E a, d \in Handles : Cons(a, d)
  <2>1. PICK a \in Handles, d \in Handles : Cons(a, d)
    BY <1>5
  <2>2. QED
    BY <2>1, <1>1, <1>2, <1>3, AllocStep DEF Cons, ToForm, Kinds
<1>6. CASE MakeAtom
  BY <1>6, <1>2, <1>3, AllocStep DEF MakeAtom, ToForm, Kinds
<1>7. CASE \E d \in Handles : MakeArray(d)
  <2>1. PICK d \in Handles : MakeArray(d)
    BY <1>7
  <2>2. QED
    BY <2>1, <1>1, <1>2, <1>3, AllocStep DEF MakeArray, ToForm, Kinds
<1>8. CASE NewString
  BY <1>8, <1>2, <1>3, AllocStep DEF NewString, ToForm, Kinds
<1>9. CASE \E t \in Cells : BuildString(t)
  BY <1>9, BuildStringStep
<1>10. CASE Intern
  <2>1. CASE \E c \in Cells : kind[c] = "symbol"
    <3>1. form' \in {c \in Cells : kind[c] = "symbol"}
      BY <1>10, <2>1 DEF Intern
    <3>2. form' \in ObjRef
      BY <3>1, <1>1 DEF ObjRef, Exists, Allocated, FreeCells
    <3>3. Running /\ UNCHANGED <<words, free, GlobalEnv, GCStack, env>>
      BY <1>10, <2>1 DEF Intern
    <3>4. QED
      BY <3>2, <3>3, <1>3, RootStep
  <2>2. CASE ~ \E c \in Cells : kind[c] = "symbol"
    BY <1>10, <2>2, <1>2, <1>3, AllocStep DEF Intern, ToForm, Kinds
  <2>3. QED
    BY <2>1, <2>2
<1>11. CASE \E p \in P, v \in Handles : Rplaca(p, v)
  BY <1>11, <1>1, <1>4, StoreStep DEF Rplaca
<1>12. CASE \E p \in P, v \in Handles : Rplacd(p, v)
  BY <1>12, <1>1, <1>4, StoreStep DEF Rplacd
<1>13. CASE \E x \in Handles : protect(x)
  <2>1. PICK x \in Handles : protect(x)
    BY <1>13
  <2>2. QED
    BY <2>1, <1>1, <1>2, <1>3, AllocStep DEF protect, Kinds
<1>14. CASE unprotect
  <2>1. GCStack \in Exists /\ kind[GCStack] = "pair"
    BY <1>14, <1>3 DEF unprotect, ObjRef
  <2>2. cdr[GCStack] \in ObjRef
    BY <2>1 DEF IInv, WellKinded
  <2>3. QED
    BY <1>14, <2>2, <1>3, RootStep DEF unprotect
<1>15. CASE \E x \in Handles : Define(x)
  <2>1. PICK x \in Handles : Define(x)
    BY <1>15
  <2>2. QED
    BY <2>1, <1>1, <1>2, <1>3, AllocStep DEF Define, Kinds
<1>16. CASE Makunbound
  <2>1. GlobalEnv \in Exists /\ kind[GlobalEnv] = "pair"
    BY <1>16, <1>3 DEF Makunbound, ObjRef
  <2>2. cdr[GlobalEnv] \in ObjRef
    BY <2>1 DEF IInv, WellKinded
  <2>3. QED
    BY <1>16, <2>2, <1>3, RootStep DEF Makunbound
<1>17. CASE \E f, e \in Handles : Eval(f, e)
  BY <1>17, <1>1, <1>3, RootStep DEF Eval
<1>18. CASE Error
  BY <1>18, <1>2, <1>3, RootStep DEF Error
<1>19. QED
  BY <1>5, <1>6, <1>7, <1>8, <1>9, <1>10, <1>11, <1>12, <1>13, <1>14, <1>15,
     <1>16, <1>17, <1>18 DEF Mutate

-----------------------------------------------------------------------------
(* The collector.                                                          *)

\* A step of the marker changes no word, no root and no free cell: only what
\* Marking says is at stake.
LEMMA MarkStep ==
  ASSUME IInv, UNCHANGED <<words, free, roots, i>>,
         phase # "sweep", phase' = "mark",
         marked' \subseteq Cells, stack' \in Seq(Ref), chain' \in Ref,
         Marking'
  PROVE  IInv'
<1>1. Exists' = Exists /\ FreeCells' = FreeCells /\ Allocated' = Allocated
  BY DEF Exists, Allocated, FreeCells, words
<1>2. ObjRef' = ObjRef /\ CharsRef' = CharsRef /\ Threaded' = Threaded
  BY <1>1 DEF ObjRef, CharsRef, Threaded, words
<1>3. TypeOK'
  BY DEF IInv, TypeOK, words, free, roots
<1>4. FreeListExact' /\ WellKinded'
  BY <1>1, <1>2 DEF IInv, FreeListExact, IsNext, WellKinded, words, free
<1>5. RootsExist' /\ Idle' /\ Sweeping'
  BY <1>2 DEF IInv, RootsExist, Idle, Sweeping, tee, roots
<1>6. QED
  BY <1>3, <1>4, <1>5 DEF IInv

LEMMA StartGCStep == IInv /\ StartGC => IInv'
<1> SUFFICES ASSUME IInv, StartGC PROVE IInv'
  OBVIOUS
<1>1. /\ UNCHANGED <<words, free, roots, i>> /\ UNCHANGED <<marked, chain>>
      /\ phase = "run" /\ phase' = "mark" /\ marked = {} /\ chain = Nil
      /\ stack' = <<tee, GlobalEnv, GCStack, form, env>>
  BY DEF StartGC, GCRoots, IInv, Idle
<1>2. {tee, GlobalEnv, GCStack, form, env} \subseteq ObjRef /\ ObjRef \subseteq Ref
  BY DEF IInv, RootsExist, ObjRef, Exists, Allocated, Ref
<1>3. stack' \in Seq(Ref)
  BY <1>1, <1>2
<1>4. Range(stack') = {tee, GlobalEnv, GCStack, form, env}
  <2>1. DOMAIN stack' = 1 .. 5
    BY <1>1
  <2>2. /\ stack'[1] = tee /\ stack'[2] = GlobalEnv /\ stack'[3] = GCStack
        /\ stack'[4] = form /\ stack'[5] = env
    BY <1>1
  <2>3. QED
    BY <2>1, <2>2 DEF Range
<1>5. Pending' = {tee, GlobalEnv, GCStack, form, env, Nil}
  BY <1>1, <1>4 DEF Pending
<1>6. ObjRef' = ObjRef /\ CharsRef' = CharsRef /\ Allocated' = Allocated
  BY <1>1 DEF ObjRef, CharsRef, Exists, Allocated, FreeCells, words
<1>7. Roots' = Roots /\ Live' = Live
  BY <1>1, LiveUnchanged DEF Roots, roots
<1>8. Roots \subseteq Live
  BY <1>2, RootsLive DEF Roots, Ref
<1>9. Marking'
  <2>1. Range(stack') \subseteq ObjRef'
    BY <1>2, <1>4, <1>6
  <2>2. chain' \in CharsRef' /\ marked' = {}
    BY <1>1 DEF CharsRef
  <2>3. Roots' \subseteq marked' \union Pending'
    BY <1>5, <1>7 DEF Roots
  <2>4. marked' \union Pending' \subseteq Live' \union {Nil}
    BY <1>5, <1>7, <1>8, <2>2 DEF Roots
  <2>5. QED
    BY <2>1, <2>2, <2>3, <2>4 DEF Marking
<1>10. QED
  BY <1>1, <1>3, <1>9, MarkStep DEF IInv, TypeOK

\* The members of a sequence put in front of the tail of another.
LEMMA RangePush ==
  ASSUME NEW S, NEW s \in Seq(S), s # << >>, NEW t \in Seq(S)
  PROVE  t \o Tail(s) \in Seq(S) /\ Range(t \o Tail(s)) = Range(t) \union Range(Tail(s))
<1> DEFINE r == t \o Tail(s)
<1>1. Tail(s) \in Seq(S) /\ Len(Tail(s)) = Len(s) - 1 /\ Len(s) >= 1 /\ Len(s) \in Nat
  OBVIOUS
<1>2. r \in Seq(S) /\ Len(r) = Len(t) + Len(Tail(s)) /\ Len(t) \in Nat /\ Len(Tail(s)) \in Nat
  BY <1>1
<1>3. \A k \in 1 .. Len(r) : r[k] = IF k <= Len(t) THEN t[k] ELSE Tail(s)[k - Len(t)]
  BY <1>1, <1>2
<1>4. \A k \in 1 .. Len(Tail(s)) : Tail(s)[k] = s[k + 1]
  BY <1>1
<1>5. DOMAIN r = 1 .. Len(r) /\ DOMAIN s = 1 .. Len(s) /\ DOMAIN t = 1 .. Len(t)
      /\ DOMAIN Tail(s) = 1 .. Len(Tail(s))
  BY <1>1, <1>2
<1>6. {r[k] : k \in DOMAIN r} \subseteq
        {t[k] : k \in DOMAIN t} \union {Tail(s)[k] : k \in DOMAIN Tail(s)}
  <2> SUFFICES ASSUME NEW k \in 1 .. Len(r)
               PROVE  r[k] \in {t[j] : j \in DOMAIN t} \union {Tail(s)[j] : j \in DOMAIN Tail(s)}
    BY <1>5
  <2>1. CASE k <= Len(t)
    <3>1. k \in 1 .. Len(t)
      BY <1>2, <2>1
    <3>2. r[k] = t[k]
      BY <1>3, <2>1
    <3>3. QED
      BY <3>1, <3>2, <1>5
  <2>2. CASE k > Len(t)
    <3>1. k - Len(t) \in 1 .. Len(Tail(s))
      BY <1>2, <2>2
    <3>2. r[k] = Tail(s)[k - Len(t)]
      BY <1>2, <1>3, <2>2
    <3>3. QED
      BY <3>1, <3>2, <1>5
  <2>3. QED
    BY <2>1, <2>2, <1>2
<1>7. {t[k] : k \in DOMAIN t} \subseteq {r[k] : k \in DOMAIN r}
  <2> SUFFICES ASSUME NEW k \in 1 .. Len(t)
               PROVE  t[k] \in {r[j] : j \in DOMAIN r}
    BY <1>5
  <2>1. k \in 1 .. Len(r) /\ r[k] = t[k]
    BY <1>2, <1>3
  <2>2. QED
    BY <2>1, <1>5
<1>8. {Tail(s)[k] : k \in DOMAIN Tail(s)} \subseteq {r[k] : k \in DOMAIN r}
  <2> SUFFICES ASSUME NEW k \in 1 .. Len(Tail(s))
               PROVE  Tail(s)[k] \in {r[j] : j \in DOMAIN r}
    BY <1>5
  <2>1. k + Len(t) \in 1 .. Len(r) /\ k + Len(t) > Len(t) /\ (k + Len(t)) - Len(t) = k
    BY <1>2
  <2>2. r[k + Len(t)] = Tail(s)[k]
    BY <1>2, <1>3, <2>1
  <2>3. QED
    BY <2>1, <2>2, <1>5
<1>9. QED
  BY <1>2, <1>6, <1>7, <1>8 DEF Range

\* The members of a sequence are its head and those of its tail.
LEMMA RangeHead ==
  ASSUME NEW S, NEW s \in Seq(S), s # << >>
  PROVE  Range(s) = {Head(s)} \union Range(Tail(s))
<1>1. Tail(s) \in Seq(S) /\ Len(Tail(s)) = Len(s) - 1 /\ Len(s) >= 1 /\ Len(s) \in Nat
  OBVIOUS
<1>4. \A k \in 1 .. Len(Tail(s)) : Tail(s)[k] = s[k + 1]
  BY <1>1
<1>5. DOMAIN s = 1 .. Len(s) /\ DOMAIN Tail(s) = 1 .. Len(Tail(s))
  BY <1>1
<1>9. {s[k] : k \in DOMAIN s} \subseteq {Head(s)} \union {Tail(s)[k] : k \in DOMAIN Tail(s)}
  <2> SUFFICES ASSUME NEW k \in 1 .. Len(s)
               PROVE  s[k] \in {Head(s)} \union {Tail(s)[j] : j \in DOMAIN Tail(s)}
    BY <1>5
  <2>1. CASE k = 1
    BY <2>1
  <2>2. CASE k # 1
    <3>1. k - 1 \in 1 .. Len(Tail(s)) /\ (k - 1) + 1 = k
      BY <1>1, <2>2
    <3>2. Tail(s)[k - 1] = s[k]
      BY <1>4, <3>1
    <3>3. QED
      BY <3>1, <3>2, <1>5
  <2>3. QED
    BY <2>1, <2>2
<1>10. {Head(s)} \union {Tail(s)[k] : k \in DOMAIN Tail(s)} \subseteq {s[k] : k \in DOMAIN s}
  <2>1. Head(s) = s[1] /\ 1 \in 1 .. Len(s)
    BY <1>1
  <2>2. ASSUME NEW k \in 1 .. Len(Tail(s))
        PROVE  Tail(s)[k] \in {s[j] : j \in DOMAIN s}
    <3>1. k + 1 \in 1 .. Len(s)
      BY <1>1
    <3>2. QED
      BY <3>1, <1>4, <1>5
  <2>3. QED
    BY <2>1, <2>2, <1>5
<1>11. QED
  BY <1>9, <1>10 DEF Range

LEMMA MarkObjectStep == IInv /\ MarkObject => IInv'
<1> SUFFICES ASSUME IInv, MarkObject PROVE IInv'
  OBVIOUS
<1> DEFINE o    == Head(stack)
           rest == Range(Tail(stack))
<1>1. /\ UNCHANGED <<words, free, roots, phase, i>>
      /\ phase = "mark" /\ chain = Nil /\ stack # << >>
      /\ stack \in Seq(Ref) /\ Tail(stack) \in Seq(Ref)
  BY DEF MarkObject, Seen, IInv, TypeOK
<1>2. Range(stack) = {o} \union rest
  BY <1>1, RangeHead
<1>3. Pending = {o, Nil} \union rest
  BY <1>1, <1>2 DEF Pending
<1>4. o \in ObjRef /\ rest \subseteq ObjRef
  BY <1>1, <1>2 DEF IInv, Marking
<1>5. ObjRef' = ObjRef /\ CharsRef' = CharsRef /\ Allocated' = Allocated
  BY <1>1 DEF ObjRef, CharsRef, Exists, Allocated, FreeCells, words
<1>6. Roots' = Roots /\ Live' = Live /\ \A c : Children(c)' = Children(c)
  BY <1>1, LiveUnchanged DEF Roots, roots
<1>7. CASE o = Nil \/ o \in marked
  <2>1. marked' = marked /\ chain' = Nil /\ stack' = Tail(stack)
    BY <1>1, <1>7 DEF MarkObject, Seen
  <2>2. Pending' = rest \union {Nil}
    BY <2>1 DEF Pending
  <2>3. \A S : S \subseteq marked \union Pending /\ Nil \notin S => S \subseteq marked' \union Pending'
    BY <1>3, <1>7, <2>1, <2>2
  <2>4. Nil \notin Roots /\ \A c : Nil \notin Children(c)
    BY DEF Roots, Children
  <2>5. Marking'
    <3>1. Range(stack') \subseteq ObjRef'
      BY <1>4, <1>5, <2>1
    <3>2. chain' \in CharsRef'
      BY <2>1 DEF CharsRef
    <3>3. Roots' \subseteq marked' \union Pending'
      BY <1>1, <1>6, <2>3, <2>4 DEF IInv, Marking
    <3>4. \A c \in marked' : Children(c)' \subseteq marked' \union Pending'
      BY <1>1, <1>6, <2>1, <2>3, <2>4 DEF IInv, Marking
    <3>5. marked' \subseteq Allocated'
      BY <1>1, <1>5, <2>1 DEF IInv, Marking
    <3>6. marked' \union Pending' \subseteq Live' \union {Nil}
      BY <1>1, <1>3, <1>6, <2>1, <2>2 DEF IInv, Marking
    <3>7. QED
      BY <3>1, <3>2, <3>3, <3>4, <3>5, <3>6 DEF Marking
  <2>6. QED
    BY <1>1, <2>1, <2>5, MarkStep DEF IInv, TypeOK
<1>8. CASE o # Nil /\ o \notin marked
  <2> DEFINE T == CASE kind[o] = "pair" -> {car[o], cdr[o]}
                    [] kind[o] = "array" -> {cdr[o]}
                    [] OTHER -> {}
  <2>1. o \in Exists /\ o \in Cells /\ o \in Allocated /\ kind[o] \notin {"chars", "free"}
    BY <1>1, <1>4, <1>8 DEF ObjRef, Exists, Allocated, FreeCells
  <2>2. marked' = marked \union {o} /\ chain' = IF kind[o] = "text" THEN cdr[o] ELSE Nil
    BY <1>1, <1>8 DEF MarkObject, Seen
  <2>3. stack' = Visits(o) \o Tail(stack)
    BY <1>1, <1>8 DEF MarkObject, Seen
  <2>4. /\ kind[o] = "pair"  => car[o] \in ObjRef /\ cdr[o] \in ObjRef
        /\ kind[o] = "array" => cdr[o] \in ObjRef
        /\ kind[o] = "text"  => cdr[o] \in CharsRef
    BY <2>1 DEF IInv, WellKinded
  <2>5. car[o] \in Ref /\ cdr[o] \in Ref
    BY <2>1 DEF IInv, TypeOK
  <2>6. \E t \in Seq(Ref) : stack' = t \o Tail(stack) /\ Range(t) = T
    <3>1. CASE kind[o] = "pair"
      <4> DEFINE u == <<car[o], cdr[o]>>
      <4>1. DOMAIN u = {1, 2} /\ u[1] = car[o] /\ u[2] = cdr[o]
        OBVIOUS
      <4>2. Range(u) = {car[o], cdr[o]}
        BY <4>1 DEF Range
      <4>3. u \in Seq(Ref) /\ stack' = u \o Tail(stack) /\ T = {car[o], cdr[o]}
        BY <3>1, <2>3, <2>5 DEF Visits
      <4>4. QED
        BY <4>2, <4>3
    <3>2. CASE kind[o] = "array"
      <4> DEFINE u == <<cdr[o]>>
      <4>1. DOMAIN u = {1} /\ u[1] = cdr[o]
        OBVIOUS
      <4>2. Range(u) = {cdr[o]}
        BY <4>1 DEF Range
      <4>3. u \in Seq(Ref) /\ stack' = u \o Tail(stack) /\ T = {cdr[o]}
        BY <3>2, <2>3, <2>5 DEF Visits
      <4>4. QED
        BY <4>2, <4>3
    <3>3. CASE kind[o] \notin {"pair", "array"}
      <4>1. << >> \in Seq(Ref) /\ Range(<< >>) = {}
        BY DEF Range
      <4>2. stack' = << >> \o Tail(stack) /\ T = {}
        BY <3>3, <1>1, <2>1, <2>3 DEF Visits
      <4>3. QED
        BY <4>1, <4>2
    <3>4. QED
      BY <3>1, <3>2, <3>3
  <2>7. PICK t \in Seq(Ref) : stack' = t \o Tail(stack) /\ Range(t) = T
    BY <2>6
  <2>8. stack' \in Seq(Ref) /\ Range(stack') = T \union rest
    <3> HIDE DEF T
    <3>1. /\ stack' \in Seq(Ref)
          /\ Range(stack') = Range(t) \union Range(Tail(stack))
      <4>1. stack \in Seq(Ref) /\ stack # << >> /\ t \in Seq(Ref) /\ stack' = t \o Tail(stack)
        BY <1>1, <2>7
      <4>2. /\ t \o Tail(stack) \in Seq(Ref)
            /\ Range(t \o Tail(stack)) = Range(t) \union Range(Tail(stack))
        BY <4>1, RangePush
      <4>3. QED
        BY <4>1, <4>2, Zenon
    <3>2. QED
      BY <3>1, <2>7
  <2>9. Pending' = T \union rest \union {chain'}
    BY <2>8 DEF Pending
  <2>10. Children(o) = (T \union {chain'}) \ {Nil}
    BY <2>1, <2>2 DEF Children
  <2>11. T \subseteq ObjRef /\ chain' \in CharsRef /\ chain' \in Ref
    BY <2>2, <2>4, <2>5 DEF CharsRef, Ref
  <2> HIDE DEF T
  <2>12. o \in Live /\ Children(o) \subseteq Live
    <3>1. o \in Live
      BY <1>1, <1>3, <1>8 DEF IInv, Marking
    <3>2. Children(o) \subseteq Cells
      BY <2>10, <2>11 DEF ObjRef, CharsRef, Exists, Allocated
    <3>3. QED
      BY <3>1, <3>2, LiveClosed
  <2>13. \A S : S \subseteq marked \union Pending /\ Nil \notin S => S \subseteq marked' \union Pending'
    BY <1>3, <2>2, <2>9
  <2>14. Nil \notin Roots /\ \A c : Nil \notin Children(c)
    BY DEF Roots, Children
  <2>15. Marking'
    <3>1. Range(stack') \subseteq ObjRef'
      BY <1>4, <1>5, <2>8, <2>11
    <3>2. chain' \in CharsRef'
      BY <1>5, <2>11
    <3>3. Roots' \subseteq marked' \union Pending'
      BY <1>1, <1>6, <2>13, <2>14 DEF IInv, Marking
    <3>4. ASSUME NEW c \in marked'
          PROVE  Children(c)' \subseteq marked' \union Pending'
      <4>1. CASE c = o
        BY <4>1, <1>6, <2>9, <2>10
      <4>2. CASE c \in marked
        BY <4>2, <1>1, <1>6, <2>13, <2>14 DEF IInv, Marking
      <4>3. QED
        BY <4>1, <4>2, <2>2
    <3>5. marked' \subseteq Allocated'
      BY <1>1, <1>5, <2>1, <2>2 DEF IInv, Marking
    <3>6. marked' \union Pending' \subseteq Live' \union {Nil}
      BY <1>1, <1>3, <1>6, <2>2, <2>9, <2>10, <2>12 DEF IInv, Marking
    <3>7. QED
      BY <3>1, <3>2, <3>3, <3>4, <3>5, <3>6 DEF Marking
  <2>16. marked' \subseteq Cells
    BY <2>1, <2>2 DEF IInv, TypeOK
  <2>17. QED
    BY <1>1, <2>8, <2>11, <2>15, <2>16, MarkStep
<1>9. QED
  BY <1>7, <1>8

LEMMA MarkChainStep == IInv /\ MarkChain => IInv'
<1> SUFFICES ASSUME IInv, MarkChain PROVE IInv'
  OBVIOUS
<1>1. /\ UNCHANGED <<words, free, roots, phase, stack, i>>
      /\ phase = "mark" /\ chain # Nil
      /\ marked' = marked \union {chain} /\ chain' = car[chain]
  BY DEF MarkChain
<1>2. chain \in Exists /\ chain \in Cells /\ chain \in Allocated /\ kind[chain] = "chars"
  BY <1>1 DEF IInv, Marking, CharsRef, Exists, Allocated
<1>3. car[chain] \in CharsRef /\ car[chain] \in Ref
  BY <1>2 DEF IInv, WellKinded, TypeOK
<1>4. ObjRef' = ObjRef /\ CharsRef' = CharsRef /\ Allocated' = Allocated
  BY <1>1 DEF ObjRef, CharsRef, Exists, Allocated, FreeCells, words
<1>5. Roots' = Roots /\ Live' = Live /\ \A c : Children(c)' = Children(c)
  BY <1>1, LiveUnchanged DEF Roots, roots
<1>6. Children(chain) = {car[chain]} \ {Nil}
  BY <1>2 DEF Children
<1>7. marked \union Pending \subseteq marked' \union Pending'
  BY <1>1 DEF Pending
<1>8. marked' \union Pending' \subseteq marked \union Pending \union Children(chain) \union {Nil}
  BY <1>1, <1>6 DEF Pending
<1>9. Children(chain) \subseteq Live
  <2>1. chain \in Live
    BY <1>1, <1>2 DEF IInv, Marking, Pending
  <2>2. Children(chain) \subseteq Cells
    BY <1>3, <1>6 DEF Ref
  <2>3. QED
    BY <2>1, <2>2, LiveClosed
<1>10. Marking'
  <2>1. Range(stack') \subseteq ObjRef'
    BY <1>1, <1>4 DEF IInv, Marking
  <2>2. chain' \in CharsRef'
    BY <1>1, <1>3, <1>4
  <2>3. Roots' \subseteq marked' \union Pending'
    BY <1>1, <1>5, <1>7 DEF IInv, Marking
  <2>4. ASSUME NEW c \in marked'
        PROVE  Children(c)' \subseteq marked' \union Pending'
    <3>1. CASE c = chain
      BY <3>1, <1>1, <1>5, <1>6 DEF Pending
    <3>2. CASE c \in marked
      BY <3>2, <1>1, <1>5, <1>7 DEF IInv, Marking
    <3>3. QED
      BY <3>1, <3>2, <1>1
  <2>5. marked' \subseteq Allocated'
    BY <1>1, <1>2, <1>4 DEF IInv, Marking
  <2>6. marked' \union Pending' \subseteq Live' \union {Nil}
    BY <1>1, <1>5, <1>8, <1>9 DEF IInv, Marking
  <2>7. QED
    BY <2>1, <2>2, <2>3, <2>4, <2>5, <2>6 DEF Marking
<1>11. marked' \subseteq Cells /\ stack' \in Seq(Ref)
  BY <1>1, <1>2 DEF IInv, TypeOK
<1>12. QED
  BY <1>1, <1>3, <1>10, <1>11, MarkStep

\* When the marker has nothing left to do, the marked cells are the live ones.
LEMMA MarkedIsLive ==
  ASSUME IInv, phase = "mark", chain = Nil, stack = << >>
  PROVE  /\ marked = Live
         /\ \A c \in marked : Children(c) \subseteq marked
<1>1. Pending = {Nil}
  BY DEF Pending, Range
<1>2. Nil \notin Roots /\ \A c : Nil \notin Children(c)
  BY DEF Roots, Children
<1>3. \A c \in marked : Children(c) \subseteq marked
  BY <1>1, <1>2 DEF IInv, Marking
<1>4. Roots \subseteq marked
  BY <1>1, <1>2 DEF IInv, Marking
<1>5. marked \subseteq Cells /\ Nil \notin Cells
  BY DEF IInv, TypeOK, Cells, Nil
<1>6. Live \subseteq marked
  BY <1>3, <1>4, <1>5, LiveLeast DEF Closed
<1>7. marked \subseteq Live
  BY <1>1, <1>5 DEF IInv, Marking
<1>8. QED
  BY <1>3, <1>6, <1>7

LEMMA StartSweepStep == IInv /\ StartSweep => IInv'
<1> SUFFICES ASSUME IInv, StartSweep PROVE IInv'
  OBVIOUS
<1> USE SizeAssumption
<1>1. /\ UNCHANGED <<words, roots, marked, stack, chain>>
      /\ phase = "mark" /\ chain = Nil /\ stack = << >> /\ phase' = "sweep"
      /\ i' = WORKSPACESIZE - 1 /\ Freelist' = Nil /\ Freespace' = 0
  BY DEF StartSweep
<1>2. marked = Live /\ \A c \in marked : Children(c) \subseteq marked
  BY <1>1, MarkedIsLive
<1>3. marked \subseteq Allocated /\ Allocated \subseteq Cells
  BY <1>1 DEF IInv, Marking, Allocated
<1>4. Allocated' = Allocated /\ FreeCells' = FreeCells
  BY <1>1 DEF Allocated, FreeCells, words
<1>5. \A c \in Cells : ~(c > i')
  BY <1>1 DEF Cells
<1>6. Exists' = marked /\ Exists = Allocated
  BY <1>1, <1>3, <1>4, <1>5 DEF Exists
<1>7. Threaded' = {}
  BY <1>1, <1>4, <1>5 DEF Threaded, FreeCells
<1>8. TypeOK'
  BY <1>1 DEF IInv, TypeOK, words, roots, Ref
<1>9. FreeListExact'
  BY <1>1, <1>7, FS_EmptySet DEF FreeListExact, IsNext
<1>10. WellKinded'
  <2> SUFFICES ASSUME NEW c \in marked
               PROVE  /\ kind[c] = "pair"  => car[c] \in ObjRef' /\ cdr[c] \in ObjRef'
                      /\ kind[c] = "array" => cdr[c] \in ObjRef'
                      /\ kind[c] = "text"  => cdr[c] \in CharsRef'
                      /\ kind[c] = "chars" => car[c] \in CharsRef'
    BY <1>1, <1>6 DEF WellKinded, words
  <2>1. c \in Exists
    BY <1>3, <1>6
  <2>2. /\ \A x \in ObjRef : x \in marked \union {Nil} => x \in ObjRef'
        /\ \A x \in CharsRef : x \in marked \union {Nil} => x \in CharsRef'
    BY <1>1, <1>6 DEF ObjRef, CharsRef, words
  <2>3. /\ kind[c] = "pair"  => {car[c], cdr[c]} \subseteq marked \union {Nil}
        /\ kind[c] \in {"array", "text"} => cdr[c] \in marked \union {Nil}
        /\ kind[c] = "chars" => car[c] \in marked \union {Nil}
    BY <1>2 DEF Children
  <2>4. QED
    BY <2>1, <2>2, <2>3 DEF IInv, WellKinded
<1>11. RootsExist'
  <2>1. Roots \subseteq Live
    BY RootsLive DEF Roots, IInv, RootsExist, ObjRef, Exists, Allocated
  <2>2. {tee, GlobalEnv, GCStack, form, env} \subseteq marked \union {Nil}
    BY <2>1, <1>2 DEF Roots
  <2>3. QED
    BY <2>2, <1>1, <1>6 DEF IInv, RootsExist, ObjRef, words, roots, tee
<1>12. Sweeping' /\ Idle' /\ Marking'
  <2>1. Live' = Live
    BY <1>1, LiveUnchanged
  <2>2. \A c \in marked' : c <= i'
    BY <1>1, <1>3 DEF Cells
  <2>3. QED
    BY <2>1, <2>2, <1>1, <1>2, <1>3, <1>4, <1>6 DEF Sweeping, Idle, Marking
<1>13. QED
  BY <1>8, <1>9, <1>10, <1>11, <1>12 DEF IInv

\* A cell that does not exist for the program can be rewritten without making
\* anything unreachable.
LEMMA LiveKept ==
  ASSUME TypeOK, WellKinded, RootsExist, Roots' = Roots,
         \A c \in Exists : Children(c)' = Children(c)
  PROVE  Live \subseteq Live'
<1> SUFFICES ASSUME NEW S \in SUBSET Cells, Roots' \subseteq S, Closed(S)'
             PROVE  Live \subseteq S
  <2>1. Live \subseteq Cells
    BY DEF Live
  <2>2. QED
    BY <2>1 DEF Live
<1>1. \A c \in Exists : Children(c) \subseteq Exists
  BY LiveExists
<1>2. \A c \in S : Children(c)' \subseteq S
  BY DEF Closed
<1>3. Closed(Exists \intersect S)
  BY <1>1, <1>2 DEF Closed
<1>4. Roots \subseteq Exists \intersect S
  BY DEF RootsExist, Roots, ObjRef
<1>5. Exists \intersect S \in SUBSET Cells
  OBVIOUS
<1>6. QED
  BY <1>3, <1>4, <1>5, LiveLeast

LEMMA SweepCellStep == IInv /\ SweepCell => IInv'
<1> SUFFICES ASSUME IInv, SweepCell PROVE IInv'
  OBVIOUS
<1> USE SizeAssumption
<1>1. /\ UNCHANGED <<roots, phase, stack, chain>>
      /\ phase = "sweep" /\ i >= 0 /\ i' = i - 1 /\ i \in Cells /\ i \in Int
  BY DEF SweepCell, IInv, TypeOK, Cells
<1>2. /\ marked \subseteq Allocated /\ Allocated \subseteq Cells /\ Cells \subseteq Int
      /\ \A c \in marked : c <= i
      /\ stack = << >> /\ chain = Nil /\ Exists \subseteq Live
      /\ Freespace <= WORKSPACESIZE - 1 - i
  BY <1>1 DEF IInv, Sweeping, Allocated, Cells
<1>3. \A c \in Cells : c > i' <=> (c > i \/ c = i)
  BY <1>1, <1>2
<1>4. Exists = {c \in Allocated : c > i \/ c \in marked}
  BY <1>1 DEF Exists
<1>5. Threaded = {c \in FreeCells : c > i} /\ Threaded' = {c \in FreeCells' : c > i'}
  BY <1>1 DEF Threaded
<1>6. CASE i \in marked
  <2>1. marked' = marked \ {i} /\ UNCHANGED <<words, free>>
    BY <1>6 DEF SweepCell
  <2>2. Allocated' = Allocated /\ FreeCells' = FreeCells
    BY <2>1 DEF Allocated, FreeCells, words
  <2>3. Exists' = Exists
    <3>1. Exists' = {c \in Allocated : c > i' \/ c \in marked'}
      BY <1>1, <2>2 DEF Exists
    <3>2. QED
      BY <3>1, <1>2, <1>3, <1>4, <1>6, <2>1
  <2>4. Threaded' = Threaded
    <3>1. i \notin FreeCells
      BY <1>2, <1>6 DEF Allocated
    <3>2. FreeCells \subseteq Cells
      BY DEF FreeCells
    <3>3. QED
      BY <3>1, <3>2, <1>3, <1>5, <2>2
  <2>5. ObjRef' = ObjRef /\ CharsRef' = CharsRef
    BY <2>1, <2>3 DEF ObjRef, CharsRef, words
  <2>6. TypeOK'
    BY <1>1, <2>1 DEF IInv, TypeOK, words, free, roots
  <2>7. FreeListExact'
    BY <2>1, <2>4 DEF IInv, FreeListExact, IsNext, words, free
  <2>8. WellKinded' /\ RootsExist'
    BY <1>1, <2>1, <2>3, <2>5 DEF IInv, WellKinded, RootsExist, words, roots, tee
  <2>9. Idle' /\ Marking'
    BY <1>1 DEF Idle, Marking
  <2>10. Sweeping'
    <3>1. Live' = Live
      BY <1>1, <2>1, LiveUnchanged
    <3>2. \A c \in marked' : c <= i'
      BY <1>1, <1>2, <2>1
    <3>3. Freespace' <= WORKSPACESIZE - 1 - i'
      BY <1>1, <1>2, <2>1 DEF free, IInv, TypeOK
    <3>4. QED
      BY <3>1, <3>2, <3>3, <1>1, <1>2, <2>1, <2>2, <2>3 DEF Sweeping
  <2>11. QED
    BY <2>6, <2>7, <2>8, <2>9, <2>10 DEF IInv
<1>7. CASE i \notin marked
  <2>1. myfree(i) /\ marked' = marked
    BY <1>7 DEF SweepCell
  <2>2. FreeCells' = FreeCells \union {i} /\ Allocated' = Allocated \ {i}
    BY <1>1, <2>1 DEF myfree, FreeCells, Allocated, IInv, TypeOK
  <2>3. i \notin Exists
    BY <1>1, <1>4, <1>7
  <2>4. Exists' = Exists
    <3>1. Exists' = {c \in Allocated \ {i} : c > i' \/ c \in marked}
      BY <1>1, <2>1, <2>2 DEF Exists
    <3>2. \A c \in Allocated \ {i} : c > i' <=> c > i
      BY <1>2, <1>3 DEF Allocated
    <3>3. Exists = {c \in Allocated \ {i} : c > i \/ c \in marked}
      BY <1>4, <2>3
    <3>4. QED
      BY <3>1, <3>2, <3>3
  <2>5. Threaded' = Threaded \union {i} /\ i \notin Threaded
    <3>1. FreeCells \subseteq Cells
      BY DEF FreeCells
    <3>2. Threaded' = {c \in FreeCells \union {i} : c > i'}
      BY <1>1, <2>2 DEF Threaded
    <3>3. i \in Cells /\ i' = i - 1 /\ i \in Int /\ \A c \in Cells : c \in Int
      BY <1>1, <1>2 DEF Cells
    <3>4. i > i' /\ ~(i > i) /\ \A c \in Cells \ {i} : c > i' <=> c > i
      BY <3>3
    <3>5. QED
      BY <3>1, <3>2, <3>4, <1>5
  <2>6. \A c \in Cells \ {i} : kind'[c] = kind[c] /\ car'[c] = car[c] /\ cdr'[c] = cdr[c]
    BY <1>1, <2>1 DEF myfree, IInv, TypeOK
  <2>7. \A c \in Exists : kind'[c] = kind[c] /\ car'[c] = car[c] /\ cdr'[c] = cdr[c]
    BY <1>2, <1>4, <2>3, <2>6
  <2>8. ObjRef' = ObjRef /\ CharsRef' = CharsRef
    BY <2>4, <2>7 DEF ObjRef, CharsRef
  <2>9. TypeOK'
    BY <1>1, <1>2, <2>1 DEF IInv, TypeOK, myfree, roots, Ref, Kinds, Cells, Nil
  <2>10. FreeListExact'
    <3>1. Freelist' = i /\ car'[i] = Nil /\ cdr'[i] = Freelist
      BY <1>1, <2>1 DEF myfree, IInv, TypeOK
    <3>2. Threaded \subseteq Cells /\ \A c \in Threaded : c > i /\ c \in Int /\ c >= 0
      BY <1>5, ThreadedFinite DEF Cells
    <3>3. IsNext(Threaded', 0, Freelist')
      BY <1>1, <2>5, <3>1, <3>2 DEF IsNext, Nil
    <3>4. IsNext(Threaded', i + 1, Freelist)
      <4>1. IsNext(Threaded, 0, Freelist)
        BY DEF IInv, FreeListExact
      <4>2. \A c \in Threaded' : c >= i + 1 <=> c \in Threaded
        BY <1>1, <2>5, <3>2
      <4>3. \A c \in Threaded' : c < i + 1 <=> c \notin Threaded
        BY <1>1, <2>5, <3>2
      <4>4. CASE Freelist = Nil
        <5>1. Threaded = {}
          BY <3>2, <4>1, <4>4 DEF IsNext
        <5>2. QED
          BY <4>3, <4>4, <5>1 DEF IsNext
      <4>5. CASE Freelist # Nil
        BY <4>1, <4>2, <4>5, <2>5, <3>2, <1>1 DEF IsNext
      <4>6. QED
        BY <4>4, <4>5
    <3>5. ASSUME NEW c \in Threaded
          PROVE  car'[c] = Nil /\ IsNext(Threaded', c + 1, cdr'[c])
      <4>1. car[c] = Nil /\ IsNext(Threaded, c + 1, cdr[c])
        BY DEF IInv, FreeListExact
      <4>2. c \in Cells \ {i} /\ c \in Int /\ i < c
        BY <1>1, <3>2, <2>5
      <4>3. car'[c] = car[c] /\ cdr'[c] = cdr[c]
        BY <4>2, <2>6
      <4>4. QED
        BY <4>1, <4>2, <4>3, <2>5, <1>1 DEF IsNext
    <3>6. Cardinality(Threaded') = Cardinality(Threaded) + 1
      BY <2>5, ThreadedFinite, FS_AddElement
    <3>7. Freespace' = Cardinality(Threaded')
      BY <3>6, <2>1 DEF myfree, IInv, FreeListExact
    <3>8. QED
      BY <2>5, <3>1, <3>3, <3>4, <3>5, <3>7 DEF FreeListExact
  <2>11. WellKinded'
    BY <2>4, <2>7, <2>8 DEF IInv, WellKinded
  <2>12. RootsExist'
    BY <1>1, <2>8 DEF IInv, RootsExist, roots, tee
  <2>13. Idle' /\ Marking'
    BY <1>1 DEF Idle, Marking
  <2>14. Sweeping'
    <3>1. Roots' = Roots
      BY <1>1 DEF Roots, roots
    <3>2. \A c \in Exists : Children(c)' = Children(c)
      BY <2>7 DEF Children
    <3>3. Live \subseteq Live'
      BY <3>1, <3>2, LiveKept DEF IInv
    <3>4. marked' \subseteq Allocated' /\ \A c \in marked' : c <= i'
      BY <1>1, <1>2, <1>7, <2>1, <2>2
    <3>5. Freespace' <= WORKSPACESIZE - 1 - i'
      BY <1>1, <1>2, <2>1 DEF myfree, IInv, TypeOK
    <3>6. QED
      BY <3>3, <3>4, <3>5, <1>1, <1>2, <2>4 DEF Sweeping
  <2>15. QED
    BY <2>9, <2>10, <2>11, <2>12, <2>13, <2>14 DEF IInv
<1>8. QED
  BY <1>6, <1>7

\* When sweep has passed every cell, the allocated ones are those that stay.
LEMMA SweptAll ==
  ASSUME IInv, phase = "sweep", i < 0
  PROVE  Exists = Allocated /\ Threaded = FreeCells /\ marked = {}
<1>1. \A c \in Cells : c > i /\ ~(c <= i)
  BY DEF IInv, TypeOK, Cells
<1>2. QED
  BY <1>1 DEF IInv, TypeOK, Sweeping, Exists, Threaded, Allocated, FreeCells

LEMMA EndGCStep == IInv /\ EndGC => IInv'
<1> SUFFICES ASSUME IInv, EndGC PROVE IInv'
  OBVIOUS
<1>1. /\ UNCHANGED <<words, free, roots, marked, stack, chain, i>>
      /\ phase = "sweep" /\ i < 0 /\ phase' = "run"
  BY DEF EndGC
<1>2. Exists = Allocated /\ Threaded = FreeCells /\ marked = {}
  BY <1>1, SweptAll
<1>3. Exists' = Exists /\ Threaded' = Threaded
  BY <1>1, <1>2 DEF Exists, Threaded, Allocated, FreeCells, words
<1>4. ObjRef' = ObjRef /\ CharsRef' = CharsRef
  BY <1>1, <1>3 DEF ObjRef, CharsRef, words
<1>5. TypeOK'
  BY <1>1 DEF IInv, TypeOK, words, free, roots
<1>6. FreeListExact' /\ WellKinded' /\ RootsExist'
  BY <1>1, <1>3, <1>4
  DEF IInv, FreeListExact, IsNext, WellKinded, RootsExist, tee, words, free, roots
<1>7. Idle' /\ Marking' /\ Sweeping'
  BY <1>1, <1>2 DEF IInv, Sweeping, Idle, Marking
<1>8. QED
  BY <1>5, <1>6, <1>7 DEF IInv

-----------------------------------------------------------------------------
(* Theorems.                                                               *)

LEMMA NextIInv == IInv /\ [Next]_vars => IInv'
<1> SUFFICES ASSUME IInv, [Next]_vars PROVE IInv'
  OBVIOUS
<1>1. CASE Mutate
  BY <1>1, MutateStep
<1>2. CASE StartGC
  BY <1>2, StartGCStep
<1>3. CASE MarkObject
  BY <1>3, MarkObjectStep
<1>4. CASE MarkChain
  BY <1>4, MarkChainStep
<1>5. CASE StartSweep
  BY <1>5, StartSweepStep
<1>6. CASE SweepCell
  BY <1>6, SweepCellStep
<1>7. CASE EndGC
  BY <1>7, EndGCStep
<1>8. CASE UNCHANGED vars
  <2>1. UNCHANGED <<words, free, roots, gcvars>>
    BY <1>8 DEF vars
  <2>2. UNCHANGED <<car, cdr, kind, marked, Freelist, Freespace, GlobalEnv, GCStack,
                    form, env, phase, stack, chain, i>>
    BY <2>1 DEF words, free, roots, gcvars
  <2>3. Live' = Live
    BY <2>1, LiveUnchanged
  <2>4. Exists' = Exists /\ Threaded' = Threaded /\ Allocated' = Allocated
    BY <2>2 DEF Exists, Threaded, Allocated, FreeCells
  <2>5. ObjRef' = ObjRef /\ CharsRef' = CharsRef /\ Pending' = Pending /\ Roots' = Roots
    BY <2>2, <2>4 DEF ObjRef, CharsRef, Pending, Roots
  <2>6. \A c : Children(c)' = Children(c)
    BY <2>2 DEF Children
  <2>7. TypeOK' /\ Idle'
    BY <2>2 DEF IInv, TypeOK, Idle
  <2>8. FreeListExact' /\ WellKinded' /\ RootsExist'
    BY <2>2, <2>4, <2>5 DEF IInv, FreeListExact, IsNext, WellKinded, RootsExist, tee
  <2>9. Marking' /\ Sweeping'
    BY <2>2, <2>3, <2>4, <2>5, <2>6 DEF IInv, Marking, Sweeping
  <2>10. QED
    BY <2>7, <2>8, <2>9 DEF IInv
<1>9. QED
  BY <1>1, <1>2, <1>3, <1>4, <1>5, <1>6, <1>7, <1>8 DEF Next, GC

\* The inductive invariant holds in every workspace, whatever its size.
THEOREM Invariance == Spec => []IInv
<1>1. QED
  BY InitIInv, NextIInv, PTL DEF Spec

\* The variables always hold the values their C types allow: in particular
\* myalloc never follows a NULL free list and Freespace never leaves its range.
THEOREM TypeCorrect == Spec => []TypeOK
<1>1. IInv => TypeOK
  BY DEF IInv
<1>2. QED
  BY <1>1, Invariance, PTL

\* No cell the program can reach is on the free list, at any step of the mutator
\* or of a collection.
THEOREM LiveSafe == Spec => []LiveNotFree
<1>1. IInv => LiveNotFree
  <2>1. Exists \intersect FreeCells = {}
    BY DEF Exists, Allocated
  <2>2. QED
    BY <2>1, LiveExists DEF IInv, LiveNotFree
<1>2. QED
  BY <1>1, Invariance, PTL

\* Outside a sweep nothing allocated, garbage included, points to a free cell.
THEOREM NothingDangles == Spec => []NoDanglingPointer
<1>1. IInv => NoDanglingPointer
  BY LiveExists, ExistsRunning DEF IInv, NoDanglingPointer, Closed
<1>2. QED
  BY <1>1, Invariance, PTL

\* The free list is always exact and Freespace its length.
THEOREM FreeListCorrect == Spec => []FreeListExact
<1>1. IInv => FreeListExact
  BY DEF IInv
<1>2. QED
  BY <1>1, Invariance, PTL

\* Every collection that ends leaves exactly the reachable cells allocated.
THEOREM CollectionExact == Spec => CollectsExactly
<1>1. ASSUME IInv, [Next]_vars
      PROVE  [EndGC => Allocated' = Live']_vars
  <2> SUFFICES ASSUME EndGC PROVE Allocated' = Live'
    OBVIOUS
  <2>1. /\ UNCHANGED <<words, roots>> /\ phase = "sweep" /\ i < 0
    BY DEF EndGC
  <2>2. Allocated' = Allocated /\ Live' = Live
    BY <2>1, LiveUnchanged DEF Allocated, FreeCells, words
  <2>3. Exists = Allocated
    BY <1>1, <2>1, SweptAll
  <2>4. Live \subseteq Exists
    BY <1>1, LiveExists DEF IInv
  <2>5. Exists \subseteq Live
    BY <1>1, <2>1 DEF IInv, Sweeping
  <2>6. QED
    BY <2>2, <2>3, <2>4, <2>5
<1>2. QED
  BY <1>1, Invariance, PTL DEF Spec, CollectsExactly

-----------------------------------------------------------------------------
(* The refinement: what the steps of the heap do to the objects.           *)

\* A step of the evaluator makes at most one cell a new object, and rewrites at
\* most one that it can reach.
LEMMA MutateWrites ==
  ASSUME IInv, Mutate
  PROVE  /\ phase = "run" /\ phase' = "run"
         /\ \E n : Allocated \subseteq Allocated' /\ Allocated' \subseteq Allocated \union {n}
         /\ \E o \in Live : \A c \in Allocated \ {o} :
              kind'[c] = kind[c] /\ car'[c] = car[c] /\ cdr'[c] = cdr[c]
<1> DEFINE P == {c \in Handles : c # Nil /\ kind[c] = "pair"}
           Kept(o) == \A c \in Allocated \ {o} :
                        kind'[c] = kind[c] /\ car'[c] = car[c] /\ cdr'[c] = cdr[c]
           New(n) == Allocated \subseteq Allocated' /\ Allocated' \subseteq Allocated \union {n}
<1>1. tee \in Live /\ P \subseteq Live
  <2>1. Roots \subseteq Cells
    BY DEF Roots, IInv, TypeOK, Ref, Cells, tee, RootsExist, ObjRef, Exists, Allocated
  <2>2. tee \in Roots
    BY DEF Roots, tee, Nil
  <2>3. QED
    BY <2>1, <2>2, RootsLive DEF Handles
<1>2. ASSUME NEW k \in Kinds \ {"free"}, NEW a, NEW d, Running, myalloc(k, a, d)
      PROVE  New(Freelist) /\ Kept(tee)
  <2>1. /\ kind' = [kind EXCEPT ![Freelist] = k]
        /\ car' = [car EXCEPT ![Freelist] = a] /\ cdr' = [cdr EXCEPT ![Freelist] = d]
    BY <1>2 DEF myalloc
  <2>2. Freelist \in FreeCells
    BY <1>2, AllocFreeHead DEF Running, myalloc
  <2>3. \A c \in Cells \ {Freelist} :
          kind'[c] = kind[c] /\ car'[c] = car[c] /\ cdr'[c] = cdr[c]
    BY <2>1 DEF IInv, TypeOK
  <2>4. Freelist \notin Allocated /\ Allocated \subseteq Cells
    BY <2>2 DEF Allocated
  <2>5. \A c \in Cells \ {Freelist} : c \in Allocated' <=> c \in Allocated
    BY <2>3 DEF Allocated, FreeCells
  <2>6. Allocated' \subseteq Cells
    BY DEF Allocated
  <2>7. QED
    BY <2>3, <2>4, <2>5, <2>6
<1>3. ASSUME UNCHANGED words
      PROVE  New(tee) /\ Kept(tee)
  BY <1>3 DEF words, Allocated, FreeCells
<1>4. ASSUME NEW p \in Live, NEW v, UNCHANGED kind,
             \/ car' = [car EXCEPT ![p] = v] /\ UNCHANGED cdr
             \/ cdr' = [cdr EXCEPT ![p] = v] /\ UNCHANGED car
      PROVE  New(p) /\ Kept(p)
  BY <1>4 DEF Allocated, FreeCells, IInv, TypeOK
<1>5. phase = "run" /\ (Running => phase' = "run")
  BY DEF Mutate, Running, gcvars
<1> HIDE DEF Kept, New
<1> SUFFICES Running /\ (\E n : New(n)) /\ (\E o \in Live : Kept(o))
  BY <1>5 DEF Kept, New
<1>6. CASE \E a, d \in Handles : Cons(a, d)
  BY <1>6, <1>1, <1>2 DEF Cons, Kinds
<1>7. CASE MakeAtom
  BY <1>7, <1>1, <1>2 DEF MakeAtom, Kinds
<1>8. CASE \E d \in Handles : MakeArray(d)
  BY <1>8, <1>1, <1>2 DEF MakeArray, Kinds
<1>9. CASE NewString
  BY <1>9, <1>1, <1>2 DEF NewString, Kinds
<1>10. CASE \E t \in Cells : BuildString(t)
  <2>1. PICK t \in Cells : BuildString(t)
    BY <1>10
  <2>2. t \in Live /\ Running /\ Freespace # 0
    BY <2>1 DEF BuildString
  <2>3. Freelist \in FreeCells
    BY <2>1, <2>2, <1>5, AllocFreeHead
  <2>4. \A c \in Cells \ {Freelist, t} :
          kind'[c] = kind[c] /\ car'[c] = car[c] /\ cdr'[c] = cdr[c]
    BY <2>1 DEF BuildString, IInv, TypeOK
  <2>5. \A c \in Cells \ {Freelist} : kind'[c] = kind[c]
    BY <2>1 DEF BuildString, IInv, TypeOK
  <2>6. Freelist \notin Allocated /\ Allocated \subseteq Cells /\ Allocated' \subseteq Cells
    BY <2>3 DEF Allocated
  <2>7. \A c \in Cells \ {Freelist} : c \in Allocated' <=> c \in Allocated
    BY <2>5 DEF Allocated, FreeCells
  <2>8. New(Freelist) /\ Kept(t)
    BY <2>4, <2>6, <2>7 DEF New, Kept
  <2>9. QED
    BY <2>2, <2>8
<1>11. CASE Intern
  BY <1>11, <1>1, <1>2, <1>3 DEF Intern, Kinds
<1>12. CASE \E p \in P, v \in Handles : Rplaca(p, v)
  BY <1>12, <1>1, <1>4 DEF Rplaca
<1>13. CASE \E p \in P, v \in Handles : Rplacd(p, v)
  BY <1>13, <1>1, <1>4 DEF Rplacd
<1>14. CASE \E x \in Handles : protect(x)
  BY <1>14, <1>1, <1>2 DEF protect, Kinds
<1>15. CASE unprotect \/ Makunbound \/ (\E f, e \in Handles : Eval(f, e)) \/ Error
  BY <1>15, <1>1, <1>3 DEF unprotect, Makunbound, Eval, Error
<1>16. CASE \E x \in Handles : Define(x)
  BY <1>16, <1>1, <1>2 DEF Define, Kinds
<1>17. QED
  BY <1>6, <1>7, <1>8, <1>9, <1>10, <1>11, <1>12, <1>13, <1>14, <1>15, <1>16 DEF Mutate

\* What a cell that exists points to, and what the objects of the abstract memory
\* point to, are the same; so are the objects in use and the live cells.
LEMMA InUseIsLive ==
  ASSUME TypeOK, WellKinded, RootsExist
  PROVE  Memory!InUse = Live
<1> DEFINE points == [c \in Cells |-> IF c \in Exists THEN Children(c) ELSE {}]
           Up  == {S \in SUBSET Cells : Roots \subseteq S /\ Closed(S)}
           AUp == {S \in SUBSET Cells : Roots \subseteq S /\ \A c \in S : points[c] \subseteq S}
<1>1. Live \subseteq Exists /\ Exists \subseteq Cells
  BY LiveExists DEF Exists, Allocated
<1>2. \A S \in Up : S \in AUp
  BY DEF Closed
<1>3. ASSUME NEW S \in AUp
      PROVE  S \intersect Exists \in Up
  <2>1. Roots \subseteq Exists
    BY DEF RootsExist, Roots, ObjRef
  <2>2. \A c \in S \intersect Exists : Children(c) \subseteq S \intersect Exists
    BY <1>3, LiveExists
  <2>3. QED
    BY <1>3, <2>1, <2>2 DEF Closed
<1>4. Live = {c \in Cells : \A S \in Up : c \in S}
  BY DEF Live
<1>5. Memory!InUse = {c \in Cells : \A S \in AUp : c \in S}
  BY DEF Memory!InUse, Memory!ClosedUnder
<1>6. ASSUME NEW c \in Live, NEW S \in AUp
      PROVE  c \in S
  BY <1>3, <1>4
<1>7. ASSUME NEW c \in Cells, \A S \in AUp : c \in S
      PROVE  c \in Live
  BY <1>2, <1>4, <1>7
<1>8. Live \subseteq Cells
  BY <1>1
<1>9. QED
  BY <1>5, <1>6, <1>7, <1>8

\* The roots and what the objects point to exist.
PointsExist == Roots \subseteq Exists /\ \A c \in Exists : Children(c) \subseteq Exists

\* So it is in every state that IInv allows, the next one included.
LEMMA PointsExistNext == IInv' => PointsExist'
<1>1. IInv => PointsExist
  BY LiveExists DEF IInv, RootsExist, Roots, ObjRef, PointsExist
<1>2. QED
  BY <1>1, PTL

\* The initial workspace is a memory of one object, tee, which is a root.
LEMMA InitRefines == Init => Memory!AbsInit
<1> SUFFICES ASSUME Init PROVE Memory!AbsInit
  OBVIOUS
<1> USE SizeAssumption
<1>1. Exists = {tee}
  BY DEF Init, Allocated, FreeCells, Exists, Cells, tee
<1>2. Roots = {tee}
  BY DEF Init, Roots, tee, Nil
<1>3. Children(tee) = {}
  BY DEF Init, Children, Cells, tee
<1>4. [c \in Cells |-> IF c \in Exists THEN Children(c) ELSE {}] = [c \in Cells |-> {}]
  BY <1>1, <1>3
<1>5. tee \in Cells
  BY DEF Cells, tee
<1>6. QED
  BY <1>1, <1>2, <1>4, <1>5 DEF Memory!AbsInit

\* What the evaluator does is one mutation of the abstract memory.
LEMMA MutateRefines ==
  ASSUME IInv, IInv', Mutate
  PROVE  Memory!AbsMutate
<1> DEFINE points == [c \in Cells |-> IF c \in Exists THEN Children(c) ELSE {}]
<1>1. Exists = Allocated /\ Exists' = Allocated'
  BY MutateWrites DEF Exists, Allocated, FreeCells
<1>2. Exists \subseteq Exists' /\ \E n \in Cells : Exists' \subseteq Exists \union {n}
  <2>1. PICK n : Allocated \subseteq Allocated' /\ Allocated' \subseteq Allocated \union {n}
    BY MutateWrites
  <2>2. Allocated' \subseteq Cells /\ 0 \in Cells
    BY SizeAssumption DEF Allocated, Cells
  <2>3. QED
    BY <1>1, <2>1, <2>2
<1>3. \E o \in Memory!InUse : \A p \in Cells :
        points'[p] # points[p] => p \in {o} \union (Exists' \ Exists)
  <2>1. PICK o \in Live : \A c \in Allocated \ {o} :
                            kind'[c] = kind[c] /\ car'[c] = car[c] /\ cdr'[c] = cdr[c]
    BY MutateWrites
  <2>2. \A c \in Exists \ {o} : Children(c)' = Children(c)
    BY <1>1, <2>1 DEF Children
  <2>3. \A p \in Cells : p \notin {o} \union (Exists' \ Exists) => points'[p] = points[p]
    BY <1>2, <2>2
  <2>4. Memory!InUse = Live
    BY InUseIsLive DEF IInv
  <2>5. QED
    BY <2>3, <2>4
<1>4. UNION {points'[p] : p \in Cells} \subseteq Exists'
  BY PointsExistNext DEF PointsExist
<1>5. Roots' \subseteq Exists'
  BY PointsExistNext DEF PointsExist
<1>6. QED
  BY <1>2, <1>3, <1>4, <1>5 DEF Memory!AbsMutate

\* The end of marking is where the collection takes effect.
LEMMA StartSweepRefines ==
  ASSUME IInv, StartSweep
  PROVE  Memory!AbsCollect
<1>1. UNCHANGED <<words, roots, marked>> /\ phase' = "sweep" /\ i' = WORKSPACESIZE - 1
  BY DEF StartSweep
<1>2. Roots' = Roots /\ \A c : Children(c)' = Children(c)
  BY <1>1 DEF Roots, Children, words, roots
<1>3. marked = Live
  BY MarkedIsLive DEF StartSweep
<1>4. Exists' = Live
  <2>1. \A c \in Cells : ~(c > i')
    BY <1>1, SizeAssumption DEF Cells
  <2>2. Allocated' = Allocated /\ Allocated \subseteq Cells
    BY <1>1 DEF Allocated, FreeCells, words
  <2>3. Live \subseteq Allocated
    BY LiveExists DEF IInv, Exists
  <2>4. QED
    BY <1>1, <1>3, <2>1, <2>2, <2>3 DEF Exists
<1>5. Memory!InUse = Live
  BY InUseIsLive DEF IInv
<1>6. Live \subseteq Exists
  BY LiveExists DEF IInv
<1>7. \A c \in Cells :
        (IF c \in Exists' THEN Children(c)' ELSE {})
          = (IF c \in Live THEN IF c \in Exists THEN Children(c) ELSE {} ELSE {})
  BY <1>2, <1>4, <1>6
<1>8. QED
  BY <1>2, <1>4, <1>5, <1>7 DEF Memory!AbsCollect

\* The rest of the collection the abstract memory does not see.
LEMMA CollectorStutters ==
  ASSUME IInv, StartGC \/ MarkObject \/ MarkChain \/ SweepCell \/ EndGC \/ UNCHANGED vars
  PROVE  UNCHANGED Memory!avars
<1>1. UNCHANGED roots
  BY DEF StartGC, MarkObject, MarkChain, SweepCell, EndGC, vars
<1>2. Roots' = Roots
  BY <1>1 DEF Roots, roots
<1> SUFFICES Exists' = Exists /\ \A c \in Exists : Children(c)' = Children(c)
  BY <1>2 DEF Memory!avars
<1>3. CASE StartGC \/ MarkObject \/ MarkChain \/ UNCHANGED vars
  <2>1. UNCHANGED words /\ ((phase # "sweep" /\ phase' # "sweep")
                            \/ UNCHANGED <<phase, marked, i>>)
    BY <1>3 DEF StartGC, MarkObject, MarkChain, vars, gcvars
  <2>2. QED
    BY <2>1 DEF Exists, Allocated, FreeCells, Children, words
<1>4. CASE SweepCell
  <2>1. phase = "sweep" /\ phase' = "sweep" /\ i >= 0 /\ i' = i - 1 /\ i \in Cells
    BY <1>4, SizeAssumption DEF SweepCell, IInv, TypeOK, Cells
  <2>2. CASE i \in marked
    <3>1. UNCHANGED words /\ marked' = marked \ {i}
      BY <1>4, <2>2 DEF SweepCell
    <3>2. Allocated' = Allocated /\ Allocated \subseteq Cells
      BY <3>1 DEF Allocated, FreeCells, words
    <3>3. \A c \in Cells : (c > i' <=> c > i \/ c = i)
      BY <2>1 DEF Cells
    <3>4. QED
      BY <2>1, <2>2, <3>1, <3>2, <3>3 DEF Exists, Children, words
  <2>3. CASE i \notin marked
    <3>1. myfree(i) /\ UNCHANGED marked
      BY <1>4, <2>3 DEF SweepCell
    <3>2. \A c \in Cells \ {i} : kind'[c] = kind[c] /\ car'[c] = car[c] /\ cdr'[c] = cdr[c]
      BY <3>1 DEF myfree, IInv, TypeOK
    <3>3. kind'[i] = "free"
      BY <2>1, <3>1 DEF myfree, IInv, TypeOK
    <3>4. Allocated' = Allocated \ {i} /\ Allocated \subseteq Cells
      BY <3>2, <3>3 DEF Allocated, FreeCells
    <3>5. \A c \in Cells : (c > i' <=> c > i \/ c = i) /\ ~(i > i)
      BY <2>1 DEF Cells
    <3>6. Exists' = Exists /\ i \notin Exists
      BY <2>1, <2>3, <3>1, <3>4, <3>5 DEF Exists
    <3>7. QED
      BY <3>2, <3>4, <3>6 DEF Exists, Children
  <2>4. QED
    BY <2>2, <2>3
<1>5. CASE EndGC
  <2>1. UNCHANGED words /\ phase = "sweep" /\ i < 0 /\ phase' = "run"
    BY <1>5 DEF EndGC
  <2>2. Exists = Allocated
    BY <2>1, SweptAll
  <2>3. QED
    BY <2>1, <2>2 DEF Exists, Allocated, FreeCells, Children, words
<1>6. QED
  BY <1>3, <1>4, <1>5

\* The workspace with its free list and its collector implements the abstract
\* memory: every step of the evaluator is one of its mutations, every collection
\* one collection that takes no time, and the rest of the steps are not seen.
THEOREM Refinement == Spec => RefinesMemory
<1>1. Init => Memory!AbsInit
  BY InitRefines
<1>2. IInv /\ IInv' /\ [Next]_vars
        => [Memory!AbsMutate \/ Memory!AbsCollect]_Memory!avars
  BY MutateRefines, StartSweepRefines, CollectorStutters DEF Next, GC
<1>3. QED
  BY <1>1, <1>2, Invariance, PTL DEF Spec, RefinesMemory, Memory!AbsSpec

-----------------------------------------------------------------------------
(* Symbols.                                                                *)

\* Two cells are never symbols of the one name.
OneSymbol == \A c, d \in Cells : kind[c] = "symbol" /\ kind[d] = "symbol" => c = d

LEMMA OneSymbolStep == IInv /\ OneSymbol /\ [Next]_vars => OneSymbol'
<1> SUFFICES ASSUME IInv, OneSymbol, [Next]_vars PROVE OneSymbol'
  OBVIOUS
<1>1. ASSUME NEW k, NEW n, kind' = [kind EXCEPT ![n] = k],
             k = "symbol" => ~ \E c \in Cells : kind[c] = "symbol"
      PROVE  OneSymbol'
  BY <1>1 DEF OneSymbol, IInv, TypeOK
<1>2. CASE UNCHANGED kind
  BY <1>2 DEF OneSymbol
<1>3. CASE Mutate
  BY <1>1, <1>2, <1>3
  DEF Mutate, Cons, MakeAtom, MakeArray, NewString, BuildString, Intern, Rplaca, Rplacd,
      protect, unprotect, Define, Makunbound, Eval, Error, myalloc, words
<1>4. CASE GC
  BY <1>1, <1>2, <1>4
  DEF GC, StartGC, MarkObject, MarkChain, StartSweep, SweepCell, EndGC, myfree, words
<1>5. QED
  BY <1>2, <1>3, <1>4 DEF Next, vars, words

\* intern's search of the whole workspace, cells that are garbage included, keeps a
\* name's symbol unique through every collection.
THEOREM SymbolsUnique == Spec => []SymbolUnique
<1>1. Init => OneSymbol
  BY DEF Init, OneSymbol
<1>2. OneSymbol => SymbolUnique
  <2> SUFFICES ASSUME OneSymbol PROVE SymbolUnique
    OBVIOUS
  <2> DEFINE S == {c \in Cells : kind[c] = "symbol"}
  <2>1. CASE S = {}
    BY <2>1, FS_EmptySet DEF SymbolUnique
  <2>2. CASE S # {}
    <3>1. PICK c \in S : S = {c}
      BY <2>2 DEF OneSymbol
    <3>2. Cardinality(S) = 1
      BY <3>1, FS_Singleton
    <3>3. QED
      BY <3>2 DEF SymbolUnique
  <2>3. QED
    BY <2>1, <2>2
<1>3. QED
  BY <1>1, <1>2, OneSymbolStep, Invariance, PTL DEF Spec
=============================================================================
