-------------------------------- MODULE Heap --------------------------------
(***************************************************************************)
(* The uLisp workspace: allocation from the free list, the operations of   *)
(* the evaluator that write cells and roots, and the mark and sweep        *)
(* garbage collector, one iteration of its loops per step                  *)
(* (src/ulisp_memory.cpp).                                                 *)
(*                                                                         *)
(* A cell is two words.  The code tells what a cell is from its first      *)
(* word; here kind[c] does:                                                *)
(*   "free"    on the free list: car NULL, cdr the next free cell          *)
(*   "pair"    car and cdr are pointers                                    *)
(*   "array"   the type word and, in cdr, a pointer                        *)
(*   "text"    head of a STRING or of a long SYMBOL: cdr is its first block*)
(*   "chars"   a block of characters: car links the next block; the code   *)
(*             cannot tell it from a pair                                  *)
(*   "symbol"  the short symbol of the one interned name                   *)
(*   "atom"    any other cell without a pointer                            *)
(* NULL and a word that is not a pointer are both Nil.                     *)
(***************************************************************************)
EXTENDS Integers, FiniteSets, Sequences, Functions

CONSTANTS
  WORKSPACESIZE,   \* the number of cells of the workspace
  Uses             \* what the Lisp program at hand makes use of

ASSUME SizeAssumption == WORKSPACESIZE \in Nat \ {0}
ASSUME UsesAssumption ==
  Uses \subseteq {"pair", "array", "text", "symbol", "atom",     \* objects it makes
                  "rplac", "define", "protect", "gc"}            \* operations it calls

Cells == 0 .. WORKSPACESIZE - 1
Nil   == -1
Ref   == Cells \union {Nil}
Kinds == {"free", "pair", "array", "text", "chars", "symbol", "atom"}

\* The first cell initworkspace puts on the free list, taken by initenv.
tee == 0

VARIABLES
  car, cdr, kind,        \* the words of each cell, and what they mean
  marked,                \* the cells whose MARKBIT is set
  Freelist, Freespace,   \* head of the free list, and its length
  GlobalEnv, GCStack,    \* the two global roots
  form, env,             \* the arguments of the current eval, gc's other roots
  phase,                 \* "run", or the part of gc that is executing
  stack,                 \* markobject calls still to be made, innermost first
  chain,                 \* the inner loop of markobject over a text's blocks
  i                      \* the loop counter of sweep

words  == <<car, cdr, kind>>
free   == <<Freelist, Freespace>>
roots  == <<GlobalEnv, GCStack, form, env>>
gcvars == <<marked, phase, stack, chain, i>>
vars   == <<words, free, roots, gcvars>>

-----------------------------------------------------------------------------
(* What the program can reach.                                             *)

\* The objects a cell of each kind points to, through the words the marker reads.
Children(c) ==
  (CASE kind[c] = "pair"              -> {car[c], cdr[c]}
     [] kind[c] \in {"array", "text"} -> {cdr[c]}
     [] kind[c] = "chars"             -> {car[c]}
     [] OTHER                         -> {}) \ {Nil}

Roots == {tee, GlobalEnv, GCStack, form, env} \ {Nil}

Closed(S) == \A c \in S : Children(c) \subseteq S

\* The cells reachable from the roots: those in every closed set that holds them.
Live == LET Upper == {S \in SUBSET Cells : Roots \subseteq S /\ Closed(S)}
        IN  {c \in Cells : \A S \in Upper : c \in S}

FreeCells == {c \in Cells : kind[c] = "free"}
Allocated == Cells \ FreeCells

\* What the evaluator can name: objects it reaches, and nil.  The blocks of a
\* text are never handed out.  (No Lisp form returns a cell of GCStack or of the
\* spine of GlobalEnv: these are more programs than there are.)
Handles == {c \in Live : kind[c] # "chars"} \union {Nil}

-----------------------------------------------------------------------------
(* setup: initworkspace links every cell in address order, then initenv    *)
(* allocates tee from the front.                                           *)

Init ==
  /\ kind = [c \in Cells |-> IF c = tee THEN "atom" ELSE "free"]
  /\ car = [c \in Cells |-> Nil]
  /\ cdr = [c \in Cells |-> IF c \in {tee, WORKSPACESIZE - 1} THEN Nil ELSE c + 1]
  /\ Freelist = IF WORKSPACESIZE = 1 THEN Nil ELSE 1
  /\ Freespace = WORKSPACESIZE - 1
  /\ GlobalEnv = Nil /\ GCStack = Nil /\ form = Nil /\ env = Nil
  /\ marked = {} /\ phase = "run" /\ stack = << >> /\ chain = Nil /\ i = -1

-----------------------------------------------------------------------------
(* The mutator.                                                            *)

\* myalloc, then the stores of the constructor that called it.
myalloc(k, a, d) ==
  /\ Freespace # 0
  /\ kind' = [kind EXCEPT ![Freelist] = k]
  /\ car' = [car EXCEPT ![Freelist] = a]
  /\ cdr' = [cdr EXCEPT ![Freelist] = d]
  /\ Freelist' = cdr[Freelist]
  /\ Freespace' = Freespace - 1

\* A fresh object becomes the value the evaluator works on next.
ToForm == form' = Freelist /\ UNCHANGED <<GlobalEnv, GCStack, env>>

Running == phase = "run" /\ UNCHANGED gcvars

Cons(a, d) == "pair" \in Uses /\ Running /\ myalloc("pair", a, d) /\ ToForm

MakeAtom == "atom" \in Uses /\ Running /\ myalloc("atom", Nil, Nil) /\ ToForm

MakeArray(d) == "array" \in Uses /\ Running /\ myalloc("array", Nil, d) /\ ToForm

NewString == "text" \in Uses /\ Running /\ myalloc("text", Nil, Nil) /\ ToForm

\* A string under construction gets one more block, linked behind its last one.
BuildString(t) ==
  /\ Running
  /\ \/ kind[t] = "text" /\ cdr[t] = Nil
     \/ kind[t] = "chars" /\ car[t] = Nil
  /\ t \in Live
  /\ Freespace # 0
  /\ kind' = [kind EXCEPT ![Freelist] = "chars"]
  /\ car' = [car EXCEPT ![Freelist] = Nil,
                        ![t] = IF kind[t] = "chars" THEN Freelist ELSE @]
  /\ cdr' = [cdr EXCEPT ![Freelist] = Nil,
                        ![t] = IF kind[t] = "text" THEN Freelist ELSE @]
  /\ Freelist' = cdr[Freelist]
  /\ Freespace' = Freespace - 1
  /\ UNCHANGED roots

\* The slip SymbolUnique is about: a new symbol without a search.
Intern_NoSearch ==
  "symbol" \in Uses /\ Running /\ myalloc("symbol", Nil, Nil) /\ ToForm

\* The whole workspace is searched, so a symbol nothing refers to any more and
\* no collection has freed yet is handed out again.
Intern ==
  /\ "symbol" \in Uses /\ Running
  /\ IF \E c \in Cells : kind[c] = "symbol"
     THEN /\ form' \in {c \in Cells : kind[c] = "symbol"}
          /\ UNCHANGED <<words, free, GlobalEnv, GCStack, env>>
     ELSE myalloc("symbol", Nil, Nil) /\ ToForm

Rplaca(p, v) ==
  /\ "rplac" \in Uses /\ Running
  /\ car' = [car EXCEPT ![p] = v]
  /\ UNCHANGED <<cdr, kind, free, roots>>

Rplacd(p, v) ==
  /\ "rplac" \in Uses /\ Running
  /\ cdr' = [cdr EXCEPT ![p] = v]
  /\ UNCHANGED <<car, kind, free, roots>>

\* push(x, GCStack)
protect(x) ==
  /\ "protect" \in Uses /\ Running
  /\ myalloc("pair", x, GCStack)
  /\ GCStack' = Freelist
  /\ UNCHANGED <<GlobalEnv, form, env>>

\* pop(GCStack)
unprotect ==
  /\ Running
  /\ GCStack # Nil /\ kind[GCStack] = "pair"
  /\ GCStack' = cdr[GCStack]
  /\ UNCHANGED <<words, free, GlobalEnv, form, env>>

\* push(x, GlobalEnv): a new global binding.
Define(x) ==
  /\ "define" \in Uses /\ Running
  /\ myalloc("pair", x, GlobalEnv)
  /\ GlobalEnv' = Freelist
  /\ UNCHANGED <<GCStack, form, env>>

\* makunbound of the newest binding.
Makunbound ==
  /\ Running
  /\ GlobalEnv # Nil /\ kind[GlobalEnv] = "pair"
  /\ GlobalEnv' = cdr[GlobalEnv]
  /\ UNCHANGED <<words, free, GCStack, form, env>>

\* eval goes on with another form in another environment.
Eval(f, e) ==
  /\ Running
  /\ form' = f /\ env' = e
  /\ UNCHANGED <<words, free, GlobalEnv, GCStack>>

\* errorend: "no room" from myalloc or any other error unwinds to the toplevel.
Error ==
  /\ Running
  /\ GCStack' = Nil /\ form' = Nil /\ env' = Nil
  /\ UNCHANGED <<words, free, GlobalEnv>>

Mutate ==
  /\ phase = "run"
  /\ LET H == Handles
         P == {c \in H : c # Nil /\ kind[c] = "pair"}
     IN \/ \E a, d \in H : Cons(a, d)
        \/ MakeAtom
        \/ \E d \in H : MakeArray(d)
        \/ NewString
        \/ \E t \in Cells : BuildString(t)
        \/ Intern
        \/ \E p \in P, v \in H : Rplaca(p, v)
        \/ \E p \in P, v \in H : Rplacd(p, v)
        \/ \E x \in H : protect(x)
        \/ unprotect
        \/ \E x \in H : Define(x)
        \/ Makunbound
        \/ \E f, e \in H : Eval(f, e)
        \/ Error

-----------------------------------------------------------------------------
(* gc(form, env).                                                          *)

\* What gc marks; and a gc that forgets the protected objects.
GCRoots_NoStack == <<tee, GlobalEnv, form, env>>
GCRoots == <<tee, GlobalEnv, GCStack, form, env>>

\* Called by eval when a sixteenth of the workspace or less is free, and by (gc).
StartGC ==
  /\ phase = "run"
  /\ Freespace <= WORKSPACESIZE \div 16 \/ "gc" \in Uses
  /\ phase' = "mark"
  /\ stack' = GCRoots
  /\ UNCHANGED <<words, free, roots, marked, chain, i>>

\* The words of o that markobject goes on with; and a marker that forgets arrays.
Visits_NoArray(o) ==
  IF kind[o] \in {"pair", "chars", "free"} THEN <<car[o], cdr[o]>> ELSE << >>
Visits(o) ==
  CASE kind[o] \in {"pair", "chars", "free"} -> <<car[o], cdr[o]>>
    [] kind[o] = "array" -> <<cdr[o]>>
    [] OTHER -> << >>

\* A marker that never looks at the mark of a pair: a circular list is endless.
Seen_Nil(o) == o = Nil \/ (o \in marked /\ kind[o] # "pair")
Seen(o) == o = Nil \/ o \in marked

\* One call of markobject, or one turn of its loop: NULL and marked cells return
\* at once, the others are marked before what they point to is visited.
MarkObject ==
  /\ phase = "mark" /\ chain = Nil /\ stack # << >>
  /\ LET o == Head(stack) IN
       IF Seen(o)
       THEN stack' = Tail(stack) /\ UNCHANGED <<marked, chain>>
       ELSE /\ marked' = marked \union {o}
            /\ stack' = Visits(o) \o Tail(stack)
            /\ chain' = IF kind[o] = "text" THEN cdr[o] ELSE Nil
  /\ UNCHANGED <<words, free, roots, phase, i>>

\* The inner loop over the blocks of a text marks each without a look at its mark.
MarkChain ==
  /\ phase = "mark" /\ chain # Nil
  /\ marked' = marked \union {chain}
  /\ chain' = car[chain]
  /\ UNCHANGED <<words, free, roots, phase, stack, i>>

\* Two slips: a sweep that starts one cell low, one that keeps the old count.
StartSweep_OneLow ==
  /\ phase = "mark" /\ chain = Nil /\ stack = << >>
  /\ phase' = "sweep"
  /\ i' = WORKSPACESIZE - 2
  /\ Freelist' = Nil /\ Freespace' = 0
  /\ UNCHANGED <<words, roots, marked, stack, chain>>

StartSweep ==
  /\ phase = "mark" /\ chain = Nil /\ stack = << >>
  /\ phase' = "sweep"
  /\ i' = WORKSPACESIZE - 1
  /\ Freelist' = Nil /\ Freespace' = 0
  /\ UNCHANGED <<words, roots, marked, stack, chain>>

\* A slip: the cell is linked but not counted.
myfree_NoCount(c) ==
  /\ kind' = [kind EXCEPT ![c] = "free"]
  /\ car' = [car EXCEPT ![c] = Nil]
  /\ cdr' = [cdr EXCEPT ![c] = Freelist]
  /\ Freelist' = c
  /\ UNCHANGED Freespace

\* myfree
myfree(c) ==
  /\ kind' = [kind EXCEPT ![c] = "free"]
  /\ car' = [car EXCEPT ![c] = Nil]
  /\ cdr' = [cdr EXCEPT ![c] = Freelist]
  /\ Freelist' = c
  /\ Freespace' = Freespace + 1

SweepCell ==
  /\ phase = "sweep" /\ i >= 0
  /\ IF i \in marked
     THEN marked' = marked \ {i} /\ UNCHANGED <<words, free>>
     ELSE myfree(i) /\ UNCHANGED marked
  /\ i' = i - 1
  /\ UNCHANGED <<roots, phase, stack, chain>>

EndGC ==
  /\ phase = "sweep" /\ i < 0
  /\ phase' = "run"
  /\ UNCHANGED <<words, free, roots, marked, stack, chain, i>>

GC == StartGC \/ MarkObject \/ MarkChain \/ StartSweep \/ SweepCell \/ EndGC

Next == Mutate \/ GC

Spec == Init /\ [][Next]_vars

\* gc is a call that runs to its end: its steps are never abandoned.
CollectorSteps == MarkObject \/ MarkChain \/ StartSweep \/ SweepCell \/ EndGC

FairSpec == Spec /\ WF_vars(CollectorSteps)

-----------------------------------------------------------------------------
(* Properties.                                                             *)

\* The variables hold the values their C types allow.
TypeOK ==
  /\ car \in [Cells -> Ref] /\ cdr \in [Cells -> Ref] /\ kind \in [Cells -> Kinds]
  /\ marked \subseteq Cells
  /\ Freelist \in Ref /\ Freespace \in 0 .. WORKSPACESIZE
  /\ GlobalEnv \in Ref /\ GCStack \in Ref /\ form \in Ref /\ env \in Ref
  /\ phase \in {"run", "mark", "sweep"}
  /\ stack \in Seq(Ref) /\ chain \in Ref
  /\ i \in -1 .. WORKSPACESIZE - 1

\* No cell the program can reach is ever on the free list, at any point of the
\* mutator or of a collection: what myalloc hands out is nobody's.
LiveNotFree == Live \cap FreeCells = {}

\* Nothing allocated points into the free list, garbage included: a symbol that
\* intern revives is a whole object.  Not so while sweep is at work.
NoDanglingPointer == phase # "sweep" => Closed(Allocated)

\* x is the first cell of F from n upwards, NULL if there is none.
IsNext(F, n, x) ==
  IF x = Nil THEN \A c \in F : c < n
  ELSE x \in F /\ x >= n /\ \A c \in F : c >= n => x <= c

\* The cells on the free list: all that are free, or those that sweep has passed.
Threaded == {c \in FreeCells : phase = "sweep" => c > i}

\* The free list threads exactly the free cells, in address order, and Freespace
\* is their number: myalloc's test of Freespace guards its use of Freelist.
FreeListExact ==
  /\ IsNext(Threaded, 0, Freelist)
  /\ \A c \in Threaded : car[c] = Nil /\ IsNext(Threaded, c + 1, cdr[c])
  /\ Freespace = Cardinality(Threaded)

\* A finished collection leaves exactly the reachable cells allocated: nothing in
\* use is freed and no garbage survives.
CollectsExactly == [][EndGC => Allocated' = Live']_vars

\* intern's search keeps a name's symbol unique in the workspace.
SymbolUnique == Cardinality({c \in Cells : kind[c] = "symbol"}) <= 1

\* Every collection comes to its end: the marker's work is bounded by the marks.
CollectionEnds == phase # "run" ~> phase = "run"

-----------------------------------------------------------------------------
(* The refinement.  The collection takes effect, for the evaluator, when   *)
(* marking is complete: from then on the cells sweep has not passed count  *)
(* as existing when they are marked, those it has passed when not free.    *)

Exists == IF phase = "sweep"
          THEN {c \in Allocated : c > i \/ c \in marked}
          ELSE Allocated

Memory == INSTANCE AbstractHeap WITH
            Objects   <- Cells,
            allocated <- Exists,
            points    <- [c \in Cells |-> IF c \in Exists THEN Children(c) ELSE {}],
            root      <- Roots

\* Step by step, the collector implements a collection that is one step.
RefinesMemory == Memory!AbsSpec

-----------------------------------------------------------------------------
(* The inductive invariant.                                                *)

ObjRef   == {c \in Exists : kind[c] # "chars"} \union {Nil}
CharsRef == {c \in Exists : kind[c] = "chars"} \union {Nil}

\* The calls the marker still has to make.
Pending == Range(stack) \union {chain}

\* The words of every cell that exists point, as its kind says, to objects that
\* exist or to blocks; only texts and blocks point to blocks.
WellKinded ==
  \A c \in Exists :
    /\ kind[c] = "pair"  => car[c] \in ObjRef /\ cdr[c] \in ObjRef
    /\ kind[c] = "array" => cdr[c] \in ObjRef
    /\ kind[c] = "text"  => cdr[c] \in CharsRef
    /\ kind[c] = "chars" => car[c] \in CharsRef

RootsExist == {tee, GlobalEnv, GCStack, form, env} \subseteq ObjRef

Idle == phase = "run" => marked = {} /\ stack = << >> /\ chain = Nil

\* While marking: what a marked cell points to is marked or will be, so are the
\* roots, and nothing out of reach is marked or waits for it.
Marking ==
  phase = "mark" =>
    /\ Range(stack) \subseteq ObjRef
    /\ chain \in CharsRef
    /\ Roots \subseteq marked \union Pending
    /\ \A c \in marked : Children(c) \subseteq marked \union Pending
    /\ marked \subseteq Allocated
    /\ marked \union Pending \subseteq Live \union {Nil}

\* While sweeping: the cells that stay are those in reach.
Sweeping ==
  phase = "sweep" =>
    /\ marked \subseteq Allocated
    /\ \A c \in marked : c <= i
    /\ stack = << >> /\ chain = Nil
    /\ Exists \subseteq Live
    /\ Freespace <= WORKSPACESIZE - 1 - i

IInv ==
  TypeOK /\ FreeListExact /\ WellKinded /\ RootsExist /\ Idle /\ Marking /\ Sweeping

=============================================================================
