------------------------------- MODULE Image -------------------------------
(* ulisp_persistence.cpp, with SD card support: save-image writes the       *)
(* compacted workspace to a file one word after the other, load-image reads *)
(* it back over whatever is there. Between two words the power may go or    *)
(* the card may fill up, and a call may be typed at the prompt or be an     *)
(* argument of another call.                                                *)
(*                                                                          *)
(* Cells are pairs; the collector and the compaction before the save are    *)
(* one step each, with the outcome that Heap and Compact establish.         *)
EXTENDS Integers, Sequences, FiniteSets, SequencesExt, TLC

CONSTANTS
  WORKSPACESIZE,  \* the cells
  MaxGlobals,     \* bound: bindings the user makes
  MaxGarbage,     \* bound: garbage that is made before a call
  Codes,          \* what defcode puts into MyCode, none of it is 0
  Nestings        \* is the call an argument of another call? a subset of BOOLEAN

ASSUME NestingsAssumption == Nestings \subseteq BOOLEAN /\ Nestings # {}

Cells == 1 .. WORKSPACESIZE
Nil == 0
NoWord == -1   \* what four reads past the end of a file make

VARIABLES
  cell,       \* Workspace
  GlobalEnv,
  GCStack,
  MyCode,
  file,       \* the words of ULISP.IMG
  pc,         \* "prompt", "save": between two words, "return", "lost": a fault
  nested,     \* the call that runs is an argument
  tail,       \* the C local of the outer call: its list of arguments
  imagesize,  \* what save-image or load-image returns
  failed,     \* a write of this save has failed
  meant,      \* ghost: what the last save set out to write
  before      \* ghost: what the program could reach when that save began

memory == <<cell, GlobalEnv, GCStack, MyCode>>
call   == <<nested, tail, imagesize>>
ghosts == <<meant, before>>
vars   == <<memory, file, pc, call, failed, ghosts>>

-----------------------------------------------------------------------------
(* The workspace.                                                          *)

Blank == [car |-> Nil, cdr |-> Nil]

\* markobject: every cell that the roots reach.
Reach(w, roots) ==
  LET grown[S \in SUBSET Cells] ==
        LET T == S \union (Cells \intersect UNION {{w[c].car, w[c].cdr} : c \in S})
        IN IF T = S THEN S ELSE grown[T]
  IN grown[roots \intersect Cells]

Ascending(S) ==
  [i \in 1 .. Cardinality(S) |-> CHOOSE c \in S : Cardinality({d \in S : d < c}) = i - 1]

Live == Reach(cell, {GlobalEnv, GCStack})

\* The first n cells of the freelist: a sweep puts the lowest free cell in front.
Free(n) == SubSeq(Ascending(Cells \ Live), 1, n)
Enough(n) == Cardinality(Cells \ Live) >= n

\* compactimage: the highest live cell goes to the lowest gap, until none is left.
Moved(L) ==
  LET n     == Cardinality(L)
      Gaps  == Ascending((1 .. n) \ L)
      Movers == Reverse(Ascending(L \ (1 .. n)))
  IN [c \in L \union {Nil} |->
        IF c <= n THEN c ELSE Gaps[CHOOSE i \in DOMAIN Movers : Movers[i] = c]]

\* What the program can reach from its globals.
View == [env |-> GlobalEnv, code |-> MyCode,
         cells |-> [c \in Reach(cell, {GlobalEnv}) |-> cell[c]]]

-----------------------------------------------------------------------------
(* What the user does at the prompt.                                       *)

Init ==
  /\ cell = [c \in Cells |-> Blank] /\ GlobalEnv = Nil /\ GCStack = Nil
  /\ MyCode = Nil
  /\ file = << >> /\ pc = "prompt"
  /\ nested = FALSE /\ tail = Nil /\ imagesize = 0 /\ failed = FALSE
  /\ meant = << >> /\ before = View

Globals == Cardinality(Reach(cell, {GlobalEnv}))

\* defvar: a new binding in front of GlobalEnv, of nothing or of an older value.
Define ==
  /\ pc = "prompt" /\ Globals < MaxGlobals /\ Enough(1)
  /\ \E v \in {Nil} \union Reach(cell, {GlobalEnv}) :
       LET c == Free(1)[1] IN
       /\ cell' = [cell EXCEPT ![c] = [car |-> v, cdr |-> GlobalEnv]]
       /\ GlobalEnv' = c
  /\ UNCHANGED <<GCStack, MyCode, file, pc, call, failed, ghosts>>

\* makunbound, delassoc: the first binding or the one behind it is unlinked; another
\* one may still have it as its value.
Undefine ==
  /\ pc = "prompt" /\ GlobalEnv # Nil
  /\ \/ GlobalEnv' = cell[GlobalEnv].cdr /\ UNCHANGED cell
     \/ /\ cell[GlobalEnv].cdr # Nil
        /\ cell' = [cell EXCEPT ![GlobalEnv].cdr = cell[cell[GlobalEnv].cdr].cdr]
        /\ UNCHANGED GlobalEnv
  /\ UNCHANGED <<GCStack, MyCode, file, pc, call, failed, ghosts>>

\* defcode
Assemble ==
  /\ pc = "prompt" /\ MyCode' \in Codes \ {MyCode}
  /\ UNCHANGED <<cell, GlobalEnv, GCStack, file, pc, call, failed, ghosts>>

\* repl and eval: what protect has put on GCStack when save-image or load-image
\* runs: the line, the outer call's list if there is one, and its own list.
Protections(n) == IF n THEN 3 ELSE 2

\* The call, after g cells of garbage: k new cells of GCStack, and the k objects they
\* protect.
Called(n, g) ==
  LET k == Protections(n)
      from == SubSeq(Free(g + 2 * k), g + 1, g + 2 * k)
      Link(f, i) == [car |-> f[k + i], cdr |-> IF i = 1 THEN Nil ELSE f[i - 1]]
      Taken(f) == [c \in {f[i] : i \in 1 .. k} |-> Link(f, CHOOSE i \in 1 .. k : f[i] = c)]
                  @@ [c \in {f[i] : i \in k + 1 .. 2 * k} |-> Blank]
      After(f) == [cell |-> Taken(f) @@ cell, stack |-> f[k],
                   tail |-> IF n THEN f[k + 2] ELSE Nil]
  IN After(from)

-----------------------------------------------------------------------------
(* saveimage.                                                              *)

\* The words of an image; a slip.
Size_OneLess == 4 + 2 * imagesize
Size == 5 + 2 * imagesize

\* The i-th word of an image of the workspace. The argument is nil: a name or no name.
Word(i) ==
  CASE i = 1 -> Nil
    [] i = 2 -> imagesize
    [] i = 3 -> GlobalEnv
    [] i = 4 -> GCStack
    [] i = 5 -> MyCode
    [] i > 5 -> LET c == (i - 6) \div 2 + 1 IN
                IF i % 2 = 0 THEN cell[c].car ELSE cell[c].cdr

Words == [i \in 1 .. Size |-> Word(i)]

\* compactimage, then open with O_TRUNC: what the file held is gone.
SaveImage ==
  /\ pc = "prompt"
  /\ \E n \in Nestings, g \in 0 .. MaxGarbage :
       /\ Enough(g + 2 * Protections(n))
       /\ \E w \in {Called(n, g)} :
          \E to \in {Moved(Reach(w.cell, {GlobalEnv, w.stack}))} :
            LET L == DOMAIN to \ {Nil}
                At(c) == [car |-> to[w.cell[c].car], cdr |-> to[w.cell[c].cdr]]
            IN
            /\ cell' = [c \in {to[d] : d \in L} |-> At(CHOOSE d \in L : to[d] = c)]
                       @@ [c \in Cells |-> Blank]
            /\ GlobalEnv' = to[GlobalEnv] /\ GCStack' = to[w.stack]
            /\ imagesize' = Cardinality(L)
            /\ nested' = n /\ tail' = w.tail
  /\ file' = << >> /\ failed' = FALSE /\ pc' = "save"
  /\ UNCHANGED MyCode
  /\ meant' = Words' /\ before' = View'

\* SDWrite32, file.write: nobody looks at what they return. A card that is full
\* stays full.
WriteWord ==
  /\ pc = "save" /\ Len(file) < Size /\ ~failed
  /\ file' = Append(file, Word(Len(file) + 1))
  /\ UNCHANGED <<memory, pc, call, failed, ghosts>>

CardFull ==
  /\ pc = "save" /\ Len(file) < Size /\ ~failed
  /\ failed' = TRUE
  /\ UNCHANGED <<memory, file, pc, call, ghosts>>

CloseFile ==
  /\ pc = "save" /\ (Len(file) = Size \/ failed)
  /\ pc' = "return"
  /\ UNCHANGED <<memory, file, call, failed, ghosts>>

\* The power goes: a file that is not closed keeps some first part of its words.
PowerCut ==
  /\ cell' = [c \in Cells |-> Blank] /\ GlobalEnv' = Nil /\ GCStack' = Nil
  /\ MyCode' = Nil
  /\ IF pc = "save" THEN \E n \in 0 .. Len(file) : file' = SubSeq(file, 1, n)
                    ELSE UNCHANGED file
  /\ pc' = "prompt" /\ nested' = FALSE /\ tail' = Nil /\ imagesize' = 0
  /\ failed' = FALSE
  /\ UNCHANGED ghosts

-----------------------------------------------------------------------------
(* loadimage.                                                              *)

Read(i) ==
  IF i <= Len(file) THEN file[i] ELSE NoWord

\* The cells as the loop fills them, from the sixth word on.
Filled(w, n) ==
  [c \in Cells |-> IF c <= n THEN [car |-> Read(4 + 2 * c), cdr |-> Read(5 + 2 * c)]
                             ELSE w[c]]

\* gc goes through a word that was not there.
WildRoots(w, roots) ==
  \/ NoWord \in roots
  \/ \E c \in Reach(w, roots) : NoWord \in {w[c].car, w[c].cdr}

\* loadimage: a slip, the globals in another order than saveimage wrote them.
Loaded_StackFirst(size, env, stack, w) ==
  /\ imagesize' = size /\ GlobalEnv' = stack /\ GCStack' = env
  /\ MyCode' = Read(5) /\ cell' = w
  /\ pc' = IF WildRoots(w, {env, stack}) THEN "lost" ELSE "return"

Loaded(size, env, stack, w) ==
  /\ imagesize' = size /\ GlobalEnv' = env /\ GCStack' = stack
  /\ MyCode' = Read(5) /\ cell' = w
  /\ pc' = IF WildRoots(w, {env, stack}) THEN "lost" ELSE "return"

\* A size of -1 fills memory past the end of Workspace.
LoadImage ==
  /\ pc = "prompt" /\ meant # << >>
  /\ \E n \in Nestings, g \in 0 .. MaxGarbage :
       /\ Enough(g + 2 * Protections(n))
       /\ \E w \in {Called(n, g)} :
          /\ nested' = n /\ tail' = w.tail
          /\ IF Read(2) = NoWord
             THEN /\ pc' = "lost"
                  /\ UNCHANGED <<memory, imagesize>>
             ELSE Loaded(Read(2), Read(3), Read(4), Filled(w.cell, Read(2)))
  /\ UNCHANGED <<file, failed, ghosts>>

-----------------------------------------------------------------------------
(* eval and repl: the call returns.                                        *)

\* eval: a slip, the frame of the call is left behind.
Unprotected_Once(n) == IF GCStack = Nil THEN NoWord ELSE cell[GCStack].cdr

\* n unprotects; the car and cdr of nil are no cells.
Unprotected(n) ==
  LET after[i \in 0 .. n] ==
        IF i = 0 THEN GCStack
        ELSE IF after[i - 1] \in Cells THEN cell[after[i - 1]].cdr ELSE NoWord
  IN after[n]

\* The outer call puts the result behind its tail: that must still be the list it
\* has protected.
ListIntact == nested => GCStack # Nil /\ cell[GCStack].cdr # Nil
                        /\ cell[cell[GCStack].cdr].car = tail

Return ==
  /\ pc = "return"
  /\ LET s == Unprotected(Protections(nested)) IN
     IF ListIntact /\ s # NoWord
     THEN pc' = "prompt" /\ GCStack' = s
     ELSE pc' = "lost" /\ UNCHANGED GCStack
  /\ nested' = FALSE /\ tail' = Nil /\ imagesize' = 0
  /\ failed' = FALSE
  /\ UNCHANGED <<cell, GlobalEnv, MyCode, file, ghosts>>

Next ==
  \/ Define \/ Undefine \/ Assemble
  \/ SaveImage \/ WriteWord \/ CardFull \/ CloseFile
  \/ LoadImage \/ Return \/ PowerCut

Spec == Init /\ [][Next]_vars

-----------------------------------------------------------------------------
(* Properties.                                                             *)

Ptrs == Cells \union {Nil}
FileWords == Ptrs \union Codes \union {NoWord}

TypeOK ==
  /\ cell \in [Cells -> [car : Ptrs \union {NoWord}, cdr : Ptrs \union {NoWord}]]
  /\ GlobalEnv \in Ptrs \union {NoWord} /\ GCStack \in Ptrs \union {NoWord}
  /\ MyCode \in Codes \union {Nil, NoWord}
  /\ ToSet(file) \subseteq FileWords
  /\ pc \in {"prompt", "save", "return", "lost"}
  /\ nested \in BOOLEAN /\ tail \in Ptrs /\ imagesize \in 0 .. WORKSPACESIZE
  /\ failed \in BOOLEAN

Complete == meant # << >> /\ file = meant

\* loadimage, gc: whatever has happened to the workspace since, an image that was
\* written to its end brings back all that the program could reach when it was saved.
LoadRestores ==
  [][Complete /\ LoadImage => pc' = "return" /\ View' = before]_vars

\* repl, errorend: back at the prompt nothing is protected, though load-image has put
\* another GCStack under the calls that are to unprotect theirs.
BalancedStack == pc = "prompt" => GCStack = Nil

\* Only a file that a power cut or a full card has cut short takes the machine down.
LostByTornFile == pc = "lost" => ~Complete

\* tables.cpp, save-image "Saves the current uLisp image": a count is returned only
\* when the whole image is in the file.
SaveReported == [][CloseFile => file' = meant]_vars

\* An image on the card stays loadable: at the prompt the file is that of a whole save.
ImageSurvives == pc = "prompt" /\ meant # << >> => Complete

\* Of every state: its type, and nothing protected at the prompt.
PromptClean == TypeOK /\ BalancedStack
=============================================================================
