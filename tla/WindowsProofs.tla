--------------------------- MODULE WindowsProofs ---------------------------
(* The screen and the text windows: for any number of slots, windows of any *)
(* size, at any places of any screen, the invariants of Windows hold.       *)
EXTENDS Windows, WellFoundedInduction, TLAPS

-----------------------------------------------------------------------------
(* The parts of a window.                                                  *)

\* renderAllDirty: of the slots painted over a place one is the last.
LEMMA LastSlot ==
  ASSUME NEW S \in SUBSET Slots, S # {}
  PROVE  Max(S) \in S
<1> DEFINE T == {MaxTextWindows - s : s \in S}
<1>1. T \subseteq Nat /\ T # {}
  <2>1. \A s \in S : MaxTextWindows - s \in Nat
    BY WindowsAssumption DEF Slots
  <2>2. PICK s \in S : TRUE
    OBVIOUS
  <2>3. MaxTextWindows - s \in T
    OBVIOUS
  <2> QED BY <2>1, <2>3
<1>2. PICK n \in T : \A m \in T : ~ (<<m, n>> \in OpToRel(<, Nat))
  <2> HIDE DEF T
  <2> QED BY <1>1, NatLessThanWellFounded, WFMin
<1>3. \A m \in T : ~ (m < n)
  BY <1>1, <1>2 DEF OpToRel
<1>4. PICK s \in S : n = MaxTextWindows - s
  OBVIOUS
<1>5. \A r \in S : s >= r
  <2> SUFFICES ASSUME NEW r \in S PROVE s >= r
    OBVIOUS
  <2>1. r \in Int /\ s \in Int /\ MaxTextWindows \in Int
    BY WindowsAssumption DEF Slots
  <2>2. MaxTextWindows - r \in T
    OBVIOUS
  <2>3. ~ (MaxTextWindows - r < MaxTextWindows - s)
    BY <1>3, <1>4, <2>2
  <2> HIDE DEF T
  <2> QED BY <2>1, <2>3
<1> QED BY <1>5 DEF Max

\* render: a place that a window covers shows one of its cells.
LEMMA CellInWindow ==
  ASSUME NEW w \in Window, NEW p \in Rect(w)
  PROVE  CellAt(w, p) \in Cells
<1>1. /\ p[1] - w.at[1] \in 0 .. w.cols - 1
      /\ p[2] - w.at[2] \in 0 .. w.rows - 1
  BY DEF Rect
<1>2. w.cols \in 1 .. MaxWindowCols /\ w.rows \in 1 .. MaxWindowRows
  BY DEF Window
<1>3. /\ p[1] - w.at[1] \in 0 .. MaxWindowCols - 1
      /\ p[2] - w.at[2] \in 0 .. MaxWindowRows - 1
  BY <1>1, <1>2, WindowsAssumption
<1> QED BY <1>3 DEF CellAt, Cells

-----------------------------------------------------------------------------
(* The steps that paint and clear.                                         *)

\* clearScreenRect, of a window that goes from where it was: what is left of it
\* elsewhere on the screen is nothing, and other windows stay as they were.
LEMMA ClearStep ==
  ASSUME IInv, NEW s \in Slots, Used(s), screen' = Cleared(screen, window[s]),
         opened' = opened,
         \A r \in Slots \ {s} : window'[r] = window[r] /\ cells_'[r] = cells_[r]
  PROVE  NoGhosts'
<1> SUFFICES ASSUME NEW p \in Screen, screen'[p].slot # Repl
             PROVE  LET q == screen'[p] IN
                      /\ window'[q.slot].used /\ q.nth = opened'[q.slot]
                      /\ p \in Rect(window'[q.slot])
                      /\ window'[q.slot].dirty
                         \/ q.char = cells_'[q.slot][CellAt(window'[q.slot], p)]
  BY DEF NoGhosts, Used, CellAt, Rect
<1>1. p \notin Rect(window[s]) /\ screen'[p] = screen[p]
  BY DEF Cleared, Other
<1>2. screen[p].slot \in Slots \ {s}
  BY <1>1 DEF IInv, TypeOK, Paint, NoGhosts
<1> QED
  BY <1>1, <1>2 DEF IInv, NoGhosts, Used

\* writeChar, clear, setColors: a window that stays where it is and becomes dirty.
LEMMA DirtyStep ==
  ASSUME IInv, NEW s \in Slots, UNCHANGED <<screen, opened>>,
         window'[s].used = window[s].used, window'[s].dirty,
         Rect(window'[s]) = Rect(window[s]),
         \A r \in Slots \ {s} : window'[r] = window[r] /\ cells_'[r] = cells_[r]
  PROVE  NoGhosts'
<1> SUFFICES ASSUME NEW p \in Screen, screen[p].slot # Repl
             PROVE  LET q == screen[p] IN
                      /\ window'[q.slot].used /\ q.nth = opened[q.slot]
                      /\ p \in Rect(window'[q.slot])
                      /\ window'[q.slot].dirty
                         \/ q.char = cells_'[q.slot][CellAt(window'[q.slot], p)]
  BY DEF NoGhosts, Used, CellAt, Rect
<1>1. screen[p].slot \in Slots
  BY DEF IInv, TypeOK, Paint
<1>2. CASE screen[p].slot = s
  BY <1>2 DEF IInv, NoGhosts, Used
<1>3. CASE screen[p].slot # s
  BY <1>1, <1>3 DEF IInv, NoGhosts, Used
<1> QED BY <1>2, <1>3

\* render: the slots that are painted are clean then, the others stay as they were.
LEMMA PaintStep ==
  ASSUME IInv, NEW S \in SUBSET Slots, \A s \in S : Used(s), screen' = Painted(S),
         UNCHANGED <<opened, cells_>>,
         \A s \in Slots : /\ window'[s].used = window[s].used
                          /\ window'[s].at = window[s].at
                          /\ window'[s].cols = window[s].cols
                          /\ window'[s].rows = window[s].rows
                          /\ s \notin S /\ Used(s) => window'[s].dirty = window[s].dirty
  PROVE  /\ NoGhosts'
         /\ screen' \in [Screen -> Paint]
<1>1. \A s \in Slots : /\ Rect(window'[s]) = Rect(window[s])
                       /\ \A p \in Screen : CellAt(window'[s], p) = CellAt(window[s], p)
  BY DEF Rect, CellAt
<1> DEFINE Over(p) == {s \in S : p \in Rect(window[s])}
<1>2. \A p \in Screen : Over(p) = {} => screen'[p] = screen[p]
  BY DEF Painted
<1>3. \A p \in Screen : Over(p) # {} =>
        \E s \in S : p \in Rect(window[s]) /\ screen'[p] = PlaceOf(s, p)
  <2> SUFFICES ASSUME NEW p \in Screen, Over(p) # {}
               PROVE  \E s \in S : p \in Rect(window[s]) /\ screen'[p] = PlaceOf(s, p)
    OBVIOUS
  <2>1. screen'[p] = PlaceOf(Max(Over(p)), p)
    BY DEF Painted
  <2>2. Over(p) \in SUBSET Slots
    OBVIOUS
  <2>3. Max(Over(p)) \in Over(p)
    <3> HIDE DEF Over
    <3> QED BY <2>2, LastSlot
  <2> QED BY <2>1, <2>3
<1>4. \A s \in S, p \in Screen : p \in Rect(window[s]) => PlaceOf(s, p) \in Paint
  <2> SUFFICES ASSUME NEW s \in S, NEW p \in Screen, p \in Rect(window[s])
               PROVE  PlaceOf(s, p) \in Paint
    OBVIOUS
  <2>1. CellAt(window[s], p) \in Cells
    BY CellInWindow DEF IInv, TypeOK
  <2>2. opened[s] \in Nat /\ cells_[s][CellAt(window[s], p)] \in Inks \union {Blank}
    BY <2>1 DEF IInv, TypeOK
  <2> QED BY <2>2 DEF PlaceOf, Paint
<1>5. screen' \in [Screen -> Paint]
  <2>1. screen' = [p \in Screen |-> screen'[p]]
    BY DEF Painted
  <2>2. screen \in [Screen -> Paint]
    BY DEF IInv, TypeOK
  <2>3. \A p \in Screen : screen'[p] \in Paint
    <3> HIDE DEF Over
    <3> QED BY <1>2, <1>3, <1>4, <2>2
  <2> QED BY <2>1, <2>3
<1>6. NoGhosts'
  <2> SUFFICES ASSUME NEW p \in Screen, screen'[p].slot # Repl
               PROVE  LET q == screen'[p] IN
                        /\ window'[q.slot].used /\ q.nth = opened[q.slot]
                        /\ p \in Rect(window'[q.slot])
                        /\ window'[q.slot].dirty
                           \/ q.char = cells_[q.slot][CellAt(window'[q.slot], p)]
    BY DEF NoGhosts, Used, CellAt, Rect
  <2>1. CASE Over(p) = {}
    <3>1. screen'[p] = screen[p] /\ screen[p].slot \in Slots
      <4>1. screen'[p] = screen[p]
        BY <1>2, <2>1
      <4>2. screen[p] \in Paint
        BY DEF IInv, TypeOK
      <4> QED BY <4>1, <4>2 DEF Paint
    <3>2. p \in Rect(window[screen[p].slot])
      BY <3>1 DEF IInv, NoGhosts
    <3>3. screen[p].slot \notin S
      BY <2>1, <3>2
    <3> QED BY <1>1, <3>1, <3>3 DEF IInv, NoGhosts, Used
  <2>2. CASE Over(p) # {}
    <3>1. PICK s \in S : p \in Rect(window[s]) /\ screen'[p] = PlaceOf(s, p)
      BY <1>3, <2>2
    <3> QED BY <1>1, <3>1 DEF PlaceOf, Used
  <2> QED BY <2>1, <2>2
<1> QED BY <1>5, <1>6

-----------------------------------------------------------------------------
(* Every step keeps the invariant.                                         *)

LEMMA InitIInv == Init => IInv
<1> SUFFICES ASSUME Init PROVE IInv
  OBVIOUS
<1>1. Closed \in Window /\ BlankCells \in [Cells -> Inks \union {Blank}] /\ Other \in Paint
  BY WindowsAssumption DEF Closed, Window, BlankCells, Other, Paint
<1>2. Closed.col < Closed.cols /\ Closed.row < Closed.rows
  BY WindowsAssumption DEF Closed
<1>3. TypeOK
  BY <1>1, <1>2 DEF Init, TypeOK
<1> QED BY <1>3 DEF Init, IInv, NoGhosts, FocusOpen, Other

\* Clamp: the sizes are in range whatever was asked for.
LEMMA SizedWindow ==
  ASSUME NEW w \in Window, NEW size \in Sizes
  PROVE  /\ Sized(w, size) \in Window
         /\ Sized(w, size).col < Sized(w, size).cols
         /\ Sized(w, size).row < Sized(w, size).rows
         /\ Sized(w, size).used = w.used
<1>1. size[1] \in Int /\ size[2] \in Int
  BY WindowsAssumption
<1>2. /\ Clamp(size[1], MaxWindowCols) \in 1 .. MaxWindowCols
      /\ Clamp(size[2], MaxWindowRows) \in 1 .. MaxWindowRows
  BY <1>1, WindowsAssumption DEF Clamp
<1> DEFINE n == Clamp(size[1], MaxWindowCols)
           m == Clamp(size[2], MaxWindowRows)
           v == [w EXCEPT !.cols = n, !.rows = m, !.col = 0, !.row = 0]
<1>3. Sized(w, size) = v
  BY DEF Sized
<1>4. n \in 1 .. MaxWindowCols /\ m \in 1 .. MaxWindowRows
  BY <1>2
<1>5. v \in Window /\ v.cols = n /\ v.rows = m /\ v.col = 0 /\ v.row = 0 /\ v.used = w.used
  <2> HIDE DEF n, m
  <2> QED BY <1>4 DEF Window
<1>6. v.col < v.cols /\ v.row < v.rows
  <2> HIDE DEF n, m, v
  <2> QED BY <1>4, <1>5, WindowsAssumption
<1> HIDE DEF v
<1> QED BY <1>3, <1>5, <1>6

\* The window of one slot is another one, that is used if the first was.
LEMMA WindowChanged ==
  ASSUME IInv, NEW s \in Slots, NEW w \in Window, w.used = window[s].used,
         w.col < w.cols, w.row < w.rows, window' = [window EXCEPT ![s] = w],
         UNCHANGED <<focused_, opened, held>>, screen' \in [Screen -> Paint],
         \/ UNCHANGED cells_
         \/ cells_' = [cells_ EXCEPT ![s] = BlankCells],
         \/ UNCHANGED text
         \/ text' = [text EXCEPT ![s] = << >>]
  PROVE  TypeOK' /\ FocusOpen'
<1>1. cells_' \in [Slots -> [Cells -> Inks \union {Blank}]]
  <2>1. cells_ \in [Slots -> [Cells -> Inks \union {Blank}]]
    BY DEF IInv, TypeOK
  <2>2. BlankCells \in [Cells -> Inks \union {Blank}]
    BY DEF BlankCells
  <2> QED BY <2>1, <2>2
<1>2. text' \in [Slots -> Seq(Chars)]
  <2> DEFINE T == Seq(Chars)
  <2>1. text \in [Slots -> T] /\ << >> \in T
    BY DEF IInv, TypeOK
  <2> HIDE DEF T
  <2>2. text' \in [Slots -> T]
    BY <2>1
  <2> QED BY <2>2 DEF T
<1>3. TypeOK'
  BY <1>1, <1>2 DEF IInv, TypeOK
<1>4. FocusOpen'
  BY DEF IInv, TypeOK, FocusOpen, Used
<1> QED BY <1>3, <1>4

LEMMA ClearedType ==
  ASSUME IInv, NEW w
  PROVE  Cleared(screen, w) \in [Screen -> Paint]
BY DEF IInv, TypeOK, Cleared, Other, Paint

LEMMA MakeWindowStep ==
  ASSUME IInv, NEW at \in Places, NEW size \in Sizes, NEW f \in BOOLEAN,
         MakeWindow(at, size, f)
  PROVE  IInv'
<1>1. PICK s \in Slots :
        /\ ~Used(s)
        /\ window' = [window EXCEPT ![s] = [Sized(@, size) EXCEPT !.used = TRUE,
                                              !.at = at, !.dirty = TRUE]]
        /\ cells_' = [cells_ EXCEPT ![s] = BlankCells]
        /\ text' = [text EXCEPT ![s] = << >>]
        /\ focused_' = s
        /\ opened' = [opened EXCEPT ![s] = @ + 1]
        /\ held' = IF f THEN held ELSE held \union {<<s, opened'[s]>>}
        /\ screen' = screen
  BY DEF MakeWindow, Opened
<1>2. at \in Int \X Int
  BY WindowsAssumption
<1> DEFINE w == [Sized(window[s], size) EXCEPT !.used = TRUE, !.at = at, !.dirty = TRUE]
<1>3. w \in Window /\ w.used /\ w.col < w.cols /\ w.row < w.rows
  <2>1. window[s] \in Window
    BY DEF IInv, TypeOK
  <2>2. Sized(window[s], size) \in Window
    BY <2>1, SizedWindow
  <2>3. w \in Window
    BY <1>2, <2>2 DEF Window
  <2>4. /\ w.col = Sized(window[s], size).col /\ w.cols = Sized(window[s], size).cols
        /\ w.row = Sized(window[s], size).row /\ w.rows = Sized(window[s], size).rows
        /\ w.used
    BY <2>2 DEF Window
  <2> QED BY <2>1, <2>3, <2>4, SizedWindow
<1>4. window' = [window EXCEPT ![s] = w]
  BY <1>1
<1> HIDE DEF w
<1>5. TypeOK'
  <2>1. opened' \in [Slots -> Nat]
    BY <1>1 DEF IInv, TypeOK
  <2>2. cells_' \in [Slots -> [Cells -> Inks \union {Blank}]]
    BY <1>1 DEF IInv, TypeOK, BlankCells
  <2>3. held' \subseteq Slots \X Nat
    BY <1>1, <2>1 DEF IInv, TypeOK
  <2>4. window' \in [Slots -> Window]
    BY <1>3, <1>4 DEF IInv, TypeOK
  <2>5. \A r \in Slots : window'[r].col < window'[r].cols /\ window'[r].row < window'[r].rows
    BY <1>3, <1>4 DEF IInv, TypeOK
  <2>6. text' \in [Slots -> Seq(Chars)]
    BY <1>1 DEF IInv, TypeOK
  <2> QED BY <1>1, <2>1, <2>2, <2>3, <2>4, <2>5, <2>6 DEF IInv, TypeOK
<1>6. NoGhosts'
  <2> SUFFICES ASSUME NEW p \in Screen, screen[p].slot # Repl
               PROVE  LET q == screen[p] IN
                        /\ window'[q.slot].used /\ q.nth = opened'[q.slot]
                        /\ p \in Rect(window'[q.slot])
                        /\ window'[q.slot].dirty
                           \/ q.char = cells_'[q.slot][CellAt(window'[q.slot], p)]
    BY <1>1 DEF NoGhosts, Used, CellAt, Rect
  <2>1. screen[p].slot \in Slots \ {s}
    BY <1>1 DEF IInv, TypeOK, Paint, NoGhosts
  <2>2. /\ window'[screen[p].slot] = window[screen[p].slot]
        /\ opened'[screen[p].slot] = opened[screen[p].slot]
        /\ cells_'[screen[p].slot] = cells_[screen[p].slot]
    BY <1>1, <1>4, <2>1 DEF IInv, TypeOK
  <2> QED BY <2>2 DEF IInv, NoGhosts, Used
<1>7. FocusOpen'
  BY <1>1, <1>3, <1>4 DEF FocusOpen, Used, IInv, TypeOK
<1> QED BY <1>5, <1>6, <1>7 DEF IInv

LEMMA MoveWindowStep ==
  ASSUME IInv, NEW h \in held, NEW at \in Places, MoveWindow(h, at)
  PROVE  IInv'
<1> DEFINE s == h[1]
           w == [window[s] EXCEPT !.at = at, !.dirty = TRUE]
<1>1. /\ Used(s) /\ screen' = Cleared(screen, window[s])
      /\ window' = [window EXCEPT ![s] = w]
      /\ UNCHANGED <<cells_, focused_, opened, held, text>>
  BY DEF MoveWindow, MovedTo, Checked
<1>2. s \in Slots
  BY DEF IInv, TypeOK
<1>3. window[s] \in Window /\ at \in Int \X Int
  BY <1>2, WindowsAssumption DEF IInv, TypeOK
<1>4. /\ w \in Window /\ w.used = window[s].used
      /\ w.col = window[s].col /\ w.cols = window[s].cols
      /\ w.row = window[s].row /\ w.rows = window[s].rows
  BY <1>3 DEF Window
<1> HIDE DEF s, w
<1>5. TypeOK' /\ FocusOpen'
  <2>1. w.col < w.cols /\ w.row < w.rows
    BY <1>2, <1>4 DEF IInv, TypeOK
  <2> QED BY <1>1, <1>2, <1>4, <2>1, ClearedType, WindowChanged
<1>6. NoGhosts'
  BY <1>1, <1>2, ClearStep DEF IInv, TypeOK
<1> QED BY <1>5, <1>6 DEF IInv

LEMMA ResizeWindowStep ==
  ASSUME IInv, NEW h \in held, NEW size \in Sizes, ResizeWindow(h, size)
  PROVE  IInv'
<1> DEFINE s == h[1]
           w == [Sized(window[s], size) EXCEPT !.dirty = TRUE]
<1>1. /\ Used(s) /\ screen' = Cleared(screen, window[s])
      /\ window' = [window EXCEPT ![s] = w]
      /\ cells_' = [cells_ EXCEPT ![s] = BlankCells]
      /\ text' = [text EXCEPT ![s] = << >>]
      /\ UNCHANGED <<focused_, opened, held>>
  BY DEF ResizeWindow, Checked
<1>2. s \in Slots
  BY DEF IInv, TypeOK
<1>3. window[s] \in Window
  BY <1>2 DEF IInv, TypeOK
<1>4. w \in Window /\ w.used = window[s].used /\ w.col < w.cols /\ w.row < w.rows
  <2> DEFINE v == Sized(window[s], size)
  <2>1. v \in Window /\ v.used = window[s].used /\ v.col < v.cols /\ v.row < v.rows
    BY <1>3, SizedWindow
  <2> HIDE DEF v
  <2>2. LET x == [v EXCEPT !.dirty = TRUE] IN
        x \in Window /\ x.used = v.used /\ x.col < x.cols /\ x.row < x.rows
    BY <2>1 DEF Window
  <2> QED BY <2>1, <2>2 DEF v
<1> HIDE DEF s, w
<1>5. TypeOK' /\ FocusOpen'
  BY <1>1, <1>2, <1>4, ClearedType, WindowChanged
<1>6. NoGhosts'
  BY <1>1, <1>2, ClearStep DEF IInv, TypeOK
<1> QED BY <1>5, <1>6 DEF IInv

LEMMA CloseWindowStep ==
  ASSUME IInv, NEW h \in held, CloseWindow(h)
  PROVE  IInv'
<1> DEFINE s == h[1]
           w == [window[s] EXCEPT !.used = FALSE, !.dirty = FALSE]
<1>1. /\ Used(s) /\ screen' = Cleared(screen, window[s])
      /\ window' = [window EXCEPT ![s] = w]
      /\ focused_' = IF focused_ = s THEN Repl ELSE focused_
      /\ UNCHANGED <<cells_, opened, held, text>>
  BY DEF CloseWindow, FocusWithout, Checked
<1>2. s \in Slots
  BY DEF IInv, TypeOK
<1>3. window[s] \in Window
  BY <1>2 DEF IInv, TypeOK
<1>4. /\ w \in Window
      /\ w.col = window[s].col /\ w.cols = window[s].cols
      /\ w.row = window[s].row /\ w.rows = window[s].rows
  BY <1>3 DEF Window
<1> HIDE DEF s, w
<1>5. TypeOK'
  BY <1>1, <1>2, <1>4, ClearedType DEF IInv, TypeOK
<1>6. NoGhosts'
  BY <1>1, <1>2, ClearStep DEF IInv, TypeOK
<1>7. FocusOpen'
  BY <1>1, <1>2 DEF FocusOpen, Used, IInv, TypeOK, Repl
<1> QED BY <1>5, <1>6, <1>7 DEF IInv

LEMMA ClearWindowStep ==
  ASSUME IInv, NEW h \in held, ClearWindow(h)
  PROVE  IInv'
<1> DEFINE s == h[1]
           w == [window[s] EXCEPT !.col = 0, !.row = 0, !.dirty = TRUE]
<1>1. /\ Used(s) /\ window' = [window EXCEPT ![s] = w]
      /\ cells_' = [cells_ EXCEPT ![s] = BlankCells]
      /\ text' = [text EXCEPT ![s] = << >>]
      /\ UNCHANGED <<focused_, screen, opened, held>>
  BY DEF ClearWindow, Wiped, Checked
<1>2. s \in Slots
  BY DEF IInv, TypeOK
<1>3. window[s] \in Window
  BY <1>2 DEF IInv, TypeOK
<1>4. /\ w \in Window /\ w.used = window[s].used /\ w.dirty
      /\ w.col = 0 /\ w.row = 0 /\ w.at = window[s].at
      /\ w.cols = window[s].cols /\ w.rows = window[s].rows
  BY <1>3 DEF Window
<1> HIDE DEF s, w
<1>5. w.col < w.cols /\ w.row < w.rows
  BY <1>4, WindowsAssumption DEF Window
<1>6. screen' \in [Screen -> Paint]
  BY <1>1 DEF IInv, TypeOK
<1>7. TypeOK' /\ FocusOpen'
  BY <1>1, <1>2, <1>4, <1>5, <1>6, WindowChanged
<1>8. NoGhosts'
  <2>1. Rect(w) = Rect(window[s])
    BY <1>4 DEF Rect
  <2> QED BY <1>1, <1>2, <1>4, <2>1, DirtyStep DEF IInv, TypeOK
<1> QED BY <1>7, <1>8 DEF IInv

LEMMA SetWindowColorsStep ==
  ASSUME IInv, NEW h \in held, SetWindowColors(h)
  PROVE  IInv'
<1> DEFINE s == h[1]
           w == [window[s] EXCEPT !.dirty = TRUE]
<1>1. /\ Used(s) /\ window' = [window EXCEPT ![s] = w]
      /\ UNCHANGED <<cells_, focused_, screen, opened, held, text>>
  BY DEF SetWindowColors, Checked
<1>2. s \in Slots
  BY DEF IInv, TypeOK
<1>3. window[s] \in Window
  BY <1>2 DEF IInv, TypeOK
<1>4. /\ w \in Window /\ w.used = window[s].used /\ w.dirty
      /\ w.col = window[s].col /\ w.row = window[s].row /\ w.at = window[s].at
      /\ w.cols = window[s].cols /\ w.rows = window[s].rows
  BY <1>3 DEF Window
<1> HIDE DEF s, w
<1>5. w.col < w.cols /\ w.row < w.rows
  BY <1>2, <1>4 DEF IInv, TypeOK
<1>6. screen' \in [Screen -> Paint]
  BY <1>1 DEF IInv, TypeOK
<1>7. TypeOK' /\ FocusOpen'
  BY <1>1, <1>2, <1>4, <1>5, <1>6, WindowChanged
<1>8. NoGhosts'
  <2>1. Rect(w) = Rect(window[s])
    BY <1>4 DEF Rect
  <2> QED BY <1>1, <1>2, <1>4, <2>1, DirtyStep DEF IInv, TypeOK
<1> QED BY <1>7, <1>8 DEF IInv

\* newline, scrollUp: the cursor stays in the window and the cells stay characters.
LEMMA NewlineType ==
  ASSUME NEW w \in Window, w.row < w.rows,
         NEW c \in [Cells -> Inks \union {Blank}]
  PROVE  /\ NewlineRow(w) \in Nat /\ NewlineRow(w) < w.rows
         /\ NewlineCells(w, c) \in [Cells -> Inks \union {Blank}]
<1>1. /\ w.row \in Nat /\ w.rows \in 1 .. MaxWindowRows /\ w.cols \in 1 .. MaxWindowCols
  BY DEF Window
<1>2. NewlineRow(w) \in Nat /\ NewlineRow(w) < w.rows
  BY <1>1, WindowsAssumption DEF NewlineRow
<1>3. Scrolled(w, c) \in [Cells -> Inks \union {Blank}]
  <2> SUFFICES ASSUME NEW p \in Cells, p[2] < w.rows, p[2] # w.rows - 1
               PROVE  <<p[1], p[2] + 1>> \in Cells
    BY <1>1, WindowsAssumption DEF Scrolled, Cells
  <2>1. p[1] \in 0 .. MaxWindowCols - 1 /\ p[2] \in 0 .. MaxWindowRows - 1
    BY DEF Cells
  <2>2. p[2] + 1 \in 0 .. MaxWindowRows - 1
    BY <1>1, <2>1, WindowsAssumption
  <2> QED BY <2>1, <2>2 DEF Cells
<1>4. NewlineCells(w, c) \in [Cells -> Inks \union {Blank}]
  BY <1>3 DEF NewlineCells
<1> QED BY <1>2, <1>4

LEMMA WriteCharStep ==
  ASSUME IInv, NEW h \in held, NEW c \in Chars, WriteChar(h, c)
  PROVE  IInv'
<1> DEFINE s == h[1]
           w == window[s]
           Ink == Inks \union {Blank}
           inked == [cells_[s] EXCEPT ![<<w.col, w.row>>] = c]
<1>1. s \in Slots /\ Used(s) /\ c # Return
  BY DEF IInv, TypeOK, WriteChar
<1>2. /\ w \in Window /\ w.col < w.cols /\ w.row < w.rows
      /\ cells_[s] \in [Cells -> Ink]
  BY <1>1 DEF IInv, TypeOK
<1>3. UNCHANGED <<focused_, screen, opened, held>> /\ text' = [text EXCEPT ![s] = Append(@, c)]
  BY DEF WriteChar
<1>4. c # Newline => c \in Inks /\ inked \in [Cells -> Ink]
  <2>1. c # Newline => c \in Inks
    BY <1>1 DEF Chars
  <2> HIDE DEF w
  <2> QED BY <1>2, <2>1
<1>5. PICK v \in Window, d \in [Cells -> Ink] :
        /\ window' = [window EXCEPT ![s] = v] /\ cells_' = [cells_ EXCEPT ![s] = d]
        /\ v.used = w.used /\ v.at = w.at /\ v.cols = w.cols /\ v.rows = w.rows
        /\ v.col < v.cols /\ v.row < v.rows /\ v.dirty
  <2>1. CASE c = Newline \/ w.col + 1 >= w.cols
    <3> DEFINE old == IF c = Newline THEN cells_[s] ELSE inked
               row == NewlineRow(w)
               v == [w EXCEPT !.col = 0, !.row = row, !.dirty = TRUE]
               d == NewlineCells(w, old)
    <3>1. old \in [Cells -> Ink]
      BY <1>2, <1>4
    <3>2. row \in Nat /\ row < w.rows /\ d \in [Cells -> Ink]
      <4> HIDE DEF old, w
      <4> QED BY <1>2, <3>1, NewlineType
    <3>3. window' = [window EXCEPT ![s] = v] /\ cells_' = [cells_ EXCEPT ![s] = d]
      <4>1. c = Newline \/ ~ (c # Newline /\ w.col + 1 < w.cols)
        BY <1>2, <2>1 DEF Window
      <4> QED BY <1>1, <4>1 DEF WriteChar, IInv, TypeOK
    <3> HIDE DEF d, row, w
    <3>4. /\ v \in Window /\ v.used = w.used /\ v.at = w.at /\ v.cols = w.cols
          /\ v.rows = w.rows /\ v.col = 0 /\ v.row = row /\ v.dirty
      BY <1>2, <3>2 DEF Window
    <3>5. v.col < v.cols /\ v.row < v.rows
      BY <1>2, <3>2, <3>4, WindowsAssumption DEF Window
    <3> HIDE DEF v
    <3> QED BY <3>2, <3>3, <3>4, <3>5
  <2>2. CASE ~ (c = Newline \/ w.col + 1 >= w.cols)
    <3> DEFINE v == [w EXCEPT !.col = @ + 1, !.dirty = TRUE]
    <3>1. window' = [window EXCEPT ![s] = v] /\ cells_' = [cells_ EXCEPT ![s] = inked]
      BY <2>2 DEF WriteChar
    <3>2. inked \in [Cells -> Ink]
      BY <1>4, <2>2
    <3> HIDE DEF w, inked
    <3>3. /\ v \in Window /\ v.used = w.used /\ v.at = w.at /\ v.cols = w.cols
          /\ v.rows = w.rows /\ v.col = w.col + 1 /\ v.row = w.row /\ v.dirty
      <4>1. w.col \in Nat
        BY <1>2 DEF Window
      <4>2. w.col + 1 \in Nat
        BY <4>1
      <4> DEFINE n == w.col + 1
      <4> HIDE DEF n
      <4>3. v = [w EXCEPT !.col = n, !.dirty = TRUE]
        BY <1>2 DEF n, Window
      <4>4. n \in Nat
        BY <4>2 DEF n
      <4> HIDE DEF v
      <4>5. /\ v \in Window /\ v.used = w.used /\ v.at = w.at /\ v.cols = w.cols
            /\ v.rows = w.rows /\ v.col = n /\ v.row = w.row /\ v.dirty
        BY <1>2, <4>3, <4>4 DEF Window
      <4> QED BY <4>5 DEF n
    <3>4. v.col < v.cols /\ v.row < v.rows
      BY <1>2, <2>2, <3>3 DEF Window
    <3> HIDE DEF v
    <3> QED BY <3>1, <3>2, <3>3, <3>4
  <2> QED BY <2>1, <2>2
<1> HIDE DEF s, w
<1>6. cells_' \in [Slots -> [Cells -> Ink]]
  BY <1>1, <1>5 DEF IInv, TypeOK
<1>7. text' \in [Slots -> Seq(Chars)]
  <2>1. text[s] \in Seq(Chars)
    BY <1>1 DEF IInv, TypeOK
  <2>2. Append(text[s], c) \in Seq(Chars)
    BY <2>1
  <2> QED BY <1>1, <1>3, <2>2 DEF IInv, TypeOK
<1>8. window' \in [Slots -> Window]
  BY <1>1, <1>5 DEF IInv, TypeOK
<1>9. \A r \in Slots : window'[r].col < window'[r].cols /\ window'[r].row < window'[r].rows
  BY <1>1, <1>5 DEF IInv, TypeOK
<1>10. TypeOK'
  BY <1>3, <1>6, <1>7, <1>8, <1>9 DEF IInv, TypeOK
<1>11. FocusOpen'
  BY <1>1, <1>3, <1>5 DEF IInv, TypeOK, FocusOpen, Used, w
<1>12. NoGhosts'
  <2>1. Rect(window'[s]) = Rect(window[s])
    BY <1>1, <1>5 DEF Rect, w, IInv, TypeOK
  <2> QED BY <1>1, <1>3, <1>5, <2>1, DirtyStep DEF IInv, TypeOK, w
<1> QED BY <1>10, <1>11, <1>12 DEF IInv

LEMMA WindowRedrawStep ==
  ASSUME IInv, NEW h \in held, WindowRedraw(h)
  PROVE  IInv'
<1> DEFINE s == h[1]
           w == [window[s] EXCEPT !.dirty = FALSE]
<1>1. /\ Used(s) /\ screen' = Painted({s}) /\ window' = [window EXCEPT ![s] = w]
      /\ UNCHANGED <<cells_, focused_, opened, held, text>>
  BY DEF WindowRedraw, Checked
<1>2. s \in Slots
  BY DEF IInv, TypeOK
<1>3. window[s] \in Window
  BY <1>2 DEF IInv, TypeOK
<1>4. /\ w \in Window /\ w.used = window[s].used
      /\ w.col = window[s].col /\ w.row = window[s].row /\ w.at = window[s].at
      /\ w.cols = window[s].cols /\ w.rows = window[s].rows
  BY <1>3 DEF Window
<1> HIDE DEF s, w
<1>5. \A r \in Slots : /\ window'[r].used = window[r].used
                       /\ window'[r].at = window[r].at
                       /\ window'[r].cols = window[r].cols
                       /\ window'[r].rows = window[r].rows
                       /\ r \notin {s} /\ Used(r) => window'[r].dirty = window[r].dirty
  BY <1>1, <1>2, <1>4 DEF IInv, TypeOK
<1>6. NoGhosts' /\ screen' \in [Screen -> Paint]
  BY <1>1, <1>2, <1>5, PaintStep
<1>7. w.col < w.cols /\ w.row < w.rows
  BY <1>2, <1>4 DEF IInv, TypeOK
<1>8. TypeOK' /\ FocusOpen'
  BY <1>1, <1>2, <1>4, <1>6, <1>7, WindowChanged
<1> QED BY <1>6, <1>8 DEF IInv

LEMMA RenderAllDirtyStep == IInv /\ RenderAllDirty => IInv'
<1> SUFFICES ASSUME IInv, RenderAllDirty PROVE IInv'
  OBVIOUS
<1> DEFINE Dirty == {s \in Slots : Used(s) /\ window[s].dirty}
           W(s) == [window[s] EXCEPT !.dirty = FALSE]
<1>1. /\ screen' = Painted(Dirty) /\ window' = [s \in Slots |-> W(s)]
      /\ UNCHANGED <<cells_, focused_, opened, held, text>>
  BY DEF RenderAllDirty
<1>2. \A s \in Slots :
        /\ W(s) \in Window /\ W(s).used = window[s].used
        /\ W(s).col = window[s].col /\ W(s).row = window[s].row /\ W(s).at = window[s].at
        /\ W(s).cols = window[s].cols /\ W(s).rows = window[s].rows /\ ~ W(s).dirty
  BY DEF IInv, TypeOK, Window
<1> HIDE DEF W
<1>3. window' \in [Slots -> Window]
  BY <1>1, <1>2
<1>4. NoGhosts' /\ screen' \in [Screen -> Paint]
  <2>1. Dirty \in SUBSET Slots /\ \A s \in Dirty : Used(s)
    OBVIOUS
  <2>2. \A s \in Slots : s \notin Dirty /\ Used(s) => window'[s].dirty = window[s].dirty
    <3> SUFFICES ASSUME NEW s \in Slots, s \notin Dirty, Used(s)
                 PROVE  window'[s].dirty = window[s].dirty
      OBVIOUS
    <3>1. window[s].dirty \in BOOLEAN /\ ~ window[s].dirty
      BY DEF IInv, TypeOK, Window
    <3>2. window'[s].dirty \in BOOLEAN /\ ~ window'[s].dirty
      BY <1>1, <1>2 DEF Window
    <3> QED BY <3>1, <3>2
  <2>3. \A s \in Slots : /\ window'[s].used = window[s].used
                         /\ window'[s].at = window[s].at
                         /\ window'[s].cols = window[s].cols
                         /\ window'[s].rows = window[s].rows
    BY <1>1, <1>2
  <2> HIDE DEF Dirty
  <2> QED BY <1>1, <2>1, <2>2, <2>3, PaintStep
<1>5. \A s \in Slots : window'[s].col < window'[s].cols /\ window'[s].row < window'[s].rows
  BY <1>1, <1>2 DEF IInv, TypeOK
<1>6. TypeOK'
  BY <1>1, <1>3, <1>4, <1>5 DEF IInv, TypeOK
<1>7. FocusOpen'
  BY <1>1, <1>2 DEF IInv, TypeOK, FocusOpen, Used
<1> QED BY <1>4, <1>6, <1>7 DEF IInv

\* ReplRender, which paints over windows, and the steps that change no window.
LEMMA OtherStep ==
  ASSUME IInv, UNCHANGED <<window, cells_, opened, text>>,
         held' \subseteq Slots \X Nat,
         \/ UNCHANGED screen
         \/ \E S \in SUBSET Screen :
              screen' = [p \in Screen |-> IF p \in S THEN Other ELSE screen[p]],
         \/ focused_' \in {Repl, focused_}
         \/ focused_' \in Slots /\ Used(focused_')
  PROVE  IInv'
<1>1. \A p \in Screen : screen'[p] \in {screen[p], Other}
  OBVIOUS
<1>2. screen' \in [Screen -> Paint]
  <2>1. screen \in [Screen -> Paint] /\ Other \in Paint
    BY DEF IInv, TypeOK, Other, Paint
  <2> QED BY <2>1
<1>3. TypeOK'
  BY <1>2 DEF IInv, TypeOK
<1>4. FocusOpen'
  BY DEF IInv, FocusOpen, Used
<1>5. NoGhosts'
  <2> SUFFICES ASSUME NEW p \in Screen, screen'[p].slot # Repl
               PROVE  LET q == screen'[p] IN
                        /\ Used(q.slot) /\ q.nth = opened[q.slot]
                        /\ p \in Rect(window[q.slot])
                        /\ window[q.slot].dirty
                           \/ q.char = cells_[q.slot][CellAt(window[q.slot], p)]
    BY DEF NoGhosts, Used, Rect, CellAt
  <2>1. Other.slot = Repl
    BY DEF Other
  <2>2. screen'[p] = screen[p]
    BY <1>1, <2>1
  <2> QED BY <2>2 DEF IInv, NoGhosts
<1> QED BY <1>3, <1>4, <1>5 DEF IInv

LEMMA NextIInv == IInv /\ [Next]_vars => IInv'
<1> SUFFICES ASSUME IInv, [Next]_vars PROVE IInv'
  OBVIOUS
<1>1. ASSUME NEW at \in Places, NEW size \in Sizes, NEW f \in BOOLEAN,
             MakeWindow(at, size, f)
      PROVE  IInv'
  BY <1>1, MakeWindowStep
<1>2. ASSUME NEW h \in held, NEW at \in Places, MoveWindow(h, at) PROVE IInv'
  BY <1>2, MoveWindowStep
<1>3. ASSUME NEW h \in held, NEW size \in Sizes, ResizeWindow(h, size) PROVE IInv'
  BY <1>3, ResizeWindowStep
<1>4. ASSUME NEW h \in held, ClearWindow(h) PROVE IInv'
  BY <1>4, ClearWindowStep
<1>5. ASSUME NEW h \in held, CloseWindow(h) PROVE IInv'
  BY <1>5, CloseWindowStep
<1>6. ASSUME NEW h \in held, FocusWindow(h) PROVE IInv'
  <2>1. h[1] \in Slots /\ Used(h[1]) /\ focused_' = h[1]
    BY <1>6 DEF FocusWindow, Checked, IInv, TypeOK
  <2> QED BY <1>6, <2>1, OtherStep DEF FocusWindow, IInv, TypeOK
<1>7. ASSUME NEW h \in held, SetWindowColors(h) PROVE IInv'
  BY <1>7, SetWindowColorsStep
<1>8. ASSUME NEW h \in held, WindowRedraw(h) PROVE IInv'
  BY <1>8, WindowRedrawStep
<1>9. ASSUME NEW h \in held, NEW c \in Chars, WriteChar(h, c) PROVE IInv'
  BY <1>9, WriteCharStep
<1>10. CASE FocusRepl
  BY <1>10, OtherStep DEF FocusRepl, IInv, TypeOK
<1>11. CASE ListWindows
  <2>1. {<<s, opened[s]>> : s \in {r \in Slots : Used(r)}} \subseteq Slots \X Nat
    BY DEF IInv, TypeOK
  <2>2. held' \subseteq Slots \X Nat
    BY <1>11, <2>1 DEF ListWindows, IInv, TypeOK
  <2> QED BY <1>11, <2>2, OtherStep DEF ListWindows
<1>12. ASSUME NEW changed, ReplRender(changed) PROVE IInv'
  <2>1. changed \in SUBSET Screen /\ held' \subseteq Slots \X Nat
    BY <1>12 DEF ReplRender, IInv, TypeOK
  <2> QED BY <1>12, <2>1, OtherStep DEF ReplRender
<1>13. CASE RenderAllDirty
  BY <1>13, RenderAllDirtyStep
<1>14. CASE UNCHANGED vars
  <2>1. held' \subseteq Slots \X Nat
    BY <1>14 DEF vars, IInv, TypeOK
  <2> QED BY <1>14, <2>1, OtherStep DEF vars
<1> QED
  BY <1>1, <1>2, <1>3, <1>4, <1>5, <1>6, <1>7, <1>8, <1>9, <1>10, <1>11, <1>12, <1>13,
     <1>14 DEF Next

-----------------------------------------------------------------------------
(* The theorems.                                                           *)

\* The inductive invariant of the window manager.
THEOREM Invariance == Spec => []IInv
<1>1. Init => IInv
  BY InitIInv
<1>2. IInv /\ [Next]_vars => IInv'
  BY NextIInv
<1> QED BY <1>1, <1>2, PTL DEF Spec

\* writeChar, newline, clampCols: the cursor of every window is in the window, and the
\* window in its cells, so that cells_ is never written out of its bounds.
THEOREM TypeCorrect == Spec => []TypeOK
<1>1. IInv => TypeOK
  BY DEF IInv
<1> QED BY <1>1, Invariance, PTL

\* clearScreenRect, dirty_: the screen shows no text of a window that is closed, was
\* elsewhere, or has changed and is not to be painted, however windows overlap.
THEOREM ScreenTrue == Spec => []NoGhosts
<1>1. IInv => NoGhosts
  BY DEF IInv
<1> QED BY <1>1, Invariance, PTL

\* WindowManager::close, focus: the focus is never on a slot that is closed.
THEOREM FocusSafe == Spec => []FocusOpen
<1>1. IInv => FocusOpen
  BY DEF IInv
<1> QED BY <1>1, Invariance, PTL

=============================================================================
