------------------------------ MODULE Windows ------------------------------
(* ui/window.cpp, ui/window_builtins.cpp: the text windows that a program   *)
(* opens over the REPL. A window has a slot, text cells with a cursor, and  *)
(* a dirty flag; the screen shows what was painted last at each place.      *)
(* Programs name a window by a stream, which holds the slot only.           *)
(*                                                                          *)
(* A place of the screen is a character cell; borders and colours are left  *)
(* out, but setting colours is not: it may fail when the window is there.   *)
EXTENDS Integers, Sequences, FiniteSetsExt

CONSTANTS
  MaxTextWindows,  \* slots are 0 .. MaxTextWindows - 1
  MaxWindowCols, MaxWindowRows,
  ScreenCols, ScreenRows,
  Places,          \* where programs put windows: pairs of column and row
  Sizes,           \* what they ask for: pairs of columns and rows
  Inks,            \* the printing characters they write
  MaxText,         \* bound: characters that the ghost text holds, of all slots
  MaxOpened        \* bound: windows made

ASSUME WindowsAssumption ==
  /\ MaxTextWindows \in Nat \ {0} /\ MaxWindowCols \in Nat \ {0}
  /\ MaxWindowRows \in Nat \ {0} /\ ScreenCols \in Nat /\ ScreenRows \in Nat
  /\ Places \subseteq Int \X Int /\ Sizes \subseteq Int \X Int

Slots   == 0 .. MaxTextWindows - 1
Repl    == -1                                  \* WindowFocusRepl
Screen  == (0 .. ScreenCols - 1) \X (0 .. ScreenRows - 1)
Blank   == " "
Newline == "nl"
Return  == "cr"
Chars   == Inks \union {Newline, Return}
Cells   == (0 .. MaxWindowCols - 1) \X (0 .. MaxWindowRows - 1)

VARIABLES
  window,   \* slot -> used_ (and visible_), x_ and y_, cols_, rows_, cursor, dirty_
  cells_,   \* slot -> cell (column, row) -> character
  focused_,
  screen,   \* place -> what was painted there last: a slot's text, or something else
  opened,   \* ghost: slot -> how many windows it has held
  held,     \* ghost: the streams the program was given: slot and number of the window
  text      \* ghost: slot -> what was written since the window was cleared

vars == <<window, cells_, focused_, screen, opened, held, text>>

\* How many windows were made, and how much text there is.
AllOpened == MapThenSumSet(LAMBDA s : opened[s], Slots)
AllText   == MapThenSumSet(LAMBDA s : Len(text[s]), Slots)

Used(s) == window[s].used
Other   == [slot |-> Repl, nth |-> 0, char |-> Blank]

Clamp(n, max) == IF n < 1 THEN 1 ELSE IF n > max THEN max ELSE n
Sized(w, size) ==
  [w EXCEPT !.cols = Clamp(size[1], MaxWindowCols),
            !.rows = Clamp(size[2], MaxWindowRows), !.col = 0, !.row = 0]

\* TextWindow::init, moveTo, clear: a slot's window made, moved, and wiped.
Opened(w, at, size) ==
  [Sized(w, size) EXCEPT !.used = TRUE, !.at = at, !.dirty = TRUE]
MovedTo(w, at) == [w EXCEPT !.at = at, !.dirty = TRUE]
Wiped(w) == [w EXCEPT !.col = 0, !.row = 0, !.dirty = TRUE]

\* clearScreenRect, render: the places a window covers, and its cell at one of them.
Rect(w) ==
  {p \in Screen : p[1] - w.at[1] \in 0 .. w.cols - 1 /\ p[2] - w.at[2] \in 0 .. w.rows - 1}
CellAt(w, p) == <<p[1] - w.at[1], p[2] - w.at[2]>>

Cleared(scr, w) == [p \in Screen |-> IF p \in Rect(w) THEN Other ELSE scr[p]]
PlaceOf(s, p) ==
  [slot |-> s, nth |-> opened[s], char |-> cells_[s][CellAt(window[s], p)]]

\* The slots of S painted in their order: the last one at a place stays.
Painted(S) ==
  [p \in Screen |->
     LET over == {s \in S : p \in Rect(window[s])}
     IN IF over = {} THEN screen[p] ELSE PlaceOf(Max(over), p)]

BlankCells == [c \in Cells |-> Blank]
Closed == [used |-> FALSE, at |-> <<0, 0>>, cols |-> MaxWindowCols,
           rows |-> MaxWindowRows, col |-> 0, row |-> 0, dirty |-> FALSE]

-----------------------------------------------------------------------------
\* setup: WindowManager::init, attachReplWindow, focusReplWindow
Init ==
  /\ window = [s \in Slots |-> Closed]
  /\ cells_ = [s \in Slots |-> BlankCells]
  /\ focused_ = Repl
  /\ screen = [p \in Screen |-> Other]
  /\ opened = [s \in Slots |-> 0] /\ held = {}
  /\ text = [s \in Slots |-> << >>]

\* fn_makewindow, createTextWindow: the first free slot. The colours are looked at
\* when the window is there: an argument that is no integer raises an error, and the
\* program never sees the window it has made.
MakeWindow(at, size, coloursFail) ==
  /\ \E s \in Slots :
       /\ ~Used(s) /\ \A r \in Slots : r < s => Used(r)
       /\ AllOpened < MaxOpened
       /\ window' = [window EXCEPT ![s] = Opened(@, at, size)]
       /\ cells_' = [cells_ EXCEPT ![s] = BlankCells]
       /\ text' = [text EXCEPT ![s] = << >>]
       /\ focused_' = s
       /\ opened' = [opened EXCEPT ![s] = @ + 1]
       /\ held' = IF coloursFail THEN held ELSE held \union {<<s, opened'[s]>>}
  /\ UNCHANGED screen

\* checkwindow: the slot in the stream must be in use, by whatever window.
Checked(h) == h \in held /\ Used(h[1])

\* TextWindow::moveTo: slips in the order of its steps.
MoveWindow_ClearAfter(h, at) ==
  LET s == h[1] IN
  /\ Checked(h)
  /\ window' = [window EXCEPT ![s] = MovedTo(@, at)]
  /\ screen' = Cleared(screen, window'[s])
  /\ UNCHANGED <<cells_, focused_, opened, held, text>>

MoveWindow(h, at) ==
  LET s == h[1] IN
  /\ Checked(h)
  /\ screen' = Cleared(screen, window[s])
  /\ window' = [window EXCEPT ![s] = MovedTo(@, at)]
  /\ UNCHANGED <<cells_, focused_, opened, held, text>>

\* TextWindow::resize: slips, the text or the cursor stays.
ResizeWindow_KeepText(h, size) ==
  LET s == h[1] IN
  /\ Checked(h)
  /\ screen' = Cleared(screen, window[s])
  /\ window' = [window EXCEPT ![s] = [Sized(@, size) EXCEPT !.dirty = TRUE]]
  /\ text' = [text EXCEPT ![s] = << >>]
  /\ UNCHANGED <<cells_, focused_, opened, held>>

ResizeWindow(h, size) ==
  LET s == h[1] IN
  /\ Checked(h)
  /\ screen' = Cleared(screen, window[s])
  /\ window' = [window EXCEPT ![s] = [Sized(@, size) EXCEPT !.dirty = TRUE]]
  /\ cells_' = [cells_ EXCEPT ![s] = BlankCells]
  /\ text' = [text EXCEPT ![s] = << >>]
  /\ UNCHANGED <<focused_, opened, held>>

ClearWindow(h) ==
  LET s == h[1] IN
  /\ Checked(h)
  /\ window' = [window EXCEPT ![s] = Wiped(@)]
  /\ cells_' = [cells_ EXCEPT ![s] = BlankCells]
  /\ text' = [text EXCEPT ![s] = << >>]
  /\ UNCHANGED <<focused_, screen, opened, held>>

\* WindowManager::close: the focus of the window goes to the REPL.
FocusWithout(s) == IF focused_ = s THEN Repl ELSE focused_

\* A slip, the focus stays.
CloseWindow_KeepFocus(h) ==
  LET s == h[1] IN
  /\ Checked(h)
  /\ screen' = Cleared(screen, window[s])
  /\ window' = [window EXCEPT ![s] = [@ EXCEPT !.used = FALSE, !.dirty = FALSE]]
  /\ UNCHANGED <<cells_, focused_, opened, held, text>>

CloseWindow(h) ==
  LET s == h[1] IN
  /\ Checked(h)
  /\ screen' = Cleared(screen, window[s])
  /\ window' = [window EXCEPT ![s] = [@ EXCEPT !.used = FALSE, !.dirty = FALSE]]
  /\ focused_' = FocusWithout(s)
  /\ UNCHANGED <<cells_, opened, held, text>>

FocusWindow(h) ==
  /\ Checked(h) /\ focused_' = h[1]
  /\ UNCHANGED <<window, cells_, screen, opened, held, text>>

FocusRepl ==
  /\ focused_' = Repl
  /\ UNCHANGED <<window, cells_, screen, opened, held, text>>

SetWindowColors(h) ==
  /\ Checked(h)
  /\ window' = [window EXCEPT ![h[1]].dirty = TRUE]
  /\ UNCHANGED <<cells_, focused_, screen, opened, held, text>>

\* fn_windowredraw, TextWindow::render
WindowRedraw(h) ==
  /\ Checked(h)
  /\ screen' = Painted({h[1]})
  /\ window' = [window EXCEPT ![h[1]].dirty = FALSE]
  /\ UNCHANGED <<cells_, focused_, opened, held, text>>

\* fn_listwindows: a stream for every window, those the program has lost included.
ListWindows ==
  /\ held' = held \union {<<s, opened[s]>> : s \in {r \in Slots : Used(r)}}
  /\ UNCHANGED <<window, cells_, focused_, screen, opened, text>>

-----------------------------------------------------------------------------
(* window0write and the others, TextWindow::writeChar.                     *)

\* newline
NewlineRow(w) == IF w.row + 1 >= w.rows THEN w.rows - 1 ELSE w.row + 1

\* scrollUp: only the cells in the window move.
Scrolled(w, c) ==
  [p \in Cells |->
     IF p[1] >= w.cols \/ p[2] >= w.rows THEN c[p]
     ELSE IF p[2] = w.rows - 1 THEN Blank ELSE c[<<p[1], p[2] + 1>>]]

\* newline
NewlineCells(w, c) == IF w.row + 1 >= w.rows THEN Scrolled(w, c) ELSE c

\* A stream to a window that is closed takes what is written and drops it.
WriteChar(h, c) ==
  LET s == h[1]
      w == window[s]
      inked == [cells_[s] EXCEPT ![<<w.col, w.row>>] = c]
  IN
  /\ h \in held /\ Used(s) /\ c # Return /\ AllText < MaxText
  /\ \/ /\ c = Newline \/ w.col + 1 >= w.cols
        /\ window' = [window EXCEPT ![s] =
                        [w EXCEPT !.col = 0, !.row = NewlineRow(w), !.dirty = TRUE]]
        /\ cells_' = [cells_ EXCEPT ![s] =
                        NewlineCells(w, IF c = Newline THEN @ ELSE inked)]
     \/ /\ c # Newline /\ w.col + 1 < w.cols
        /\ window' = [window EXCEPT ![s] = [w EXCEPT !.col = @ + 1, !.dirty = TRUE]]
        /\ cells_' = [cells_ EXCEPT ![s] = inked]
  /\ text' = [text EXCEPT ![s] = Append(@, c)]
  /\ UNCHANGED <<focused_, screen, opened, held>>

-----------------------------------------------------------------------------
(* The end of a turn of repl.                                              *)

\* ReplRenderIfDirty: cells of the REPL that have changed, or all after a scroll.
ReplRender(changed) ==
  /\ changed \subseteq Screen
  /\ screen' = [p \in Screen |-> IF p \in changed THEN Other ELSE screen[p]]
  /\ UNCHANGED <<window, cells_, focused_, opened, held, text>>

\* renderAllDirty, in the order of the slots.
RenderAllDirty ==
  /\ screen' = Painted({s \in Slots : Used(s) /\ window[s].dirty})
  /\ window' = [s \in Slots |-> [window[s] EXCEPT !.dirty = FALSE]]
  /\ UNCHANGED <<cells_, focused_, opened, held, text>>

Next ==
  \/ \E at \in Places, size \in Sizes, f \in BOOLEAN : MakeWindow(at, size, f)
  \/ \E h \in held :
       \/ \E at \in Places : MoveWindow(h, at)
       \/ \E size \in Sizes : ResizeWindow(h, size)
       \/ ClearWindow(h) \/ CloseWindow(h) \/ FocusWindow(h) \/ SetWindowColors(h)
       \/ WindowRedraw(h)
       \/ \E c \in Chars : WriteChar(h, c)
  \/ FocusRepl \/ ListWindows
  \/ \E changed \in {Screen, {p \in Screen : p[2] = 0}} : ReplRender(changed)
  \/ RenderAllDirty

Spec == Init /\ [][Next]_vars

-----------------------------------------------------------------------------
(* Properties.                                                             *)

Window == [used : BOOLEAN, at : Int \X Int, cols : 1 .. MaxWindowCols,
           rows : 1 .. MaxWindowRows, col : Nat, row : Nat, dirty : BOOLEAN]
Paint  == [slot : Slots \union {Repl}, nth : Nat, char : Inks \union {Blank}]

TypeOK ==
  /\ window \in [Slots -> Window]
  /\ \A s \in Slots : window[s].col < window[s].cols /\ window[s].row < window[s].rows
  /\ cells_ \in [Slots -> [Cells -> Inks \union {Blank}]]
  /\ focused_ \in Slots \union {Repl}
  /\ screen \in [Screen -> Paint]
  /\ opened \in [Slots -> Nat] /\ held \subseteq Slots \X Nat
  /\ text \in [Slots -> Seq(Chars)]

\* The rows that text takes in a window of n columns, the last one still open.
RowsOf(t, n) ==
  LET rows[i \in 0 .. Len(t)] ==
        IF i = 0 THEN << << >> >>
        ELSE LET r == rows[i - 1]
                 last == r[Len(r)]
             IN IF t[i] = Newline THEN Append(r, << >>)
                ELSE LET full == SubSeq(r, 1, Len(r) - 1) \o << Append(last, t[i]) >>
                     IN IF Len(last) + 1 = n THEN Append(full, << >>) ELSE full
  IN rows[Len(t)]

\* writeChar, newline, scrollUp, moveTo: a window holds the end of what was written to
\* it since it was cleared or resized, as many rows of it as it has.
ShowsEnd ==
  \A s \in Slots : Used(s) =>
    LET w == window[s]
        r == RowsOf(text[s], w.cols)
        top == IF Len(r) > w.rows THEN Len(r) - w.rows ELSE 0
        Expected(c) == LET n == top + c[2] + 1 IN
                       IF n <= Len(r) /\ c[1] + 1 <= Len(r[n]) THEN r[n][c[1] + 1] ELSE Blank
    IN \A c \in Cells : c[1] < w.cols /\ c[2] < w.rows => cells_[s][c] = Expected(c)

\* clearScreenRect, dirty_: the screen never shows the text of a window that is closed
\* or was elsewhere, and none that has changed unless the window is still to be painted.
NoGhosts ==
  \A p \in Screen : LET q == screen[p] IN
    q.slot # Repl =>
      /\ Used(q.slot) /\ q.nth = opened[q.slot]
      /\ p \in Rect(window[q.slot])
      /\ window[q.slot].dirty
         \/ q.char = cells_[q.slot][CellAt(window[q.slot], p)]

\* WindowManager::close, focus: the focus is on a window that is open, or on the REPL.
FocusOpen == focused_ # Repl => Used(focused_)

\* The inductive invariant.
IInv == TypeOK /\ NoGhosts /\ FocusOpen

\* A stream to a closed window is refused ("invalid window") or ignored.
StaleStreamInert ==
  [][\A h \in held : h[2] < opened[h[1]] =>
       ~ \E c \in Chars : WriteChar(h, c)]_vars

\* fn_makewindow: every window that is open was given to the program.
NoLostWindow == \A s \in Slots : Used(s) => <<s, opened[s]>> \in held

\* A window that needs no painting is whole, but for the windows over it.
Whole ==
  \A s \in Slots : Used(s) /\ ~window[s].dirty =>
    \A p \in Rect(window[s]) : screen[p].slot # Repl
=============================================================================
