----------------------------- MODULE ReplWindow -----------------------------
(***************************************************************************)
(* The read-eval-print window: the transcript ring and the edit line       *)
(* (ui/repl_window.cpp), gserial that turns keys into characters           *)
(* (ulisp_reader.cpp), testescape, and the loop of repl (ulisp_entry.cpp). *)
(*                                                                         *)
(* What is read and evaluated is left open: a form may be complete, or     *)
(* wrong, after any character; a program prints, reads and ends at will.   *)
(* Characters are told apart where the code does; colours are left out.    *)
(***************************************************************************)
EXTENDS Integers, Sequences

CONSTANTS
  Rows,             \* ReplBackBufferRows
  Columns,          \* ReplColumns
  TranscriptRows,   \* ReplTranscriptRows
  InputBufferSize,  \* ReplInputBufferSize
  Keys,             \* the keys the user has
  MaxKeys,          \* bound: how often one is pressed
  MaxPrints         \* bound: what programs print

Printable == {"a", ";", "("}

ASSUME SizesAssumption ==
  /\ Rows \in Nat /\ Columns \in Nat \ {0}
  /\ TranscriptRows \in 1 .. Rows /\ InputBufferSize \in Nat \ {0}
  /\ MaxKeys \in Nat /\ MaxPrints \in Nat
ASSUME KeysAssumption ==
  Keys \subseteq Printable \union {"enter", "backspace", "delete", "left", "right",
                                   "up", "down", "esc", "unknown"}

nl    == "newline"
Chars == Printable \union {">", "!", "v", "o", "[", "?", "]"}

VARIABLES
  \* replBack; the current column is the length of the current row
  rows, currentRow, count, viewportStart, followTail,
  out,      \* what the running code is about to append to it
  \* replEdit
  text, cursor, committed, readPos,
  \* the renderer
  uiDirty, drawn,
  \* the interpreter
  keys,     \* what the keyboard holds: keys pressed and not taken
  mode,     \* in gserial: "key", "line"; in the reader: "char"; then "enter", "eval", "draw"
  ch,       \* what gserial has returned
  prompted, \* the reader works for the prompt, not for a program
  comment,  \* nextitem skips a comment
  ESCAPE, NOECHO,
  newline,  \* LastPrint = '\n'
  \* history and bounds
  paper,    \* all rows ever written
  owed,     \* what was entered and not yet returned by gserial
  misread,  \* gserial has returned something else
  ahead,    \* a key has changed the line while it was being returned
  muted,    \* NOECHO has hidden a prompt, and nothing was drawn since
  pressed, printed

ring   == <<rows, currentRow, count, paper>>
view   == <<viewportStart, followTail>>
edit   == <<text, cursor, committed, readPos>>
screen == <<drawn, muted>>
flags  == <<ESCAPE, NOECHO>>
reader == <<ch, prompted, comment>>
due    == <<owed, misread, ahead>>
bounds == <<pressed, printed>>
vars   == <<ring, view, out, edit, uiDirty, screen, keys, mode, reader, flags, newline,
            due, bounds>>

-----------------------------------------------------------------------------
(* The transcript.                                                         *)

FirstRow == IF count < Rows THEN 0 ELSE (currentRow + 1) % Rows
PhysicalForLogical(l) == (FirstRow + l) % Rows

Tail_(n) == IF n <= TranscriptRows THEN 0 ELSE n - TranscriptRows

\* The next row is cleared; and a ring that forgets to.
Cleared_Not(next) == UNCHANGED rows
Cleared(next) == rows' = [rows EXCEPT ![next] = << >>]

Put(c) == rows' = [rows EXCEPT ![currentRow] = Append(@, c)]

\* A character that leaves room in its row, one that fills it, and a newline.
Advance ==
  /\ currentRow' = (currentRow + 1) % Rows
  /\ count' = IF count < Rows THEN count + 1 ELSE count
Wraps(c) == c # nl /\ Len(rows[currentRow]) + 1 >= Columns

Written(c) == IF c = nl THEN paper ELSE [paper EXCEPT ![Len(paper)] = Append(@, c)]

BackBufferAppend ==
  /\ out # << >> /\ out' = Tail(out)
  /\ LET c == Head(out)
         next == (currentRow + 1) % Rows
     IN \/ /\ c # nl /\ ~Wraps(c)
           /\ Put(c) /\ paper' = Written(c)
           /\ UNCHANGED <<currentRow, count>>
        \/ /\ c # nl /\ Wraps(c)
           /\ rows' = [rows EXCEPT ![currentRow] = Append(@, c), ![next] = << >>]
           /\ Advance /\ paper' = Append(Written(c), << >>)
        \/ /\ c = nl
           /\ Cleared(next)
           /\ Advance /\ paper' = Append(paper, << >>)
  /\ viewportStart' = IF followTail THEN Tail_(count') ELSE viewportStart
  /\ uiDirty' = TRUE
  /\ UNCHANGED <<followTail, edit, screen, keys, mode, reader, flags, newline, due, bounds>>

-----------------------------------------------------------------------------
(* The edit line.                                                          *)

Insert(c) ==
  /\ IF Len(text) >= InputBufferSize - 1 THEN UNCHANGED <<text, cursor>>
     ELSE /\ text' = SubSeq(text, 1, cursor) \o <<c>> \o SubSeq(text, cursor + 1, Len(text))
          /\ cursor' = cursor + 1

Without(n) == SubSeq(text, 1, n - 1) \o SubSeq(text, n + 1, Len(text))

Backspace ==
  IF cursor = 0 THEN UNCHANGED <<text, cursor>>
  ELSE text' = Without(cursor) /\ cursor' = cursor - 1

\* What is at the cursor, if anything.
Delete ==
  /\ text' = IF cursor >= Len(text) THEN text ELSE Without(cursor + 1)
  /\ UNCHANGED cursor

Move(n) ==
  /\ cursor' = IF cursor + n \in 0 .. Len(text) THEN cursor + n ELSE cursor
  /\ UNCHANGED text

\* What the renderer composes.
View ==
  [transcript |-> [r \in 0 .. TranscriptRows - 1 |->
                     IF viewportStart + r >= count THEN << >>
                     ELSE rows[PhysicalForLogical(viewportStart + r)]],
   status |-> <<count, viewportStart, cursor, Len(text)>>,
   input  |-> text]

RenderIfDirty ==
  IF uiDirty THEN drawn' = View /\ uiDirty' = FALSE /\ muted' = FALSE
  ELSE UNCHANGED <<uiDirty, screen>>

-----------------------------------------------------------------------------
(* gserial.                                                                *)

\* The user, at any time (what the running code is about to append commutes with it).
Press(k) ==
  /\ out = << >> /\ pressed < MaxKeys
  /\ keys' = Append(keys, k) /\ pressed' = pressed + 1
  /\ UNCHANGED <<ring, view, out, edit, uiDirty, screen, mode, reader, flags, newline, due,
                 printed>>

Reading == mode = "key" /\ out = << >>

\* The top of the loop: ReplProcessKey, for each kind of key.
Take(k) ==
  /\ Reading /\ keys # << >> /\ Head(keys) = k
  /\ keys' = Tail(keys) /\ mode' = "line"
  /\ UNCHANGED <<ring, screen, reader, NOECHO, newline, misread, bounds>>

Changes(S) == ahead' = (ahead \/ (committed /\ S))

KeyEsc ==
  /\ Take("esc") /\ ESCAPE' = TRUE
  /\ UNCHANGED <<view, out, edit, uiDirty, owed, ahead>>

\* ReplEditCommit; the characters appended make the window dirty.
KeyEnter ==
  /\ Take("enter")
  /\ out' = Append(text, nl)
  /\ committed' = TRUE /\ readPos' = 0
  /\ owed' = owed \o text \o <<nl>> /\ Changes(TRUE)
  /\ UNCHANGED <<view, text, cursor, uiDirty, ESCAPE>>

\* An edited line is drawn again; and one that waits for other changes.
Edited_Later == UNCHANGED uiDirty
Edited == uiDirty' = TRUE

KeyEdit ==
  /\ \/ Take("backspace") /\ Backspace
     \/ Take("delete")    /\ Delete
     \/ Take("left")      /\ Move(-1)
     \/ Take("right")     /\ Move(1)
     \/ \E c \in Printable : Take(c) /\ Insert(c)
  /\ Edited /\ Changes(text' # text)
  /\ UNCHANGED <<view, out, committed, readPos, ESCAPE, owed>>

\* Scrolled back, the window stays where it is.
Scrolled == followTail' = FALSE

KeyUp ==
  /\ Take("up")
  /\ IF viewportStart > 0 THEN viewportStart' = viewportStart - 1 /\ Scrolled
     ELSE UNCHANGED view
  /\ uiDirty' = TRUE
  /\ UNCHANGED <<out, edit, ESCAPE, owed, ahead>>

\* The test that there is more below.
MoreBelow == viewportStart + TranscriptRows < count

KeyDown ==
  /\ Take("down")
  /\ IF MoreBelow THEN viewportStart' = viewportStart + 1 /\ UNCHANGED followTail
     ELSE viewportStart' = Tail_(count) /\ followTail' = TRUE
  /\ uiDirty' = TRUE
  /\ UNCHANGED <<out, edit, ESCAPE, owed, ahead>>

KeyUnknown ==
  /\ Take("unknown")
  /\ out' = <<"[", "?", "]">> /\ uiDirty' = TRUE
  /\ UNCHANGED <<view, edit, ESCAPE, owed, ahead>>

\* There is no key: gserial loops until there is.
NoKey ==
  /\ Reading /\ keys = << >>
  /\ mode' = "line"
  /\ UNCHANGED <<ring, view, out, edit, uiDirty, screen, keys, reader, flags, newline, due,
                 bounds>>

Return(c) ==
  /\ mode' = "char" /\ ch' = c
  /\ misread' = (misread \/ owed = << >> \/ Head(owed) # c)
  /\ owed' = IF owed = << >> THEN owed ELSE Tail(owed)

\* ReplEditReset.
Reset ==
  /\ text' = << >> /\ cursor' = 0 /\ committed' = FALSE /\ readPos' = 0

\* There are characters of the line left; and a test that drops the last.
More_Short == readPos + 1 < Len(text)
More == readPos < Len(text)

\* The rest of the loop: the next character of the line, its end, or no line.
Line ==
  /\ mode = "line" /\ out = << >>
  /\ \/ /\ committed /\ More
        /\ Return(text[readPos + 1]) /\ readPos' = readPos + 1
        /\ UNCHANGED <<text, cursor, committed, uiDirty, screen>>
     \/ /\ committed /\ ~More
        /\ Return(nl) /\ Reset
        /\ UNCHANGED <<uiDirty, screen>>
     \/ /\ ~committed
        /\ RenderIfDirty /\ mode' = "key"
        /\ UNCHANGED <<edit, ch, owed, misread>>
  /\ UNCHANGED <<ring, view, out, keys, prompted, comment, flags, newline, ahead, bounds>>

\* gserial has waited for a second.
ClearNoEcho ==
  /\ Reading /\ ~committed /\ NOECHO
  /\ NOECHO' = FALSE
  /\ UNCHANGED <<ring, view, out, edit, uiDirty, screen, keys, mode, reader, ESCAPE, newline,
                 due, bounds>>

gserial ==
  \/ KeyEsc \/ KeyEnter \/ KeyEdit \/ KeyUp \/ KeyDown \/ KeyUnknown \/ NoKey \/ Line

-----------------------------------------------------------------------------
(* The reader and the loop of repl.                                        *)

\* pserial of each character of s.
Shown(s) == IF NOECHO THEN << >> ELSE s
pserial(s) == out' = Shown(s) /\ newline' = (s[Len(s)] = nl)
pfl == IF newline THEN << >> ELSE <<nl>>

Prompt == <<">">>
ToPrompt(s) ==
  /\ pserial(s \o Prompt)
  /\ mode' = "key" /\ prompted' = TRUE /\ comment' = FALSE
  /\ muted' = (muted \/ NOECHO)

\* error2: the message, then longjmp to loop and repl.
Abort == ToPrompt(pfl \o <<"!", nl>>) /\ UNCHANGED <<uiDirty, drawn>>

\* The interpreter's own steps leave the window to what they print.
Still == /\ out = << >>
         /\ UNCHANGED <<ring, view, edit, owed, misread, ahead, pressed>>

\* nextitem takes a character: it skips it, starts a comment at it, goes on after
\* it, has a whole form, or has an error.
SkipComment ==
  /\ mode = "char" /\ comment /\ Still
  /\ comment' = (ch # "(")
  /\ NOECHO' = (NOECHO \/ ch \in {";", "("})
  /\ mode' = "key"
  /\ UNCHANGED <<out, uiDirty, screen, keys, ch, prompted, ESCAPE, newline, printed>>

ReadOn ==
  /\ mode = "char" /\ ~comment /\ Still
  /\ comment' \in {FALSE, ch = ";"}
  /\ mode' = "key"
  /\ UNCHANGED <<out, uiDirty, screen, keys, ch, prompted, flags, newline, printed>>

ReadDone ==
  /\ mode = "char" /\ ~comment /\ Still
  /\ IF prompted /\ ~newline THEN pserial(<<nl>>) ELSE UNCHANGED <<out, newline>>
  /\ mode' = IF prompted THEN "enter" ELSE "eval"
  /\ UNCHANGED <<uiDirty, screen, keys, reader, flags, printed>>

ReadError ==
  /\ mode = "char" /\ ~comment /\ Still
  /\ Abort
  /\ UNCHANGED <<keys, ch, flags, printed>>

\* The entry of eval looks at the flag.
EnterEval ==
  /\ mode = "enter" /\ Still
  /\ ESCAPE' = FALSE
  /\ IF ESCAPE THEN Abort
     ELSE mode' = "eval" /\ UNCHANGED <<out, uiDirty, screen, newline, prompted, comment>>
  /\ UNCHANGED <<keys, ch, NOECHO, printed>>

\* The program calls eval again: it matters if a key has set the flag meanwhile.
EvalAgain ==
  /\ mode = "eval" /\ ESCAPE /\ Still
  /\ mode' = "enter"
  /\ UNCHANGED <<out, uiDirty, screen, keys, reader, flags, newline, printed>>

\* testescape takes the key it looks at; and one that puts others back.
Taken_Esc == keys' = IF Head(keys) = "esc" THEN Tail(keys) ELSE keys
Taken == keys' = Tail(keys)

\* Every half second of a running program.
testescape ==
  /\ mode = "eval" /\ keys # << >> /\ Still
  /\ Taken
  /\ IF Head(keys) = "esc" THEN Abort
     ELSE UNCHANGED <<out, uiDirty, screen, newline, mode, prompted, comment>>
  /\ UNCHANGED <<ch, flags, printed>>

\* The program prints a character, or reads.
Output(c) ==
  /\ mode = "eval" /\ printed < MaxPrints /\ Still
  /\ printed' = printed + 1
  /\ pserial(<<c>>)
  /\ UNCHANGED <<uiDirty, screen, keys, mode, reader, flags>>

Read ==
  /\ mode = "eval" /\ Still
  /\ mode' = "key" /\ prompted' = FALSE
  /\ UNCHANGED <<out, uiDirty, screen, keys, ch, comment, flags, newline, printed>>

\* The value is printed and drawn, then the prompt.
Finish ==
  /\ mode = "eval" /\ Still
  /\ pserial(pfl \o <<"v", nl>>) /\ mode' = "draw"
  /\ UNCHANGED <<uiDirty, screen, keys, reader, flags, printed>>

Draw ==
  /\ mode = "draw" /\ Still
  /\ IF uiDirty THEN drawn' = View /\ uiDirty' = FALSE ELSE UNCHANGED <<uiDirty, drawn>>
  /\ ToPrompt(<< >>)
  /\ UNCHANGED <<keys, ch, flags, printed>>

\* The first prompt, after setup has initialised the window.
Init ==
  /\ rows = [r \in 0 .. Rows - 1 |-> << >>] /\ currentRow = 0 /\ count = 1
  /\ viewportStart = 0 /\ followTail = TRUE
  /\ out = Prompt /\ paper = << << >> >>
  /\ text = << >> /\ cursor = 0 /\ committed = FALSE /\ readPos = 0
  /\ uiDirty = TRUE /\ drawn = View
  /\ keys = << >> /\ mode = "key" /\ ch = nl /\ prompted = TRUE /\ comment = FALSE
  /\ ESCAPE = FALSE /\ NOECHO = FALSE /\ newline = FALSE
  /\ owed = << >> /\ misread = FALSE /\ ahead = FALSE /\ muted = FALSE
  /\ pressed = 0 /\ printed = 0

Next ==
  \/ \E k \in Keys : Press(k)
  \/ BackBufferAppend \/ gserial \/ ClearNoEcho
  \/ SkipComment \/ ReadOn \/ ReadDone \/ ReadError
  \/ EnterEval \/ EvalAgain \/ testescape \/ Read \/ Finish \/ Draw
  \/ \E c \in {"o", nl} : Output(c)

Spec == Init /\ [][Next]_vars

\* A running program gets to testescape; what is printed is appended.
FairSpec == Spec /\ WF_vars(BackBufferAppend) /\ WF_vars(testescape)

-----------------------------------------------------------------------------
(* Properties.                                                             *)

\* Every index of the window is inside its buffer (all of them are unchecked in C).
TypeOK ==
  /\ rows \in [0 .. Rows - 1 -> Seq(Chars)]
  /\ \A r \in 0 .. Rows - 1 : Len(rows[r]) <= Columns
  /\ currentRow \in 0 .. Rows - 1 /\ count \in 1 .. Rows
  /\ Len(rows[currentRow]) < Columns
  /\ viewportStart \in 0 .. Tail_(count) /\ followTail \in BOOLEAN
  /\ out \in Seq(Chars \union {nl})
  /\ text \in Seq(Printable) /\ Len(text) < InputBufferSize
  /\ cursor \in 0 .. Len(text) /\ committed \in BOOLEAN
  /\ readPos \in 0 .. InputBufferSize - 1
  /\ uiDirty \in BOOLEAN
  /\ keys \in Seq(Keys)
  /\ mode \in {"key", "line", "char", "enter", "eval", "draw"}
  /\ ch \in Printable \union {nl} /\ prompted \in BOOLEAN /\ comment \in BOOLEAN
  /\ ESCAPE \in BOOLEAN /\ NOECHO \in BOOLEAN /\ newline \in BOOLEAN
  /\ misread \in BOOLEAN /\ ahead \in BOOLEAN /\ muted \in BOOLEAN
  /\ pressed \in 0 .. MaxKeys /\ printed \in 0 .. MaxPrints

\* replAdvanceRow, ReplBackBufferAppend, replPhysicalForLogical: row after row from
\* the first, the ring holds the last rows of all that was written.
RingHolds ==
  /\ count <= Len(paper)
  /\ \A l \in 0 .. count - 1 :
       rows[PhysicalForLogical(l)] = paper[Len(paper) - count + l + 1]

\* ReplProcessKey, replScrollToTail: a window that follows the output shows its last
\* row, however keys and output alternate.
FollowsTail == followTail => viewportStart = Tail_(count)

\* ReplEditCommit, gserial: what the reader gets is what was entered, each line whole
\* and once.
DeliversLines == ~misread

\* That, as long as no key changes a line that is being read.
DeliversUndisturbed == ahead \/ DeliversLines

\* gserial, repl: when nothing is left to draw and gserial waits, the screen shows the
\* view and the line as they are.
InputShown == Reading /\ ~committed /\ ~uiDirty => drawn = View

\* That, unless the prompt was suppressed; and the transcript always.
ScreenCurrent ==
  /\ muted \/ InputShown
  /\ ~uiDirty => drawn.transcript = View.transcript

\* testescape: a program stops after the escape key, whatever was typed before it.
EscapeStops ==
  (mode = "eval" /\ \E n \in DOMAIN keys : keys[n] = "esc") ~> mode # "eval"

\* Of the transcript: the types of its indices, the rows in the ring and the rows
\* that are shown.
TranscriptRight == TypeOK /\ RingHolds /\ FollowsTail

-----------------------------------------------------------------------------
(* The inductive invariant.                                                *)

\* Where the row is that was begun d rows before the current one.
Back(d) == IF d <= currentRow THEN currentRow - d ELSE currentRow - d + Rows

\* Counted from the current row backwards the ring holds the last rows; a ring that is
\* not full has them from its first row on.
RingByAge ==
  /\ count < Rows => currentRow = count - 1
  /\ count <= Len(paper)
  /\ \A d \in 0 .. count - 1 : rows[Back(d)] = paper[Len(paper) - d]

\* What is owed is the rest of the line, and its newline.
OwedIsLine ==
  \/ ahead
  \/ /\ ~misread
     /\ IF committed
        THEN /\ readPos <= Len(text) /\ Len(owed) = Len(text) - readPos + 1
             /\ owed[Len(owed)] = nl
             /\ \A i \in 1 .. Len(text) - readPos : owed[i] = text[readPos + i]
        ELSE owed = << >>

\* The window is dirty when it differs from what was drawn; a line that was entered is
\* not taken from it before something makes it dirty.
DrawnSound ==
  /\ ~uiDirty => drawn.transcript = View.transcript
  /\ ~uiDirty /\ ~muted => drawn = View
  /\ committed => uiDirty \/ muted \/ out # << >>

Recorded == paper \in Seq(Seq(Chars)) /\ owed \in Seq(Printable \union {nl})

IInv == TypeOK /\ Recorded /\ RingByAge /\ FollowsTail /\ OwedIsLine /\ DrawnSound
=============================================================================
