------------------------------ MODULE Graphics ------------------------------
(***************************************************************************)
(* The drawing builtins (ulisp_gfx.cpp), the keys of get-key and the saving  *)
(* of the screen (ulisp_picocalc.cpp).  Coordinates pass through unsigned    *)
(* words of 16 bits on their way to the display.  The display is external:   *)
(* of the shapes only those with straight sides are drawn, the others are    *)
(* known by what it is told.                                                 *)
(***************************************************************************)
EXTENDS Integers, Sequences, SequencesExt

CONSTANTS
  Width, Height,    \* 320 by 320
  Coordinate,       \* the numbers given as coordinates and sizes
  Colour,           \* of 16 bits, 5 red, 6 green and 5 blue
  COLOR_BLACK, COLOR_WHITE,
  Key,              \* the keyboard's codes
  Modifier,         \* those get-key passes over
  MaxDrawn, MaxKeys \* bounds: drawings, and keys that wait

GraphicsAssumption ==
  /\ {Width, Height} \subseteq Nat \ {0} /\ Coordinate \subseteq Int
  /\ Colour \subseteq 0 .. 65535 /\ {COLOR_BLACK, COLOR_WHITE} \subseteq Colour
  /\ Modifier \subseteq Key

VARIABLES
  using,     \* "draw", "text" or "keys": which a behaviour is of
  screen,    \* the colour of each pixel
  meant,     \* the screen the program asked for, its coordinates taken as they are
  drawn,     \* how often was drawn
  negative,  \* whether a shape had a negative coordinate
  told,      \* of the last shape that is not drawn here, what the display was told
  text,      \* the display's settings for text, rotation and inversion
  file,      \* the bytes of the saved screen
  keys,      \* the keyboard's events: [key, press]
  pressed,   \* of those, what get-key should answer, in order
  answered   \* and what it has answered

vars == <<using, screen, meant, drawn, negative, told, text, file, keys, pressed, answered>>

Pixels == (0 .. Width - 1) \X (0 .. Height - 1)
TwoBytes == 65536
Blank == [p \in Pixels |-> COLOR_BLACK]

Init ==
  /\ using \in {"draw", "text", "keys"} /\ negative = FALSE /\ told = << >>
  /\ screen = Blank /\ meant = Blank /\ drawn = 0 /\ file = << >>
  /\ text = [cursor |-> <<0, 0>>, colour |-> <<COLOR_WHITE, COLOR_WHITE>>, size |-> 1,
             wrap |-> TRUE, rotation |-> 0, inverted |-> FALSE]
  /\ keys = << >> /\ pressed = << >> /\ answered = << >>

-----------------------------------------------------------------------------
(* Drawing.                                                                *)

\* The display draws what is inside of it; a rectangle has a corner and a size.
Rect(x, y, w, h) == {p \in Pixels : p[1] \in x .. x + w - 1 /\ p[2] \in y .. y + h - 1}
Frame(x, y, w, h) ==
  Rect(x, y, w, h) \ (IF w > 2 /\ h > 2 THEN Rect(x + 1, y + 1, w - 2, h - 2) ELSE {})
Painted(on, shape, colour) == [p \in Pixels |-> IF p \in shape THEN colour ELSE on[p]]

\* The colour may be left out.
Given(colour, default) == IF colour = << >> THEN default ELSE colour[1]
OptionalColour == {<< >>} \union {<<c>> : c \in Colour}

Draws(shape, asked, colour) ==
  /\ using = "draw" /\ drawn < MaxDrawn /\ drawn' = drawn + 1
  /\ screen' = Painted(screen, shape, colour) /\ meant' = Painted(meant, asked, colour)
  /\ file' = << >> /\ told' = << >>
  /\ UNCHANGED <<using, text, keys, pressed, answered>>

fn_drawpixel ==
  \E x, y \in Coordinate, colour \in OptionalColour :
    LET pixel == Rect(x, y, 1, 1)
    IN Draws(pixel, pixel, Given(colour, COLOR_WHITE)) /\ UNCHANGED negative

\* Mutant: a word has one bit.
params_Bit(n) == n % 2

\* What the display is told of a number.
params(n) == n % TwoBytes

Shape(x, y) == negative' = (negative \/ x < 0 \/ y < 0)

fn_drawrect ==
  \E x, y, w, h \in Coordinate, colour \in OptionalColour :
    /\ w > 0 /\ h > 0
    /\ Draws(Frame(params(x), params(y), params(w), params(h)), Frame(x, y, w, h),
             Given(colour, COLOR_WHITE))
    /\ Shape(x, y)

fn_fillrect ==
  \E x, y, w, h \in Coordinate, colour \in OptionalColour :
    /\ w > 0 /\ h > 0
    /\ Draws(Rect(params(x), params(y), params(w), params(h)), Rect(x, y, w, h),
             Given(colour, COLOR_WHITE))
    /\ Shape(x, y)

fn_fillscreen ==
  \E colour \in OptionalColour : Draws(Pixels, Pixels, Given(colour, COLOR_BLACK)) /\ UNCHANGED negative

\* The others, with as many numbers before the colour (on an empty screen: a bound).
Numbers == [drawline |-> 4, drawcircle |-> 3, fillcircle |-> 3, drawroundrect |-> 5,
            fillroundrect |-> 5, drawtriangle |-> 6, filltriangle |-> 6]

OtherShapes ==
  /\ using = "draw" /\ drawn = 0
  /\ \E shape \in DOMAIN Numbers, n \in Coordinate, colour \in OptionalColour :
       told' = <<[shape |-> shape, params |-> [i \in 1 .. Numbers[shape] |-> params(n)],
                  colours |-> <<Given(colour, COLOR_WHITE)>>]>>
  /\ UNCHANGED <<using, screen, meant, drawn, negative, text, file, keys, pressed, answered>>

\* The colours and the size may be left out from the end.
fn_drawchar ==
  /\ using = "draw" /\ drawn = 0
  /\ \E x, y \in Coordinate, colour, background \in OptionalColour, size \in {1, 2} :
       /\ (background # << >> \/ size # 1) => colour # << >>
       /\ size # 1 => background # << >>
       /\ told' = <<[shape |-> "drawchar", params |-> <<x, y, size>>,
                     colours |-> <<Given(colour, COLOR_WHITE), Given(background, COLOR_BLACK)>>]>>
  /\ UNCHANGED <<using, screen, meant, drawn, negative, text, file, keys, pressed, answered>>

-----------------------------------------------------------------------------
(* Settings of the display.                                                *)

Set(setting, value) ==
  /\ using = "text" /\ text' = [text EXCEPT ![setting] = value]
  /\ UNCHANGED <<using, screen, meant, drawn, negative, told, file, keys, pressed, answered>>

fn_setcursor == \E x, y \in Coordinate : Set("cursor", <<x, y>>)

\* One colour is that of the background too: the display then draws none.
fn_settextcolor ==
  \E colour \in Colour, background \in OptionalColour :
    Set("colour", <<colour, Given(background, colour)>>)

fn_settextsize == \E size \in {1, 2} : Set("size", size)
fn_settextwrap == \E wrap \in BOOLEAN : Set("wrap", wrap)
fn_setrotation == \E rotation \in 0 .. 3 : Set("rotation", rotation)
fn_invertdisplay == \E inverted \in BOOLEAN : Set("inverted", inverted)

-----------------------------------------------------------------------------
(* Saving the screen: a header of 54 bytes and the rows from the last to    *)
(* the first, two bytes a pixel.                                           *)

writeTwo(word) == <<word % 256, (word \div 256) % 256>>
writeFour(word) == writeTwo(word % TwoBytes) \o writeTwo(word \div TwoBytes)

\* Mutant: all six bits of green are moved.
Pixel555_Green(rgb) == (rgb \div 64) * 32 + (rgb % 64)

\* The lowest bit of green is left out: (rgb & 0xFFC0)>>1 | (rgb & 0x1F).
Pixel555(rgb) == (rgb \div 64) * 32 + (rgb % 32)

savebmp ==
  <<66, 77>> \o writeFour(54 + Width * Height * 2) \o writeFour(0) \o writeFour(54)
  \o writeFour(40) \o writeFour(Width) \o writeFour(Height) \o writeTwo(1) \o writeTwo(16)
  \o FlattenSeq([i \in 1 .. 6 |-> writeFour(0)])
  \o FlattenSeq([i \in 1 .. Width * Height |->
       writeTwo(Pixel555(screen[<<(i - 1) % Width, Height - 1 - ((i - 1) \div Width)>>]))])

fn_savebmp ==
  /\ using = "draw" /\ file' = savebmp /\ told' = << >>
  /\ UNCHANGED <<using, screen, meant, drawn, negative, text, keys, pressed, answered>>

-----------------------------------------------------------------------------
(* Keys.                                                                   *)

KeyEvent ==
  \E key \in Key, press \in BOOLEAN :
    /\ using = "keys" /\ Len(keys) < MaxKeys /\ Len(answered) + Len(pressed) < MaxKeys
    /\ keys' = Append(keys, [key |-> key, press |-> press])
    /\ pressed' = IF press /\ key \notin Modifier THEN Append(pressed, key) ELSE pressed
    /\ UNCHANGED <<using, screen, meant, drawn, negative, told, text, file,
                   answered>>

\* It waits for a press of a key that is none of those it passes over.
getKey ==
  LET good == {i \in DOMAIN keys : keys[i].press /\ keys[i].key \notin Modifier}
      first == CHOOSE i \in good : \A j \in good : i <= j
  IN /\ good # {}
     /\ keys' = SubSeq(keys, first + 1, Len(keys))
     /\ answered' = Append(answered, keys[first].key)
     /\ UNCHANGED <<using, screen, meant, drawn, negative, told, text, file,
                    pressed>>

Next ==
  \/ fn_drawpixel \/ fn_drawrect \/ fn_fillrect \/ fn_fillscreen
  \/ OtherShapes \/ fn_drawchar
  \/ fn_setcursor \/ fn_settextcolor \/ fn_settextsize \/ fn_settextwrap
  \/ fn_setrotation \/ fn_invertdisplay \/ fn_savebmp \/ KeyEvent \/ getKey

Spec == Init /\ [][Next]_vars

-----------------------------------------------------------------------------
(* Properties.                                                             *)

\* What was asked for is on the screen, if no rectangle began left of it or above.
DrawsAsAsked == ~negative => screen = meant

\* A reader of the format: the bytes of the number at an offset, and a pixel, rows
\* being counted from the last.
At(offset) == file[offset + 1] + 256 * file[offset + 2]
Saved(p) == At(At(10) + 2 * (At(18) * (At(22) - 1 - p[2]) + p[1]))

\* The saved screen has the size it says, and of every pixel, at its place, the five
\* upper bits of each colour.
SavedIsShown ==
  file # << >> =>
    /\ At(2) + TwoBytes * At(4) = Len(file)
    /\ \A p \in Pixels :
         LET rgb == screen[p]  saved == Saved(p)
         IN /\ saved \div 1024 = rgb \div 2048
            /\ (saved \div 32) % 32 = (rgb \div 64) % 32
            /\ saved % 32 = rgb % 32

\* get-key answers each key that was pressed, in order, and no other.
AnswersPresses == answered = SubSeq(pressed, 1, Len(answered))

GraphicsServe == DrawsAsAsked /\ SavedIsShown /\ AnswersPresses

\* What lies partly left of the screen is drawn as far as it is inside.  It does not
\* hold: as a word, -1 is far to the right.
ClipsAtTheEdge == screen = meant
=============================================================================
