-------------------------------- MODULE Pins --------------------------------
(***************************************************************************)
(* Pins, the tone and the waiting (ulisp_arduino.cpp, ulisp_platform.cpp).   *)
(* A pin and a mode may be given by a number or by a keyword, which has a     *)
(* number of its own; millis is a counter that wraps, and delay compares      *)
(* differences of it.  The chip behind the calls is external.                *)
(***************************************************************************)
EXTENDS Integers

CONSTANTS
  Pin,
  Analog,       \* 26 .. 29
  Pwm,          \* the pins that analogWrite takes, 0 .. 29 and 32
  Low,          \* HIGH is another
  High,
  INPUT, OUTPUT, INPUT_PULLUP, INPUT_PULLDOWN,
  Modulus,      \* 2^32 of millis
  Longest,      \* the longest delay asked for, and
  MaxPoll,      \* the most ticks between two looks at millis (bounds of the model)
  Note,         \* the numbers of notes and octaves given to note
  Thousand,     \* milliseconds in a second, and
  Seconds,      \* what is given to sleep
  Bits,         \* resolutions of analog pins
  Register, Bit \* addresses of the processor's registers, and what they may hold

PinsAssumption ==
  /\ {Modulus, Longest, MaxPoll} \subseteq Nat \ {0} /\ Longest + MaxPoll < Modulus
  /\ Analog \subseteq Pin /\ {Note, Seconds} \subseteq SUBSET Int /\ Thousand \in Nat \ {0}

VARIABLES
  using,    \* which of the four a behaviour is of; they share nothing
  chip,     \* the resolutions to read and to write with, and the registers
  pins,     \* each pin's mode and level, and the argument that was written to it
  said,     \* what the last call answered or refused
  tone,     \* octave and place in the scale of what sounds
  asked,    \* and the note that was asked for: both Silence when none is
  millis,
  delaying, \* [start, total, ticks: how long it has been]
  waited    \* the last delay that was over: how long it was to be, and was

vars == <<using, chip, pins, said, tone, asked, millis, delaying, waited>>

Silence == [octave |-> 0, place |-> -1]
NoDelay == [start |-> 0, total |-> -1, ticks |-> 0]
Of(part) == using = part /\ delaying = NoDelay /\ UNCHANGED using

Init ==
  /\ using \in {"pins", "chip", "tone", "delay"}
  /\ chip = [read |-> 10, write |-> 8, words |-> [r \in Register |-> 0]]
  /\ pins = [p \in Pin |-> [mode |-> INPUT, level |-> Low,
                       arg |-> [kind |-> "other", value |-> 0]]]
  /\ said = [text |-> "nothing", number |-> 0] /\ tone = Silence /\ asked = Silence
  /\ millis \in (IF using = "delay" THEN 0 .. Modulus - 1 ELSE {0})
  /\ delaying = NoDelay /\ waited = NoDelay

-----------------------------------------------------------------------------
(* Pins.                                                                   *)

Response(text, n) == [text |-> text, number |-> n]
Says(answer) == said' = answer /\ UNCHANGED <<tone, asked, millis, delaying, waited>>
Said(text) == Says(Response(text, 0))
SaidNumber(n) == Says(Response("a number", n))

\* The second argument: a keyword's number, a number, or anything.
ModeArgument == {[kind |-> "keyword", value |-> mode] :
                   mode \in {INPUT, OUTPUT, INPUT_PULLUP, INPUT_PULLDOWN}}
  \union {[kind |-> "number", value |-> n] : n \in 0 .. 4}
  \union {[kind |-> "other", value |-> n] : n \in {0, 1}}

PinMode(arg) ==
  IF arg.kind = "keyword" THEN arg.value
  ELSE IF arg.kind = "number"
    THEN IF arg.value = 1 THEN OUTPUT ELSE IF arg.value = 2 THEN INPUT_PULLUP
         ELSE IF arg.value = 4 THEN INPUT_PULLDOWN ELSE INPUT
  ELSE IF arg.value = 1 THEN OUTPUT ELSE INPUT   \* of others, nil is 0

fn_pinmode ==
  /\ Of("pins")
  /\ \E p \in Pin, arg \in ModeArgument : pins' = [pins EXCEPT ![p].mode = PinMode(arg)]
  /\ Said("nil") /\ UNCHANGED chip

Level(arg) == IF arg.kind = "keyword" THEN arg.value
              ELSE IF arg.value = 0 THEN Low ELSE High

LevelArgument == {[kind |-> "keyword", value |-> level] : level \in {Low, High}}
  \union [kind : {"number", "other"}, value : {0, 1}]

fn_digitalwrite ==
  /\ Of("pins")
  /\ \E p \in Pin, arg \in LevelArgument : 
       pins' = [pins EXCEPT ![p].level = Level(arg), ![p].arg = arg]
  /\ Said("its argument") /\ UNCHANGED chip

fn_digitalread ==
  /\ Of("pins")
  /\ \E p \in Pin : Said(IF pins[p].level # Low THEN "t" ELSE "nil")
  /\ UNCHANGED <<chip, pins>>

checkanalogread(pin) == pin \in Analog
checkanalogwrite(pin) == pin \in Pwm

\* A pin given by a keyword is not looked at.
fn_analogread ==
  /\ Of("pins")
  /\ \E p \in Pin, keyword \in BOOLEAN :
       Said(IF keyword \/ checkanalogread(p) THEN "a number" ELSE "invalid pin")
  /\ UNCHANGED <<chip, pins>>

fn_analogwrite ==
  /\ Of("pins")
  /\ \E p \in Pin : Said(IF checkanalogwrite(p) THEN "its argument" ELSE "invalid pin")
  /\ UNCHANGED <<chip, pins>>

\* This board has no analogReference; how many bits are meant is the library's affair.
fn_analogreference == Of("pins") /\ Said("not supported") /\ UNCHANGED <<chip, pins>>

fn_analogreadresolution ==
  /\ Of("chip")
  /\ \E n \in Bits : chip' = [chip EXCEPT !.read = n]
  /\ Said("its argument") /\ UNCHANGED pins

fn_analogwriteresolution ==
  /\ Of("chip")
  /\ \E n \in Bits : chip' = [chip EXCEPT !.write = n]
  /\ Said("its argument") /\ UNCHANGED pins

\* A word at an address, whatever is there: it is read, or another is written.
fn_register ==
  /\ Of("chip")
  /\ \E r \in Register :
       \/ chip' = chip /\ SaidNumber(chip.words[r])
       \/ \E b \in Bit : chip' = [chip EXCEPT !.words[r] = b] /\ SaidNumber(b)
  /\ UNCHANGED pins

-----------------------------------------------------------------------------
(* The tone: an entry of the scale, some octaves down.  note/12 and note%12 *)
(* are those of C, towards zero.                                            *)

Quotient(n) == IF n >= 0 THEN n \div 12 ELSE -((-n) \div 12)
Remainder(n) == n - 12 * Quotient(n)

\* Mutant: the octave a note is in is not added to the one given.
playnote_Given(note, octave) ==
  LET prescaler == 8 - octave
  IN IF prescaler < 0 \/ prescaler > 8
     THEN said' = Response("octave out of range", 0) /\ UNCHANGED <<tone, asked>>
     ELSE /\ tone' = [octave |-> 8 - prescaler, place |-> Remainder(note)]
          /\ asked' = [octave |-> octave + (note \div 12), place |-> note % 12]
          /\ said' = Response("nil", 0)

playnote(note, octave) ==
  LET prescaler == 8 - (octave + Quotient(note))
  IN IF prescaler < 0 \/ prescaler > 8
     THEN said' = Response("octave out of range", 0) /\ UNCHANGED <<tone, asked>>
     ELSE /\ tone' = [octave |-> 8 - prescaler, place |-> Remainder(note)]
          /\ asked' = [octave |-> octave + (note \div 12), place |-> note % 12]
          /\ said' = Response("nil", 0)

nonote == tone' = Silence /\ asked' = Silence /\ said' = Response("nil", 0)

fn_note ==
  /\ Of("tone")
  /\ (\E note, octave \in Note : playnote(note, octave)) \/ nonote
  /\ UNCHANGED <<chip, pins, millis, delaying, waited>>

-----------------------------------------------------------------------------
(* Waiting.                                                                *)

Elapsed == (millis - delaying.start + Modulus) % Modulus

fn_delay ==
  /\ Of("delay")
  /\ \E total \in 0 .. Longest :
       delaying' = [start |-> millis, total |-> total, ticks |-> 0]
  /\ waited' = NoDelay
  /\ UNCHANGED <<chip, pins, said, tone, asked, millis>>

\* Mutant: what is compared is the time at which it is to end.
Over_End == millis >= (delaying.start + delaying.total) % Modulus

Over == Elapsed >= delaying.total

\* The escape is looked for between two looks at millis; it ends the delay too.
Poll ==
  /\ delaying # NoDelay /\ ~Over
  /\ \E ticks \in 1 .. MaxPoll :
       /\ millis' = (millis + ticks) % Modulus
       /\ delaying' = [delaying EXCEPT !.ticks = @ + ticks]
  /\ UNCHANGED <<using, chip, pins, said, tone, asked, waited>>

DelayEnds ==
  /\ delaying # NoDelay /\ Over
  /\ waited' = delaying /\ delaying' = NoDelay
  /\ UNCHANGED <<using, chip, pins, said, tone, asked, millis>>

\* int: 1000 * secs.
doze(secs) == (Thousand * secs) % Modulus

\* The library waits: no escape ends it, and what it waits is no int of seconds.
fn_sleep ==
  /\ Of("delay")
  /\ \E secs \in Seconds :
       /\ millis' = (millis + doze(secs)) % Modulus
       /\ waited' = [start |-> millis, total |-> Thousand * secs, ticks |-> doze(secs)]
  /\ UNCHANGED <<chip, pins, said, tone, asked, delaying>>

\* An int of the counter: it is negative in the second half of its range.
fn_millis ==
  /\ Of("delay")
  /\ SaidNumber(IF millis >= Modulus \div 2 THEN millis - Modulus ELSE millis)
  /\ UNCHANGED <<chip, pins>>

Next ==
  \/ fn_pinmode \/ fn_digitalwrite \/ fn_digitalread \/ fn_analogread \/ fn_analogwrite
  \/ fn_analogreference \/ fn_analogreadresolution \/ fn_analogwriteresolution \/ fn_register
  \/ fn_sleep \/ fn_millis \/ fn_note \/ fn_delay \/ Poll \/ DelayEnds

Spec == Init /\ [][Next]_vars

-----------------------------------------------------------------------------
(* Properties.                                                             *)

\* A delay lasts as long as was asked for, and not longer than until the next look,
\* wherever the counter wraps; a sleep also, when it is not longer than the counter.
DelayLasts ==
  waited # NoDelay /\ waited.total \in 0 .. Modulus - 1 =>
    waited.ticks >= waited.total /\ waited.ticks < waited.total + MaxPoll

\* Without that it is not so: 50 days of sleep are less than one.
SleepsAsAsked == waited # NoDelay => waited.ticks >= waited.total

\* The time is no negative number.  It is, from the 25th day on.
MillisIsNatural == using = "delay" => said.number >= 0

\* What sounds is the note that was asked for, an octave up for every twelve, when
\* its number is not negative.
SoundsAsAsked == tone.place >= 0 => tone = asked

\* The scale is read inside itself.  It does not hold of a negative note.
InsideScale == tone # Silence => tone.place \in 0 .. 11

\* A pin is high after t, :high or any number but 0, and after nothing else.
WritesAsMeant ==
  \A p \in Pin :
    (pins[p].level = High) <=>
      IF pins[p].arg.kind = "keyword" THEN pins[p].arg.value = High
      ELSE pins[p].arg.value # 0

PinsServe == DelayLasts /\ SoundsAsAsked /\ WritesAsMeant
=============================================================================
