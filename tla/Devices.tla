------------------------------ MODULE Devices ------------------------------
(***************************************************************************)
(* What a stream reaches.  A stream is a number, its kind and one byte of    *)
(* address, and the tables of ulisp_streams.cpp find the function for it     *)
(* anew at each transfer; the with- forms of ulisp_builtins_control.cpp set  *)
(* up the port beforehand from the same arguments, on their own; and how     *)
(* many ports there are is defined only in the former, so that the latter    *)
(* always set up the first.  And what becomes of the bytes of an I2C form    *)
(* that restart-i2c turns round.  The Wire library, which keeps what is      *)
(* written until the transmission ends and refuses it when none is begun,    *)
(* and the device are external.                                              *)
(***************************************************************************)
EXTENDS Integers, Sequences, TLC

CONSTANTS
  Byte,
  MaxWritten    \* a bound: the bytes written in one form

DevicesAssumption == Byte \subseteq 0 .. 255 /\ MaxWritten \in Nat

VARIABLES
  form,     \* [kind, port: what the form set up, target: pin, address or slot,
            \*  read: the form was opened to read]
  str,      \* the stream of the form, or nil where an I2C device did not answer
  wire,     \* the state of Wire: [begun: a transmission, pending: its bytes, left: to
            \*  read]; Wire1 is never begun
  got,      \* the bytes the device was sent
  meant,    \* the bytes written to the stream
  went      \* where the last transfer went

vars == <<form, str, wire, got, meant, went>>

SERIALSTREAM == 0
I2CSTREAM == 1
SPISTREAM == 2
SDSTREAM == 3
WIFISTREAM == 4
STRINGSTREAM == 5
GFXSTREAM == 6
WINDOWSTREAM == 7
Nil == -1

stream(type, address) == 256 * type + (address % 256)

NoForm == [kind |-> "none", port |-> "none", target |-> 0, read |-> FALSE]
Quiet == [begun |-> FALSE, pending |-> << >>, left |-> 0]

-----------------------------------------------------------------------------
(* The tables: the function for a stream's address.                         *)

pfun_serial(address) ==
  IF address = 1 THEN "Serial1" ELSE IF address = 2 THEN "Serial2" ELSE "console"
pfun_i2c(address) == IF address < 128 THEN "Wire" ELSE "Wire1"
pfun_spi(address) == IF address < 128 THEN "SPI" ELSE "SPI1"
pfun_window(address) ==
  IF address < 4 THEN <<"window 0", "window 1", "window 2", "window 3">>[address + 1]
  ELSE "console"

stream_table ==
  SERIALSTREAM :> [streamname |-> "serial", writes |-> TRUE, reads |-> TRUE] @@
  I2CSTREAM    :> [streamname |-> "i2c",    writes |-> TRUE, reads |-> TRUE] @@
  SPISTREAM    :> [streamname |-> "spi",    writes |-> TRUE, reads |-> TRUE] @@
  SDSTREAM     :> [streamname |-> "sd",     writes |-> TRUE, reads |-> TRUE] @@
  WIFISTREAM   :> [streamname |-> "wifi",   writes |-> FALSE, reads |-> FALSE] @@
  STRINGSTREAM :> [streamname |-> "string", writes |-> TRUE, reads |-> FALSE] @@
  GFXSTREAM    :> [streamname |-> "gfx",    writes |-> TRUE, reads |-> FALSE] @@
  WINDOWSTREAM :> [streamname |-> "window", writes |-> TRUE, reads |-> FALSE]

\* What wifi is written is dropped, and reading it is an error.
Device(type, address) ==
  CASE type = SERIALSTREAM -> pfun_serial(address)
    [] type = I2CSTREAM    -> pfun_i2c(address)
    [] type = SPISTREAM    -> pfun_spi(address)
    [] type = WINDOWSTREAM -> pfun_window(address)
    [] OTHER               -> stream_table[type].streamname

\* No stream, or nil, is the console.
pstreamfun(s) == IF s = Nil THEN "console" ELSE Device(s \div 256, s % 256)

\* To be read it must be a stream, and one that can be.
Readable(s) == s # Nil /\ stream_table[s \div 256].reads
gstreamfun(s) == Device(s \div 256, s % 256)

\* <i2c-stream 200>
pstream(s) == <<stream_table[s \div 256].streamname, s % 256>>

-----------------------------------------------------------------------------
(* The forms.                                                              *)

Begin(kind, port, target, read, s) ==
  /\ form = NoForm
  /\ form' = [kind |-> kind, port |-> port, target |-> target, read |-> read]
  /\ str' = s /\ got' = << >> /\ meant' = << >> /\ went' = "nowhere"

\* Other ports are not supported.
sp_withserial ==
  \E address \in {1, 2} :
    /\ Begin("serial", IF address = 1 THEN "Serial1" ELSE "Serial2", address, FALSE,
             stream(SERIALSTREAM, address))
    /\ wire' = Quiet

\* The port is SPI whichever the stream's address names: that there are two is not
\* known where it is chosen.
sp_withspi ==
  \E pin \in {0, 17, 29}, port \in {0, 1} :
    /\ Begin("spi", "SPI", pin, FALSE, stream(SPISTREAM, pin + 128 * port))
    /\ wire' = Quiet

sp_withsdcard == Begin("sd", "sd", 1, FALSE, stream(SDSTREAM, 1)) /\ wire' = Quiet
sp_withgfx    == Begin("gfx", "gfx", 1, FALSE, stream(GFXSTREAM, 1)) /\ wire' = Quiet

\* A window's stream is what make-window returns; it is of a slot.
WindowStream ==
  \E slot \in 0 .. 3 :
    /\ Begin("window", pfun_window(slot), slot, FALSE, stream(WINDOWSTREAM, slot))
    /\ wire' = Quiet

\* To read, so many bytes are asked for and some come; to write, the device is
\* called, and str is nil if it does not answer.
I2Cstart(read, count, answers) ==
  wire' = IF read THEN [Quiet EXCEPT !.left = IF answers THEN count ELSE 0]
          ELSE [Quiet EXCEPT !.begun = TRUE]

\* The top bit of the address is the port, one that is left out being 0; but what is
\* set up is Wire, and the device called there.
sp_withi2c ==
  \E port \in {0, 1}, address \in {0, 1, 60, 127}, read, answers \in BOOLEAN,
     count \in 0 .. MaxWritten :
    /\ ~read => count = 0
    /\ LET addr == port * 128 + address
       IN Begin("i2c", "Wire", address, read,
                IF read \/ answers THEN stream(I2CSTREAM, addr) ELSE Nil)
    /\ I2Cstart(read, count, answers)

\* What was pending is sent when a transmission was begun.
Ended == IF wire.begun THEN got \o wire.pending ELSE got

\* Of the second port, as the tables have it.
OnSecondPort == str # Nil /\ str % 256 >= 128

\* The direction is the new one; the form goes on with the one it began with.  The
\* port is set for the first only: for the second it is any pointer, which may be
\* Wire's or point at something else (a fault there is not modelled).
fn_restarti2c ==
  /\ form.kind = "i2c" /\ str # Nil
  /\ \/ \E read, answers \in BOOLEAN, count \in 0 .. MaxWritten :
          /\ ~read => count = 0
          /\ got' = Ended /\ I2Cstart(read, count, answers)
     \/ OnSecondPort /\ UNCHANGED <<got, wire>>
  /\ UNCHANGED <<form, str, meant, went>>

\* Mutant: the transmission is not ended.
I2Cstop_Released == /\ UNCHANGED got /\ wire' = Quiet

\* What is pending is sent if the form was opened to write.
I2Cstop ==
  /\ got' = IF form.read THEN got ELSE Ended
  /\ wire' = Quiet

\* At the end of the body.  What the device got, and was meant to get by a form that
\* was opened to write, is left to look at.
Return ==
  /\ form # NoForm /\ form' = NoForm /\ str' = Nil /\ went' = "nowhere"
  /\ IF form.kind = "i2c" THEN I2Cstop ELSE UNCHANGED got /\ wire' = Quiet
  /\ meant' = IF form.kind = "i2c" /\ ~form.read /\ str # Nil THEN meant ELSE got'

-----------------------------------------------------------------------------
(* Transfers.                                                              *)

\* A byte written where no transmission is begun is refused by the port, and none ever
\* is on Wire1.  On the console a newline is written as it is; it is left out.
fn_writebyte ==
  /\ form # NoForm /\ Len(meant) < MaxWritten
  /\ went' = pstreamfun(str)
  /\ \E c \in Byte :
       IF went' = "Wire"
       THEN /\ meant' = IF wire.begun THEN Append(meant, c) ELSE meant
            /\ wire' = IF wire.begun THEN [wire EXCEPT !.pending = Append(@, c)] ELSE wire
       ELSE UNCHANGED <<meant, wire>>
  /\ UNCHANGED <<form, str, got>>

\* nil when there is no more.
fn_readbyte ==
  /\ form # NoForm /\ Readable(str)
  /\ went' = gstreamfun(str)
  /\ wire' = [wire EXCEPT !.left = IF went' = "Wire" /\ @ > 0 THEN @ - 1 ELSE @]
  /\ UNCHANGED <<form, str, got, meant>>

Init ==
  /\ form = NoForm /\ str = Nil /\ wire = Quiet
  /\ got = << >> /\ meant = << >> /\ went = "nowhere"

Next ==
  \/ sp_withserial \/ sp_withspi \/ sp_withsdcard \/ sp_withgfx \/ WindowStream
  \/ sp_withi2c \/ fn_restarti2c \/ fn_writebyte \/ fn_readbyte \/ Return

Spec == Init /\ [][Next]_vars

-----------------------------------------------------------------------------
(* Properties.                                                             *)

TypeOK ==
  /\ str \in {Nil} \union 0 .. 8 * 256 - 1 /\ wire.left \in 0 .. MaxWritten
  /\ form = NoForm => str = Nil /\ wire = Quiet

\* A transfer reaches the port the form has set up, found again from the number alone,
\* unless it names the second.
ReachesItsPort ==
  (went \notin {"nowhere", "console"} /\ ~OnSecondPort) => went = form.port

\* Nor does the port that was set up get what is for the second: it has a transmission
\* that stays empty.
SecondPortApart == OnSecondPort => went # form.port /\ wire.pending = << >> /\ got = << >>

\* Only a device that did not answer leaves the console to be written to.
ConsoleForNil == went = "console" => str = Nil

\* Of a form that was opened to write, the device has every byte when it ends,
\* however often it was restarted either way, in the order they were written.
WrittenArrives == form = NoForm => got = meant

DevicesServe == TypeOK /\ ReachesItsPort /\ SecondPortApart /\ ConsoleForNil /\ WrittenArrives

\* The second port is set up like the first.  It does not hold: the form begins the
\* first, and every transfer goes to the second, which nobody has begun.
SecondPortWorks == went \notin {"nowhere", "console"} => went = form.port

\* That all written arrives does not hold of any form: one that was opened to read and restarted to write
\* ends without ending the transmission.
AllWrittenArrives == [][form # NoForm /\ form' = NoForm /\ str # Nil => got' = meant]_vars

\* Nor does a program know what is the console's: what is meant for a device that
\* does not answer is printed.
NothingForTheConsole == went # "console"
=============================================================================
