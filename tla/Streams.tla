------------------------------- MODULE Streams -------------------------------
(* The forms that open a stream (with-output-to-string, with-serial, with-i2c, *)
(* with-spi, with-sd-card of ulisp_builtins_control.cpp) and what is written   *)
(* to and read from it (ulisp_streams.cpp).  A stream has a kind and hardly     *)
(* more: what it is connected to is in globals, or in the hardware, one for    *)
(* all forms of the kind, and an error leaves it there.                       *)
EXTENDS Naturals, Sequences, FiniteSets

CONSTANTS
  Target,    \* files, pins, ports and addresses
  MaxForms,  \* bounds: the forms in one another,
  MaxStrings, \* and the strings that are begun
  MaxKinds   \* and the kinds of forms that are used together

StreamAssumption == MaxForms \in Nat /\ MaxStrings \in Nat /\ MaxKinds \in Nat

VARIABLES
  used,     \* the kinds of forms that are used
  to,       \* for each kind what it is connected to now: GlobalString, SDpfile,
            \* SDgfile, the I2C device, the SPI pins that are low, the serial ports
  open,    \* the forms under way, the last one first
  strings,  \* how many strings were begun; they are numbered
  freed,    \* the strings that were collected
  went,     \* the last transfer: its form and what it was with
  failed    \* whether an error has ended forms

vars == <<used, to, open, strings, freed, went, failed>>

\* A file that is read and one that is written have a global each.
Kind == {"string", "write", "read", "i2c", "spi", "serial"}

\* Several pins may be low at once, and several ports begun.
Many == {"spi", "serial"}

-----------------------------------------------------------------------------
(* Forms.                                                                  *)
Form(kind, target, alone) == [kind |-> kind, target |-> target, alone |-> alone]

\* Whether something that begins now takes the place of what f is connected to.
Meets(f, kind, target) == f.kind = kind /\ (kind = "serial" => f.target = target)
Joined(kind, target) ==
  [k \in DOMAIN open |->
    IF Meets(open[k], kind, target) THEN [open[k] EXCEPT !.alone = FALSE] ELSE open[k]]

Connected(kind, target) ==
  to' = [to EXCEPT ![kind] = IF kind \in Many THEN @ \cup {target} ELSE {target}]

\* A pin may still be low from a form that ended in an error, or of one around.
Open(kind, target) ==
  /\ kind \in used
  /\ Len(open) < MaxForms
  /\ Connected(kind, target)
  /\ open' = <<Form(kind, target, kind = "spi" => to["spi"] = {})>> \o Joined(kind, target)
  /\ went' = <<>> /\ UNCHANGED used

sp_withspi    == \E pin \in Target : Open("spi", pin) /\ UNCHANGED <<strings, freed, failed>>
sp_withserial == \E port \in Target : Open("serial", port) /\ UNCHANGED <<strings, freed, failed>>
sp_withi2c    == \E address \in Target : Open("i2c", address) /\ UNCHANGED <<strings, freed, failed>>
sp_withsdcard == \E file \in Target, kind \in {"read", "write"} :
  Open(kind, file) /\ UNCHANGED <<strings, freed, failed>>
sp_withoutputtostring ==
  /\ strings < MaxStrings
  /\ Open("string", strings + 1)
  /\ strings' = strings + 1 /\ UNCHANGED <<freed, failed>>

Closed_OtherFile(f) ==
  to' = [to EXCEPT ![IF f.kind = "write" THEN "read" ELSE IF f.kind = "read" THEN "write" ELSE f.kind] =
           IF f.kind \in Many THEN @ \ {f.target} ELSE IF f.kind = "string" THEN @ ELSE {}]

\* The end of a form closes the file, or the port, that is there now; nothing is
\* done at the end of a string.
Closed(f) ==
  to' = [to EXCEPT ![f.kind] =
           IF f.kind \in Many THEN @ \ {f.target} ELSE IF f.kind = "string" THEN @ ELSE {}]

Return ==
  /\ open # <<>>
  /\ Closed(Head(open))
  /\ open' = Tail(open) /\ went' = <<>>
  /\ UNCHANGED <<used, strings, freed, failed>>

\* An error goes to a handler around the nth form: nothing is closed.
Error == \E n \in DOMAIN open :
  /\ open' = SubSeq(open, n + 1, Len(open))
  /\ failed' = TRUE /\ went' = <<>>
  /\ UNCHANGED <<used, to, strings, freed>>

-----------------------------------------------------------------------------
(* Transfers, over the stream of any form under way.                        *)
\* A serial stream has a function for each port; any other goes by its kind.
Reached(f, kind) == IF kind = "serial" THEN to[kind] \cap {f.target} ELSE to[kind]
Transfer(f, kind) ==
  /\ went' = <<[form |-> f, over |-> kind, with |-> Reached(f, kind)]>>
  /\ UNCHANGED <<used, to, open, strings, freed, failed>>

\* What is written to a file that was opened to be read goes to the other one, and
\* the other way round.
SDwrite == \E f \in {open[k] : k \in DOMAIN open} :
             f.kind \in {"read", "write"} /\ Transfer(f, "write")
SDread  == \E f \in {open[k] : k \in DOMAIN open} :
             f.kind \in {"read", "write"} /\ Transfer(f, "read")
pstr    == \E f \in {open[k] : k \in DOMAIN open} : f.kind = "string" /\ Transfer(f, "string")
Send    == \E f \in {open[k] : k \in DOMAIN open} :
             f.kind \in {"i2c", "spi", "serial"} /\ Transfer(f, f.kind)

\* A string is made of an object, in between.
princtostring ==
  /\ "string" \in used
  /\ strings < MaxStrings
  /\ strings' = strings + 1
  /\ Connected("string", strings + 1)
  /\ open' = Joined("string", strings + 1) /\ went' = <<>>
  /\ UNCHANGED <<used, freed, failed>>

\* GlobalString is no root: a collection frees the strings no form is building,
\* when the program has dropped them.
Collect ==
  /\ freed' = (1 .. strings) \ {open[k].target : k \in {j \in DOMAIN open : open[j].kind = "string"}}
  /\ freed' # freed /\ went' = <<>>
  /\ UNCHANGED <<used, to, open, strings, failed>>

Init ==
  /\ used \in SUBSET Kind /\ Cardinality(used) = MaxKinds
  /\ to = [kind \in Kind |-> {}]
  /\ open = <<>> /\ strings = 0 /\ freed = {} /\ went = <<>> /\ failed = FALSE

Next ==
  \/ sp_withspi \/ sp_withserial \/ sp_withi2c \/ sp_withsdcard \/ sp_withoutputtostring
  \/ Return \/ Error \/ SDwrite \/ SDread \/ pstr \/ Send \/ princtostring \/ Collect
Spec == Init /\ [][Next]_vars

-----------------------------------------------------------------------------
(* Properties.                                                             *)
TypeOK ==
  /\ used \subseteq Kind
  /\ \A kind \in Kind : to[kind] \subseteq IF kind = "string" THEN 1 .. strings ELSE Target
  /\ \A k \in DOMAIN open : open[k].kind \in Kind
  /\ strings \in 0 .. MaxStrings /\ freed \subseteq 1 .. strings

\* What goes over the stream of a form goes to what the form has opened and to
\* nothing else, whatever forms of other kinds began, ended or failed in it or
\* around it, as long as none of its own kind, and no string, began inside.
ReachesItsOwn ==
  \A n \in DOMAIN went :
    went[n].form.alone /\ went[n].over = went[n].form.kind => went[n].with = {went[n].form.target}

\* Where no error has passed, everything is closed again at the prompt, however
\* the forms were nested.
ClosedAtPrompt ==
  open = <<>> /\ ~failed => \A kind \in Kind \ {"string"} : to[kind] = {}

StreamsDeliver == TypeOK /\ ReachesItsOwn /\ ClosedAtPrompt

\* What does not hold.  "Returns a string containing the output to the stream
\* variable str": a string that is made while the form is under way takes what
\* follows,
OutputReturned ==
  \A n \in DOMAIN went : went[n].over = "string" => went[n].with = {went[n].form.target}

\* and when that one is collected, what follows is written into free cells.
WritesLiveStrings ==
  \A n \in DOMAIN went : went[n].over = "string" => went[n].with \cap freed = {}

\* An error leaves the pin of with-spi low, and the next form for another pin
\* speaks to both devices.
PinsRelease == open = <<>> => to["spi"] = {}

-----------------------------------------------------------------------------
(* The inductive invariant.                                                *)

FormsTyped ==
  /\ to \in [Kind -> SUBSET (Target \union Nat)]
  /\ open \in Seq([kind : Kind, target : Target \union Nat, alone : BOOLEAN])

\* A form that nothing has met reaches what it has opened,
AloneReaches ==
  \A k \in DOMAIN open : open[k].alone => Reached(open[k], open[k].kind) = {open[k].target}

\* and every older one whose place it has taken knows that.
NewestAlone ==
  \A j, k \in DOMAIN open :
    j < k /\ Meets(open[k], open[j].kind, open[j].target) => ~open[k].alone

\* While no error has passed, what is connected belongs to a form under way.
Explained ==
  ~failed => \A kind \in Kind \ {"string"} : \A t \in to[kind] :
    \E k \in DOMAIN open : open[k].kind = kind /\ open[k].target = t

IInv == TypeOK /\ FormsTyped /\ AloneReaches /\ NewestAlone /\ Explained /\ ReachesItsOwn
=============================================================================
