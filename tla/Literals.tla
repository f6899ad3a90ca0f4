------------------------------ MODULE Literals ------------------------------
(* Floats and characters, printed (ulisp_print.cpp) and read again            *)
(* (nextitem).  A float is a decimal here, n times ten to the k, or no number   *)
(* or infinite; the rounding of the processor, which has more digits than are  *)
(* printed, is left out, but for the logarithm that finds the exponent: just   *)
(* below a power of ten it may be one too large, and at one or just above it   *)
(* one too small.                                                             *)
EXTENDS Integers, Sequences, SequencesExt, FiniteSetsExt

CONSTANTS
  SigDigits,    \* 6, the digits that are printed
  Least, Most,  \* -3 and 5: floats from 10^Least to 10^Most have no exponent
  Mantissas,    \* the n of the floats that are printed, and
  Exponents     \* their k

LiteralsAssumption ==
  /\ SigDigits \in Nat \ {0} /\ {Least, Most} \subseteq Int
  /\ Mantissas \subseteq Nat /\ Exponents \subseteq Int

VARIABLES
  written,  \* the object: [kind, minus, n, k], a character's code being n; the kinds
            \* "nan" and "inf" are floats too
  text,     \* what is printed of it
  read      \* the object that is read from that

vars == <<written, text, read>>

Nothing == [kind |-> "nothing", minus |-> FALSE, n |-> 0, k |-> 0]
Object(kind, minus, n, k) == [kind |-> kind, minus |-> minus, n |-> n, k |-> k]

Zero == 48
Point == 46
Minus == 45
Plus == 43
Ee == 101
EE == 69
NaN == <<78, 97, 78>>
Inf == <<73, 110, 102>>

Power(n) == 10^n
Zeros(n) == [j \in 1 .. n |-> Zero]
Length(n) == Min({d \in 1 .. 9 : n < Power(d)})

\* floor(log10(f))
Log(n, k) == k + Length(n) - 1

\* round(f * 10^m)
Rounded(n, k, m) ==
  IF k + m >= 0 THEN n * Power(k + m)
  ELSE (n + Power(-(k + m)) \div 2) \div Power(-(k + m))

-----------------------------------------------------------------------------
(* Printing.                                                               *)

Digit(i, j) == Zero + ((i \div Power(SigDigits - j)) % 10)
DigitsOf(i, from, to) == [j \in 1 .. to - from + 1 |-> Digit(i, from + j - 1)]

\* Mutant: a mantissa that is rounded up to the next power of ten stays as long as it is.
pmantissa_NoCarry(n, k) ==
  LET sig == Log(n, k)
      i == Rounded(n, k, SigDigits - 1 - sig)
      last == Max({1} \union {j \in 1 .. SigDigits : Digit(i, j) # Zero})
  IN IF sig < 0 THEN <<Zero, Point>> \o Zeros(-sig - 1) \o DigitsOf(i, 1, last)
     ELSE IF last <= sig + 1
       THEN DigitsOf(i, 1, last) \o Zeros(sig + 1 - last) \o <<Point, Zero>>
     ELSE DigitsOf(i, 1, sig + 1) \o <<Point>> \o DigitsOf(i, sig + 2, last)

\* As many digits as are not 0 at the end, but one after the point.
pmantissa(n, k) ==
  LET log == Log(n, k)
      round == Rounded(n, k, SigDigits - 1 - log)
      carry == round = Power(SigDigits)
      i == IF carry THEN Power(SigDigits - 1) ELSE round
      sig == IF carry THEN log + 1 ELSE log
      last == Max({j \in 1 .. SigDigits : Digit(i, j) # Zero})
  IN IF sig < 0 THEN <<Zero, Point>> \o Zeros(-sig - 1) \o DigitsOf(i, 1, last)
     ELSE IF last <= sig + 1
       THEN DigitsOf(i, 1, last) \o Zeros(sig + 1 - last) \o <<Point, Zero>>
     ELSE DigitsOf(i, 1, sig + 1) \o <<Point>> \o DigitsOf(i, sig + 2, last)

pint(i) ==
  LET m == IF i < 0 THEN -i ELSE i
  IN (IF i < 0 THEN <<Minus>> ELSE << >>)
     \o [d \in 1 .. Length(m) |-> Zero + ((m \div Power(Length(m) - d)) % 10)]

\* A power of ten, and as near to one as only digits that are not printed tell.
AtPower(n) ==
  n - Power(Length(n) - 1) \in IF Length(n) > SigDigits + 1 THEN {0, 1} ELSE {0}
AllNines(n) == n + 1 = Power(Length(n)) /\ Length(n) > SigDigits

\* floor(log(f) / 2.302585), by a logarithm and a divisor that are not exact.
Logarithms(n, k) ==
  {Log(n, k)} \union (IF AllNines(n) THEN {Log(n, k) + 1} ELSE {})
              \union (IF AtPower(n) THEN {Log(n, k) - 1} ELSE {})

\* The texts that may be printed of a float.
pfloat(f) ==
  LET sign == IF f.minus THEN <<Minus>> ELSE << >>
      exponent(e) == IF e # 0 THEN <<Ee>> \o pint(e) ELSE << >>
  IN CASE f.kind = "nan" -> {NaN}
       [] f.kind = "inf" -> {Inf}
       [] f.kind = "float" /\ f.n = 0 -> {<<Zero>>}
       [] OTHER ->
            IF Log(f.n, f.k) \in Least .. Most - 1 THEN {sign \o pmantissa(f.n, f.k)}
            ELSE {sign \o pmantissa(f.n, f.k - e) \o exponent(e) : e \in Logarithms(f.n, f.k)}

ControlCodes ==
  <<"Null", "SOH", "STX", "ETX", "EOT", "ENQ", "ACK", "Bell", "Backspace", "Tab", "Newline",
    "VT", "Page", "Return", "SO", "SI", "DLE", "DC1", "DC2", "DC3", "DC4", "NAK", "SYN",
    "ETB", "CAN", "EM", "SUB", "Escape", "FS", "GS", "RS", "US", "Space">>

\* After #\, the letters of a name taken together, and three digits from 127 on.
pcharacter(c) ==
  IF c <= 32 THEN [name |-> ControlCodes[c + 1], chars |-> << >>]
  ELSE [name |-> "", chars |-> IF c < 127 THEN <<c>> ELSE pint(c)]

-----------------------------------------------------------------------------
(* Reading: the characters of a number from its first, with what is known   *)
(* so far.  valid is 0 where a digit must follow, and -1 for what is none.   *)

IsDigit(ch) == ch \in Zero .. Zero + 9

Step(at, ch) ==
  CASE ch = Point /\ ~at.isexponent -> [at EXCEPT !.isfloat = TRUE]
    [] ch \in {Ee, EE} -> [at EXCEPT !.isfloat = TRUE, !.isexponent = TRUE,
                             !.valid = IF @ = 1 THEN 0 ELSE -1]
    [] ch = Minus /\ at.isexponent -> [at EXCEPT !.esign = -@]
    [] ch = Plus /\ at.isexponent -> at
    [] OTHER ->
         LET digit == ch - Zero
             seen == [at EXCEPT !.valid = IF IsDigit(ch) /\ @ # -1 THEN 1 ELSE -1]
         IN IF at.isexponent THEN [seen EXCEPT !.exponent = 10 * @ + digit]
            ELSE [seen EXCEPT !.result = 10 * @ + digit,
                              !.k = IF at.isfloat THEN @ - 1 ELSE @]

nextitem(chars) ==
  LET minus == chars[1] = Minus
      rest == IF minus THEN Tail(chars) ELSE chars
      start == [result |-> 0, k |-> 0, isfloat |-> FALSE, isexponent |-> FALSE,
                exponent |-> 0, esign |-> 1,
                valid |-> IF rest[1] = Point THEN 0 ELSE IF IsDigit(rest[1]) THEN 1 ELSE -1]
      end == FoldLeft(Step, start, rest)
  IN IF end.valid # 1 THEN Object("symbol", FALSE, 0, 0)
     ELSE Object(IF end.isfloat THEN "float" ELSE "integer", minus, end.result,
                 end.k + end.exponent * end.esign)

\* One character is itself; then the names, and then any three characters.
Character(token) ==
  IF Len(token.chars) = 1 THEN token.chars[1]
  ELSE IF token.name \in ToSet(ControlCodes) THEN SelectInSeq(ControlCodes, LAMBDA c : c = token.name) - 1
  ELSE ((token.chars[1] * 10 + token.chars[2]) * 10 + token.chars[3] - 5328) % 256

-----------------------------------------------------------------------------

Init == written = Nothing /\ text = << >> /\ read = Nothing

\* What is no number, or infinite, may have either sign.
Floats ==
  {Object("float", minus, n, k) : minus \in BOOLEAN, n \in Mantissas, k \in Exponents}
    \union {Object(kind, minus, 0, 0) : kind \in {"nan", "inf"}, minus \in BOOLEAN}

FloatLiteral ==
  /\ written = Nothing
  /\ \E f \in Floats : \E printed \in pfloat(f) :
       written' = f /\ text' = printed /\ read' = nextitem(printed)

CharLiteral ==
  /\ written = Nothing
  /\ \E c \in 0 .. 255 :
       /\ written' = Object("character", FALSE, c, 0)
       /\ text' = pcharacter(c).chars
       /\ read' = Object("character", FALSE, Character(pcharacter(c)), 0)

Next == FloatLiteral \/ CharLiteral

Spec == Init /\ [][Next]_vars

-----------------------------------------------------------------------------
(* Properties.                                                             *)

\* Twice the distance of two decimals is at most ten to the power m.
Near(n1, k1, n2, k2, m) ==
  LET low == Min({k1, k2, m})
      apart == n1 * Power(k1 - low) - n2 * Power(k2 - low)
  IN 2 * (IF apart < 0 THEN -apart ELSE apart) <= Power(m - low)

\* What is read of a float that was printed, if it is a number but 0, is one of its sign,
\* and off by no more than half of the last digit that is printed; a character is the
\* character that was printed.
LiteralsReadBack ==
  /\ written.kind = "float" /\ written.n # 0 =>
       /\ read.kind = "float" /\ read.minus = written.minus
       /\ Near(read.n, read.k, written.n, written.k, Log(written.n, written.k) - SigDigits + 1)
  /\ written.kind = "character" => read = written

\* A float is read as a float.  It does not hold: 0.0 is printed as an integer, and what
\* is no number or infinite as a name, whose sign is not printed either.
FloatsStayFloats == written.kind \in {"float", "nan", "inf"} => read.kind = "float"
=============================================================================
