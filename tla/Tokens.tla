-------------------------------- MODULE Tokens --------------------------------
(* What the reader makes of the characters of a symbol or a number, and how    *)
(* they are printed.  The name of a symbol is a word: a builtin's number, six   *)
(* characters in radix 40, or the address of the cells with a longer name; the *)
(* lowest bits say which (ulisp_types.h).                                      *)
EXTENDS Integers, Sequences, SequencesExt, FiniteSetsExt

CONSTANTS
  Bits,         \* the width of a word and of an int: 32 in the builds
  Radix,        \* 40, of which 0 is the end of a name,
  FirstLetter,  \* 11, the digits coming before the letters,
  PackLength,   \* and 6, the characters of a packed name
  ChunkLength,  \* 4, the characters in a cell
  Table,        \* the names of the builtins but nil, which is no symbol
  Chars,        \* the characters of names
  Base,         \* 10, of numbers
  Float,        \* a float of any value
  MaxName,      \* bounds: the longest name,
  MaxDigits,    \* the longest number,
  MaxRead       \* and the tokens that are read

Modulus  == 2^Bits
PACKEDS  == FirstLetter * Radix^(PackLength - 1)
BUILTINS == Radix^PackLength

\* The words of builtins and of packed names differ from an address, and fit.
TokenAssumption ==
  /\ PACKEDS >= 2^(Bits - 2)
  /\ BUILTINS + Len(Table) <= Modulus
  /\ Base > 1 /\ MaxName \in Nat /\ MaxDigits \in Nat /\ MaxRead \in Nat

VARIABLES
  symbols,  \* the symbols there are, each a word and the characters in its cells
  tokens,   \* the names that were read, each with its symbol
  number    \* the last number that was read: its sign, its digits and the object

vars == <<symbols, tokens, number>>

(***************************************************************************)
(* Characters.                                                              *)
(***************************************************************************)
Digits == <<"0", "1">>
Lower(ch) == IF ch = "A" THEN "a" ELSE ch
Fold(name) == [k \in DOMAIN name |-> Lower(name[k])]

\* 0 is no character; a digit comes first, then the letters, then the others.
Codes == <<"0", "1", "a", "-">>
toradix40(ch) == LET k == SelectInSeq(Codes, LAMBDA c : c = Lower(ch)) IN IF k = 0 THEN -1 ELSE k
fromradix40(n) == Codes[n]

\* The first characters, with zeros after the end of the name.
pack40(name) ==
  FoldLeft(LAMBDA x, k : (x * Radix + (IF k \in DOMAIN name THEN toradix40(name[k]) ELSE 0)) % Modulus,
           0, [k \in 1 .. PackLength |-> k])

\* No digit at the beginning, and no other character anywhere.
valid40(name) ==
  \A k \in DOMAIN name : toradix40(name[k]) >= IF k = 1 THEN FirstLetter ELSE 1

(***************************************************************************)
(* Words.                                                                   *)
(***************************************************************************)
twist(x)     == ((x * 4) % Modulus) + (x \div 2^(Bits - 2))
untwist(x)   == (x \div 4) + (x % 4) * 2^(Bits - 2)
longnamep(x) == x % 4 = 0
builtinp(x)  == untwist(x) >= BUILTINS

\* The number of a builtin, in any case, or 0.
lookupbuiltin(name) == SelectInSeq(Table, LAMBDA b : Fold(b) = Fold(name))

(***************************************************************************)
(* Symbols.  A short one is looked for by its word, a long one by its        *)
(* characters, a cell at a time.                                            *)
(***************************************************************************)
Symbol(word, chars) == [word |-> word, chars |-> chars]
\* The characters of each cell.
lispstring(name) ==
  [c \in 1 .. (Len(name) + ChunkLength - 1) \div ChunkLength |->
    SubSeq(name, (c - 1) * ChunkLength + 1, Min({c * ChunkLength, Len(name)}))]

Addresses == {4 * k : k \in 1 .. 2^(Bits - 2) - 1} \ {symbols[s].word : s \in DOMAIN symbols}

Interned(name, s, more) == symbols' = symbols \o more /\ tokens' = Append(tokens, <<name, s>>)
Find(name, found(_), new) ==
  LET s == SelectInSeq(symbols, found)
  IN  IF s > 0 THEN Interned(name, s, <<>>) ELSE Interned(name, Len(symbols) + 1, <<new>>)

intern(name, word) == Find(name, LAMBDA symbol : symbol.word = word, Symbol(word, <<>>))

eqsymbols_FirstCell(symbol, name) ==
  longnamep(symbol.word) /\ symbol.chars[1] = lispstring(name)[1]
eqsymbols(symbol, name) ==
  /\ longnamep(symbol.word)
  /\ Len(symbol.chars) = Len(lispstring(name))
  /\ \A c \in DOMAIN symbol.chars : symbol.chars[c] = lispstring(name)[c]

\* The cells may be anywhere.
internlong(name) ==
  \E address \in {Min(Addresses), Max(Addresses)} :
    Find(name, LAMBDA symbol : eqsymbols(symbol, name), Symbol(address, lispstring(name)))

\* The end of nextitem.
ReadName(name) ==
  LET x == lookupbuiltin(name) IN
  IF x # 0 THEN intern(name, twist(x - 1 + BUILTINS))
  ELSE IF Len(name) <= PackLength /\ valid40(name) THEN intern(name, twist(pack40(name)))
  ELSE internlong(name)

\* The digits of the word in the radix, up to the first 0.
pradix40(word) ==
  LET digit(d) == (untwist(word) \div Radix^(PackLength - d)) % Radix
      n == Max({k \in 0 .. PackLength : \A d \in 1 .. k : digit(d) # 0})
  IN  [d \in 1 .. n |-> fromradix40(digit(d))]

psymbol(symbol) ==
  IF longnamep(symbol.word) THEN FlattenSeq(symbol.chars)
  ELSE IF untwist(symbol.word) < PACKEDS THEN <<"invalid symbol">>
  ELSE IF builtinp(symbol.word) THEN Table[untwist(symbol.word) - BUILTINS + 1]
  ELSE pradix40(symbol.word)

\* What is its own value.
colonp(symbol)   == longnamep(symbol.word) /\ symbol.chars[1][1] = ":"
keywordp(symbol) == ~longnamep(symbol.word) /\ builtinp(symbol.word) /\ psymbol(symbol)[1] = ":"

(***************************************************************************)
(* Numbers.                                                                 *)
(***************************************************************************)
Integer  == -(Modulus \div 2) .. Modulus \div 2 - 1
AsInt(x) == IF x % Modulus < Modulus \div 2 THEN x % Modulus ELSE (x % Modulus) - Modulus

pintbase(i, base) ==
  LET k == Max({0} \cup {j \in 1 .. Bits : base^j <= i})
  IN  [d \in 1 .. k + 1 |-> (i \div base^(k + 1 - d)) % base]
pint(n) == [minus |-> n < 0, digits |-> pintbase((IF n < 0 THEN -n ELSE n) % Modulus, Base)]

\* The digits are taken in a word, and only then are compared with what an int
\* has room for.
readnumber(minus, digits) ==
  LET result == FoldLeft(LAMBDA x, d : (x * Base + d) % Modulus, 0, digits)
  IN  IF result > Modulus \div 2 - 1 + (IF minus THEN 1 ELSE 0) THEN Float
      ELSE AsInt(IF minus THEN -result ELSE result)

(***************************************************************************)
(* Tokens.                                                                  *)
(***************************************************************************)
\* Digits, with a sign or without, are a number.  No token here is so long that
\* the buffer has no room for it.
IsName(name) == \E k \in DOMAIN name : name[k] \notin ToSet(Digits) /\ (k > 1 \/ name[k] # "-" \/ Len(name) = 1)

nextitem ==
  /\ Len(tokens) < MaxRead /\ number.digits = <<>>
  /\ \E name \in SeqOf(Chars, MaxName) : name # <<>> /\ IsName(name) /\ ReadName(name)
  /\ UNCHANGED number

nextnumber ==
  /\ tokens = <<>> /\ number.digits = <<>>
  /\ \E minus \in BOOLEAN, digits \in SeqOf(0 .. Base - 1, MaxDigits) \ {<<>>} :
       number' = [minus |-> minus, digits |-> digits, object |-> readnumber(minus, digits)]
  /\ UNCHANGED <<symbols, tokens>>

Init == symbols = <<>> /\ tokens = <<>> /\ number = [minus |-> FALSE, digits |-> <<>>, object |-> 0]
Next == nextitem \/ nextnumber
Spec == Init /\ [][Next]_vars

(***************************************************************************)
(* What tokens promise.                                                     *)
(***************************************************************************)
\* Names that are short, or a builtin's, are the same in any case; long ones, and
\* those with other characters, are not.
Short(name) == lookupbuiltin(name) # 0 \/ (Len(name) <= PackLength /\ valid40(name))
Same(a, b)  == IF Short(a) THEN Fold(a) = Fold(b) ELSE a = b

\* Two names that are read are one symbol exactly when they are the same name,
\* whichever of the three ways they are kept in and wherever their cells are.
OneSymbolEach ==
  \A j, k \in DOMAIN tokens : Same(tokens[j][1], tokens[k][1]) <=> tokens[j][2] = tokens[k][2]

\* A symbol prints as the name it was read by, if not in its case, and with a colon
\* first it is its own value.
PrintsItsName ==
  \A k \in DOMAIN tokens :
    LET name == tokens[k][1]  symbol == symbols[tokens[k][2]] IN
    /\ Fold(psymbol(symbol)) = Fold(name) /\ Same(psymbol(symbol), name)
    /\ (colonp(symbol) \/ keywordp(symbol)) <=> name[1] = ":"

\* An integer prints as digits that read as the same integer, from the least on,
\* and digits that make no integer read as a float, as long as a word holds them.
ValueOf(num) == LET n == FoldLeft(LAMBDA x, d : x * Base + d, 0, num.digits) IN IF num.minus THEN -n ELSE n
NumbersReadBack ==
  LET n == ValueOf(number) IN
  /\ n \in Integer => /\ number.object = n
                      /\ readnumber(pint(n).minus, pint(n).digits) = n
  /\ n \notin Integer /\ n \in -Modulus + 1 .. Modulus - 1 => number.object = Float

TokensReadBack == OneSymbolEach /\ PrintsItsName /\ NumbersReadBack

\* What does not hold.  A number that is too long for a word is read as what is
\* left of it, which may be an integer.
LargeIsFloat == ValueOf(number) \notin Integer => number.object = Float

\* Long names keep their case, short ones do not.
CaseIsFolded ==
  \A j, k \in DOMAIN tokens : Fold(tokens[j][1]) = Fold(tokens[k][1]) => tokens[j][2] = tokens[k][2]
=============================================================================
