----------------------------- MODULE Arithmetic -----------------------------
(* The integer half of ulisp_builtins_numbers.cpp and ulisp_runtime_math.cpp: *)
(* the operators that stay in integers of a fixed width as long as they can   *)
(* and go over to floats when they cannot.  A float is only known to be one.  *)
(* What C leaves undefined may give any of the results the builds give.       *)
EXTENDS Integers, Sequences, FiniteSetsExt, SequencesExt

CONSTANTS
  Bits,     \* the width of an int: 32 in the builds
  Mantissa, \* the width of what a float keeps of it: 24
  MaxArgs,  \* a bound: the most arguments of a call
  Float,    \* a float other than 0.0
  Other,    \* an object that is no number
  Tee, Nil, \* true and false
  Error     \* the call ends in an error

ArithmeticAssumption == Bits \in Nat \ {0, 1} /\ Mantissa \in 1 .. Bits /\ MaxArgs \in Nat \ {0, 1}

VARIABLE call  \* the last call: its operator, its arguments and its result

INT_MAX  == 2^(Bits - 1) - 1
INT_MIN  == -(2^(Bits - 1))
Integer  == INT_MIN .. INT_MAX
Wrap(n)  == ((n - INT_MIN) % 2^Bits) + INT_MIN

Truth(b) == IF b THEN Tee ELSE Nil
Abs(n)   == IF n < 0 THEN -n ELSE n
Sign(n)  == IF n < 0 THEN -1 ELSE 1

\* The division of C, which drops the fraction.
Quotient(n, d)  == Wrap(Sign(n) * Sign(d) * (Abs(n) \div Abs(d)))
Remainder(n, d) == Wrap(n - Quotient(n, d) * d)

(***************************************************************************)
(* The arithmetic operators: a fold that is a float once it must be one.    *)
(***************************************************************************)
Fold(step(_, _), floats(_, _), first, args) ==
  FoldLeft(LAMBDA acc, a :
             IF acc = Error \/ a = Other THEN Error
             ELSE IF acc = Float \/ a = Float THEN floats(acc, a)
             ELSE step(acc, a),
           first, args)

\* The float of Float is no 0.
add_floats(fresult, arg)      == Float
subtract_floats(fresult, arg) == Float
multiply_floats(fresult, arg) == Float
divide_floats(fresult, arg)   == IF arg = 0 THEN Error ELSE Float

AddStep_OffByOne(result, val) ==
  IF IF val < 1 THEN Wrap(INT_MIN - val) > result ELSE Wrap(INT_MAX - val) <= result
  THEN Float ELSE Wrap(result + val)

\* The tests for overflow are made in the width itself.
AddStep(result, val) ==
  IF IF val < 1 THEN Wrap(INT_MIN - val) > result ELSE Wrap(INT_MAX - val) < result
  THEN Float ELSE Wrap(result + val)

SubtractStep(result, val) ==
  IF IF val < 1 THEN Wrap(INT_MAX + val) < result ELSE Wrap(INT_MIN + val) > result
  THEN Float ELSE Wrap(result - val)

MultiplyStep(result, val) == IF result * val \in Integer THEN result * val ELSE Float

DivideStep(result, i) ==
  IF i = 0 THEN Error
  ELSE IF Remainder(result, i) # 0 \/ (result = INT_MIN /\ i = -1) THEN Float
  ELSE Quotient(result, i)

negate(arg) ==
  IF arg = Other THEN Error
  ELSE IF arg \in {Float, INT_MIN} THEN Float ELSE Wrap(-arg)

fn_add(args)      == Fold(AddStep, add_floats, 0, args)
fn_multiply(args) == Fold(MultiplyStep, multiply_floats, 1, args)
fn_subtract(args) ==
  IF Len(args) = 1 THEN negate(args[1])
  ELSE IF args[1] = Other THEN Error ELSE Fold(SubtractStep, subtract_floats, args[1], Tail(args))
fn_divide(args) ==
  IF args[1] = Other THEN Error
  ELSE IF Len(args) > 1 THEN Fold(DivideStep, divide_floats, args[1], Tail(args))
  ELSE IF args[1] = 0 THEN Error
  ELSE IF args[1] = 1 THEN 1 ELSE Float

\* 1+, 1- and abs.
fn_oneplus(args)  == IF args[1] = Other THEN Error
                     ELSE IF args[1] \in {Float, INT_MAX} THEN Float ELSE args[1] + 1
fn_oneminus(args) == IF args[1] = Other THEN Error
                     ELSE IF args[1] \in {Float, INT_MIN} THEN Float ELSE args[1] - 1
fn_abs(args)      == IF args[1] = Other THEN Error
                     ELSE IF args[1] \in {Float, INT_MIN} THEN Float ELSE Abs(args[1])

(***************************************************************************)
(* Division of two integers.  Only mod and rem look for a zero divisor; the *)
(* others divide, which is undefined, as is INT_MIN by -1.                  *)
(***************************************************************************)
remmod(num, den, mod) ==
  IF den = 0 THEN Error
  ELSE LET remainder == Remainder(num, den)
       IN  IF mod /\ (num < 0) # (den < 0) THEN Wrap(remainder + den) ELSE remainder

Defined(num, den) == den # 0 /\ ~(num = INT_MIN /\ den = -1)

\* What the processors and the division library of the boards give otherwise.
Quotients(num, den) ==
  IF Defined(num, den) THEN {Quotient(num, den)} ELSE {0, 1, -1, num}

Corrected(num, den, quo, step, corrects) ==
  LET rem == Wrap(num - quo * den)
  IN  Wrap(IF rem # 0 /\ corrects THEN quo + step ELSE quo)

fn_truncate(num, den) == Quotients(num, den)
fn_floor(num, den)    == {Corrected(num, den, quo, -1, (num < 0) # (den < 0)) : quo \in Quotients(num, den)}
fn_ceiling(num, den)  == {Corrected(num, den, quo, 1, (num < 0) = (den < 0)) : quo \in Quotients(num, den)}

\* The float next to an integer, of two the one whose mantissa is even.
checkintfloat(n) ==
  LET ulp  == Min({2^k : k \in {j \in 0 .. Bits : Abs(n) < 2^(Mantissa + j)}})
      down == Abs(n) \div ulp
      up   == IF 2 * (Abs(n) % ulp) + (down % 2) > ulp THEN down + 1 ELSE down
  IN  Sign(n) * up * ulp

\* round goes by way of a float, which may be no int any more.
fn_round(n) == IF checkintfloat(n) \in Integer THEN {checkintfloat(n)} ELSE {INT_MIN, INT_MAX}

(***************************************************************************)
(* Powers, by squaring, and shifts.                                         *)
(***************************************************************************)
\* One more round of the loop squares a base that is not used again.
intpower(base, exp) ==
  LET loop[e \in 0 .. exp] ==
        [b \in Integer |->
          IF e = 0 THEN 1
          ELSE Wrap((IF e % 2 = 1 THEN b ELSE 1) * loop[e \div 2][Wrap(b * b)])]
  IN  loop[exp][base]

\* The test in floats, |log|base| * exp| < 21.4875, is just below the log of 2^31.
fn_expt(base, exp) ==
  IF base # 0 /\ exp >= 0 /\ Abs(base)^exp <= INT_MAX THEN intpower(base, exp) ELSE Float

\* Of a count that is not below the width, one processor takes all of it and
\* the other its lower bits.
Counts(count) == {count, count % Bits}

fn_ash(value, count) ==
  IF count >= 0 THEN {Wrap(value * 2^c) : c \in Counts(count)}
  ELSE {value \div 2^c : c \in Counts(-count)}

(***************************************************************************)
(* Bits, of integers only.                                                  *)
(***************************************************************************)
Bit(n, k) == (n \div 2^k) % 2
Bitwise(args, first, op(_, _)) ==
  IF \E k \in DOMAIN args : args[k] \notin Integer THEN Error
  ELSE FoldLeft(LAMBDA result, n :
         Wrap(FoldSet(LAMBDA k, sum : sum + op(Bit(result, k), Bit(n, k)) * 2^k, 0, 0 .. Bits - 1)), first, args)

fn_logand(args) == Bitwise(args, -1, LAMBDA a, b : a * b)
fn_logior(args) == Bitwise(args, 0, LAMBDA a, b : a + b - a * b)
fn_logxor(args) == Bitwise(args, 0, LAMBDA a, b : (a + b) % 2)
fn_lognot(n)    == IF n \in Integer THEN Wrap(-n - 1) ELSE Error

(***************************************************************************)
(* incf and decf.  A place may be a bit, and another object than a number    *)
(* may be in it.                                                            *)
(***************************************************************************)
InPlace(x, by, step(_, _)) ==
  IF Other \in {x, by} THEN Error ELSE IF Float \in {x, by} THEN Float ELSE step(x, by)
sp_incf(x, inc) == InPlace(x, inc, AddStep)
sp_decf(x, dec) == InPlace(x, dec, SubtractStep)
InBit(bit, by, step(_, _)) ==
  IF by \notin {0, 1} \/ step(bit, by) \notin {0, 1} THEN Error ELSE step(bit, by)

(***************************************************************************)
(* What only makes floats, or looks at one number.                          *)
(***************************************************************************)
fn_sin(x)     == IF x = Other THEN Error ELSE Float
\* float takes the number out of whatever it is given.
fn_floatfn(x) == Float
\* Of the float only its sign matters, which is anything but 0.
Signs(x)      == IF x = Float THEN {-1, 1} ELSE {IF x = 0 THEN 0 ELSE Sign(x)}
Test(x, holds(_)) == IF x = Other THEN {Error} ELSE {Truth(holds(s)) : s \in Signs(x)}
Parity(x, p)  == {IF x \in Integer THEN Truth(Bit(x, 0) = p) ELSE Error}
fn_random(n)  == IF n = Other THEN {Error} ELSE IF n = Float THEN {Float} ELSE 0 .. Max({Abs(n) - 1, 0})

(***************************************************************************)
(* Comparisons: each argument with the next, /= each with all that follow,  *)
(* and an answer before a wrong argument is reached.                        *)
(***************************************************************************)
compare(args, lt, gt, eq) ==
  LET fails(a, b) == (~lt /\ a < b) \/ (~eq /\ a = b) \/ (~gt /\ a > b)
      step(acc, b) ==
        IF ~acc.true \/ acc.last = Error THEN acc
        ELSE IF Other \in {acc.last, b} THEN [acc EXCEPT !.last = Error]
        ELSE [true |-> ~fails(acc.last, b), last |-> b]
      end == FoldLeft(step, [true |-> TRUE, last |-> args[1]], Tail(args))
  IN  IF end.last = Error THEN Error ELSE Truth(end.true)

fn_noteq(args) ==
  LET pairs == {p \in (1 .. Len(args)) \X (1 .. Len(args)) : p[1] < p[2]}
      stops == {p \in pairs : Other \in {args[p[1]], args[p[2]]} \/ args[p[1]] = args[p[2]]}
      \* The loops go through the pairs in the order of their first argument.
      first == CHOOSE p \in stops : \A q \in stops :
                 p[1] < q[1] \/ (p[1] = q[1] /\ p[2] <= q[2])
  IN  IF stops = {} THEN Tee
      ELSE IF Other \in {args[first[1]], args[first[2]]} THEN Error ELSE Nil

Extreme(args, better(_, _)) ==
  FoldLeft(LAMBDA acc, b : IF Other \in {acc, b} \/ acc = Error THEN Error
                           ELSE IF better(b, acc) THEN b ELSE acc,
           args[1], Tail(args))

(***************************************************************************)
(* A call of each of them, with any arguments.  They keep nothing, so that   *)
(* one call is a behaviour.                                                 *)
(***************************************************************************)
Lists(of)    == SeqOf(of, MaxArgs) \ {<<>>}
Numbers      == Integer \cup {Float, Other}
Answer(op, args, results) == \E r \in results : call' = [op |-> op, args |-> args, result |-> r]

Add      == \E args \in Lists(Numbers) : Answer("+", args, {fn_add(args)})
Subtract == \E args \in Lists(Numbers) : Answer("-", args, {fn_subtract(args)})
Multiply == \E args \in Lists(Numbers) : Answer("*", args, {fn_multiply(args)})
Divide   == \E args \in Lists(Numbers) : Answer("/", args, {fn_divide(args)})
Step     == \E n \in Numbers :
              \/ Answer("1+", <<n>>, {fn_oneplus(<<n>>)})
              \/ Answer("1-", <<n>>, {fn_oneminus(<<n>>)})
              \/ Answer("abs", <<n>>, {fn_abs(<<n>>)})
Round    == \E num, den \in Integer :
              \/ Answer("truncate", <<num, den>>, fn_truncate(num, den))
              \/ Answer("floor", <<num, den>>, fn_floor(num, den))
              \/ Answer("ceiling", <<num, den>>, fn_ceiling(num, den))
RemMod   == \E num, den \in Integer :
              \/ Answer("rem", <<num, den>>, {remmod(num, den, FALSE)})
              \/ Answer("mod", <<num, den>>, {remmod(num, den, TRUE)})
Power    == \E base, exp \in Integer : Answer("expt", <<base, exp>>, {fn_expt(base, exp)})
Shift    == \E value, count \in Integer : Answer("ash", <<value, count>>, fn_ash(value, count))
Compare  == \E args \in Lists(Integer \cup {Other}) :
              \/ Answer("=", args, {compare(args, FALSE, FALSE, TRUE)})
              \/ Answer("<", args, {compare(args, TRUE, FALSE, FALSE)})
              \/ Answer("<=", args, {compare(args, TRUE, FALSE, TRUE)})
              \/ Answer(">", args, {compare(args, FALSE, TRUE, FALSE)})
              \/ Answer(">=", args, {compare(args, FALSE, TRUE, TRUE)})
              \/ Answer("/=", args, {fn_noteq(args)})
Choose   == \E args \in Lists(Integer \cup {Other}) :
              \/ Answer("max", args, {Extreme(args, LAMBDA a, b : a > b)})
              \/ Answer("min", args, {Extreme(args, LAMBDA a, b : a < b)})

Logical  == \E args \in Lists(Numbers) :
              \/ Answer("logand", args, {fn_logand(args)})
              \/ Answer("logior", args, {fn_logior(args)})
              \/ Answer("logxor", args, {fn_logxor(args)})
              \/ Len(args) = 1 /\ Answer("lognot", args, {fn_lognot(args[1])})
LogBitP  == \E k \in 0 .. Bits - 1, n \in Integer : Answer("logbitp", <<k, n>>, {Truth(Bit(n, k) = 1)})
Increase == \E x, by \in Numbers :
              \/ Answer("incf", <<x, by>>, {sp_incf(x, by)})
              \/ Answer("decf", <<x, by>>, {sp_decf(x, by)})
\* The number a bit is in is left to the arrays.
IncreaseBit == \E bit \in {0, 1}, by \in Numbers \ {Float, Other} :
              \/ Answer("incf bit", <<bit, by>>, {InBit(bit, by, LAMBDA a, b : a + b)})
              \/ Answer("decf bit", <<bit, by>>, {InBit(bit, by, LAMBDA a, b : a - b)})
Single   == \E x \in Numbers :
              \/ Answer("sin", <<x>>, {fn_sin(x)})
              \/ Answer("float", <<x>>, {fn_floatfn(x)})
              \/ Answer("random", <<x>>, fn_random(x))
              \/ x \in Integer /\ Answer("round", <<x>>, fn_round(x))
              \/ Answer("plusp", <<x>>, Test(x, LAMBDA s : s > 0))
              \/ Answer("minusp", <<x>>, Test(x, LAMBDA s : s < 0))
              \/ Answer("zerop", <<x>>, Test(x, LAMBDA s : s = 0))
              \/ Answer("oddp", <<x>>, Parity(x, 1))
              \/ Answer("evenp", <<x>>, Parity(x, 0))

Init == call = [op |-> "none", args |-> <<>>, result |-> Error]
Next == /\ call.op = "none"
        /\ \/ Add \/ Subtract \/ Multiply \/ Divide \/ Step \/ Round \/ RemMod
           \/ Power \/ Shift \/ Compare \/ Choose
           \/ Logical \/ LogBitP \/ Increase \/ IncreaseBit \/ Single
Spec == Init /\ [][Next]_call

(***************************************************************************)
(* What the calls promise.                                                  *)
(***************************************************************************)
\* Exact arithmetic: the results after each argument.
AllIntegers(args) == \A k \in DOMAIN args : args[k] \in Integer
Plain(op, a, b) == CASE op = "+" -> a + b [] op = "-" -> a - b [] op = "*" -> a * b
Exact(op, args) ==
  [k \in DOMAIN args |-> FoldLeft(LAMBDA a, b : Plain(op, a, b), args[1], SubSeq(args, 2, k))]

\* No sum, difference or product wraps around: the result is an integer exactly
\* when the arguments are and every result on the way is in the width, and then
\* it is the exact one; 1+, 1-, abs and expt likewise.
NeverWraps ==
  LET op == call.op  args == call.args  result == call.result IN
  /\ op \in {"+", "-", "*"} /\ AllIntegers(args) =>
       LET exact == IF op = "-" /\ Len(args) = 1 THEN <<-args[1]>> ELSE Exact(op, args)
       IN  result = IF AllIntegers(exact) THEN Last(exact) ELSE Float
  /\ op \in {"1+", "1-", "abs"} /\ AllIntegers(args) =>
       LET exact == CASE op = "1+" -> args[1] + 1 [] op = "1-" -> args[1] - 1 [] op = "abs" -> Abs(args[1])
       IN  result = IF exact \in Integer THEN exact ELSE Float
  /\ op \in {"incf", "decf"} /\ AllIntegers(args) =>
       LET exact == IF op = "incf" THEN args[1] + args[2] ELSE args[1] - args[2]
       IN  result = IF exact \in Integer THEN exact ELSE Float
  /\ op = "expt" /\ result # Float => result = args[1]^args[2]
  /\ op = "ash" /\ args[2] \in 0 .. Bits - 1 /\ args[1] * 2^args[2] \in Integer => result = args[1] * 2^args[2]
  /\ op = "ash" /\ args[2] \in -(Bits - 1) .. -1 => result = args[1] \div 2^(-args[2])

\* The divisions fit together: an integer quotient times the divisors is the
\* dividend, truncate and rem give the dividend back and rem has its sign, floor
\* and ceiling are the integers next to the quotient, and mod differs from the
\* dividend by a multiple of the divisor, on the side of the divisor.
DivisionLaws ==
  LET op == call.op  args == call.args  result == call.result IN
  /\ op = "/" /\ AllIntegers(args) => (result = Error <=> 0 \in ToSet(IF Len(args) = 1 THEN args ELSE Tail(args)))
  /\ op = "/" /\ AllIntegers(args) /\ Len(args) > 1 /\ result \in Integer =>
       FoldLeft(LAMBDA a, b : a * b, result, Tail(args)) = args[1]
  /\ op \in {"truncate", "floor", "ceiling", "rem", "mod"} /\ Defined(args[1], args[2]) =>
       LET num == args[1]  den == args[2]
           \* The quotient between a and b, as integers.
           n == num * Sign(den)  d == Abs(den)
       IN  CASE op = "truncate" -> Abs(result * den) <= Abs(num) /\ Abs(num - result * den) < d
             [] op = "floor"    -> result * d <= n /\ n < (result + 1) * d
             [] op = "ceiling"  -> (result - 1) * d < n /\ n <= result * d
             [] op = "rem"      -> num = Quotient(num, den) * den + result /\ Abs(result) < d
                                   /\ (result = 0 \/ Sign(result) = Sign(num))
             [] op = "mod"      -> (num - result) % d = 0 /\ Abs(result) <= d
                                   /\ (result = 0 \/ Sign(result) = Sign(den))

\* The comparisons look at neighbours only, and yet say how all arguments are
\* ordered; max and min are the greatest and the least argument.
OrdersAll ==
  LET op == call.op  args == call.args  result == call.result
      all(rel(_, _)) == \A j, k \in DOMAIN args : j < k => rel(args[j], args[k])
  IN  AllIntegers(args) =>
        CASE op = "="   -> result = Truth(all(LAMBDA a, b : a = b))
          [] op = "<"   -> result = Truth(all(LAMBDA a, b : a < b))
          [] op = "<="  -> result = Truth(all(LAMBDA a, b : a <= b))
          [] op = ">"   -> result = Truth(all(LAMBDA a, b : a > b))
          [] op = ">="  -> result = Truth(all(LAMBDA a, b : a >= b))
          [] op = "/="  -> result = Truth(all(LAMBDA a, b : a # b))
          [] op = "max" -> result = Max(ToSet(args))
          [] op = "min" -> result = Min(ToSet(args))
          [] OTHER -> TRUE

\* The bits of integers are those of their sums: what two arguments have both is
\* what is carried, and what one of them has is what stays.
BitsAreSums ==
  LET op == call.op  args == call.args  result == call.result IN
  AllIntegers(args) =>
    /\ op = "logxor" /\ Len(args) = 2 => Wrap(args[1] + args[2]) = Wrap(result + 2 * fn_logand(args))
    /\ op = "logior" /\ Len(args) = 2 => args[1] + args[2] = result + fn_logand(args)
    /\ op = "lognot" => Wrap(args[1] + result) = -1
    /\ op = "logbitp" => result = Truth(fn_logand(<<Wrap(2^args[1]), args[2]>>) # 0)

\* The four of them.
NumbersAreExact == NeverWraps /\ DivisionLaws /\ OrdersAll /\ BitsAreSums

\* "Returns the integer closest to number/divisor" (doc152) does not hold of
\* an int that has no float of its own: it is rounded to one.
RoundKeepsIntegers == call.op = "round" => call.result = call.args[1]

\* What the documentation of mod says, "Returns its first argument modulo the
\* second argument", does not hold of a multiple of a divisor of the other sign:
\* remmod gives the divisor for it, not 0.
ModIsModulo ==
  call.op = "mod" /\ call.result # Error => Abs(call.result) < Abs(call.args[2])
=============================================================================
