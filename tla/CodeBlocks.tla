----------------------------- MODULE CodeBlocks -----------------------------
(***************************************************************************)
(* Machine-code functions (defcode, src/ulisp_builtins_control.cpp): their *)
(* code lies in the array MyCode, which every defcode first compacts.      *)
(*                                                                         *)
(* The unit is a halfword, one instruction; what instructions mean is left *)
(* out: word k of the code made for c is <<c, k>>.  defcode is modelled    *)
(* one turn of its loops at a time.                                        *)
(***************************************************************************)
EXTENDS Integers, FiniteSets

CONSTANTS
  Name,          \* the global variables
  NoCode,        \* the value of one that is not a function in code
  Spare,         \* names the CODE object under construction
  CODESIZE,      \* halfwords of MyCode
  Lengths        \* instructions a body may have (bound of the model)

CodeAssumption ==
  /\ IsFiniteSet(Name) /\ Name # {} /\ NoCode \notin Name
  /\ Spare \notin Name \union {NoCode} /\ CODESIZE \in Nat /\ Lengths \subseteq Nat

VARIABLES
  MyCode,
  code,        \* the CODE objects: [start, end, length: instructions]
  GlobalEnv,   \* the CODE object in the value of a variable
  at,          \* "lisp", or where defcode is: "compact", "assemble"
  var, length, origin,
  spoilt         \* the functions a failed redefinition may have spoilt

def  == <<at, var, length, origin>>
vars == <<MyCode, code, GlobalEnv, def, spoilt>>

\* As many CODE objects as can be in use: one for each variable and the new one.
Code == Name \union {Spare}
Word == (Code \union {NoCode}) \X Nat
Blank == <<NoCode, 0>>

TypeOK ==
  /\ MyCode \in [0 .. CODESIZE - 1 -> Word]
  /\ GlobalEnv \in [Name -> Code \union {NoCode}]
  /\ code \in [Code -> [start : 0 .. CODESIZE, end : 0 .. CODESIZE, length : Nat]]
  /\ \A c \in Code : code[c].start + code[c].length <= code[c].end
  /\ at \in {"lisp", "compact", "assemble"} /\ var \in Name
  /\ origin \in 0 .. CODESIZE /\ length \in Nat
  /\ spoilt \subseteq Name

Unused == [start |-> 0, end |-> 0, length |-> 0]

\* A local that was not set yet: any name will do.
Unset == {CHOOSE n \in Name : TRUE}

Init ==
  /\ MyCode = [i \in 0 .. CODESIZE - 1 |-> Blank]
  /\ code = [c \in Code |-> Unused]
  /\ GlobalEnv = [n \in Name |-> NoCode]
  /\ at = "lisp" /\ var \in Unset /\ length = 0 /\ origin = 0 /\ spoilt = {}

-----------------------------------------------------------------------------
\* A code is a multiple of two instructions long.
Rounded(n) == n + (n % 2)

\* The functions that are kept: all but the one that is defined.
Kept == {n \in Name \ {var} : GlobalEnv[n] # NoCode}
Size(c) == code[c].end - code[c].start

\* The halfwords of the functions of some variables.
Halfwords(names) ==
  {p \in names \X (0 .. CODESIZE - 1) : GlobalEnv[p[1]] # NoCode /\ p[2] < Size(GlobalEnv[p[1]])}

\* A code that is the value of two variables counts twice.
Taken(v) == Cardinality(Halfwords(Name \ {v}))

\* The first pass and the check of the size; an error leaves all as it was.
sp_defcode(v, n) ==
  /\ at = "lisp" /\ Taken(v) + Rounded(n) <= CODESIZE
  /\ at' = "compact" /\ var' = v /\ length' = n /\ origin' = 0
  /\ spoilt' = IF spoilt \subseteq {v} THEN spoilt ELSE Name
  /\ UNCHANGED <<MyCode, code, GlobalEnv>>

\* The block of c moved down, from its first byte to its last.
Slide(c) ==
  MyCode' = [i \in DOMAIN MyCode |->
               IF i >= origin /\ i < origin + Size(c)
               THEN MyCode[code[c].start + i - origin] ELSE MyCode[i]]

\* Mutant: a block at origin itself is passed over.
Above_Strict == {n \in Kept : code[GlobalEnv[n]].start > origin
                              /\ code[GlobalEnv[n]].start < CODESIZE}

\* The blocks that begin at origin or above, and the lowest of them: of two at one
\* place, which is first in GlobalEnv.
Above == {n \in Kept : code[GlobalEnv[n]].start >= origin
                       /\ code[GlobalEnv[n]].start < CODESIZE}
Lowest == {n \in Above : \A m \in Above :
                           code[GlobalEnv[n]].start <= code[GlobalEnv[m]].start}

\* Mutant: a block that needs not move is passed by.
Compact_Lazy ==
  /\ at = "compact" /\ Above # {}
  /\ \E n \in Lowest : \E c \in {GlobalEnv[n]} :
       IF code[c].start = origin
       THEN UNCHANGED <<MyCode, code, origin>>
       ELSE /\ Slide(c) /\ origin' = origin + Size(c)
            /\ code' = [code EXCEPT ![c].start = origin, ![c].end = origin + Size(c)]
  /\ UNCHANGED <<GlobalEnv, at, var, length, spoilt>>

Compact ==
  /\ at = "compact" /\ Above # {}
  /\ \E n \in Lowest : \E c \in {GlobalEnv[n]} :
       /\ origin' = origin + Size(c)
       /\ IF code[c].start = origin
          THEN UNCHANGED <<MyCode, code>>
          ELSE /\ Slide(c)
               /\ code' = [code EXCEPT ![c].start = origin, ![c].end = origin + Size(c)]
  /\ UNCHANGED <<GlobalEnv, at, var, length, spoilt>>

Compacted ==
  /\ at = "compact" /\ Above = {} /\ at' = "assemble"
  /\ UNCHANGED <<MyCode, code, GlobalEnv, var, length, origin, spoilt>>

Fresh == CHOOSE c \in Code : \A n \in Name : GlobalEnv[n] # c

Done == at' = "lisp" /\ length' = 0 /\ origin' = 0 /\ var' = var

\* The second pass up to its k-th instruction.
putcode(k) ==
  [i \in DOMAIN MyCode |-> IF i >= origin /\ i < origin + k
                           THEN <<Fresh, i - origin>> ELSE MyCode[i]]

\* A CODE object that is no value of env is garbage, and one dead word is like another.
Dispose(env, objects, bytes) ==
  LET used == {env[n] : n \in Name} IN
  /\ GlobalEnv' = env
  /\ code' = [c \in Code |-> IF c \in used THEN objects[c] ELSE Unused]
  /\ MyCode' = [i \in DOMAIN MyCode |->
                  IF bytes[i][1] \in used THEN bytes[i] ELSE Blank]

\* An error in a form: a label too far away is found only now.  The old function
\* was not kept, unless another variable has it too; and the next compaction takes
\* what is left of it for a block.
SecondPassFails(k) ==
  /\ at = "assemble" /\ Done
  /\ spoilt' = spoilt \union IF GlobalEnv[var] \in {GlobalEnv[n] : n \in Kept} \union {NoCode}
                         THEN {} ELSE {var}
  /\ Dispose(GlobalEnv, code, putcode(k))

Defined ==
  /\ at = "assemble" /\ Done /\ spoilt' = spoilt \ {var}
  /\ Dispose([GlobalEnv EXCEPT ![var] = Fresh],
             [code EXCEPT ![Fresh] = [start |-> origin, end |-> origin + Rounded(length),
                                      length |-> length]],
             putcode(length))

\* (defvar m n), and m given another value or none.
Alias(m, n) ==
  /\ at = "lisp" /\ Dispose([GlobalEnv EXCEPT ![m] = GlobalEnv[n]], code, MyCode)
  /\ spoilt' = IF n \in spoilt THEN spoilt \union {m} ELSE spoilt \ {m}
  /\ UNCHANGED def

Forget(m) ==
  /\ at = "lisp" /\ Dispose([GlobalEnv EXCEPT ![m] = NoCode], code, MyCode)
  /\ spoilt' = spoilt \ {m} /\ UNCHANGED def

Next ==
  \/ \E v \in Name, n \in Lengths : sp_defcode(v, n)
  \/ Compact \/ Compacted \/ Defined
  \/ \E k \in 0 .. length - 1 : SecondPassFails(k)
  \/ \E m, n \in Name : Alias(m, n)
  \/ \E m \in Name : Forget(m)

Spec == Init /\ [][Next]_vars
FairSpec == Spec /\ WF_vars(Compact \/ Compacted)

-----------------------------------------------------------------------------
(* Properties.                                                             *)

Holds(c) == \A k \in 0 .. code[c].length - 1 : MyCode[code[c].start + k] = <<c, k>>

\* The functions that can be called, or that defcode is to keep.
Live == {n \in Name \ spoilt : GlobalEnv[n] # NoCode /\ (at = "lisp" \/ n # var)}

\* What a call of a machine-code function runs is the code made for it, however
\* many functions were defined, redefined, copied and dropped since.
CodeIntact == \A n \in Live : Holds(GlobalEnv[n])

\* The documentation makes no exception for functions that a failed redefinition left.
RunsItsCode ==
  at = "lisp" => \A n \in Name : GlobalEnv[n] # NoCode => Holds(GlobalEnv[n])

\* After the check of the size in the first pass, the second pass has the room.
RoomLeft == at = "assemble" => origin + Rounded(length) <= CODESIZE

\* Every compaction ends.  (Not so with a function of no instructions.)
CompactionEnds == (at = "compact") ~> (at # "compact")

-----------------------------------------------------------------------------
(* Why CodeIntact holds: an invariant of every step.                       *)

Block(c) == code[c].start .. code[c].end - 1

\* A compaction of blocks that may lie over each other spoils them all.
SpoiltTogether == at # "lisp" => spoilt \subseteq {var} \/ spoilt = Name

\* The blocks lie apart, and while they are compacted none lies across origin.
Apart ==
  \A m, n \in Live : GlobalEnv[m] # GlobalEnv[n]
                        => Block(GlobalEnv[m]) \intersect Block(GlobalEnv[n]) = {}
NoneAcross ==
  at # "lisp" => \A n \in Live : code[GlobalEnv[n]].start < origin
                                    => code[GlobalEnv[n]].end <= origin

\* What is compacted and what is left to do is no more than was counted.
CountedRoom ==
  /\ at = "compact" => origin + Cardinality(Halfwords(Above)) <= Taken(var)
  /\ at = "assemble" => Above = {} /\ origin <= Taken(var)
  /\ at # "lisp" => Taken(var) + Rounded(length) <= CODESIZE

IInv == TypeOK /\ SpoiltTogether /\ Apart /\ NoneAcross /\ CountedRoom /\ CodeIntact
=============================================================================
