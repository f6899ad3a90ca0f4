------------------------------- MODULE Arrays -------------------------------
(* Arrays (runtime_data.cpp, fn_makearray and fn_aref): the elements are the   *)
(* leaves of a tree of pairs as deep as the size, rounded up to a power of 2,  *)
(* asks for; the bits of an index choose the branches.  A bit array keeps the *)
(* bits of an int in each leaf.  The list of dimensions that make-array is     *)
(* given becomes the array's own, and is still the program's, as is what       *)
(* array-dimensions gives: another array made of it, of bits, changes it.      *)
EXTENDS Integers, Sequences, FiniteSetsExt, SequencesExt

CONSTANTS
  Value,    \* the values of elements, two of them 0 and 1
  IntBits,  \* the width of an int: 32 in the builds
  MaxSize,  \* bounds: the most elements, and the longest dimension,
  MaxRank,  \* the most dimensions,
  MaxRead,  \* and the longest list an array is read from
  Nil       \* the empty list

ArrayAssumption ==
  /\ {0, 1} \subseteq Value /\ MaxSize \in Nat \ {0} /\ MaxRead \in Nat /\ MaxRank \in Nat \ {0}
  /\ \E k \in 1 .. IntBits : IntBits = 2^k

VARIABLES
  array,    \* what the object is made of: its dimensions and its tree
  content,  \* the elements: the array as the program thinks of it
  dimlist   \* the list of its dimensions: "own"; "shared" with the program; "refused",
            \*  the same after an error when it was given to make-array; or "spoilt",
            \*  made that of a bit array, which this one is not

dimensions == array[1]  \* the lengths; the first is negative in a bit array
tree       == array[2]  \* the pairs and leaves

Pair(a, b) == [car |-> a, cdr |-> b]

\* The least power of 2 that is not less, and at least 2.
nextpower2(n) == Min({2^k : k \in {j \in 1 .. Max({n, 1}) : 2^j >= n}})

\* The tree of n leaves for s, a power of 2.
buildarray(n, s, def) ==
  LET build[k \in {2^j : j \in {i \in 1 .. s : 2^i <= s}}] ==
        [m \in 0 .. k |->
          LET half == k \div 2 IN
          IF half = 1 THEN CASE m = 2 -> Pair(def, def)
                             [] m = 1 -> Pair(def, Nil)
                             [] m = 0 -> Nil
          ELSE IF m >= half THEN Pair(build[half][half], build[half][m - half])
          ELSE Pair(build[half][m], Nil)]
  IN  build[s][n]

Abs(n) == IF n < 0 THEN -n ELSE n
Product(dims) == FoldLeft(LAMBDA acc, d : acc * Abs(d), 1, dims)
IsBit(dims)  == dims[1] < 0
\* The number of leaves.
Leaves(size, bitp) == IF bitp THEN (size + IntBits - 1) \div IntBits ELSE size
Size(dims)   == Leaves(Product(dims), IsBit(dims))

makearray(dims, def, bitp) ==
  LET size == Leaves(Product(dims), bitp)
  IN  IF size = 0 THEN Nil ELSE buildarray(size, nextpower2(size), def)

\* The way to a leaf: a branch for each bit of the index, from the highest.
Path(index, size) ==
  LET masks == Reverse(SetToSortSeq({2^k : k \in {j \in 0 .. size : 2^j < nextpower2(size)}}, <))
  IN  [m \in DOMAIN masks |-> IF (index \div masks[m]) % 2 = 0 THEN "car" ELSE "cdr"]

arrayref(node, index, size) ==
  FoldLeft(LAMBDA p, branch : p[branch], node, Path(index, size))

\* The tree with another leaf.
Put(node, index, size, value) ==
  LET path == Path(index, size)
      down == [k \in DOMAIN path |-> FoldLeft(LAMBDA p, b : p[b], node, SubSeq(path, 1, k - 1))]
  IN  FoldLeft(LAMBDA below, k : [down[k] EXCEPT ![path[k]] = below],
               value, Reverse([k \in DOMAIN path |-> k]))

(***************************************************************************)
(* Subscripts.                                                              *)
(***************************************************************************)
InRange(dims, subs) ==
  Len(subs) = Len(dims) /\ \A k \in DOMAIN subs : 0 <= subs[k] /\ subs[k] < Abs(dims[k])

\* The place of an element in the order of the rows.
RowMajor(dims, subs) ==
  FoldLeft(LAMBDA index, k : index * Abs(dims[k]) + subs[k], 0, [k \in DOMAIN dims |-> k])

\* Bits of an int, as 0 or 1; an int of all ones is -1.
Bit(int, bit) == (int \div 2^bit) % 2
WithBit_Ors(int, bit, b) == IF b = Bit(int, bit) \/ b = 0 THEN int ELSE int + 2^bit
WithBit(int, bit, b) ==
  LET bits == (int + (b - Bit(int, bit)) * 2^bit) % 2^IntBits
  IN  IF bits < 2^(IntBits - 1) THEN bits ELSE bits - 2^IntBits

aref(node, dims, subs) ==
  LET index == RowMajor(dims, subs)
  IN  IF IsBit(dims) THEN Bit(arrayref(node, index \div IntBits, Size(dims)), index % IntBits)
      ELSE arrayref(node, index, Size(dims))

Stored(node, dims, subs, value) ==
  LET index == RowMajor(dims, subs)  leaf == index \div IntBits
  IN  IF IsBit(dims)
      THEN Put(node, leaf, Size(dims),
               WithBit(arrayref(node, leaf, Size(dims)), index % IntBits, value))
      ELSE Put(node, index, Size(dims), value)

(***************************************************************************)
(* Lists of lists: reading fills the array in the order of the rows and     *)
(* printing walks it in that order.                                          *)
(***************************************************************************)
Subscripts(dims) == {subs \in [DOMAIN dims -> 0 .. MaxSize] : InRange(dims, subs)}
At(list, subs) == FoldLeft(LAMBDA l, s : l[s + 1], list, subs)

\* readarray goes by the first list of each level to know the lengths,
Lengths(list, d) ==
  [k \in 1 .. d |->
     Len(FoldLeft(LAMBDA l, j : IF l = <<>> THEN l ELSE l[1], list, [j \in 1 .. k - 1 |-> j]))]

\* and rslice refuses a list that is too short; what is too long goes unseen.
Enough(list, dims) ==
  \A subs \in Subscripts(dims) : \A k \in DOMAIN dims :
    subs[k] < Len(At(list, SubSeq(subs, 1, k - 1)))

Filled(node, dims, element(_)) ==
  FoldSet(LAMBDA subs, n : Stored(n, dims, subs, element(subs)), node, Subscripts(dims))

pslice(node, dims) ==
  LET from[k \in DOMAIN dims] ==
        [slice \in 0 .. MaxSize^MaxRank |->
          [i \in 1 .. Abs(dims[k]) |->
            LET index == slice * Abs(dims[k]) + i - 1
            IN  IF k < Len(dims) THEN from[k + 1][index]
                ELSE IF IsBit(dims)
                THEN Bit(arrayref(node, index \div IntBits, Size(dims)), index % IntBits)
                ELSE arrayref(node, index, Size(dims))]]
  IN  from[1][0]

(***************************************************************************)
(* An array is made or read, and then changed.                              *)
(***************************************************************************)
None == <<>>
Init == array = <<None, Nil>> /\ content = None /\ dimlist = "own"

\* Done to the cell of the list, for all who have it.
Negated(dims) == [dims EXCEPT ![1] = -@]

MakeArray == \E dims \in SeqOf(0 .. MaxSize, MaxRank) \ {<<>>}, def \in Value, bitp \in BOOLEAN :
  /\ dimensions = None
  /\ Product(dims) <= MaxSize
  /\ bitp => def \in {0, 1}
  /\ array' = <<IF bitp THEN Negated(dims) ELSE dims, makearray(dims, IF bitp THEN -def ELSE def, bitp)>>
  /\ content' = [subs \in Subscripts(dims) |-> def]
  /\ dimlist' = "shared"

\* make-array of the same list again, which the program passed or has of array-dimensions
\* (a bit array's it has with another first): refused if the first is negative by now,
\* which it is made if this array is of bits, under the one that has it.  What that one
\* is read or changed to, leaves taken for bits, is not modelled.
MakeAgain == \E bitp \in BOOLEAN :
  /\ dimlist \in {"shared", "refused"}
  /\ IF IsBit(dimensions) THEN dimlist' = "refused" /\ UNCHANGED array
     ELSE LET dims == IF bitp THEN Negated(dimensions) ELSE dimensions
          IN array' = <<dims, tree>> /\ dimlist' = IF IsBit(dims) THEN "spoilt" ELSE "shared"
  /\ UNCHANGED content

ReadArray == \E d \in 1 .. 2 :
  \E items \in IF d = 1 THEN SeqOf(Value, MaxRead) ELSE SeqOf(SeqOf(Value, MaxRead), MaxRead) :
    LET dims == Lengths(items, d) IN
    /\ dimensions = None
    /\ Product(dims) <= MaxSize
    /\ Enough(items, dims)
    /\ array' = <<dims, Filled(makearray(dims, Nil, FALSE), dims, LAMBDA subs : At(items, subs))>>
    /\ content' = [subs \in Subscripts(dims) |-> At(items, subs)]
    /\ dimlist' = "shared"

\* From the bits, which end before a space or a bracket.  That it is given back, space
\* or not, is in Reader, and so is a character that is no bit.
ReadBitArray == \E bits \in SeqOf({0, 1}, MaxSize) :
  LET dims == <<-Len(bits)>> IN
  /\ dimensions = None
  /\ array' = <<dims, Filled(makearray(dims, 0, TRUE), dims, LAMBDA subs : At(bits, subs))>>
  /\ content' = [subs \in Subscripts(dims) |-> At(bits, subs)]
  /\ dimlist' = "own"

\* (setf (aref array subs) value); nothing changes where that is an error.
SetElement == \E subs \in SeqOf(0 .. MaxSize, MaxRank), value \in Value :
  /\ dimensions # None /\ dimlist # "spoilt"
  /\ InRange(dimensions, subs)
  /\ IsBit(dimensions) => value \in {0, 1}
  /\ array' = <<dimensions, Stored(tree, dimensions, subs, value)>>
  /\ content' = [content EXCEPT ![subs] = value]
  /\ dimlist' = IF dimlist = "refused" THEN "shared" ELSE dimlist

Next == MakeArray \/ MakeAgain \/ ReadArray \/ ReadBitArray \/ SetElement
Spec == Init /\ [][Next]_<<array, content, dimlist>>

(***************************************************************************)
(* What an array promises.                                                  *)
(***************************************************************************)
\* Each element has a place of its own, whatever the rank and whether elements
\* are bits: an element is what was last stored there, and storing elsewhere
\* does not touch it, nor does making other arrays of the same list, none of bits.
KeepsElements == dimensions # None /\ dimlist # "spoilt" =>
  \A subs \in Subscripts(dimensions) : aref(tree, dimensions, subs) = content[subs]

\* An array prints as lists that it can be read from: they have its lengths,
\* but for those after a length of 0, and its elements.
ReadsBack == dimensions # None /\ dimlist # "spoilt" =>
  LET printed == pslice(tree, dimensions)
      lengths == Lengths(printed, Len(dimensions))
      seen == {k \in DOMAIN dimensions : \A j \in 1 .. k - 1 : dimensions[j] # 0}
  IN  /\ \A k \in seen : lengths[k] = Abs(dimensions[k])
      /\ \A subs \in Subscripts(dimensions) : At(printed, subs) = content[subs]

ArraysAreTables == KeepsElements /\ ReadsBack

\* A list of dimensions makes any number of arrays and stays as it is.  It does not
\* hold: an array of bits negates the first, so that the next make-array of the list is
\* refused, and an array that was made of it before is taken to be of bits.
ListIsKept == dimlist \notin {"refused", "spoilt"}
=============================================================================
