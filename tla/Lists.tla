-------------------------------- MODULE Lists --------------------------------
(* The list functions (ulisp_builtins_core.cpp and the mapping functions of    *)
(* ulisp_runtime_env.cpp) on cells that lists share.  A mapping function walks *)
(* its arguments by changing the list they are in, which is the program's own *)
(* when it was called with apply; mapcan and mapcon link what the mapped        *)
(* function returns.                                                         *)
EXTENDS Naturals, Sequences, SequencesExt

CONSTANTS
  Atom,     \* objects that are no lists
  Nil,      \* the empty list
  Error,    \* the call ends in an error
  MaxOps,   \* bounds: the most calls of the program,
  MaxTurns  \* and of a mapped function in one of them

ListsAssumption == MaxOps \in Nat /\ MaxTurns \in Nat /\ Nil \notin Atom

Mapping == {"mapc", "mapl", "mapcar", "maplist", "mapcan", "mapcon"}

VARIABLES
  heap,   \* the car and the cdr of each cell, the cells numbered from 1
  held,   \* the lists the program has, the newest last
  shown,  \* what each of them was when the program was given it
  lent,   \* the cells of lists that apply gave to a mapping function
  ops,    \* the calls so far
  call    \* the mapping function under way, or what the last call was

A == CHOOSE a \in Atom : TRUE
B == CHOOSE b \in Atom : b # A

(***************************************************************************)
(* Lists as they lie in the cells.                                          *)
(***************************************************************************)
Cell     == DOMAIN heap.car
consp(x) == x \notin Atom \cup {Nil, Error}
listp(x) == consp(x) \/ x = Nil

\* The cells of a list; of one that is circular, one more than there are.
Chain(h, list) ==
  FoldLeft(LAMBDA cells, k :
             LET next == IF cells = <<>> THEN list ELSE h.cdr[Last(cells)]
             IN  IF Len(cells) = k - 1 /\ consp(next) THEN Append(cells, next) ELSE cells,
           <<>>, [k \in 1 .. Len(h.car) + 1 |-> k])

Items(h, list) == LET cells == Chain(h, list) IN [k \in DOMAIN cells |-> h.car[cells[k]]]
End(h, list)   == IF consp(list) THEN h.cdr[Last(Chain(h, list))] ELSE list
Term(h, list)  == [items |-> Items(h, list), end |-> End(h, list)]
Shares(h, a, b) == ToSet(Chain(h, a)) \cap ToSet(Chain(h, b)) # {}

\* New cells for the items, before end.
Build(h, items, end) ==
  LET n == Len(h.car)  k == Len(items)
  IN  [heap |-> [car |-> h.car \o items,
                 cdr |-> h.cdr \o [j \in 1 .. k |-> IF j = k THEN end ELSE n + j + 1]],
       list |-> IF k = 0 THEN end ELSE n + 1]
Made(h, x) == [heap |-> h, list |-> x]

(***************************************************************************)
(* The functions that take all their arguments at once.                     *)
(***************************************************************************)
fn_append_Shares(h, args) ==
  IF args # <<>> /\ Last(args) # Nil /\ listp(Last(args)) /\ \A k \in DOMAIN args : args[k] = Nil \/ k = Len(args)
  THEN Made(h, Last(args))
  ELSE IF \E k \in DOMAIN args : ~listp(args[k]) \/ (k < Len(args) /\ End(h, args[k]) # Nil) THEN Made(h, Error)
  ELSE Build(h, FlattenSeq([k \in DOMAIN args |-> Items(h, args[k])]),
             IF args = <<>> THEN Nil ELSE End(h, Last(args)))

\* Every argument is copied, the last one too, but for an end that is no list.
fn_append(h, args) ==
  IF \E k \in DOMAIN args : ~listp(args[k]) \/ (k < Len(args) /\ End(h, args[k]) # Nil)
  THEN Made(h, Error)
  ELSE Build(h, FlattenSeq([k \in DOMAIN args |-> Items(h, args[k])]),
             IF args = <<>> THEN Nil ELSE End(h, Last(args)))

fn_reverse(h, args) ==
  IF End(h, args[1]) # Nil THEN Made(h, Error) ELSE Build(h, Reverse(Items(h, args[1])), Nil)

fn_copylist(h, args) ==
  IF ~listp(args[1]) THEN Made(h, Error) ELSE Build(h, Items(h, args[1]), End(h, args[1]))

\* nth and member are done when they have found what they look for; an end that
\* is no list is an error only when they come to it.
fn_nth(h, args, n) ==
  Made(h, IF n < Len(Items(h, args[1])) THEN Items(h, args[1])[n + 1]
          ELSE IF End(h, args[1]) # Nil THEN Error ELSE Nil)

fn_member(h, args, item) ==
  LET k == SelectInSeq(Items(h, args[1]), LAMBDA x : x = item)
  IN  Made(h, IF k > 0 THEN Chain(h, args[1])[k] ELSE IF End(h, args[1]) # Nil THEN Error ELSE Nil)

\* The elements before the one that is found must be lists, and an empty one is
\* passed over.
fn_assoc(h, args, key) ==
  LET items == Items(h, args[1])
      k == SelectInSeq(items, LAMBDA x : ~listp(x) \/ (x # Nil /\ h.car[x] = key))
  IN  Made(h, IF k > 0 THEN IF listp(items[k]) THEN items[k] ELSE Error
              ELSE IF End(h, args[1]) # Nil THEN Error ELSE Nil)

\* car and cdr of anything but a list is an error, and nil has both.
carx(h, x) == IF consp(x) THEN h.car[x] ELSE IF x = Nil THEN Nil ELSE Error
cdrx(h, x) == IF consp(x) THEN h.cdr[x] ELSE IF x = Nil THEN Nil ELSE Error

\* From the lowest bit on, up to the highest one: 0 is a car and 1 a cdr.
cxxxr(h, x, pattern) ==
  LET bits == IF pattern < 8 THEN 2 ELSE 3
  IN  FoldLeft(LAMBDA y, k : IF (pattern \div 2^k) % 2 = 0 THEN carx(h, y) ELSE cdrx(h, y),
               x, [k \in 1 .. bits |-> k - 1])

\* The names without the c and the r.
Pattern ==
  <<[name |-> <<"a", "a">>, bits |-> 4],       [name |-> <<"a", "d">>, bits |-> 5],
    [name |-> <<"d", "a">>, bits |-> 6],       [name |-> <<"d", "d">>, bits |-> 7],
    [name |-> <<"a", "a", "a">>, bits |-> 8],  [name |-> <<"a", "a", "d">>, bits |-> 9],
    [name |-> <<"a", "d", "a">>, bits |-> 10], [name |-> <<"a", "d", "d">>, bits |-> 11],
    [name |-> <<"d", "a", "a">>, bits |-> 12], [name |-> <<"d", "a", "d">>, bits |-> 13],
    [name |-> <<"d", "d", "a">>, bits |-> 14], [name |-> <<"d", "d", "d">>, bits |-> 15]>>

(***************************************************************************)
(* Calls.  The arguments of a call are in a list of their own; apply puts    *)
(* its last argument, a list, after the others as it is.                     *)
(***************************************************************************)
Values == ToSet(held)
Idle   == call.name \notin Mapping \cup {"hangs"}

Gives(h, list) ==
  IF list = Error THEN UNCHANGED <<held, shown>>
  ELSE held' = Append(held, list) /\ shown' = Append(shown, Term(h, list))

Answer(name, args, done) ==
  /\ Idle /\ ops < MaxOps /\ ops' = ops + 1
  /\ call' = [name |-> name, args |-> args, result |-> done.list]
  /\ heap' = done.heap /\ Gives(done.heap, done.list)
  /\ UNCHANGED lent

Append_  == \E args \in SeqOf(Values, 2) : Answer("append", args, fn_append(heap, args))
Reverse_ == \E x \in Values : Answer("reverse", <<x>>, fn_reverse(heap, <<x>>))
CopyList == \E x \in Values : Answer("copy-list", <<x>>, fn_copylist(heap, <<x>>))
Nth      == \E x \in Values, n \in 0 .. 2 : Answer("nth", <<n, x>>, fn_nth(heap, <<x>>, n))
Member   == \E x \in Values, item \in Atom : Answer("member", <<item, x>>, fn_member(heap, <<x>>, item))
Assoc    == \E x \in Values, key \in Atom : Answer("assoc", <<key, x>>, fn_assoc(heap, <<x>>, key))
Cxr      == \E x \in Values, p \in ToSet(Pattern) :
              Answer("cxr", <<p.bits, x>>, Made(heap, cxxxr(heap, x, p.bits)))

\* A list of the arguments, and whether apply made it.
Given(args) == {<<FALSE, Build(heap, args, Nil)>>}
          \cup (IF End(heap, Last(args)) = Nil THEN {<<TRUE, Build(heap, Front(args), Last(args))>>} ELSE {})

\* list returns its arguments as they are.
fn_list(given) == given
List == \E args \in SeqOf(Values, 2) \ {<<>>} : \E given \in Given(args) : Answer("list", args, fn_list(given[2]))

(***************************************************************************)
(* The mapping functions.                                                   *)
(***************************************************************************)
Begin ==
  /\ Idle /\ ops < MaxOps /\ ops' = ops + 1
  /\ \E name \in Mapping, args \in SeqOf(Values, 2) \ {<<>>} : \E given \in Given(args) :
       LET h == given[2].heap  lists == Items(h, given[2].list) IN
       /\ lists # <<>>
       /\ heap' = h
       /\ call' = [name |-> name, lists |-> given[2].list, first |-> lists[1],
                   head |-> Nil, tail |-> Nil, turns |-> 0, took |-> <<>>, got |-> <<>>,
                   terms |-> [k \in DOMAIN lists |-> Term(h, lists[k])],
                   tangled |-> given[1] /\ \E x \in ToSet(lists) : Shares(h, x, Last(args))]
       /\ lent' = IF given[1] THEN lent \cup ToSet(Chain(h, Last(args))) ELSE lent
  /\ UNCHANGED <<held, shown>>

\* An item of each list, and the list is put back without it, one after the other.
Take(h, lists, whole) ==
  FoldLeft(LAMBDA acc, cell :
             LET list == acc.heap.car[cell] IN
             IF acc.kind # "items" THEN acc
             ELSE IF list = Nil THEN [acc EXCEPT !.kind = "end"]
             ELSE IF ~consp(list) THEN [acc EXCEPT !.kind = "error"]
             ELSE [acc EXCEPT !.items = Append(@, IF whole THEN list ELSE acc.heap.car[list]),
                              !.heap.car[cell] = acc.heap.cdr[list]],
           [kind |-> "items", items |-> <<>>, heap |-> h], Chain(h, lists))
Taken == Take(heap, call.lists, call.name \in {"mapl", "maplist", "mapcon"})

\* Anything may be returned: what the program has, or something new.
Returned(h) == {Made(h, x) : x \in Values} \cup {Made(h, Nil)}
          \cup {Build(h, <<A>>, end) : end \in {Nil, B}}

Linked(h, list) == IF call.tail = Nil THEN h ELSE [h EXCEPT !.cdr[call.tail] = list]
Goes(h, head, tail, done) ==
  /\ heap' = h
  /\ call' = [call EXCEPT !.head = IF @ = Nil THEN head ELSE @, !.tail = tail, !.turns = @ + 1,
                          !.took = Taken.items, !.got = @ \o done,
                          !.tangled = @ \/ \E k \in DOMAIN held : call.tail \in ToSet(Chain(heap, held[k]))]
Ends(name) == call' = [name |-> name] /\ UNCHANGED <<held, shown>>

mapcarfun(r) ==
  LET cell == Build(r.heap, <<r.list>>, Nil)
  IN  Goes(Linked(cell.heap, cell.list), cell.list, cell.list, <<r.list>>) /\ UNCHANGED shown

\* The end of what there is must be nil, and is linked to the result, which is
\* gone through to its end: for ever if that is where it is linked to.
mapcanfun(r) ==
  IF call.tail # Nil /\ r.heap.cdr[call.tail] # Nil THEN Ends("error") /\ heap' = r.heap
  ELSE IF ~consp(r.list) THEN Goes(r.heap, Nil, call.tail, <<>>) /\ UNCHANGED shown
  ELSE IF call.tail \in ToSet(Chain(r.heap, r.list)) THEN Ends("hangs") /\ heap' = r.heap
  ELSE /\ Goes(Linked(r.heap, r.list), r.list, Last(Chain(r.heap, r.list)), Items(r.heap, r.list))
       /\ shown' = [k \in DOMAIN held |->
            IF call.tail \in ToSet(Chain(heap, held[k])) THEN Term(heap', held[k]) ELSE shown[k]]

Turn ==
  /\ call.name \in Mapping /\ call.turns < MaxTurns /\ Taken.kind = "items"
  /\ \E r \in Returned(Taken.heap) :
       CASE call.name \in {"mapc", "mapl"}       -> Goes(r.heap, Nil, Nil, <<>>) /\ UNCHANGED shown
         [] call.name \in {"mapcar", "maplist"} -> mapcarfun(r)
         [] call.name \in {"mapcan", "mapcon"}  -> mapcanfun(r)
  /\ UNCHANGED <<held, lent, ops>>

Return ==
  /\ call.name \in Mapping /\ Taken.kind # "items"
  /\ heap' = Taken.heap
  /\ IF Taken.kind = "error" THEN Ends("error")
     ELSE \E result \in {IF call.name \in {"mapc", "mapl"} THEN call.first ELSE call.head} :
            /\ call' = [name |-> "mapped", result |-> result, made |-> call]
            /\ Gives(heap', result)
  /\ UNCHANGED <<lent, ops>>

\* The program has (a b), another list that may share cells with it or end in an
\* atom, and a list of the first.
Init ==
  /\ \E second \in {Nil, 2, A} :
       heap = [car |-> <<A, B, B, 1>>, cdr |-> <<2, Nil, second, Nil>>]
  /\ held = <<1, 3, 4>> /\ shown = [k \in 1 .. 3 |-> Term(heap, held[k])]
  /\ lent = {} /\ ops = 0 /\ call = [name |-> "none"]

Next ==
  \/ Append_ \/ Reverse_ \/ CopyList \/ Nth \/ Member \/ Assoc \/ Cxr \/ List
  \/ Begin \/ Turn \/ Return
vars == <<heap, held, shown, lent, ops, call>>
Spec == Init /\ [][Next]_vars

(***************************************************************************)
(* What the functions promise.                                              *)
(***************************************************************************)
\* No function changes a list that the program has: but mapcan and mapcon the
\* end of a result, as documented, and the mapping functions the list that apply
\* gave them, which is not.
ListsKept ==
  \A k \in DOMAIN held : ToSet(Chain(heap, held[k])) \cap lent = {} => Term(heap, held[k]) = shown[k]

\* What is made is new: changing it later changes no argument.
Fresh == call.name \in {"append", "reverse", "copy-list"} =>
           \A k \in DOMAIN call.args : ~Shares(heap, call.args[k], call.result)

\* A mapped function is given each item of the lists, as they were when the call
\* began, in order, and as often as the shortest list has items; the list that is
\* returned is that of its results, or of their items.
MapsEach ==
  /\ call.name \in Mapping /\ ~call.tangled /\ call.turns > 0 =>
       \A k \in DOMAIN call.terms :
         IF call.name \in {"mapl", "maplist", "mapcon"}
         THEN Items(heap, call.took[k]) = SubSeq(call.terms[k].items, call.turns, Len(call.terms[k].items))
         ELSE call.took[k] = call.terms[k].items[call.turns]
  /\ call.name = "mapped" =>
       LET made == call.made IN
       /\ ~made.tangled => \E k \in DOMAIN made.terms : made.turns = Len(made.terms[k].items)
       /\ made.name \notin {"mapc", "mapl"} /\ ToSet(Chain(heap, call.result)) \cap lent = {} => Items(heap, call.result) = made.got

\* The letters of caddr and the others say what is taken, the last one first.
CxrReads == call.name = "cxr" =>
  \A p \in ToSet(Pattern) : p.bits = call.args[1] =>
    call.result = FoldRight(LAMBDA letter, x : IF letter = "a" THEN carx(heap, x) ELSE cdrx(heap, x),
                            p.name, call.args[2])

ListsHold == ListsKept /\ Fresh /\ MapsEach /\ CxrReads

\* What does not hold.  (apply 'mapcar f x) leaves x with what is left of the
\* lists in it.
ApplyKeepsList == \A k \in DOMAIN held : Term(heap, held[k]) = shown[k]

\* mapcan never comes back from a function that returns a list again.
MappingReturns == call.name # "hangs"
=============================================================================
