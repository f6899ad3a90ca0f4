----------------------------- MODULE Evaluator -----------------------------
(***************************************************************************)
(* The evaluator as the collector sees it: eval, closures, the special     *)
(* forms and the error handlers, with the C activations between them       *)
(* (src/ulisp_eval.cpp, ulisp_runtime_env.cpp, ulisp_builtins_control.cpp, *)
(* ulisp_builtins_system.cpp).                                             *)
(*                                                                         *)
(* A collection can take place at every entry of eval.  It keeps what the  *)
(* GCStack, the global variables, and the form and environment of that one *)
(* eval reach; the locals of the C functions further up the stack are not  *)
(* roots.  The question of this module is whether what they hold survives. *)
(*                                                                         *)
(* The heap has the cells the evaluator makes at run time; the program     *)
(* text is not in it: GlobalEnv and the GCStack keep it.  A value is nil,  *)
(* a cell, or a symbol, and a number is a cell with NUMBER in its car.  A form is a record whose op says what it is, with *)
(* the number of arguments the code demands: argument counts are not       *)
(* checked here except those of a function call.                           *)
(***************************************************************************)
EXTENDS Integers, Sequences, FiniteSets, Functions, SequencesExt, TLC

CONSTANTS
  CellCount,   \* cells for run-time objects: more than any program needs at once
  Programs,    \* what may be typed: a set of sequences of forms, one per line
  MaxCollections, \* how often Freespace runs low in one session
  Defs         \* the text of each lambda: [params, body] by the symbol naming it

ASSUME CellCount \in Nat \ {0}

Nil   == 0
Cells == 1 .. CellCount

\* Symbols are negative: the builtin ones here, those of a program below -20,
\* those that name a lambda in Defs below -50.  The digits of numbers are below -69.
tee     == -1
CONS    == -2
CAR     == -3
CDR     == -4
LIST    == -5
RETURN  == -6
GC      == -7
FUNCALL == -8
MAPCAR  == -9
CLOSURE == -10
NOTHING == -11
NUMBER  == -12
Functional == {CONS, CAR, CDR, LIST, RETURN}
builtinp(s) == s \in CLOSURE .. tee

VARIABLES
  heap,            \* the cells in use: [car, cdr] by address
  GlobalEnv,       \* the global variables: value by symbol
  GCStack,         \* the objects protected, the last first
  cstack,          \* the C activations that wait for an eval, the innermost first
  at,              \* "idle", "eval", "ret" or "error"
  form, env, TC,   \* of the current eval
  val,             \* what it returns
  RETURNFLAG,
  lines,           \* the lines not read yet: [form, value], value as expected
  printed,         \* what was printed: [got, want]
  collections      \* how often Freespace ran low

control == <<cstack, at, form, env, TC, val>>
world   == <<lines, printed, collections>>
vars == <<heap, GlobalEnv, GCStack, control, RETURNFLAG, world>>

-----------------------------------------------------------------------------
(* The heap.  A swept cell reads as myfree leaves it.                      *)

Car(h, c) == IF c \in DOMAIN h THEN h[c].car ELSE Nil
Cdr(h, c) == IF c \in DOMAIN h THEN h[c].cdr ELSE Nil
SetCar(h, c, v) == IF c \in DOMAIN h THEN [h EXCEPT ![c].car = v] ELSE h
SetCdr(h, c, v) == IF c \in DOMAIN h THEN [h EXCEPT ![c].cdr = v] ELSE h

\* The cell the next cons on h returns, and h with it.
New(h) == CHOOSE c \in Cells \ DOMAIN h : \A d \in Cells \ DOMAIN h : c <= d
cons(h, a, d) == (New(h) :> [car |-> a, cdr |-> d]) @@ h

\* push(cons(s, v), e)
Bind(h, s, v, e) ==
  LET h1 == cons(h, s, v)
      h2 == cons(h1, New(h), e)
  IN  [h |-> h2, e |-> New(h1)]

consp(h, v) == v \in Cells /\ Car(h, v) # NUMBER
listp(h, v) == v = Nil \/ consp(h, v)

\* A number of the program text is its digits, which no symbol is.
Digits(i)      == -70 - i
number(h, i)   == cons(h, NUMBER, Digits(i))
integerp(h, v) == v \in -99 .. -70 \/ (v \in Cells /\ Car(h, v) = NUMBER)
integer(h, v)  == -70 - (IF v \in Cells THEN Cdr(h, v) ELSE v)

\* Numbers are eq when they are equal, other objects when they are the same.
eq(h, v, w) == v = w \/ (integerp(h, v) /\ integerp(h, w) /\ integer(h, v) = integer(h, w))

\* The pair of the innermost binding of n in e, Nil if there is none.
RECURSIVE value(_, _, _)
value(h, n, e) ==
  IF e = Nil THEN Nil
  ELSE IF Car(h, e) # Nil /\ Car(h, Car(h, e)) = n THEN Car(h, e)
  ELSE value(h, n, Cdr(h, e))

RECURSIVE Reach(_, _)
Reach(h, S) ==
  LET T == S \union UNION {{h[c].car, h[c].cdr} : c \in S \cap DOMAIN h} IN
  IF T = S THEN S \cap Cells ELSE Reach(h, T)

\* A value written out as a sequence of symbols, 1 before each pair.
RECURSIVE Datum(_, _)
Datum(h, v) == IF v \in DOMAIN h
               THEN IF h[v].car = NUMBER THEN <<h[v].cdr>>
                    ELSE <<1>> \o Datum(h, h[v].car) \o Datum(h, h[v].cdr)
               ELSE <<v>>
ErrorMessage == <<-100>>

-----------------------------------------------------------------------------
(* Control: eval is entered, returns, or errorend leaves for the handler.  *)

QuoteForm(v) == [op |-> "quote", v |-> v]

Enter(s, f, e, t) ==
  cstack' = s /\ at' = "eval" /\ form' = f /\ env' = e /\ TC' = t /\ val' = Nil

Leave(s, v) ==
  cstack' = s /\ at' = "ret" /\ form' = QuoteForm(Nil) /\ env' = Nil /\ TC' = FALSE
  /\ val' = v

\* errorend
Throw(s) ==
  /\ cstack' = s /\ at' = "error" /\ form' = QuoteForm(Nil) /\ env' = Nil
  /\ TC' = FALSE /\ val' = Nil
  /\ GCStack' = << >>

\* What the caller of tf_progn does with the last form: it goes on with it in the
\* same activation (t is then TC), a closure's caller once it has unprotected.
LastForm(s, g, f, e, t, pop) ==
  GCStack' = (IF pop THEN Tail(g) ELSE g) /\ Enter(s, f, e, t)

tf_progn(s, g, fs, e, t, pop) ==
  IF Len(fs) > 1
  THEN /\ GCStack' = g
       /\ Enter(<<[k |-> "progn", todo |-> Tail(fs), env |-> e, tc |-> t, pop |-> pop]>>
                \o s, Head(fs), e, FALSE)
  ELSE LastForm(s, g, IF fs = << >> THEN QuoteForm(Nil) ELSE Head(fs), e, t, pop)

-----------------------------------------------------------------------------
(* Closures.                                                               *)

IsClosure(h, f) == Car(h, f) = CLOSURE
IsFunction(h, f) == f \in DOMAIN Defs \/ IsClosure(h, f)

RECURSIVE PopFrame(_, _)
PopFrame(h, e) == IF Car(h, e) = Nil THEN e ELSE PopFrame(h, Cdr(h, e))

\* A call in tail position gives up the variables of the function it replaces:
\* those up to the nil that marks where its frame begins.
DropFrame(h, e, tc) ==
  IF ~tc THEN [h |-> h, e |-> e]
  ELSE IF e # Nil /\ Car(h, e) = Nil THEN [h |-> h, e |-> PopFrame(h, Cdr(h, e))]
  ELSE [h |-> cons(h, Nil, e), e |-> New(h)]

\* The pairs of the list l pushed on e one by one.
RECURSIVE PushAll(_, _, _)
PushAll(h, l, e) ==
  IF l = Nil THEN [h |-> h, e |-> e]
  ELSE PushAll(cons(h, Car(h, l), e), Cdr(h, l), New(h))

\* The arguments bound to the parameters, of the function body in c.  A parameter is
\* optional when its default is a sequence, with the form if there is one.
RECURSIVE Binding(_, _, _, _, _, _, _)
Binding(s, g, h, params, args, e, c) ==
  IF params = << >>
  THEN IF args # Nil THEN heap' = h /\ Throw(s)
       ELSE IF c.frame
       THEN heap' = cons(h, Nil, e) /\ tf_progn(s, g, c.body, New(h), c.tc, c.pop)
       ELSE heap' = h /\ tf_progn(s, g, c.body, e, c.tc, c.pop)
  ELSE
  LET p     == Head(params)
      to(v) == Bind(h, p.s, v, e)
  IN CASE p.kind = "rest" -> Binding(s, g, to(args).h, Tail(params), Nil, to(args).e, c)
       [] p.kind # "rest" /\ args # Nil ->
            LET b == to(Car(h, args)) IN Binding(s, g, b.h, Tail(params), Cdr(h, args), b.e, c)
       [] p.kind = "optional" /\ args = Nil /\ p.default = << >> ->
            Binding(s, g, to(Nil).h, Tail(params), Nil, to(Nil).e, c)
       [] p.kind = "optional" /\ args = Nil /\ p.default # << >> ->
            /\ heap' = h /\ GCStack' = g
            /\ Enter(<<[k |-> "default", todo |-> params, env |-> e, closure |-> c]>> \o s,
                     Head(p.default), e, FALSE)
       [] p.kind = "required" /\ args = Nil -> heap' = h /\ Throw(s)

\* tc says that the frame of e is given up; then, how the body is run: in its place
\* or not, and with an object to unprotect.
closure(s, g, h, f, args, e, tc, inplace) ==
  LET lambda == IF IsClosure(h, f) THEN Cdr(h, Cdr(h, f)) ELSE f
      state  == IF IsClosure(h, f) THEN Car(h, Cdr(h, f)) ELSE Nil
      drop   == DropFrame(h, e, tc)
      pushed == PushAll(drop.h, state, drop.e)
  IN Binding(s, g, pushed.h, Defs[lambda].params, args, pushed.e,
             [body |-> Defs[lambda].body, frame |-> tc, tc |-> inplace, pop |-> inplace])

-----------------------------------------------------------------------------
(* Builtin functions.                                                      *)

\* Those that call neither eval nor gc.
Compute(h, fn, args) ==
  LET a == Car(h, args) IN
  CASE fn = CONS -> [ok |-> TRUE, h |-> cons(h, a, Car(h, Cdr(h, args))), v |-> New(h)]
    [] fn = CAR  -> [ok |-> listp(h, a), h |-> h, v |-> Car(h, a)]
    [] fn = CDR  -> [ok |-> listp(h, a), h |-> h, v |-> Cdr(h, a)]
    [] fn = LIST -> [ok |-> TRUE, h |-> h, v |-> args]
    [] fn = RETURN -> [ok |-> TRUE, h |-> h, v |-> a]

SetReturn(fn) == RETURNFLAG' = (fn = RETURN \/ RETURNFLAG)

\* What a symbol that is no function stands for: its eval can collect nothing that
\* another cannot.
Named(h, n, e) ==
  LET pair == value(h, n, e) IN
  IF n >= 0 \/ n \in DOMAIN Defs THEN n
  ELSE IF pair # Nil THEN Cdr(h, pair)
  ELSE IF n \in DOMAIN GlobalEnv THEN GlobalEnv[n] ELSE n

\* apply; an error drops the rest of the activations in s.
apply(s, g, h, function, args, e) ==
  LET f == IF function \in Functional THEN function ELSE Named(h, function, e) IN
  IF function \in Functional
  THEN LET r == Compute(h, f, args) IN
       /\ heap' = r.h /\ SetReturn(f)
       /\ IF r.ok THEN GCStack' = g /\ Leave(s, r.v) ELSE Throw(s)
  ELSE /\ UNCHANGED RETURNFLAG
       /\ IF IsFunction(h, f)
          THEN closure(s, g, h, f, args, e, FALSE, FALSE)
          ELSE heap' = h /\ Throw(s)

\* One turn of mapcarcan for one list, m its locals: the next element is taken
\* off the argument and the function applied to it.
MapStep(s, g, h, m) ==
  LET list == Car(h, m.args)
      h1   == cons(h, Car(h, list), Nil)
      h2   == SetCdr(SetCar(h1, m.args, Cdr(h, list)), m.params, New(h))
  IN IF list = Nil
     THEN /\ heap' = h /\ GCStack' = Tail(Tail(g)) /\ UNCHANGED RETURNFLAG
          /\ Leave(s, Cdr(h, m.head))
     ELSE apply(<<m>> \o s, g, h2, m.fn, New(h), m.env)

mapcar(s, g, h, args, e) ==
  LET h1 == cons(h, Nil, Nil)
      h2 == cons(h1, Nil, Nil)
  IN MapStep(s, <<New(h1), New(h)>> \o g, h2,
             [k |-> "mapcar", fn |-> Car(h, args), args |-> Cdr(h, args),
              params |-> New(h), head |-> New(h1), tail |-> New(h1), env |-> e])

\* What gc(f, e) keeps.
Marked(h, g, f, e) ==
  Reach(h, Range(g) \union Range(GlobalEnv) \union {e}
           \union (IF f.op = "quote" THEN {f.v} ELSE {}))

\* The call itself, once head holds the function and its arguments; g has head on top.
Dispatch(s, g, h, head, e, tc) ==
  LET fn   == Car(h, head)
      args == Cdr(h, head)
  IN CASE fn \in Functional -> apply(s, Tail(g), h, fn, args, e)
       [] fn = GC ->
            /\ heap' = Restrict(h, Marked(h, g, QuoteForm(args), e) \cap DOMAIN h)
            /\ GCStack' = Tail(g) /\ UNCHANGED RETURNFLAG
            /\ Leave(s, Nil)
       [] fn = FUNCALL ->
            apply(<<[k |-> "builtin"]>> \o s, g, h, Car(h, args), Cdr(h, args), e)
       [] fn = MAPCAR -> mapcar(<<[k |-> "builtin"]>> \o s, g, h, args, e)
       [] OTHER ->
            /\ UNCHANGED RETURNFLAG
            /\ IF IsFunction(h, fn)
               THEN closure(s, g, h, fn, args, e, tc, TRUE)
               ELSE heap' = h /\ Throw(s)

-----------------------------------------------------------------------------
(* eval, from its entry to its first call of eval or its return.           *)

Init ==
  /\ heap = << >> /\ GlobalEnv = << >> /\ GCStack = << >>
  /\ cstack = << >> /\ at = "idle" /\ form = QuoteForm(Nil) /\ env = Nil /\ TC = FALSE
  /\ val = Nil /\ RETURNFLAG = FALSE
  /\ lines \in Programs /\ printed = << >> /\ collections = 0

\* repl reads a line; it stays protected until its value is printed.
ReadLine ==
  /\ at = "idle" /\ lines # << >>
  /\ GCStack' = <<Nil>> \o GCStack
  /\ Enter(<< >>, Head(lines).form, Nil, FALSE)
  /\ UNCHANGED <<heap, GlobalEnv, RETURNFLAG, world>>

\* Freespace is low, whatever the garbage of earlier lines makes of it.
Collect ==
  /\ at = "eval" /\ collections < MaxCollections
  /\ collections' = collections + 1
  /\ heap' = Restrict(heap, Marked(heap, GCStack, form, env) \cap DOMAIN heap)
  /\ UNCHANGED <<GlobalEnv, GCStack, control, RETURNFLAG, lines, printed>>

Eval(op) == at = "eval" /\ form.op = op /\ UNCHANGED world

EvalQuote ==
  /\ Eval("quote")
  /\ Leave(cstack, form.v)
  /\ UNCHANGED <<heap, GlobalEnv, GCStack, RETURNFLAG>>

EvalSymbol ==
  /\ Eval("var")
  /\ LET pair == value(heap, form.s, env) IN
       IF pair # Nil THEN Leave(cstack, Cdr(heap, pair)) /\ UNCHANGED GCStack
       ELSE IF form.s \in DOMAIN GlobalEnv
            THEN Leave(cstack, GlobalEnv[form.s]) /\ UNCHANGED GCStack
       ELSE IF builtinp(form.s) THEN Leave(cstack, form.s) /\ UNCHANGED GCStack
       ELSE Throw(cstack)
  /\ UNCHANGED <<heap, GlobalEnv, RETURNFLAG>>

EvalIf ==
  /\ Eval("if")
  /\ Enter(<<[k |-> "if", then |-> form.then, else |-> form.else, env |-> env]>>
           \o cstack, form.test, env, FALSE)
  /\ UNCHANGED <<heap, GlobalEnv, GCStack, RETURNFLAG>>

EvalProgn ==
  /\ Eval("progn")
  /\ tf_progn(cstack, GCStack, form.body, env, TRUE, FALSE)
  /\ UNCHANGED <<heap, GlobalEnv, RETURNFLAG>>

\* let and let*
EvalLet ==
  /\ Eval("let")
  /\ GCStack' = <<env>> \o GCStack
  /\ Enter(<<[k |-> "let", star |-> form.star, todo |-> form.assigns, body |-> form.body,
              newenv |-> env, env |-> env, tc |-> TC]>>
           \o cstack, Head(form.assigns).init, env, FALSE)
  /\ UNCHANGED <<heap, GlobalEnv, RETURNFLAG>>

\* The pairs of env, without the nils that mark its frames, pushed on acc.
RECURSIVE CopyEnv(_, _, _)
CopyEnv(h, e, acc) ==
  IF e = Nil THEN [h |-> h, e |-> acc]
  ELSE IF Car(h, e) = Nil THEN CopyEnv(h, Cdr(h, e), acc)
  ELSE CopyEnv(cons(h, Car(h, e), acc), Cdr(h, e), New(h))

EvalLambda ==
  /\ Eval("lambda")
  /\ IF env = Nil THEN Leave(cstack, form.code) /\ UNCHANGED heap
     ELSE LET copy == CopyEnv(heap, env, Nil)
              h1 == cons(copy.h, copy.e, form.code)
          IN /\ heap' = cons(h1, CLOSURE, New(copy.h))
             /\ Leave(cstack, New(h1))
  /\ UNCHANGED <<GlobalEnv, GCStack, RETURNFLAG>>

\* A function call: the list of the function and its arguments is protected
\* while the arguments are evaluated.
EvalCall ==
  /\ Eval("call")
  /\ LET pair == value(heap, form.f, env)
         fn == IF pair # Nil THEN Cdr(heap, pair)
               ELSE IF form.f \in DOMAIN GlobalEnv THEN GlobalEnv[form.f] ELSE form.f
         h1 == cons(heap, fn, Nil)
         head == New(heap)
         g1 == <<head>> \o GCStack
     IN IF form.args = << >>
        THEN Dispatch(cstack, g1, h1, head, env, TC)
        ELSE /\ heap' = h1 /\ GCStack' = g1 /\ UNCHANGED RETURNFLAG
             /\ Enter(<<[k |-> "args", head |-> head, tail |-> head,
                         todo |-> Tail(form.args), env |-> env, tc |-> TC]>>
                      \o cstack, Head(form.args), env, FALSE)
  /\ UNCHANGED GlobalEnv

\* Where a variable's value is: the cdr of its pair, or its global binding.
VarPlace(s, e) ==
  [of |-> IF value(heap, s, e) # Nil THEN "cdr" ELSE "global",
   loc |-> value(heap, s, e), s |-> s]
Bound(s, e) == value(heap, s, e) # Nil \/ s \in DOMAIN GlobalEnv
ListPlace(of, c) == [of |-> of, loc |-> c, s |-> Nil]

RECURSIVE NthCdr(_, _, _)
NthCdr(h, list, i) == IF i <= 0 \/ list = Nil THEN list ELSE NthCdr(h, Cdr(h, list), i - 1)

\* place: where in the list v the place is, and whether there is one.  That nth asks
\* for a number is left out: it is written in the form.
place(h, p, v) ==
  IF p.op = "nth"
  THEN [ok |-> consp(h, v) /\ NthCdr(h, v, p.index) # Nil,
        at |-> ListPlace("car", NthCdr(h, v, p.index))]
  ELSE [ok |-> listp(h, v), at |-> ListPlace(p.op, v)]

Load(p) == CASE p.of = "global" -> GlobalEnv[p.s]
             [] p.of = "car" -> Car(heap, p.loc)
             [] p.of = "cdr" -> Cdr(heap, p.loc)
Store(h, p, v) ==
  /\ GlobalEnv' = IF p.of = "global" THEN [GlobalEnv EXCEPT ![p.s] = v] ELSE GlobalEnv
  /\ heap' = CASE p.of = "global" -> h
               [] p.of = "car" -> SetCar(h, p.loc, v)
               [] p.of = "cdr" -> SetCdr(h, p.loc, v)

\* setq finds the binding first; so does setf when its place is a variable.
EvalSetq ==
  /\ Eval("setq")
  /\ IF Bound(form.s, env)
     THEN /\ Enter(<<[k |-> "store", place |-> VarPlace(form.s, env)]>> \o cstack,
                   form.init, env, FALSE)
          /\ UNCHANGED GCStack
     ELSE Throw(cstack)
  /\ UNCHANGED <<heap, GlobalEnv, RETURNFLAG>>

EvalDefvar ==
  /\ Eval("defvar")
  /\ Enter(<<[k |-> "defvar", s |-> form.s]>> \o cstack, form.init, env, FALSE)
  /\ UNCHANGED <<heap, GlobalEnv, GCStack, RETURNFLAG>>

EvalDefun ==
  /\ Eval("defun")
  /\ GlobalEnv' = (form.s :> form.code) @@ GlobalEnv
  /\ Leave(cstack, form.s)
  /\ UNCHANGED <<heap, GCStack, RETURNFLAG>>

\* (setf place init), of a place in a list
EvalSetf ==
  /\ Eval("setf")
  /\ Enter(<<[k |-> "setfplace", place |-> form.place, init |-> form.init, env |-> env]>>
           \o cstack, form.place.of, env, FALSE)
  /\ UNCHANGED <<heap, GlobalEnv, GCStack, RETURNFLAG>>

\* (push item s) and (push item place)
EvalPush ==
  /\ Eval("push")
  /\ Enter(<<[k |-> "pushitem", place |-> form.place, env |-> env]>> \o cstack,
           form.item, env, FALSE)
  /\ UNCHANGED <<heap, GlobalEnv, GCStack, RETURNFLAG>>

\* pop(*loc)
PopFrom(s, p) ==
  IF consp(heap, Load(p))
  THEN /\ Store(heap, p, Cdr(heap, Load(p))) /\ Leave(s, Car(heap, Load(p)))
       /\ UNCHANGED GCStack
  ELSE Throw(s) /\ UNCHANGED <<heap, GlobalEnv>>

\* (pop s) and (pop place)
EvalPop ==
  /\ Eval("pop")
  /\ IF form.place.op # "var"
     THEN /\ Enter(<<[k |-> "popplace", place |-> form.place]>> \o cstack, form.place.of,
                   env, FALSE)
          /\ UNCHANGED <<heap, GlobalEnv, GCStack>>
     ELSE IF Bound(form.place.s, env) THEN PopFrom(cstack, VarPlace(form.place.s, env))
     ELSE Throw(cstack) /\ UNCHANGED <<heap, GlobalEnv>>
  /\ UNCHANGED RETURNFLAG

EvalDolist ==
  /\ Eval("dolist")
  /\ Enter(<<[k |-> "dolist", s |-> form.s, body |-> form.body, end |-> form.end,
              env |-> env]>> \o cstack, form.init, env, FALSE)
  /\ UNCHANGED <<heap, GlobalEnv, GCStack, RETURNFLAG>>

EvalLoop ==
  /\ Eval("loop")
  /\ Enter(<<[k |-> "loop", todo |-> Tail(form.body), body |-> form.body, env |-> env]>>
           \o cstack, Head(form.body), env, FALSE)
  /\ UNCHANGED <<heap, GlobalEnv, GCStack, RETURNFLAG>>

\* do and do*: head lists, for each variable, (step . pair); its first cell and the
\* environment being built are protected.
EvalDo ==
  /\ Eval("do")
  /\ LET head == New(heap) IN
       /\ heap' = cons(heap, Nil, Nil)
       /\ GCStack' = <<env, head>> \o GCStack
       /\ Enter(<<[k |-> "dovar", do |-> form, todo |-> form.vars, head |-> head,
                   tail |-> head, newenv |-> env, env |-> env]>> \o cstack,
                Head(form.vars).init, env, FALSE)
  /\ UNCHANGED <<GlobalEnv, RETURNFLAG>>

EvalOr ==
  /\ Eval("or")
  /\ IF form.args = << >> THEN Leave(cstack, Nil)
     ELSE Enter(<<[k |-> "or", todo |-> Tail(form.args), env |-> env]>> \o cstack,
                Head(form.args), env, FALSE)
  /\ UNCHANGED <<heap, GlobalEnv, GCStack, RETURNFLAG>>

tf_and(s, fs, e) ==
  IF Len(fs) > 1
  THEN Enter(<<[k |-> "and", todo |-> Tail(fs), env |-> e]>> \o s, Head(fs), e, FALSE)
  ELSE Enter(s, IF fs = << >> THEN QuoteForm(tee) ELSE Head(fs), e, TRUE)

EvalAnd ==
  /\ Eval("and")
  /\ tf_and(cstack, form.args, env)
  /\ UNCHANGED <<heap, GlobalEnv, GCStack, RETURNFLAG>>

\* On to the next clause: a test and forms.  One that is no list is an error.
tf_cond(s, g, clauses, e) ==
  IF clauses = << >> THEN LastForm(s, g, QuoteForm(Nil), e, TRUE, FALSE)
  ELSE IF Head(clauses) = << >> THEN Throw(s)
  ELSE /\ GCStack' = g
       /\ Enter(<<[k |-> "cond", clauses |-> clauses, env |-> e]>> \o s,
                Head(clauses)[1], e, FALSE)

EvalCond ==
  /\ Eval("cond")
  /\ tf_cond(cstack, GCStack, form.clauses, env)
  /\ UNCHANGED <<heap, GlobalEnv, RETURNFLAG>>

EvalWhen ==
  /\ Eval("when")
  /\ Enter(<<[k |-> "when", unless |-> form.unless, body |-> form.body, env |-> env]>>
           \o cstack, form.test, env, FALSE)
  /\ UNCHANGED <<heap, GlobalEnv, GCStack, RETURNFLAG>>

EvalCase ==
  /\ Eval("case")
  /\ Enter(<<[k |-> "case", clauses |-> form.clauses, env |-> env]>> \o cstack,
           form.key, env, FALSE)
  /\ UNCHANGED <<heap, GlobalEnv, GCStack, RETURNFLAG>>

\* What dotimes is to count to.
EvalDotimes ==
  /\ Eval("dotimes")
  /\ Enter(<<[k |-> "dotimes", s |-> form.s, body |-> form.body, end |-> form.end,
              env |-> env]>> \o cstack, form.count, env, FALSE)
  /\ UNCHANGED <<heap, GlobalEnv, GCStack, RETURNFLAG>>

EvalTime ==
  /\ Eval("time")
  /\ Enter(<<[k |-> "time", want |-> form.want]>> \o cstack, form.of, env, FALSE)
  /\ UNCHANGED <<heap, GlobalEnv, GCStack, RETURNFLAG>>

EvalForMillis ==
  /\ Eval("formillis")
  /\ IF form.total = << >>
     THEN tf_progn(<<[k |-> "millis"]>> \o cstack, GCStack, form.body, env, FALSE, FALSE)
     ELSE /\ Enter(<<[k |-> "formillis", body |-> form.body, env |-> env]>> \o cstack,
                   Head(form.total), env, FALSE)
          /\ UNCHANGED GCStack
  /\ UNCHANGED <<heap, GlobalEnv, RETURNFLAG>>

EvalUnwind ==
  /\ Eval("unwind")
  /\ Enter(<<[k |-> "unwind", todo |-> form.cleanup, env |-> env, saved |-> GCStack]>>
           \o cstack, form.init, env, FALSE)
  /\ UNCHANGED <<heap, GlobalEnv, GCStack, RETURNFLAG>>

EvalIgnore ==
  /\ Eval("ignore")
  /\ Enter(<<[k |-> "ignore", todo |-> Tail(form.body), env |-> env, saved |-> GCStack]>>
           \o cstack, Head(form.body), env, FALSE)
  /\ UNCHANGED <<heap, GlobalEnv, GCStack, RETURNFLAG>>

-----------------------------------------------------------------------------
(* An eval returns val to the activation that called it.                   *)

F == Head(cstack)
S == Tail(cstack)
Waits(k)  == at = "ret" /\ cstack # << >> /\ F.k = k
Return(k) == Waits(k) /\ UNCHANGED world

ReturnIf ==
  /\ Return("if")
  /\ Enter(S, IF val # Nil THEN F.then ELSE F.else, F.env, TRUE)
  /\ UNCHANGED <<heap, GlobalEnv, GCStack, RETURNFLAG>>

ReturnProgn ==
  /\ Return("progn")
  /\ IF RETURNFLAG
     THEN LastForm(S, GCStack, QuoteForm(val), F.env, F.tc, F.pop)
     ELSE tf_progn(S, GCStack, F.todo, F.env, F.tc, F.pop)
  /\ UNCHANGED <<heap, GlobalEnv, RETURNFLAG>>

\* car(GCStack) = newenv; and a let that keeps only the first environment protected.
Protecting_First(e) == GCStack
Protecting(e) == <<e>> \o Tail(GCStack)

ReturnLet ==
  /\ Return("let")
  /\ LET b == Bind(heap, Head(F.todo).s, val, F.newenv)
         e == IF F.star THEN b.e ELSE F.env
         rest == Tail(F.todo)
     IN /\ heap' = b.h
        /\ IF rest = << >>
           THEN tf_progn(S, Tail(GCStack), F.body, b.e, F.tc, FALSE)
           ELSE /\ GCStack' = Protecting(b.e)
                /\ Enter(<<[F EXCEPT !.todo = rest, !.newenv = b.e, !.env = e]>> \o S,
                         Head(rest).init, e, FALSE)
  /\ UNCHANGED <<GlobalEnv, RETURNFLAG>>

\* The default of a parameter.
ReturnDefault ==
  /\ Return("default")
  /\ LET b == Bind(heap, Head(F.todo).s, val, F.env) IN
     Binding(S, GCStack, b.h, Tail(F.todo), Nil, b.e, F.closure)
  /\ UNCHANGED <<GlobalEnv, RETURNFLAG>>

ReturnArg ==
  /\ Return("args")
  /\ LET obj == New(heap)
         h1 == SetCdr(cons(heap, val, Nil), F.tail, obj)
     IN IF F.todo = << >>
        THEN Dispatch(S, GCStack, h1, F.head, F.env, F.tc)
        ELSE /\ heap' = h1 /\ UNCHANGED <<GCStack, RETURNFLAG>>
             /\ Enter(<<[F EXCEPT !.tail = obj, !.todo = Tail(@)]>> \o S,
                      Head(F.todo), F.env, FALSE)
  /\ UNCHANGED GlobalEnv

\* A builtin function that called apply returns to eval.
ReturnBuiltin ==
  /\ Return("builtin")
  /\ GCStack' = Tail(GCStack)
  /\ Leave(S, val)
  /\ UNCHANGED <<heap, GlobalEnv, RETURNFLAG>>

ReturnMapcar ==
  /\ Return("mapcar")
  /\ MapStep(S, GCStack, SetCdr(cons(heap, val, Nil), F.tail, New(heap)),
             [F EXCEPT !.tail = New(heap)])
  /\ UNCHANGED GlobalEnv

ReturnStore ==
  /\ Return("store")
  /\ Store(heap, F.place, val)
  /\ Leave(S, val)
  /\ UNCHANGED <<GCStack, RETURNFLAG>>

ReturnDefvar ==
  /\ Return("defvar")
  /\ GlobalEnv' = (F.s :> val) @@ GlobalEnv
  /\ Leave(S, F.s)
  /\ UNCHANGED <<heap, GCStack, RETURNFLAG>>

ReturnSetfPlace ==
  /\ Return("setfplace")
  /\ LET p == place(heap, F.place, val) IN
     IF p.ok
     THEN /\ Enter(<<[k |-> "store", place |-> p.at]>> \o S, F.init, F.env, FALSE)
          /\ UNCHANGED GCStack
     ELSE Throw(S)
  /\ UNCHANGED <<heap, GlobalEnv, RETURNFLAG>>

\* push(item, *loc)
PushOn(p, item) ==
  /\ Store(cons(heap, item, Load(p)), p, New(heap))
  /\ Leave(S, New(heap))

ReturnPushItem ==
  /\ Return("pushitem")
  /\ IF F.place.op = "var"
     THEN IF Bound(F.place.s, F.env)
          THEN PushOn(VarPlace(F.place.s, F.env), val) /\ UNCHANGED GCStack
          ELSE Throw(S) /\ UNCHANGED <<heap, GlobalEnv>>
     ELSE /\ Enter(<<[k |-> "pushplace", place |-> F.place, item |-> val]>> \o S,
                   F.place.of, F.env, FALSE)
          /\ UNCHANGED <<heap, GlobalEnv, GCStack>>
  /\ UNCHANGED RETURNFLAG

ReturnPushPlace ==
  /\ Return("pushplace")
  /\ LET p == place(heap, F.place, val) IN
     IF p.ok
     THEN PushOn(p.at, F.item) /\ UNCHANGED GCStack
     ELSE Throw(S) /\ UNCHANGED <<heap, GlobalEnv>>
  /\ UNCHANGED RETURNFLAG

ReturnPopPlace ==
  /\ Return("popplace")
  /\ LET p == place(heap, F.place, val) IN
     IF p.ok THEN PopFrom(S, p.at) ELSE Throw(S) /\ UNCHANGED <<heap, GlobalEnv>>
  /\ UNCHANGED RETURNFLAG

-----------------------------------------------------------------------------
(* Conditions.  What they give back is evaluated in their place, also the   *)
(* value of a clause of cond that has no forms.                             *)

ReturnOr ==
  /\ Return("or")
  /\ IF val # Nil \/ F.todo = << >> THEN Leave(S, val)
     ELSE Enter(<<[F EXCEPT !.todo = Tail(@)]>> \o S, Head(F.todo), F.env, FALSE)
  /\ UNCHANGED <<heap, GlobalEnv, GCStack, RETURNFLAG>>

ReturnAnd ==
  /\ Return("and")
  /\ IF val = Nil THEN Enter(S, QuoteForm(Nil), F.env, TRUE) ELSE tf_and(S, F.todo, F.env)
  /\ UNCHANGED <<heap, GlobalEnv, GCStack, RETURNFLAG>>

ReturnCond ==
  /\ Return("cond")
  /\ LET forms == Tail(Head(F.clauses)) IN
     IF val = Nil THEN tf_cond(S, GCStack, Tail(F.clauses), F.env)
     ELSE IF forms = << >> THEN LastForm(S, GCStack, QuoteForm(val), F.env, TRUE, FALSE)
     ELSE tf_progn(S, GCStack, forms, F.env, TRUE, FALSE)
  /\ UNCHANGED <<heap, GlobalEnv, RETURNFLAG>>

\* when and unless
ReturnWhen ==
  /\ Return("when")
  /\ IF (val # Nil) = F.unless THEN LastForm(S, GCStack, QuoteForm(Nil), F.env, TRUE, FALSE)
     ELSE tf_progn(S, GCStack, F.body, F.env, TRUE, FALSE)
  /\ UNCHANGED <<heap, GlobalEnv, RETURNFLAG>>

\* The first clause one of whose keys it is; a clause whose one key is not in a list
\* may have t for it.
ReturnCase ==
  /\ Return("case")
  /\ LET n == SelectInSeq(F.clauses, LAMBDA c :
                \/ \E j \in DOMAIN c.keys : eq(heap, val, c.keys[j])
                \/ ~c.list /\ c.keys = <<tee>>)
     IN tf_progn(S, GCStack, IF n = 0 THEN << >> ELSE F.clauses[n].body, F.env, TRUE, FALSE)
  /\ UNCHANGED <<heap, GlobalEnv, RETURNFLAG>>

\* time prints the value its form gives.
ReturnTime ==
  /\ Waits("time")
  /\ printed' = Append(printed, [got |-> Datum(heap, val), want |-> F.want])
  /\ Leave(S, NOTHING)
  /\ UNCHANGED <<heap, GlobalEnv, GCStack, RETURNFLAG, lines, collections>>

ReturnForMillis ==
  /\ Return("formillis")
  /\ IF integerp(heap, val)
     THEN tf_progn(<<[k |-> "millis"]>> \o S, GCStack, F.body, F.env, FALSE, FALSE)
     ELSE Throw(S)
  /\ UNCHANGED <<heap, GlobalEnv, RETURNFLAG>>

\* The time it took is a number, 0 here, unless it is too large for one.
ReturnMillis ==
  /\ Return("millis")
  /\ \/ heap' = number(heap, 0) /\ Leave(S, New(heap))
     \/ Leave(S, Nil) /\ UNCHANGED heap
  /\ UNCHANGED <<GlobalEnv, GCStack, RETURNFLAG>>

-----------------------------------------------------------------------------
(* Loops.  A form that has set RETURNFLAG ends the innermost one.          *)

\* dolist, d its locals: on to the next element, or out.
DolistNext(s, g, h, d) ==
  IF d.list = Nil
  THEN /\ heap' = SetCdr(h, d.pair, Nil) /\ GCStack' = Tail(g)
       /\ IF d.end = << >> THEN Leave(s, Nil) ELSE Enter(s, Head(d.end), d.env, FALSE)
  ELSE IF d.list \in Cells
  THEN /\ heap' = SetCdr(h, d.pair, Car(h, d.list)) /\ GCStack' = g
       /\ Enter(<<[d EXCEPT !.todo = Tail(d.body)]>> \o s, Head(d.body), d.env, FALSE)
  ELSE heap' = h /\ Throw(s)

ReturnDolist ==
  /\ Return("dolist")
  /\ LET b == Bind(heap, F.s, Nil, F.env) IN
       DolistNext(S, <<val>> \o GCStack, b.h,
                  [k |-> "dolistform", list |-> val, pair |-> New(heap), env |-> b.e,
                   todo |-> << >>, body |-> F.body, end |-> F.end])
  /\ UNCHANGED <<GlobalEnv, RETURNFLAG>>

ReturnDolistForm ==
  /\ Return("dolistform")
  /\ IF RETURNFLAG
     THEN GCStack' = Tail(GCStack) /\ Leave(S, val) /\ UNCHANGED heap
     ELSE IF F.todo # << >>
     THEN /\ Enter(<<[F EXCEPT !.todo = Tail(@)]>> \o S, Head(F.todo), F.env, FALSE)
          /\ UNCHANGED <<heap, GCStack>>
     ELSE DolistNext(S, GCStack, heap, [F EXCEPT !.list = Cdr(heap, @)])
  /\ RETURNFLAG' = FALSE
  /\ UNCHANGED GlobalEnv

\* dotimes, d its locals: the number of the turn is made anew for each, and once
\* more for the end.  A loop without forms only counts.
DotimesNext(s, h, d) ==
  LET i  == IF d.body = << >> THEN IF d.index < d.count THEN d.count ELSE d.index ELSE d.index
      h1 == number(h, i)
  IN /\ heap' = SetCdr(h1, d.pair, New(h))
     /\ IF i < d.count
        THEN Enter(<<[d EXCEPT !.todo = Tail(d.body)]>> \o s, Head(d.body), d.env, FALSE)
        ELSE IF d.end = << >> THEN Leave(s, Nil) ELSE Enter(s, Head(d.end), d.env, FALSE)

ReturnDotimes ==
  /\ Return("dotimes")
  /\ IF integerp(heap, val)
     THEN LET h1 == number(heap, 0)
              b  == Bind(h1, F.s, New(heap), F.env)
          IN /\ DotimesNext(S, b.h,
                  [k |-> "dotimesform", index |-> 0, count |-> integer(heap, val),
                   pair |-> New(h1), env |-> b.e, todo |-> << >>, body |-> F.body,
                   end |-> F.end])
             /\ UNCHANGED GCStack
     ELSE Throw(S) /\ UNCHANGED heap
  /\ UNCHANGED <<GlobalEnv, RETURNFLAG>>

ReturnDotimesForm ==
  /\ Return("dotimesform")
  /\ IF RETURNFLAG THEN Leave(S, val) /\ UNCHANGED heap
     ELSE IF F.todo # << >>
     THEN /\ Enter(<<[F EXCEPT !.todo = Tail(@)]>> \o S, Head(F.todo), F.env, FALSE)
          /\ UNCHANGED heap
     ELSE DotimesNext(S, heap, [F EXCEPT !.index = @ + 1])
  /\ RETURNFLAG' = FALSE
  /\ UNCHANGED <<GlobalEnv, GCStack>>

\* A slip: the loop ends but RETURNFLAG stays.
ReturnLoop_KeepFlag ==
  /\ Return("loop")
  /\ IF RETURNFLAG THEN Leave(S, val)
     ELSE LET todo == IF F.todo = << >> THEN F.body ELSE F.todo IN
          Enter(<<[F EXCEPT !.todo = Tail(todo)]>> \o S, Head(todo), F.env, FALSE)
  /\ UNCHANGED <<heap, GlobalEnv, GCStack, RETURNFLAG>>

ReturnLoop ==
  /\ Return("loop")
  /\ IF RETURNFLAG THEN Leave(S, val)
     ELSE LET todo == IF F.todo = << >> THEN F.body ELSE F.todo IN
          Enter(<<[F EXCEPT !.todo = Tail(todo)]>> \o S, Head(todo), F.env, FALSE)
  /\ RETURNFLAG' = FALSE
  /\ UNCHANGED <<heap, GlobalEnv, GCStack>>

\* do: the initial value of a variable, with the list cell that remembers its pair.
ReturnDoVar ==
  /\ Return("dovar")
  /\ LET b    == Bind(heap, Head(F.todo).s, val, F.newenv)
         pair == New(heap)
         h1   == cons(b.h, Nil, pair)
         h2   == cons(h1, New(b.h), Nil)
         cell == New(h1)
         e    == IF F.do.star THEN b.e ELSE F.env
         rest == Tail(F.todo)
     IN /\ heap' = SetCdr(h2, F.tail, cell)
        /\ GCStack' = <<b.e>> \o Tail(GCStack)
        /\ IF rest # << >>
           THEN Enter(<<[F EXCEPT !.todo = rest, !.tail = cell, !.newenv = b.e, !.env = e]>>
                      \o S, Head(rest).init, e, FALSE)
           ELSE Enter(<<[k |-> "dotest", do |-> F.do, head |-> Cdr(heap', F.head),
                         env |-> b.e]>> \o S, F.do.test, b.e, FALSE)
  /\ UNCHANGED <<GlobalEnv, RETURNFLAG>>

\* The kept values given to the kept pairs, the last one first.
RECURSIVE Assign(_, _, _)
Assign(h, g, n) ==
  IF n = 0 THEN h ELSE Assign(SetCdr(h, g[1], g[2]), SubSeq(g, 3, Len(g)), n - 1)

\* The steps of do from the variable at the list cell l on; n values wait on the
\* GCStack until all are known.
RECURSIVE DoStep(_, _, _, _, _, _, _)
DoStep(s, g, h, d, l, vs, n) ==
  IF vs = << >>
  THEN /\ GCStack' = SubSeq(g, 2 * n + 1, Len(g))
       /\ heap' = Assign(h, g, n)
       /\ Enter(<<[k |-> "dotest", do |-> d.do, head |-> d.head, env |-> d.env]>> \o s,
                d.do.test, d.env, FALSE)
  ELSE IF Head(vs).step = << >> THEN DoStep(s, g, h, d, Cdr(h, l), Tail(vs), n)
  ELSE /\ GCStack' = g /\ heap' = h
       /\ Enter(<<[k |-> "dostep", do |-> d.do, head |-> d.head, env |-> d.env,
                   list |-> l, todo |-> vs, count |-> n]>> \o s,
                Head(Head(vs).step), d.env, FALSE)

ReturnDoTest ==
  /\ Return("dotest")
  /\ IF val = Nil
     THEN IF F.do.body = << >>
          THEN DoStep(S, GCStack, heap, F, F.head, F.do.vars, 0)
          ELSE /\ Enter(<<[k |-> "doform", do |-> F.do, head |-> F.head, env |-> F.env,
                           todo |-> Tail(F.do.body)]>> \o S, Head(F.do.body), F.env, FALSE)
               /\ UNCHANGED <<heap, GCStack>>
     ELSE /\ tf_progn(S, Tail(Tail(GCStack)), F.do.results, F.env, FALSE, FALSE)
          /\ UNCHANGED heap
  /\ UNCHANGED <<GlobalEnv, RETURNFLAG>>

ReturnDoForm ==
  /\ Return("doform")
  /\ IF RETURNFLAG
     THEN GCStack' = Tail(Tail(GCStack)) /\ Leave(S, val) /\ UNCHANGED heap
     ELSE IF F.todo # << >>
     THEN /\ Enter(<<[F EXCEPT !.todo = Tail(@)]>> \o S, Head(F.todo), F.env, FALSE)
          /\ UNCHANGED <<heap, GCStack>>
     ELSE DoStep(S, GCStack, heap, F, F.head, F.do.vars, 0)
  /\ RETURNFLAG' = FALSE
  /\ UNCHANGED GlobalEnv

\* do* assigns at once, do keeps the value and the pair for later.
ReturnDoStep ==
  /\ Return("dostep")
  /\ LET pair == Cdr(heap, Car(heap, F.list))
         next == Cdr(heap, F.list)
         vs   == Tail(F.todo)
     IN IF F.do.star
        THEN DoStep(S, GCStack, SetCdr(heap, pair, val), F, next, vs, F.count)
        ELSE DoStep(S, <<pair, val>> \o GCStack, heap, F, next, vs, F.count + 1)
  /\ UNCHANGED <<GlobalEnv, RETURNFLAG>>

-----------------------------------------------------------------------------
(* Errors.                                                                 *)

\* unwind-protect: on to its next cleanup form; after the last its value is
\* returned, or the error raised again.
Cleanup(s, g, todo, e, result, signaled) ==
  IF todo # << >>
  THEN /\ GCStack' = g
       /\ Enter(<<[k |-> "cleanup", todo |-> Tail(todo), env |-> e, result |-> result,
                   signaled |-> signaled]>> \o s, Head(todo), e, FALSE)
  ELSE IF signaled THEN Throw(s) ELSE GCStack' = g /\ Leave(s, result)

ReturnUnwind ==
  /\ Return("unwind")
  /\ Cleanup(S, GCStack, F.todo, F.env, val, FALSE)
  /\ UNCHANGED <<heap, GlobalEnv, RETURNFLAG>>

ReturnCleanup ==
  /\ Return("cleanup")
  /\ Cleanup(S, GCStack, IF RETURNFLAG THEN << >> ELSE F.todo, F.env, F.result, F.signaled)
  /\ UNCHANGED <<heap, GlobalEnv, RETURNFLAG>>

ReturnIgnore ==
  /\ Return("ignore")
  /\ IF RETURNFLAG \/ F.todo = << >> THEN Leave(S, val)
     ELSE Enter(<<[F EXCEPT !.todo = Tail(@)]>> \o S, Head(F.todo), F.env, FALSE)
  /\ UNCHANGED <<heap, GlobalEnv, GCStack, RETURNFLAG>>

\* GCStack = current_GCStack; and a handler that leaves it as errorend set it.
Restored_Null(h) == << >>
Restored(h) == h.saved

\* longjmp(*handler): the activations up to the innermost handler are gone.
HandleError ==
  /\ at = "error"
  /\ LET I == {n \in DOMAIN cstack : cstack[n].k \in {"unwind", "ignore"}} IN
       IF I = {}
       THEN /\ printed' = Append(printed, [got |-> ErrorMessage, want |-> Head(lines).value])
            /\ lines' = Tail(lines)
            /\ at' = "idle" /\ cstack' = << >>
            /\ UNCHANGED <<GCStack, form, env, TC, val, collections>>
       ELSE LET n == CHOOSE m \in I : \A j \in I : m <= j
                h == cstack[n]
                s == SubSeq(cstack, n + 1, Len(cstack))
            IN /\ IF h.k = "unwind" THEN Cleanup(s, Restored(h), h.todo, h.env, Nil, TRUE)
                  ELSE GCStack' = Restored(h) /\ Leave(s, NOTHING)
               /\ UNCHANGED world
  /\ UNCHANGED <<heap, GlobalEnv, RETURNFLAG>>

\* repl prints the value and unprotects the line.
PrintLine ==
  /\ at = "ret" /\ cstack = << >>
  /\ printed' = Append(printed, [got |-> Datum(heap, val), want |-> Head(lines).value])
  /\ lines' = Tail(lines)
  /\ GCStack' = Tail(GCStack)
  /\ at' = "idle" /\ val' = Nil
  /\ UNCHANGED <<heap, GlobalEnv, cstack, form, env, TC, RETURNFLAG, collections>>

\* Nothing is typed any more.
Prompt == at = "idle" /\ lines = << >> /\ UNCHANGED vars

EvalStep ==
  \/ EvalQuote \/ EvalSymbol \/ EvalIf \/ EvalProgn \/ EvalLet \/ EvalLambda \/ EvalCall
  \/ EvalSetq \/ EvalDefvar \/ EvalDefun \/ EvalSetf \/ EvalPush \/ EvalPop
  \/ EvalOr \/ EvalAnd \/ EvalCond \/ EvalWhen \/ EvalCase \/ EvalDolist \/ EvalDotimes
  \/ EvalTime \/ EvalForMillis
  \/ EvalLoop \/ EvalDo \/ EvalUnwind \/ EvalIgnore

ReturnStep ==
  \/ ReturnIf \/ ReturnProgn \/ ReturnLet \/ ReturnDefault \/ ReturnArg \/ ReturnBuiltin \/ ReturnMapcar
  \/ ReturnStore \/ ReturnDefvar \/ ReturnSetfPlace \/ ReturnPushItem \/ ReturnPushPlace
  \/ ReturnPopPlace \/ ReturnOr \/ ReturnAnd \/ ReturnCond \/ ReturnWhen \/ ReturnCase
  \/ ReturnTime \/ ReturnForMillis \/ ReturnMillis \/ ReturnDotimes \/ ReturnDotimesForm
  \/ ReturnDolist \/ ReturnDolistForm \/ ReturnLoop \/ ReturnDoVar \/ ReturnDoTest
  \/ ReturnDoForm \/ ReturnDoStep \/ ReturnUnwind \/ ReturnCleanup \/ ReturnIgnore

Next ==
  ReadLine \/ Collect \/ EvalStep \/ ReturnStep \/ HandleError \/ PrintLine \/ Prompt

Spec == Init /\ [][Next]_vars

-----------------------------------------------------------------------------
(* Properties.                                                             *)

\* The locals of an activation that it reads again, as values.
Locals == {"head", "tail", "env", "newenv", "item", "list", "pair", "fn", "args",
           "params", "result"}
Held(f) ==
  {f[n] : n \in Locals \cap DOMAIN f}
    \union (IF f.k = "store" THEN {f.place.loc} ELSE {})
\* A handler with no form left does not read its environment again.
Used(f) ==
  IF f.k \in {"unwind", "cleanup", "ignore"} /\ f.todo = << >> THEN Held(f) \ {f.env}
  ELSE Held(f)

InUse == UNION {Used(cstack[n]) : n \in DOMAIN cstack} \union {env, val}

\* Values are nil, cells or symbols, and a cell has two of them.
Value == Cells \union {Nil} \union -99 .. -1
TypeOK ==
  /\ DOMAIN heap \subseteq Cells
  /\ \A c \in DOMAIN heap : heap[c].car \in Value /\ heap[c].cdr \in Value
  /\ \A s \in DOMAIN GlobalEnv : s \in -99 .. -1 /\ GlobalEnv[s] \in Value
  /\ Range(GCStack) \subseteq Value
  /\ at \in {"idle", "eval", "ret", "error"}
  /\ env \in Cells \union {Nil} /\ val \in Value
  /\ TC \in BOOLEAN /\ RETURNFLAG \in BOOLEAN
  /\ InUse \subseteq Value

\* No collection frees what an activation will read again.
NothingInUseFreed == Reach(heap, InUse) \subseteq DOMAIN heap

\* How many objects an activation has on the GCStack.
Protects(f) ==
  CASE f.k \in {"args", "builtin", "let", "dolistform"} -> 1
    [] f.k = "default" -> IF f.closure.pop THEN 1 ELSE 0
    [] f.k \in {"mapcar", "dovar", "dotest", "doform"} -> 2
    [] f.k = "dostep" -> 2 + 2 * f.count
    [] f.k = "progn" -> IF f.pop THEN 1 ELSE 0
    [] OTHER -> 0

\* protect and unprotect pair up on every path: what is on the GCStack is the line
\* and what the waiting activations protect, errors that were handled included.
GCStackBalanced ==
  at # "error" =>
    Len(GCStack) = (IF at = "idle" THEN 0 ELSE 1)
                   + SumFunction([n \in DOMAIN cstack |-> Protects(cstack[n])])

\* Every line prints what it should, whenever the collections come.
PrintsRight == \A n \in DOMAIN printed : printed[n].got = printed[n].want

=============================================================================
