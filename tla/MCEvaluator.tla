---------------------------- MODULE MCEvaluator ----------------------------
(* Model-checking instances of Evaluator: what is typed at the prompt.     *)
EXTENDS Evaluator

\* The symbols of the programs: variables and functions, then plain data.
x == -21
y == -22
z == -23
f == -24
g == -25
k == -26
p == -31
q == -32

\* Forms.
Q(v)          == QuoteForm(v)
V(s)          == [op |-> "var", s |-> s]
Call(fn, as)  == [op |-> "call", f |-> fn, args |-> as]
If(t, a, b)   == [op |-> "if", test |-> t, then |-> a, else |-> b]
Progn(fs)     == [op |-> "progn", body |-> fs]
Let(as, fs)   == [op |-> "let", star |-> FALSE, assigns |-> as, body |-> fs]
LetS(as, fs)  == [op |-> "let", star |-> TRUE, assigns |-> as, body |-> fs]
To(s, i)      == [s |-> s, init |-> i]
Lambda(c)     == [op |-> "lambda", code |-> c]
Setq(s, i)    == [op |-> "setq", s |-> s, init |-> i]
Defvar(s, i)  == [op |-> "defvar", s |-> s, init |-> i]
Defun(s, c)   == [op |-> "defun", s |-> s, code |-> c]
Setf(w, i)    == [op |-> "setf", place |-> w, init |-> i]
CarOf(fm)     == [op |-> "car", of |-> fm]
CdrOf(fm)     == [op |-> "cdr", of |-> fm]
NthOf(i, fm)  == [op |-> "nth", index |-> i, of |-> fm]
Pop(w)        == [op |-> "pop", place |-> w]
Or(fs)        == [op |-> "or", args |-> fs]
And(fs)       == [op |-> "and", args |-> fs]
Cond(cs)      == [op |-> "cond", clauses |-> cs]
When(t, fs)   == [op |-> "when", unless |-> FALSE, test |-> t, body |-> fs]
Unless(t, fs) == [op |-> "when", unless |-> TRUE, test |-> t, body |-> fs]
Case(fm, cs)  == [op |-> "case", key |-> fm, clauses |-> cs]
Keys(vs, fs)  == [list |-> TRUE, keys |-> vs, body |-> fs]
Key(v, fs)    == [list |-> FALSE, keys |-> <<v>>, body |-> fs]
Dotimes(s, c, end, fs) == [op |-> "dotimes", s |-> s, count |-> c, end |-> end, body |-> fs]
Time(fm, v)   == [op |-> "time", of |-> fm, want |-> v]
ForMillis(n, fs) == [op |-> "formillis", total |-> n, body |-> fs]
Push(i, w)    == [op |-> "push", item |-> i, place |-> w]
Dolist(s, i, end, fs) == [op |-> "dolist", s |-> s, init |-> i, end |-> end, body |-> fs]
Loop(fs)      == [op |-> "loop", body |-> fs]
Do(star, vs, t, rs, fs) ==
  [op |-> "do", star |-> star, vars |-> vs, test |-> t, results |-> rs, body |-> fs]
By(s, i, step) == [s |-> s, init |-> i, step |-> step]
Unwind(i, fs) == [op |-> "unwind", init |-> i, cleanup |-> fs]
Ignore(fs)    == [op |-> "ignore", body |-> fs]

Line(fm, v) == [form |-> fm, value |-> v]
\* A list as it is printed: of elements so printed, and of symbols.
LL(es) == FoldRight(LAMBDA e, r : <<1>> \o e \o r, es, <<0>>)
L(ss)  == LL([n \in DOMAIN ss |-> <<ss[n]>>])

\* (list 'p 'q), (car 'p)
pq    == Call(LIST, <<Q(p), Q(q)>>)
Wrong == Call(CAR, <<Q(p)>>)

\* Parameters.
Required(ss) == [n \in DOMAIN ss |-> [s |-> ss[n], kind |-> "required"]]
Optional(s, default) == [s |-> s, kind |-> "optional", default |-> default]
Rest(s)      == [s |-> s, kind |-> "rest"]

MCDefs ==
  [c \in -58 .. -51 |->
    CASE c = -51 -> \* (z) (cons z x)
           [params |-> Required(<<z>>), body |-> <<Call(CONS, <<V(z), V(x)>>)>>]
      [] c = -52 -> \* (x y) (if x (f (cdr x) (cons (car x) y)) y)
           [params |-> Required(<<x, y>>),
            body |-> <<If(V(x), Call(f, <<Call(CDR, <<V(x)>>),
                                          Call(CONS, <<Call(CAR, <<V(x)>>), V(y)>>)>>),
                       V(y))>>]
      [] c = -53 -> \* (x) (setq y x) (gc) (list x)
           [params |-> Required(<<x>>),
            body |-> <<Setq(y, V(x)), Call(GC, << >>), Call(LIST, <<V(x)>>)>>]
      [] c = -54 -> \* () (gc)
           [params |-> Required(<< >>), body |-> <<Call(GC, << >>)>>]
      [] c = -55 -> \* (x) (if x (k) nil) x
           [params |-> Required(<<x>>), body |-> <<If(V(x), Call(k, << >>), Q(Nil)), V(x)>>]
      [] c = -56 -> \* (x) (if x (g x) nil)
           [params |-> Required(<<x>>), body |-> <<If(V(x), Call(g, <<V(x)>>), Q(Nil))>>]
      [] c = -57 -> \* (x) (return x)
           [params |-> Required(<<x>>), body |-> <<Call(RETURN, <<V(x)>>)>>]
      [] c = -58 -> \* (x &optional y (z (list x y)) &rest k) (list x y z k)
           [params |-> Required(<<x>>) \o <<Optional(y, << >>),
                         Optional(z, <<Call(LIST, <<V(x), V(y)>>)>>), Rest(k)>>,
            body |-> <<Call(LIST, <<V(x), V(y), V(z), V(k)>>)>>]]

\* A closure mapped over the list it has captured, and one called after its let.
Closures ==
  <<Line(LetS(<<To(x, pq), To(y, Call(MAPCAR, <<Lambda(-51), V(x)>>))>>, <<V(y)>>),
         LL(<<L(<<p, p, q>>), L(<<q, p, q>>)>>)),
    Line(Call(FUNCALL, <<Let(<<To(x, pq)>>, <<Lambda(-51)>>), Q(q)>>), L(<<q, p, q>>))>>

\* A tail-recursive reverse; a function that keeps its argument over a collection.
Functions_ ==
  <<Line(Defun(f, -52), <<f>>),
    Line(Call(f, <<pq, Q(Nil)>>), L(<<q, p>>)),
    Line(Defvar(y, Q(Nil)), <<y>>),
    Line(Defun(g, -53), <<g>>),
    Line(Call(CONS, <<Call(g, <<pq>>), V(y)>>), LL(<<LL(<<L(<<p, q>>)>>), <<p>>, <<q>>>>)),
    Line(Let(<<To(x, pq), To(y, Call(LIST, <<Q(q)>>))>>, <<Call(CONS, <<V(x), V(y)>>)>>),
         LL(<<L(<<p, q>>), <<q>>>>)),
    Line(Call(g, << >>), ErrorMessage)>>

\* Loops, and the places that push, setq and setf change.
Loops ==
  <<Line(LetS(<<To(y, Q(Nil)), To(x, pq)>>,
              <<Dolist(z, V(x), <<V(y)>>, <<Push(V(z), V(y)), V(z)>>)>>), L(<<q, p>>)),
    Line(Defvar(y, pq), <<y>>),
    Line(Loop(<<Setq(y, Call(CDR, <<V(y)>>)),
                If(V(y), Q(Nil), Call(RETURN, <<Q(p)>>))>>), <<p>>),
    Line(Progn(<<Q(Nil), Q(q)>>), <<q>>),
    Line(Dolist(z, pq, << >>, <<Progn(<<Call(RETURN, <<V(z)>>), Wrong>>), Wrong>>), <<p>>),
    Line(Setq(y, pq), L(<<p, q>>)),
    Line(Setf(CarOf(V(y)), Q(q)), <<q>>),
    Line(Push(Q(p), CarOf(Call(CDR, <<V(y)>>))), <<1, p, q>>),
    Line(Push(Q(Nil), CarOf(Call(CAR, <<V(y)>>))), ErrorMessage)>>


\* Conditions: what they give back is evaluated in their place.
Conditions ==
  <<Line(Defvar(y, pq), <<y>>),
    Line(Cond(<<<<Q(Nil), Wrong>>, <<Call(CDR, <<V(y)>>)>>, <<Wrong>>>>), L(<<q>>)),
    Line(Cond(<<<<V(y), Call(GC, << >>), Call(LIST, <<V(y)>>)>>, <<Wrong>>>>), LL(<<L(<<p, q>>)>>)),
    Line(Cond(<<<<Q(Nil)>>, << >>>>), ErrorMessage),
    Line(Let(<<To(x, pq)>>,
             <<Case(Call(CAR, <<V(x)>>),
                    <<Keys(<<q, tee>>, <<Wrong>>), Keys(<<z, p>>, <<Call(GC, << >>), V(x)>>),
                      Key(tee, <<Wrong>>)>>)>>), L(<<p, q>>)),
    Line(Case(Call(LIST, <<Q(p)>>), <<Keys(<<p>>, <<Wrong>>), Key(tee, <<V(y)>>)>>), L(<<p, q>>))>>

Alternatives ==
  <<Line(Defvar(y, pq), <<y>>),
    Line(And(<<V(y), Or(<<Q(Nil), Call(CDR, <<V(y)>>), Wrong>>), Call(LIST, <<V(y)>>)>>),
         LL(<<L(<<p, q>>)>>)),
    Line(Or(<<And(<< >>), Wrong>>), <<tee>>),
    Line(Or(<<And(<<V(y), Q(Nil), Wrong>>), Or(<< >>)>>), <<0>>),
    Line(When(V(y), <<Setq(y, pq), Unless(V(y), <<Wrong>>), V(y)>>), L(<<p, q>>)),
    Line(Time(Unless(Call(CDR, <<Call(CDR, <<V(y)>>)>>), <<Q(Nil), V(y)>>), L(<<p, q>>)), <<NOTHING>>)>>

\* Counting, places in lists, parameters that may be left out.
Counting ==
  <<Line(LetS(<<To(x, Q(Nil))>>,
              <<Dotimes(z, Q(Digits(3)), <<V(x)>>, <<Push(V(z), V(x)), Q(Nil)>>)>>),
         L(<<Digits(2), Digits(1), Digits(0)>>)),
    Line(Dotimes(z, Q(Digits(2)), <<Call(LIST, <<V(z)>>)>>, << >>), L(<<Digits(2)>>)),
    Line(Dotimes(z, Q(Digits(2)), << >>, <<Case(V(z), <<Key(Digits(1), <<Call(RETURN, <<V(z)>>)>>)>>)>>),
         <<Digits(1)>>),
    Line(Dotimes(z, Call(LIST, << >>), << >>, <<Q(p)>>), ErrorMessage),
    Line(Cond(<<<<ForMillis(<<Q(Digits(0))>>, <<Q(Nil), Wrong>>)>>>>), ErrorMessage),
    Line(When(Or(<<ForMillis(<< >>, <<pq>>), Q(tee)>>), <<pq>>), L(<<p, q>>))>>

Places ==
  <<Line(LetS(<<To(x, Call(LIST, <<pq, Q(q)>>)), To(y, Pop(V(x)))>>,
              <<Setf(NthOf(0, V(x)), Pop(CdrOf(V(y)))), Setf(CdrOf(V(x)), V(y)), V(x)>>),
         L(<<q, p>>)),
    Line(Let(<<To(x, pq)>>, <<Push(Q(p), CdrOf(V(x)))>>), L(<<p, q>>)),
    Line(Setf(NthOf(2, pq), Q(p)), ErrorMessage),
    Line(LetS(<<To(x, Q(Nil))>>, <<Pop(V(x))>>), ErrorMessage)>>

Parameters ==
  LET called(as, w) == Line(Call(f, as), w)
      a == <<p>>  b == <<q>>  n == <<0>>
  IN <<Line(Defun(f, -58), <<f>>),
       called(<<pq>>, LL(<<L(<<p, q>>), n, LL(<<L(<<p, q>>), n>>), n>>)),
       called(<<Q(p), Q(q)>>, LL(<<a, b, L(<<p, q>>), n>>)),
       called(<<Q(p), Q(q), Call(GC, << >>)>>, LL(<<a, b, n, n>>)),
       called(<<Q(p), Q(q), pq, Call(LIST, <<Q(q)>>), Q(p)>>,
              LL(<<a, b, L(<<p, q>>), LL(<<L(<<q>>), a>>)>>)),
       called(<< >>, ErrorMessage),
       Line(Call(MAPCAR, <<Q(f), pq>>), LL(<<LL(<<a, n, LL(<<a, n>>), n>>), LL(<<b, n, LL(<<b, n>>), n>>)>>))>>

\* do steps its variables together, do* one after the other.
DoLoops ==
  LET vars_ == <<By(x, pq, <<Call(CDR, <<V(x)>>)>>), By(y, Q(Nil), <<V(x)>>)>>
      end   == If(V(x), Q(Nil), Q(tee))
  IN <<Line(Do(FALSE, vars_, end, <<V(y)>>, <<Q(Nil)>>), L(<<q>>)),
       Line(Do(TRUE, vars_, end, <<V(y)>>, << >>), <<0>>),
       Line(Do(FALSE, vars_ \o <<By(z, pq, << >>)>>, end, <<V(z)>>,
               <<Q(Nil), Call(RETURN, <<V(z)>>)>>), L(<<p, q>>))>>

\* Errors inside handlers, with objects protected at the time.
Errors ==
  <<Line(Ignore(<<Let(<<To(x, pq)>>, <<Call(LIST, <<V(x), Wrong>>)>>), Q(p)>>), <<NOTHING>>),
    Line(Defvar(y, Q(Nil)), <<y>>),
    Line(Unwind(Call(LIST, <<Wrong>>), <<Setq(y, pq), Setq(z, Q(p))>>), ErrorMessage),
    Line(Ignore(<<Unwind(Wrong, <<Setq(y, Call(CONS, <<Q(q), V(y)>>)), Q(Nil)>>)>>),
         <<NOTHING>>),
    Line(Call(LIST, <<Ignore(<<Wrong>>), V(y)>>), LL(<<<<NOTHING>>, L(<<q, p, q>>)>>)),
    Line(Unwind(Q(p), <<Q(Nil), Wrong>>), ErrorMessage),
    Line(Loop(<<Ignore(<<Q(Nil), Call(RETURN, <<Q(p)>>), Wrong>>)>>), <<p>>),
    Line(Unwind(Q(p), <<Call(GC, << >>)>>), <<p>>)>>

\* Of every state: its type, and the pairs of protect and unprotect.
StackBalanced == TypeOK /\ GCStackBalanced

MCPrograms == {Closures, Functions_, Loops, Conditions, Alternatives, Counting, Places,
               Parameters, DoLoops, Errors}

-----------------------------------------------------------------------------
(* What the documentation of the functions says, against what they do.     *)

\* "returns the value of form1"
UnwindValue == {<<Line(Unwind(pq, <<Call(GC, << >>)>>), L(<<p, q>>))>>}

\* "guarantees to evaluate forms"
UnwindForms ==
  {<<Line(Defvar(y, Q(Nil)), <<y>>),
     Line(Loop(<<Unwind(Call(RETURN, <<Q(p)>>), <<Q(Nil), Setq(y, Q(q))>>)>>), <<p>>),
     Line(V(y), <<q>>)>>}

\* "to add item onto the front of the list, and returns the new list"
PushItem ==
  {<<Line(Let(<<To(x, Call(LIST, <<Q(Nil)>>))>>, <<Push(pq, CarOf(V(x)))>>),
          LL(<<L(<<p, q>>)>>))>>}

\* "Exits from a (dotimes ...), (dolist ...), or (loop ...) loop construct and
\* returns value."
ReturnValue == {<<Line(Loop(<<Call(LIST, <<Call(RETURN, <<Q(p)>>), Q(q)>>)>>), <<p>>)>>}

\* "Sets the local variable var to each element of list in turn, and executes the
\* forms."
DolistTurns ==
  {<<Line(Defvar(y, Q(Nil)), <<y>>),
     Line(Call(RETURN, <<Q(p)>>), <<p>>),
     Line(Dolist(z, pq, << >>, <<Setq(y, V(z))>>), <<0>>)>>}

\* "stepped by step sequentially"
DoSteps ==
  {<<Line(Do(FALSE, <<By(x, pq, <<Call(CDR, <<V(x)>>)>>), By(y, Q(Nil), <<V(x)>>)>>,
             If(V(x), Q(Nil), Q(tee)), <<V(y)>>, << >>), <<0>>)>>}

\* The place of setf is evaluated before the value.
SetfPlace == {<<Line(Setf(CarOf(pq), Call(LIST, <<Q(q)>>)), L(<<q>>))>>}

\* (h (list 'p 'q)) calls g in tail position, g calls k inside an if.
TailCall ==
  {<<Line(Defun(k, -54), <<k>>), Line(Defun(g, -55), <<g>>), Line(Defun(f, -56), <<f>>),
     Line(Call(f, <<pq>>), L(<<p, q>>))>>}
=============================================================================
