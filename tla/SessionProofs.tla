---------------------------- MODULE SessionProofs ----------------------------
(***************************************************************************)
(* Proofs about Session, for forms nested as deep as one likes: whatever   *)
(* calls what, and wherever it is left by an error, the handler is that of *)
(* a call under way, messages are muffled where they should be, a break    *)
(* can be left, and the flags are as the forms under way and the errors    *)
(* there were explain.  About Streams, for any number of forms that open a *)
(* stream: what each reaches, and what is left open.  About CodeBlocks,    *)
(* for any number of functions and any size of the code: each call runs    *)
(* what was made for it.  And about Tracing, for calls nested as deep as   *)
(* the counters can tell: what is kept of them is what they were.          *)
(***************************************************************************)
EXTENDS MCSession, FiniteSetTheorems, SequenceTheorems, WellFoundedInduction, TLAPS

-----------------------------------------------------------------------------
(* The calls under way, and what is left of them.                          *)

\* The first n calls.
LEMMA Kept ==
  ASSUME calls \in Seq(Frame), NEW n \in 0 .. Len(calls)
  PROVE  /\ SubSeq(calls, 1, n) \in Seq(Frame)
         /\ Len(SubSeq(calls, 1, n)) = n
         /\ \A k \in 1 .. n : SubSeq(calls, 1, n)[k] = calls[k]
BY SubSeqProperties

\* A sequence and one more.
LEMMA OneMore ==
  ASSUME NEW s \in Seq(Frame), NEW f \in Frame
  PROVE  /\ Append(s, f) \in Seq(Frame)
         /\ Len(Append(s, f)) = Len(s) + 1
         /\ \A k \in 1 .. Len(s) : Append(s, f)[k] = s[k]
         /\ Append(s, f)[Len(s) + 1] = f
BY AppendProperties

\* A call adds a frame.
LEMMA PushShape ==
  ASSUME calls \in Seq(Frame), NEW f \in Frame, calls' = Append(calls, f)
  PROVE  /\ calls' \in Seq(Frame) /\ Len(calls') = Len(calls) + 1
         /\ DOMAIN calls = 1 .. Len(calls) /\ DOMAIN calls' = 1 .. Len(calls) + 1
         /\ \A k \in 1 .. Len(calls) : calls'[k] = calls[k]
         /\ calls'[Len(calls) + 1] = f
BY OneMore

\* The end of a call, or an error, leaves the first n.
LEMMA PopShape ==
  ASSUME calls \in Seq(Frame), NEW n \in 0 .. Len(calls), calls' = SubSeq(calls, 1, n)
  PROVE  /\ calls' \in Seq(Frame) /\ Len(calls') = n
         /\ Len(calls) \in Nat /\ n \in Nat /\ n <= Len(calls)
         /\ DOMAIN calls = 1 .. Len(calls) /\ DOMAIN calls' = 1 .. n
         /\ \A k \in 1 .. n : calls'[k] = calls[k]
BY Kept

\* A cleanup that begins changes the last of those that are left.
LEMMA CatchShape ==
  ASSUME calls \in Seq(Frame), NEW n \in 1 .. Len(calls), NEW f \in Frame,
         calls' = Append(SubSeq(calls, 1, n - 1), f)
  PROVE  /\ calls' \in Seq(Frame) /\ Len(calls') = n
         /\ DOMAIN calls = 1 .. Len(calls) /\ DOMAIN calls' = 1 .. n
         /\ \A k \in 1 .. n - 1 : calls'[k] = calls[k]
         /\ calls'[n] = f
<1>1. n - 1 \in 0 .. Len(calls)
  OBVIOUS
<1>2. /\ SubSeq(calls, 1, n - 1) \in Seq(Frame) /\ Len(SubSeq(calls, 1, n - 1)) = n - 1
      /\ \A k \in 1 .. n - 1 : SubSeq(calls, 1, n - 1)[k] = calls[k]
  BY <1>1, Kept
<1> DEFINE s == SubSeq(calls, 1, n - 1)
<1> HIDE DEF s
<1>3. QED
  BY <1>2, OneMore DEF s

-----------------------------------------------------------------------------
(* The handler.                                                            *)

\* Whether a call catches errors is a matter of its frame.
LEMMA InnermostKept ==
  ASSUME NEW s \in Seq(Frame), NEW t \in Seq(Frame),
         NEW n \in 0 .. Len(s), n <= Len(t), \A k \in 1 .. n : t[k] = s[k],
         NEW h, Innermost(s, h, n)
  PROVE  Innermost(t, h, n)
BY DEF Innermost, Catching

\* A call that catches nothing is not the innermost that does.
LEMMA InnermostBelow ==
  ASSUME NEW s \in Seq(Frame), NEW n \in 1 .. Len(s), NEW h, Innermost(s, h, n),
         ~Catching(s, n)
  PROVE  Innermost(s, h, n - 1)
<1>1. h # n
  BY DEF Innermost
<1>2. QED
  BY <1>1 DEF Innermost

\* The calls that are left, the one that catches left out, keep what they saved.
LEMMA HandlersPop ==
  ASSUME TypeOK, HandlersSaved, NEW n \in 0 .. Len(calls),
         calls' = SubSeq(calls, 1, n), Innermost(calls, handler', n)
  PROVE  HandlersSaved'
<1>1. /\ calls \in Seq(Frame) /\ calls' \in Seq(Frame) /\ Len(calls') = n
      /\ DOMAIN calls = 1 .. Len(calls) /\ DOMAIN calls' = 1 .. n
      /\ \A k \in 1 .. n : calls'[k] = calls[k]
  BY PopShape DEF TypeOK
<1>2. Innermost(calls', handler', n)
  <2>1. n <= Len(calls')
    BY <1>1
  <2>2. QED
    BY <1>1, <2>1, InnermostKept
<1>3. ASSUME NEW i \in DOMAIN calls'
      PROVE  /\ Innermost(calls', calls'[i].handler, i - 1)
             /\ calls'[i].cleanup => calls'[i].form = "unwind-protect"
  <2>1. Innermost(calls, calls[i].handler, i - 1) /\ calls'[i] = calls[i]
        /\ (calls[i].cleanup => calls[i].form = "unwind-protect")
    BY <1>1 DEF HandlersSaved
  <2>2. i - 1 \in 0 .. Len(calls) /\ i - 1 <= Len(calls') /\ \A k \in 1 .. i - 1 : k \in 1 .. n
    BY <1>1
  <2>3. Innermost(calls', calls[i].handler, i - 1)
    BY <1>1, <2>1, <2>2, InnermostKept
  <2>4. QED
    BY <2>1, <2>3
<1>4. QED
  BY <1>1, <1>2, <1>3 DEF HandlersSaved

\* Nor do those below a cleanup that begins.
LEMMA HandlersCatch ==
  ASSUME TypeOK, HandlersSaved, NEW n \in 1 .. Len(calls), NEW f \in Frame,
         calls[n].form = "unwind-protect", f.form = "unwind-protect", f.cleanup,
         f.handler = calls[n].handler, handler' = calls[n].handler,
         calls' = Append(SubSeq(calls, 1, n - 1), f)
  PROVE  HandlersSaved'
<1>1. /\ calls \in Seq(Frame) /\ calls' \in Seq(Frame) /\ Len(calls') = n
      /\ DOMAIN calls = 1 .. Len(calls) /\ DOMAIN calls' = 1 .. n
      /\ \A k \in 1 .. n - 1 : calls'[k] = calls[k]
      /\ calls'[n] = f
  BY CatchShape DEF TypeOK
<1>2. ASSUME NEW i \in 1 .. n, NEW h, Innermost(calls, h, i - 1)
      PROVE  Innermost(calls', h, i - 1)
  <2>1. i - 1 \in 0 .. Len(calls) /\ i - 1 <= Len(calls') /\ \A k \in 1 .. i - 1 : k \in 1 .. n - 1
    BY <1>1
  <2>2. QED
    BY <1>1, <1>2, <2>1, InnermostKept
<1>3. Innermost(calls', handler', n)
  <2>1. Innermost(calls', handler', n - 1)
    BY <1>1, <1>2 DEF HandlersSaved
  <2>2. ~Catching(calls', n)
    BY <1>1 DEF Catching
  <2>3. QED
    BY <1>1, <2>1, <2>2 DEF Innermost
<1>4. ASSUME NEW i \in 1 .. n
      PROVE  /\ Innermost(calls', calls'[i].handler, i - 1)
             /\ calls'[i].cleanup => calls'[i].form = "unwind-protect"
  <2>1. calls'[i].handler = calls[i].handler
    BY <1>1
  <2>2. Innermost(calls', calls'[i].handler, i - 1)
    BY <1>1, <1>2, <2>1 DEF HandlersSaved
  <2>3. QED
    BY <1>1, <2>2 DEF HandlersSaved
<1>5. QED
  BY <1>1, <1>3, <1>4 DEF HandlersSaved

\* A call saves the handler as it is, and is the handler when it catches.
LEMMA HandlersPush ==
  ASSUME TypeOK, HandlersSaved, NEW f \in Frame, calls' = Append(calls, f),
         f.handler = handler, ~f.cleanup,
         handler' = IF f.form \in {"ignore-errors", "unwind-protect"}
                    THEN Len(calls) + 1 ELSE handler
  PROVE  HandlersSaved'
<1> DEFINE n == Len(calls)
<1>1. /\ calls \in Seq(Frame) /\ calls' \in Seq(Frame) /\ Len(calls') = n + 1 /\ n \in Nat
      /\ DOMAIN calls = 1 .. n /\ DOMAIN calls' = 1 .. n + 1
      /\ \A k \in 1 .. n : calls'[k] = calls[k]
      /\ calls'[n + 1] = f
  BY PushShape DEF TypeOK
<1>2. ASSUME NEW i \in 0 .. n, NEW h, Innermost(calls, h, i)
      PROVE  Innermost(calls', h, i)
  <2>1. i <= Len(calls') /\ \A k \in 1 .. i : k \in 1 .. n
    BY <1>1
  <2>2. QED
    BY <1>1, <1>2, <2>1, InnermostKept
<1>3. Innermost(calls', handler, n)
  BY <1>1, <1>2 DEF HandlersSaved
<1>4. Innermost(calls', handler', n + 1)
  <2>1. CASE f.form \in {"ignore-errors", "unwind-protect"}
    BY <1>1, <2>1 DEF Innermost, Catching
  <2>2. CASE f.form \notin {"ignore-errors", "unwind-protect"}
    <3>1. ~Catching(calls', n + 1)
      BY <1>1, <2>2 DEF Catching
    <3>2. QED
      BY <1>1, <1>3, <2>2, <3>1 DEF Innermost
  <2>3. QED
    BY <2>1, <2>2
<1>5. ASSUME NEW i \in 1 .. n + 1
      PROVE  /\ Innermost(calls', calls'[i].handler, i - 1)
             /\ calls'[i].cleanup => calls'[i].form = "unwind-protect"
  <2>1. CASE i = n + 1
    BY <1>1, <1>3, <2>1
  <2>2. CASE i \in 1 .. n
    <3>1. Innermost(calls, calls[i].handler, i - 1) /\ i - 1 \in 0 .. n
      BY <1>1, <2>2 DEF HandlersSaved
    <3>2. QED
      BY <1>1, <1>2, <2>2, <3>1 DEF HandlersSaved
  <2>3. QED
    BY <1>1, <2>1, <2>2
<1>6. QED
  BY <1>1, <1>4, <1>5 DEF HandlersSaved

-----------------------------------------------------------------------------
(* The flags.                                                              *)

\* Messages are muffled in ignore-errors, of which a return or an error leaves those
\* below.
LEMMA MufflesPop ==
  ASSUME TypeOK, MuffleSaved, NEW n \in 0 .. Len(calls), calls' = SubSeq(calls, 1, n),
         "MUFFLEERRORS" \in Flags' <=> \E j \in Under("ignore-errors") : j <= n
  PROVE  MuffleSaved' /\ MuffledInside'
<1>1. /\ calls \in Seq(Frame) /\ calls' \in Seq(Frame) /\ Len(calls') = n
      /\ DOMAIN calls = 1 .. Len(calls) /\ DOMAIN calls' = 1 .. n
      /\ \A k \in 1 .. n : calls'[k] = calls[k]
  BY PopShape DEF TypeOK
<1>2. Under("ignore-errors")' = {j \in Under("ignore-errors") : j <= n}
  BY <1>1 DEF Under
<1>3. MuffledInside'
  BY <1>2 DEF MuffledInside
<1>4. ASSUME NEW i \in 1 .. n
      PROVE  "MUFFLEERRORS" \in calls'[i].Flags <=> \E j \in Under("ignore-errors")' : j < i
  <2>1. \A j \in Under("ignore-errors") : j < i => j <= n
    BY <1>1 DEF Under
  <2>2. (\E j \in Under("ignore-errors")' : j < i) <=> \E j \in Under("ignore-errors") : j < i
    BY <1>2, <2>1
  <2>3. QED
    BY <1>1, <2>2 DEF MuffleSaved
<1>5. QED
  BY <1>1, <1>3, <1>4 DEF MuffleSaved

LEMMA MufflesCatch ==
  ASSUME TypeOK, MuffleSaved, MuffledInside, NEW n \in 1 .. Len(calls), NEW f \in Frame,
         f.form = calls[n].form, f.Flags = calls[n].Flags, Flags' = Flags,
         \A j \in Under("ignore-errors") : j <= n,
         calls' = Append(SubSeq(calls, 1, n - 1), f)
  PROVE  MuffleSaved' /\ MuffledInside'
<1>1. /\ calls \in Seq(Frame) /\ calls' \in Seq(Frame) /\ Len(calls') = n
      /\ DOMAIN calls = 1 .. Len(calls) /\ DOMAIN calls' = 1 .. n
      /\ \A k \in 1 .. n - 1 : calls'[k] = calls[k]
      /\ calls'[n] = f
  BY CatchShape DEF TypeOK
<1>2. \A k \in 1 .. n : calls'[k].form = calls[k].form /\ calls'[k].Flags = calls[k].Flags
  BY <1>1
<1>3. Under("ignore-errors")' = Under("ignore-errors")
  BY <1>1, <1>2 DEF Under
<1>4. QED
  BY <1>1, <1>2, <1>3 DEF MuffleSaved, MuffledInside

LEMMA MufflesPush ==
  ASSUME TypeOK, MuffleSaved, MuffledInside, NEW f \in Frame, f.Flags = Flags,
         calls' = Append(calls, f),
         "MUFFLEERRORS" \in Flags' <=> "MUFFLEERRORS" \in Flags \/ f.form = "ignore-errors"
  PROVE  MuffleSaved' /\ MuffledInside'
<1> DEFINE n == Len(calls)
<1>1. /\ calls \in Seq(Frame) /\ calls' \in Seq(Frame) /\ Len(calls') = n + 1 /\ n \in Nat
      /\ DOMAIN calls = 1 .. n /\ DOMAIN calls' = 1 .. n + 1
      /\ \A k \in 1 .. n : calls'[k] = calls[k]
      /\ calls'[n + 1] = f
  BY PushShape DEF TypeOK
<1>2. \A j \in 1 .. n + 1 : j \in Under("ignore-errors")' <=>
        j \in Under("ignore-errors") \/ (j = n + 1 /\ f.form = "ignore-errors")
  BY <1>1 DEF Under
<1>3. Under("ignore-errors") \subseteq 1 .. n /\ Under("ignore-errors")' \subseteq 1 .. n + 1
  BY <1>1 DEF Under
<1>4. MuffledInside'
  BY <1>1, <1>2, <1>3 DEF MuffledInside
<1>5. ASSUME NEW i \in 1 .. n + 1
      PROVE  "MUFFLEERRORS" \in calls'[i].Flags <=> \E j \in Under("ignore-errors")' : j < i
  <2>1. CASE i = n + 1
    BY <1>1, <1>2, <1>3, <2>1 DEF MuffledInside
  <2>2. CASE i \in 1 .. n
    BY <1>1, <1>2, <1>3, <2>2 DEF MuffleSaved
  <2>3. QED
    BY <1>1, <2>1, <2>2
<1>6. QED
  BY <1>1, <1>4, <1>5 DEF MuffleSaved

\* A form that prints is the last call, and so what it explains is left with it.
LEMMA PrintsPop ==
  ASSUME TypeOK, PrintingIsLast, NEW n \in 0 .. Len(calls), calls' = SubSeq(calls, 1, n),
         n = Len(calls) => Under("princ") = {},
         "PRINTREADABLY" \notin Flags' => "PRINTREADABLY" \in torn',
         "NOESC" \in Flags' => "NOESC" \in torn' \/ \E j \in Under("defvar") : j <= n
  PROVE  PrintingIsLast' /\ FlagsReturn'
<1>1. /\ calls \in Seq(Frame) /\ calls' \in Seq(Frame) /\ Len(calls') = n
      /\ DOMAIN calls = 1 .. Len(calls) /\ DOMAIN calls' = 1 .. n
      /\ \A k \in 1 .. n : calls'[k] = calls[k]
  BY PopShape DEF TypeOK
<1>0. Len(calls) \in Nat /\ n \in Nat /\ n <= Len(calls)
  BY PopShape DEF TypeOK
<1>2. ASSUME NEW k \in 1 .. n, calls'[k].form = "princ"
      PROVE  FALSE
  <2>0. k \in 1 .. Len(calls)
    BY <1>0
  <2>1. k \in DOMAIN calls /\ calls[k].form = "princ"
    BY <1>1, <1>2, <2>0
  <2>2. k = Len(calls)
    BY <2>1 DEF PrintingIsLast
  <2>3. n = Len(calls)
    BY <2>2
  <2>4. Under("princ") = {}
    BY <2>3
  <2>5. QED
    BY <2>1, <2>4 DEF Under
<1>3. ASSUME NEW j \in Under("defvar"), j <= n
      PROVE  j \in Under("defvar")'
  <2>1. j \in DOMAIN calls /\ calls[j].form = "defvar"
    BY DEF Under
  <2>2. j \in 1 .. n
    <3>1. j \in 1 .. Len(calls)
      BY <1>1, <2>1
    <3>2. QED
      BY <1>0, <1>3, <3>1
  <2>3. j \in DOMAIN calls' /\ calls'[j].form = "defvar"
    BY <1>1, <2>1, <2>2
  <2>4. QED
    BY <2>3 DEF Under
<1>4. FlagsReturn'
  BY <1>3 DEF FlagsReturn
<1>5. QED
  BY <1>1, <1>2, <1>4 DEF PrintingIsLast

LEMMA PrintsCatch ==
  ASSUME TypeOK, PrintingIsLast, NEW n \in 1 .. Len(calls), NEW f \in Frame,
         f.form # "princ", f.form = calls[n].form,
         calls' = Append(SubSeq(calls, 1, n - 1), f),
         "PRINTREADABLY" \notin Flags' => "PRINTREADABLY" \in torn',
         "NOESC" \in Flags' => "NOESC" \in torn' \/ \E j \in Under("defvar") : j <= n
  PROVE  PrintingIsLast' /\ FlagsReturn'
<1>1. /\ calls \in Seq(Frame) /\ calls' \in Seq(Frame) /\ Len(calls') = n
      /\ DOMAIN calls = 1 .. Len(calls) /\ DOMAIN calls' = 1 .. n
      /\ \A k \in 1 .. n - 1 : calls'[k] = calls[k]
      /\ calls'[n] = f
  BY CatchShape DEF TypeOK
<1>2. \A k \in 1 .. n : calls'[k].form # "princ" /\ calls'[k].form = calls[k].form
  BY <1>1 DEF PrintingIsLast
<1>3. {j \in Under("defvar") : j <= n} \subseteq Under("defvar")'
  BY <1>1, <1>2 DEF Under
<1>4. FlagsReturn'
  BY <1>3 DEF FlagsReturn
<1>5. QED
  BY <1>1, <1>2, <1>4 DEF PrintingIsLast

\* Nothing prints when a form is called.
LEMMA PrintsPush ==
  ASSUME TypeOK, PrintingIsLast, FlagsReturn, Under("princ") = {}, NEW f \in Frame,
         f.Flags = Flags, calls' = Append(calls, f), UNCHANGED torn,
         f.form = "princ" => Flags' = Flags \ {"PRINTREADABLY"},
         f.form # "princ" => ("PRINTREADABLY" \in Flags' <=> "PRINTREADABLY" \in Flags),
         f.form # "defvar" => ("NOESC" \in Flags' => "NOESC" \in Flags)
  PROVE  PrintingIsLast' /\ FlagsReturn'
<1> DEFINE n == Len(calls)
<1>1. /\ calls \in Seq(Frame) /\ calls' \in Seq(Frame) /\ Len(calls') = n + 1 /\ n \in Nat
      /\ DOMAIN calls = 1 .. n /\ DOMAIN calls' = 1 .. n + 1
      /\ \A k \in 1 .. n : calls'[k] = calls[k]
      /\ calls'[n + 1] = f
  BY PushShape DEF TypeOK
<1>2. \A k \in 1 .. n : calls'[k].form # "princ"
  BY <1>1 DEF Under
<1>3. Under("defvar") \subseteq Under("defvar")' /\ (f.form = "defvar" => n + 1 \in Under("defvar")')
  BY <1>1 DEF Under
<1>4. f.form = "princ" => n + 1 \in Under("princ")'
  BY <1>1 DEF Under
<1>5. FlagsReturn'
  BY <1>3, <1>4 DEF FlagsReturn
<1>6. ASSUME NEW i \in 1 .. n + 1, calls'[i].form = "princ"
      PROVE  /\ i = n + 1
             /\ "PRINTREADABLY" \notin calls'[i].Flags => "PRINTREADABLY" \in torn'
             /\ "NOESC" \in calls'[i].Flags => Under("defvar")' # {} \/ "NOESC" \in torn'
  <2>1. i = n + 1
    BY <1>1, <1>2, <1>6
  <2>2. QED
    BY <1>1, <1>3, <2>1 DEF FlagsReturn
<1>7. QED
  BY <1>1, <1>5, <1>6 DEF PrintingIsLast

-----------------------------------------------------------------------------
(* The steps of the forms.                                                 *)

\* A level within its bounds wraps at neither.
LEMMA LevelWraps ==
  ASSUME NEW x \in Int
  PROVE  x % Levels \in 0 .. Levels - 1 /\ (x \in 0 .. Levels - 1 => x % Levels = x)
<1>1. Levels \in Nat /\ Levels > 0
  BY SessionAssumption
<1>2. QED
  BY <1>1, Z3

\* A form that is called keeps the invariant when its flags and handler are such as
\* its kind sets.
LEMMA CallKeeps ==
  ASSUME IInv, NEW form \in Form, NEW flags \in SUBSET Flag, NEW hand,
         NEW level \in 0 .. Levels - 1, Call(form, flags, hand, level), UNCHANGED torn,
         hand = IF form \in {"ignore-errors", "unwind-protect"}
                THEN Len(calls) + 1 ELSE handler,
         "MUFFLEERRORS" \in flags <=> "MUFFLEERRORS" \in Flags \/ form = "ignore-errors",
         form = "princ" => flags = Flags \ {"PRINTREADABLY"},
         form # "princ" => ("PRINTREADABLY" \in flags <=> "PRINTREADABLY" \in Flags),
         form # "defvar" => ("NOESC" \in flags => "NOESC" \in Flags)
  PROVE  IInv'
<1> DEFINE f == [form |-> form, Flags |-> Flags, handler |-> handler,
                 cleanup |-> FALSE, signaled |-> FALSE]
<1>1. f \in Frame
  BY DEF IInv, TypeOK, Frame
<1>2. /\ calls' = Append(calls, f) /\ Flags' = flags /\ handler' = hand
      /\ BreakLevel' = level
  BY DEF Call
<1>3. Under("princ") = {}
  <2> SUFFICES ASSUME NEW k \in DOMAIN calls, calls[k].form = "princ"
               PROVE  FALSE
    BY DEF Under
  <2>1. k = Len(calls) /\ calls # << >>
    BY DEF IInv, PrintingIsLast
  <2>2. Top.form = "princ" /\ ~AtPrompt
    BY <2>1 DEF Top, AtPrompt
  <2>3. QED
    BY <2>2 DEF Call, Evaluating
<1>4. f.form = form /\ f.Flags = Flags /\ f.handler = handler /\ ~f.cleanup
  OBVIOUS
<1> HIDE DEF f
<1>5. HandlersSaved'
  BY <1>1, <1>2, <1>4, HandlersPush DEF IInv
<1>6. MuffleSaved' /\ MuffledInside'
  BY <1>1, <1>2, <1>4, MufflesPush DEF IInv
<1>7. PrintingIsLast' /\ FlagsReturn'
  BY <1>1, <1>2, <1>3, <1>4, PrintsPush DEF IInv
<1>8. TypeOK'
  <2>1. calls' \in Seq(Frame) /\ Len(calls') <= MaxCalls
    <3>1. calls' \in Seq(Frame) /\ Len(calls') = Len(calls) + 1 /\ Len(calls) < MaxCalls
      BY <1>1, <1>2, PushShape DEF IInv, TypeOK, Call
    <3>2. Len(calls) \in Nat /\ MaxCalls \in Nat
      BY SessionAssumption DEF IInv, TypeOK
    <3>3. QED
      BY <3>1, <3>2
  <2>2. handler' \in 0 .. Len(calls')
    BY <1>5 DEF HandlersSaved, Innermost
  <2>3. typed' \in 0 .. MaxTyped
    <3>1. typed \in 0 .. MaxTyped /\ MaxTyped \in Nat
      BY SessionAssumption DEF IInv, TypeOK
    <3>2. AtPrompt => typed > 0
      BY DEF Call, Evaluating
    <3>3. typed' = IF AtPrompt THEN typed - 1 ELSE typed
      BY DEF Call, Read
    <3>4. QED
      BY <3>1, <3>2, <3>3
  <2>4. QED
    BY <1>2, <2>1, <2>2, <2>3 DEF IInv, TypeOK
<1>9. QED
  BY <1>5, <1>6, <1>7, <1>8 DEF IInv

\* So does the end of a call, and an error, that leave the first n.
LEMMA LeavingKeeps ==
  ASSUME IInv, NEW n \in 0 .. Len(calls), calls' = SubSeq(calls, 1, n),
         Innermost(calls, handler', n),
         Flags' \in SUBSET Flag, torn' \in SUBSET Flag,
         BreakLevel' \in 0 .. Levels - 1, typed' \in 0 .. MaxTyped,
         "MUFFLEERRORS" \in Flags' <=> \E j \in Under("ignore-errors") : j <= n,
         n = Len(calls) => Under("princ") = {},
         "PRINTREADABLY" \notin Flags' => "PRINTREADABLY" \in torn',
         "NOESC" \in Flags' => "NOESC" \in torn' \/ \E j \in Under("defvar") : j <= n
  PROVE  IInv'
<1>1. TypeOK /\ HandlersSaved /\ MuffleSaved /\ PrintingIsLast
  BY DEF IInv
<1>2. HandlersSaved'
  BY <1>1, HandlersPop
<1>3. MuffleSaved' /\ MuffledInside'
  BY <1>1, MufflesPop
<1>4. PrintingIsLast' /\ FlagsReturn'
  BY <1>1, PrintsPop
<1>5. TypeOK'
  <2>1. calls' \in Seq(Frame) /\ Len(calls') = n /\ n <= Len(calls) /\ n \in Nat
        /\ Len(calls) \in Nat /\ Len(calls) <= MaxCalls /\ MaxCalls \in Nat
    BY <1>1, PopShape, SessionAssumption DEF TypeOK
  <2>2. Len(calls') <= MaxCalls
    BY <2>1
  <2>3. handler' \in 0 .. Len(calls')
    BY <1>2 DEF HandlersSaved, Innermost
  <2>4. QED
    BY <2>1, <2>2, <2>3 DEF TypeOK
<1>6. QED
  BY <1>2, <1>3, <1>4, <1>5 DEF IInv

\* So does a cleanup that begins, its form the innermost that is left.
LEMMA CleanupKeeps ==
  ASSUME IInv, NEW n \in 1 .. Len(calls), NEW f \in Frame,
         calls[n].form = "unwind-protect", f.form = "unwind-protect", f.cleanup,
         f.handler = calls[n].handler, f.Flags = calls[n].Flags,
         handler' = calls[n].handler, UNCHANGED <<Flags, BreakLevel>>,
         calls' = Append(SubSeq(calls, 1, n - 1), f),
         torn' \in SUBSET Flag, typed' \in 0 .. MaxTyped,
         \A j \in Under("ignore-errors") : j <= n,
         "PRINTREADABLY" \notin Flags' => "PRINTREADABLY" \in torn',
         "NOESC" \in Flags' => "NOESC" \in torn' \/ \E j \in Under("defvar") : j <= n
  PROVE  IInv'
<1>1. TypeOK /\ HandlersSaved /\ MuffleSaved /\ MuffledInside /\ PrintingIsLast
  BY DEF IInv
<1>2. HandlersSaved'
  BY <1>1, HandlersCatch
<1>3. MuffleSaved' /\ MuffledInside'
  BY <1>1, MufflesCatch
<1>4. PrintingIsLast' /\ FlagsReturn'
  BY <1>1, PrintsCatch
<1>5. TypeOK'
  <2>1. calls' \in Seq(Frame) /\ Len(calls') = n
    BY <1>1, CatchShape DEF TypeOK
  <2>2. Len(calls') <= MaxCalls
    <3>1. Len(calls) \in Nat /\ Len(calls) <= MaxCalls /\ MaxCalls \in Nat
      BY <1>1, SessionAssumption DEF TypeOK
    <3>2. QED
      BY <2>1, <3>1
  <2>3. handler' \in 0 .. Len(calls')
    BY <1>2 DEF HandlersSaved, Innermost
  <2>4. QED
    BY <1>1, <2>1, <2>2, <2>3 DEF TypeOK
<1>6. QED
  BY <1>2, <1>3, <1>4, <1>5 DEF IInv

\* The calls that are left by a jump.
LEMMA LeftType ==
  ASSUME NEW k \in Nat
  PROVE  LeftBy(k) \in SUBSET {"NOESC", "PRINTREADABLY"} /\ LeftBy(k) \in SUBSET Flag
BY DEF LeftBy, Flag

\* A flag that is not as it should be after a jump to call k is noted, or is explained
\* by a call that is left.
LEMMA LeftNoted ==
  ASSUME IInv, NEW k \in Nat
  PROVE  /\ "PRINTREADABLY" \notin Flags =>
              "PRINTREADABLY" \in torn \union LeftBy(k) \/ \E j \in Under("princ") : j <= k
         /\ "NOESC" \in Flags =>
              "NOESC" \in torn \union LeftBy(k) \/ \E j \in Under("defvar") : j <= k
<1>1. ASSUME NEW j \in Under("princ"), ~(j <= k)
      PROVE  "PRINTREADABLY" \in LeftBy(k)
  <2>1. j \in DOMAIN calls /\ calls[j].form = "princ"
    BY <1>1 DEF Under
  <2>2. j > k
    BY <1>1, <2>1 DEF IInv, TypeOK
  <2>3. QED
    BY <2>1, <2>2 DEF LeftBy
<1>2. ASSUME NEW j \in Under("defvar"), ~(j <= k)
      PROVE  "NOESC" \in LeftBy(k)
  <2>1. j \in DOMAIN calls /\ calls[j].form = "defvar"
    BY <1>2 DEF Under
  <2>2. j > k
    BY <1>2, <2>1 DEF IInv, TypeOK
  <2>3. QED
    BY <2>1, <2>2 DEF LeftBy
<1>3. QED
  BY <1>1, <1>2 DEF IInv, FlagsReturn

\* No ignore-errors is inside the call whose handler it is.
LEMMA NoneInside ==
  ASSUME IInv
  PROVE  \A j \in Under("ignore-errors") : j <= handler
<1> SUFFICES ASSUME NEW j \in Under("ignore-errors"), ~(j <= handler)
             PROVE  FALSE
  OBVIOUS
<1>1. j \in DOMAIN calls /\ calls[j].form = "ignore-errors" /\ j \in 1 .. Len(calls)
  BY DEF Under, IInv, TypeOK
<1>2. ~calls[j].cleanup
  BY <1>1 DEF IInv, HandlersSaved
<1>3. Catching(calls, j)
  BY <1>1, <1>2 DEF Catching
<1>4. handler \in 0 .. Len(calls)
  BY DEF IInv, TypeOK
<1>5. handler < j /\ j <= Len(calls)
  BY <1>1, <1>4
<1>6. QED
  BY <1>1, <1>3, <1>5 DEF IInv, HandlersSaved, Innermost

\* The top level keeps nothing of what was under way.
LEMMA UlisperrorKeeps ==
  ASSUME IInv, handler = 0 \/ calls = << >>, ulisperror,
         typed' \in 0 .. MaxTyped
  PROVE  IInv'
<1>1. Len(calls) \in Nat /\ 0 \in 0 .. Len(calls)
  BY DEF IInv, TypeOK
<1>2. calls' = SubSeq(calls, 1, 0) /\ handler' = 0
  BY DEF ulisperror
<1>3. Innermost(calls, handler', 0)
  BY <1>2 DEF Innermost, IInv, TypeOK
<1>4. Under("ignore-errors") = {}
  <2>1. CASE handler = 0
    BY <2>1, NoneInside DEF Under, IInv, TypeOK
  <2>2. CASE calls = << >>
    BY <2>2 DEF Under
  <2>3. QED
    BY <2>1, <2>2
<1>5. /\ Flags' \in SUBSET Flag /\ torn' \in SUBSET Flag
      /\ "MUFFLEERRORS" \notin Flags' /\ "NOESC" \notin Flags'
  BY <1>4, LeftType DEF ulisperror, IInv, TypeOK, MuffledInside, Flag
<1>6. Under("princ") \subseteq Nat \ {0}
  BY DEF Under, IInv, TypeOK
<1>7. "PRINTREADABLY" \notin Flags' => "PRINTREADABLY" \in torn'
  BY <1>6, LeftNoted DEF ulisperror
<1>8. 0 = Len(calls) => Under("princ") = {}
  BY <1>6 DEF Under, IInv, TypeOK
<1>9. BreakLevel' \in 0 .. Levels - 1
  BY SessionAssumption DEF ulisperror
<1>10. QED
  BY <1>1, <1>2, <1>3, <1>4, <1>5, <1>7, <1>8, <1>9, LeavingKeeps

\* The handler's form takes over with what it saved.
LEMMA LongjmpKeeps ==
  ASSUME IInv, longjmp, typed' \in 0 .. MaxTyped
  PROVE  IInv'
<1>1. CASE handler = 0
  BY <1>1, UlisperrorKeeps DEF longjmp
<1> DEFINE frame == calls[handler]
<1>2. ASSUME handler # 0
      PROVE  /\ handler \in 1 .. Len(calls) /\ frame \in Frame /\ handler \in Nat
             /\ frame.form \in {"ignore-errors", "unwind-protect"} /\ ~frame.cleanup
             /\ Innermost(calls, frame.handler, handler - 1)
  <2>1. Innermost(calls, handler, Len(calls)) /\ Catching(calls, handler)
    BY <1>2 DEF IInv, HandlersSaved, Innermost
  <2>2. handler \in 1 .. Len(calls) /\ calls \in Seq(Frame) /\ Len(calls) \in Nat
    BY <1>2 DEF IInv, TypeOK
  <2>3. handler \in DOMAIN calls /\ handler \in Nat
    BY <2>2
  <2>4. Innermost(calls, frame.handler, handler - 1)
    BY <2>3 DEF IInv, HandlersSaved
  <2>5. QED
    BY <2>1, <2>2, <2>3, <2>4 DEF Catching
<1>3. /\ "PRINTREADABLY" \notin Flags =>
           "PRINTREADABLY" \in torn \union LeftBy(handler) \/ \E j \in Under("princ") : j <= handler
      /\ "NOESC" \in Flags =>
           "NOESC" \in torn \union LeftBy(handler) \/ \E j \in Under("defvar") : j <= handler
  BY LeftNoted DEF IInv, TypeOK
<1>4. ASSUME handler # 0, NEW form \in {"princ", "defvar"}, NEW j \in Under(form), j <= handler
      PROVE  j <= handler - 1
  <2>1. j # handler /\ j \in Nat
    BY <1>2, <1>4 DEF Under, IInv, TypeOK
  <2>2. QED
    BY <1>2, <1>4, <2>1
<1>5. ASSUME NEW j \in Under("princ"), handler # 0, j <= handler
      PROVE  FALSE
  <2>1. j = Len(calls) /\ calls[j].form = "princ"
    BY <1>5 DEF Under, IInv, PrintingIsLast
  <2>2. j = handler
    BY <1>2, <1>5, <2>1
  <2>3. QED
    BY <1>2, <1>5, <2>1, <2>2
<1>6. torn' = torn \union LeftBy(handler) => torn' \in SUBSET Flag
  BY LeftType DEF IInv, TypeOK
<1>7. CASE handler # 0 /\ frame.form = "ignore-errors"
  <2>1. /\ handler' = frame.handler /\ calls' = SubSeq(calls, 1, handler - 1)
        /\ Flags' = Unmuffled(frame) /\ torn' = torn \union LeftBy(handler)
        /\ UNCHANGED BreakLevel
    BY <1>7 DEF longjmp
  <2>2. /\ handler - 1 \in 0 .. Len(calls) /\ handler - 1 # Len(calls)
        /\ Innermost(calls, handler', handler - 1)
    BY <1>2, <1>7, <2>1
  <2>3. "MUFFLEERRORS" \in Flags' <=> \E j \in Under("ignore-errors") : j <= handler - 1
    <3>1. handler \in Under("ignore-errors") /\ handler \in DOMAIN calls
      BY <1>2, <1>7 DEF Under, IInv, TypeOK
    <3>2. "MUFFLEERRORS" \in frame.Flags <=> \E j \in Under("ignore-errors") : j < handler
      BY <3>1 DEF IInv, MuffleSaved
    <3>3. \A j \in Under("ignore-errors") : j < handler <=> j <= handler - 1
      BY <1>2, <1>7 DEF Under, IInv, TypeOK
    <3>4. "MUFFLEERRORS" \in Flags
      BY <3>1 DEF IInv, MuffledInside
    <3>5. QED
      BY <2>1, <3>2, <3>3, <3>4 DEF Unmuffled
  <2>4. /\ Flags' \in SUBSET Flag
        /\ "PRINTREADABLY" \in Flags' <=> "PRINTREADABLY" \in Flags
        /\ "NOESC" \in Flags' <=> "NOESC" \in Flags
    BY <2>1 DEF Unmuffled, IInv, TypeOK
  <2>5. /\ "PRINTREADABLY" \notin Flags' => "PRINTREADABLY" \in torn'
        /\ "NOESC" \in Flags' =>
             "NOESC" \in torn' \/ \E j \in Under("defvar") : j <= handler - 1
    BY <1>3, <1>4, <1>5, <1>7, <2>1, <2>4
  <2>6. BreakLevel' \in 0 .. Levels - 1
    BY <2>1 DEF IInv, TypeOK
  <2>7. QED
    BY <1>6, <2>1, <2>2, <2>3, <2>4, <2>5, <2>6, LeavingKeeps
<1>8. CASE handler # 0 /\ frame.form = "unwind-protect"
  <2> DEFINE f == [frame EXCEPT !.cleanup = TRUE, !.signaled = TRUE]
  <2>1. /\ handler' = frame.handler /\ calls' = Append(SubSeq(calls, 1, handler - 1), f)
        /\ UNCHANGED <<Flags, BreakLevel>> /\ torn' = torn \union LeftBy(handler)
    BY <1>8 DEF longjmp
  <2>2. /\ f \in Frame /\ f.form = "unwind-protect" /\ f.cleanup
        /\ f.handler = frame.handler /\ f.Flags = frame.Flags
    BY <1>2, <1>8 DEF Frame
  <2>3. /\ "PRINTREADABLY" \notin Flags' => "PRINTREADABLY" \in torn'
        /\ "NOESC" \in Flags' =>
             "NOESC" \in torn' \/ \E j \in Under("defvar") : j <= handler
    BY <1>3, <1>5, <1>8, <2>1
  <2> HIDE DEF f
  <2>4. QED
    BY <1>2, <1>6, <1>8, <2>1, <2>2, <2>3, NoneInside, CleanupKeeps
<1>9. QED
  BY <1>1, <1>2, <1>7, <1>8

\* The last call, at its end: what is below it, and what only it had a hand in.
LEMMA TopIsLast ==
  ASSUME IInv, calls # << >>
  PROVE  /\ Len(calls) \in DOMAIN calls /\ Len(calls) \in 1 .. Len(calls)
         /\ Len(calls) - 1 \in 0 .. Len(calls) /\ Top \in Frame
         /\ \A form \in Form : \A j \in Under(form) :
              j \in 1 .. Len(calls) /\ (Top.form # form => j <= Len(calls) - 1)
<1>1. calls \in Seq(Frame) /\ Len(calls) \in Nat /\ Len(calls) # 0
  BY DEF IInv, TypeOK
<1>2. Len(calls) \in 1 .. Len(calls) /\ Len(calls) - 1 \in 0 .. Len(calls)
      /\ DOMAIN calls = 1 .. Len(calls)
  BY <1>1
<1>3. ASSUME NEW form \in Form, NEW j \in Under(form)
      PROVE  j \in 1 .. Len(calls) /\ (Top.form # form => j <= Len(calls) - 1)
  <2>1. j \in 1 .. Len(calls) /\ calls[j].form = form
    BY <1>2 DEF Under
  <2>2. Top.form # form => j # Len(calls)
    BY <2>1 DEF Top
  <2>3. QED
    BY <1>1, <2>1, <2>2
<1>4. QED
  BY <1>1, <1>2, <1>3 DEF Top

\* A call that catches nothing leaves the handler as it is.
LEMMA HandlerBelow ==
  ASSUME IInv, calls # << >>, ~Catching(calls, Len(calls))
  PROVE  Innermost(calls, handler, Len(calls) - 1)
<1>1. calls \in Seq(Frame) /\ Len(calls) \in 1 .. Len(calls)
      /\ Innermost(calls, handler, Len(calls))
  BY TopIsLast DEF IInv, TypeOK, HandlersSaved
<1>2. QED
  BY <1>1, InnermostBelow

\* The handler a call saved is that of the calls below it.
LEMMA HandlerSaved ==
  ASSUME IInv, calls # << >>
  PROVE  Innermost(calls, Top.handler, Len(calls) - 1)
BY TopIsLast DEF IInv, HandlersSaved, Top

\* Whether messages are muffled in the calls below the last.
LEMMA MuffledBelow ==
  ASSUME IInv, calls # << >>
  PROVE  /\ "MUFFLEERRORS" \in Top.Flags <=>
              \E j \in Under("ignore-errors") : j <= Len(calls) - 1
         /\ Top.form # "ignore-errors" =>
              ("MUFFLEERRORS" \in Flags <=>
                 \E j \in Under("ignore-errors") : j <= Len(calls) - 1)
<1>1. \A j \in Under("ignore-errors") : j < Len(calls) <=> j <= Len(calls) - 1
  BY TopIsLast DEF Form
<1>2. "MUFFLEERRORS" \in Top.Flags <=> \E j \in Under("ignore-errors") : j < Len(calls)
  BY TopIsLast DEF IInv, MuffleSaved, Top
<1>3. ASSUME Top.form # "ignore-errors"
      PROVE  "MUFFLEERRORS" \in Flags <=>
               \E j \in Under("ignore-errors") : j <= Len(calls) - 1
  BY <1>3, TopIsLast DEF IInv, MuffledInside, Form
<1>4. QED
  BY <1>1, <1>2, <1>3

\* What the forms below the last explain of the flags.
LEMMA FlagsBelow ==
  ASSUME IInv, calls # << >>
  PROVE  /\ "PRINTREADABLY" \notin Flags /\ Top.form # "princ" => "PRINTREADABLY" \in torn
         /\ "NOESC" \in Flags /\ Top.form # "defvar" =>
              "NOESC" \in torn \/ \E j \in Under("defvar") : j <= Len(calls) - 1
<1>1. Top.form # "princ" => Under("princ") = {}
  BY TopIsLast DEF IInv, PrintingIsLast, Under, Top
<1>2. Top.form # "defvar" => \A j \in Under("defvar") : j <= Len(calls) - 1
  BY TopIsLast DEF Form
<1>3. QED
  BY <1>1, <1>2 DEF IInv, FlagsReturn

\* The calls under way when one of them is left that is not a cleanup.
LEMMA ReturnKeeps ==
  ASSUME IInv, calls # << >>, calls' = Popped,
         Innermost(calls, handler', Len(calls) - 1),
         Flags' \in SUBSET Flag, torn' \in SUBSET Flag,
         BreakLevel' \in 0 .. Levels - 1, typed' \in 0 .. MaxTyped,
         "MUFFLEERRORS" \in Flags' <=>
           \E j \in Under("ignore-errors") : j <= Len(calls) - 1,
         "PRINTREADABLY" \notin Flags' => "PRINTREADABLY" \in torn',
         "NOESC" \in Flags' =>
           "NOESC" \in torn' \/ \E j \in Under("defvar") : j <= Len(calls) - 1
  PROVE  IInv'
<1>1. Len(calls) - 1 \in 0 .. Len(calls) /\ Len(calls) - 1 # Len(calls)
  BY TopIsLast
<1>2. calls' = SubSeq(calls, 1, Len(calls) - 1)
  BY DEF Popped
<1>3. QED
  BY <1>1, <1>2, LeavingKeeps

\* The forms that are called.
LEMMA CallsStep ==
  ASSUME IInv,
         prin1object \/ sp_defvar \/ sp_ignoreerrors \/ sp_unwindprotect \/ fn_break
  PROVE  IInv'
<1>1. Flags \in SUBSET Flag /\ BreakLevel \in 0 .. Levels - 1
  BY DEF IInv, TypeOK
<1>2. CASE prin1object
  BY <1>1, <1>2, CallKeeps DEF prin1object, Form, Flag
<1>3. CASE sp_defvar
  <2>1. Flags \union {"NOESC"} \in SUBSET Flag
    BY <1>1 DEF Flag
  <2>2. QED
    BY <1>1, <1>3, <2>1, CallKeeps DEF sp_defvar, Form
<1>4. CASE sp_ignoreerrors
  <2>1. Flags \union {"MUFFLEERRORS"} \in SUBSET Flag
    BY <1>1 DEF Flag
  <2>2. QED
    BY <1>1, <1>4, <2>1, CallKeeps DEF sp_ignoreerrors, Form
<1>5. CASE sp_unwindprotect
  BY <1>1, <1>5, CallKeeps DEF sp_unwindprotect, Form
<1>6. CASE fn_break
  <2>1. (BreakLevel + 1) % Levels \in 0 .. Levels - 1
    <3>1. BreakLevel + 1 \in Int
      BY <1>1, SessionAssumption
    <3>2. QED
      BY <3>1, LevelWraps
  <2>2. QED
    BY <1>1, <1>6, <2>1, CallKeeps DEF fn_break, Form
<1>7. QED
  BY <1>2, <1>3, <1>4, <1>5, <1>6

\* The forms that return.
LEMMA ReturnsStep ==
  ASSUME IInv,
         Printed \/ DefvarReturns \/ IgnoreErrorsReturns \/ (CleanupReturns /\ ~Top.signaled)
  PROVE  IInv'
<1>1. calls # << >> /\ calls' = Popped /\ UNCHANGED <<BreakLevel, typed>>
  BY DEF Printed, DefvarReturns, IgnoreErrorsReturns, CleanupReturns, Return, AtPrompt
<1>2. /\ Flags \in SUBSET Flag /\ torn \in SUBSET Flag /\ BreakLevel' \in 0 .. Levels - 1
      /\ typed' \in 0 .. MaxTyped /\ Top.Flags \in SUBSET Flag
  BY <1>1, TopIsLast DEF IInv, TypeOK, Frame
<1>3. Top.form \notin {"ignore-errors", "unwind-protect"} \/ Top.cleanup =>
        Innermost(calls, handler, Len(calls) - 1)
  BY <1>1, HandlerBelow DEF Catching, Top
<1>4. CASE Printed
  <2>1. Top.form = "princ" /\ Flags' = Top.Flags /\ handler' = handler /\ torn' = torn
    BY <1>4 DEF Printed, Return
  <2>2. /\ "PRINTREADABLY" \notin Flags' => "PRINTREADABLY" \in torn'
        /\ "NOESC" \in Flags' => "NOESC" \in torn' \/ Under("defvar") # {}
    BY <1>1, <2>1, TopIsLast DEF IInv, PrintingIsLast, Top
  <2>3. "NOESC" \in Flags' =>
          "NOESC" \in torn' \/ \E j \in Under("defvar") : j <= Len(calls) - 1
    BY <1>1, <2>1, <2>2, TopIsLast DEF Form
  <2>4. QED
    BY <1>1, <1>2, <1>3, <2>1, <2>2, <2>3, MuffledBelow, ReturnKeeps
<1>5. CASE DefvarReturns
  <2>1. /\ Top.form = "defvar" /\ Flags' = Flags \ {"NOESC"} /\ handler' = handler
        /\ torn' = torn \ {"NOESC"}
    BY <1>5 DEF DefvarReturns, Return
  <2>2. Flags' \in SUBSET Flag /\ torn' \in SUBSET Flag
    BY <1>2, <2>1
  <2>3. QED
    BY <1>1, <1>2, <1>3, <2>1, <2>2, MuffledBelow, FlagsBelow, ReturnKeeps
<1>6. CASE IgnoreErrorsReturns
  <2>1. /\ Top.form = "ignore-errors" /\ Flags' = Unmuffled(Top) /\ handler' = Top.handler
        /\ torn' = torn
    BY <1>6 DEF IgnoreErrorsReturns, Return
  <2>2. "MUFFLEERRORS" \in Flags
    BY <1>1, <2>1, TopIsLast DEF IInv, MuffledInside, Under, Top
  <2>3. /\ Flags' \in SUBSET Flag
        /\ "MUFFLEERRORS" \in Flags' <=> "MUFFLEERRORS" \in Top.Flags
        /\ "PRINTREADABLY" \in Flags' <=> "PRINTREADABLY" \in Flags
        /\ "NOESC" \in Flags' <=> "NOESC" \in Flags
    BY <1>2, <2>1, <2>2 DEF Unmuffled
  <2>4. QED
    BY <1>1, <1>2, <2>1, <2>3, HandlerSaved, MuffledBelow, FlagsBelow, ReturnKeeps
<1>7. CASE CleanupReturns /\ ~Top.signaled
  <2>1. /\ Top.form = "unwind-protect" /\ Top.cleanup /\ Flags' = Flags
        /\ handler' = handler /\ torn' = torn
    BY <1>7 DEF CleanupReturns, Return
  <2>2. QED
    BY <1>1, <1>2, <1>3, <2>1, MuffledBelow, FlagsBelow, ReturnKeeps
<1>8. QED
  BY <1>4, <1>5, <1>6, <1>7

\* The first part of unwind-protect returns, and its cleanup forms begin.
LEMMA ProtectedStep ==
  ASSUME IInv, ProtectedReturns
  PROVE  IInv'
<1> DEFINE n == Len(calls)
           f == [calls[n] EXCEPT !.cleanup = TRUE]
<1>1. /\ calls # << >> /\ calls[n].form = "unwind-protect" /\ handler' = calls[n].handler
      /\ calls' = [calls EXCEPT ![n].cleanup = TRUE]
      /\ UNCHANGED <<Flags, BreakLevel, typed, torn>>
  BY DEF ProtectedReturns, AtPrompt, Top
<1>2. n \in 1 .. n /\ n - 1 \in 0 .. n /\ calls[n] \in Frame /\ calls \in Seq(Frame)
      /\ n \in Nat /\ DOMAIN calls = 1 .. n
  BY <1>1, TopIsLast DEF Top, IInv, TypeOK
<1>3. /\ f \in Frame /\ f.form = "unwind-protect" /\ f.cleanup
      /\ f.handler = calls[n].handler /\ f.Flags = calls[n].Flags
  BY <1>1, <1>2 DEF Frame
<1>4. calls' = [calls EXCEPT ![n] = f]
  BY <1>1
<1> HIDE DEF f
<1>5. calls' = Append(SubSeq(calls, 1, n - 1), f)
  <2> DEFINE s == SubSeq(calls, 1, n - 1)
             t == Append(s, f)
  <2>1. calls' \in Seq(Frame) /\ Len(calls') = n /\ DOMAIN calls' = 1 .. n
    BY <1>2, <1>3, <1>4
  <2>2. s \in Seq(Frame) /\ Len(s) = n - 1 /\ \A k \in 1 .. n - 1 : s[k] = calls[k]
    BY <1>2, Kept
  <2> HIDE DEF s
  <2>3. /\ t \in Seq(Frame) /\ Len(t) = Len(s) + 1 /\ t[Len(s) + 1] = f
        /\ \A k \in 1 .. Len(s) : t[k] = s[k]
    BY <1>3, <2>2, OneMore
  <2> HIDE DEF t
  <2>4. Len(t) = n /\ t[n] = f /\ \A k \in 1 .. n - 1 : t[k] = calls[k]
    BY <1>2, <2>2, <2>3
  <2>5. ASSUME NEW k \in 1 .. n
        PROVE  calls'[k] = t[k]
    <3>1. CASE k = n
      <4>1. calls'[n] = f
        BY <1>2, <1>4
      <4>2. QED
        BY <2>4, <3>1, <4>1
    <3>2. CASE k # n
      <4>1. k \in 1 .. n - 1
        <5>1. n \in Nat
          BY <1>2
        <5>2. QED
          BY <3>2, <5>1
      <4>2. calls'[k] = calls[k]
        BY <1>2, <1>4, <3>2
      <4>3. QED
        BY <2>4, <4>1, <4>2
    <3>3. QED
      BY <3>1, <3>2
  <2>6. calls' = t
    BY <1>2, <2>1, <2>3, <2>4, <2>5, SeqEqual
  <2>7. QED
    BY <2>6 DEF s, t
<1>6. /\ "PRINTREADABLY" \notin Flags' => "PRINTREADABLY" \in torn'
      /\ "NOESC" \in Flags' => "NOESC" \in torn' \/ \E j \in Under("defvar") : j <= n
  <2>1. \A j \in Under("defvar") : j <= n
    BY <1>1, TopIsLast DEF Form
  <2>2. /\ "PRINTREADABLY" \notin Flags => "PRINTREADABLY" \in torn
        /\ "NOESC" \in Flags => "NOESC" \in torn \/ \E j \in Under("defvar") : j <= n - 1
    BY <1>1, FlagsBelow DEF Top
  <2>3. QED
    BY <1>1, <2>1, <2>2
<1>7. \A j \in Under("ignore-errors") : j <= n
  BY <1>1, TopIsLast DEF Form
<1>8. torn' \in SUBSET Flag /\ typed' \in 0 .. MaxTyped
  BY <1>1 DEF IInv, TypeOK
<1>9. QED
  BY <1>1, <1>2, <1>3, <1>5, <1>6, <1>7, <1>8, CleanupKeeps

\* What is done at the prompt, and an error anywhere.
LEMMA PromptStep ==
  ASSUME IInv, TypeLine \/ Continue \/ Abort \/ Evaluate \/ Error
  PROVE  IInv'
<1>1. typed \in 0 .. MaxTyped /\ MaxTyped \in Nat
  BY SessionAssumption DEF IInv, TypeOK
<1>2. typed' \in 0 .. MaxTyped
  BY <1>1 DEF TypeLine, Continue, Abort, Evaluate, Error, Read
<1>3. CASE UNCHANGED <<Flags, handler, BreakLevel, calls, torn>>
  BY <1>2, <1>3 DEF IInv, TypeOK, HandlersSaved, MuffledInside, MuffleSaved,
                    PrintingIsLast, FlagsReturn, Innermost, Catching, Under
<1>4. CASE TypeLine \/ Evaluate
  BY <1>3, <1>4 DEF TypeLine, Evaluate
<1>5. CASE Abort \/ Error
  BY <1>2, <1>5, LongjmpKeeps DEF Abort, Error
<1>6. CASE Continue /\ calls = << >>
  BY <1>2, <1>6, UlisperrorKeeps DEF Continue
<1>7. CASE Continue /\ calls # << >>
  <2>1. /\ calls' = Popped /\ BreakLevel' = (BreakLevel - 1) % Levels
        /\ UNCHANGED <<Flags, handler, torn>> /\ Top.form = "break"
    BY <1>7 DEF Continue, AtPrompt
  <2>2. BreakLevel' \in 0 .. Levels - 1
    <3>1. BreakLevel - 1 \in Int
      BY SessionAssumption DEF IInv, TypeOK
    <3>2. QED
      BY <2>1, <3>1, LevelWraps
  <2>3. Innermost(calls, handler', Len(calls) - 1)
    BY <1>7, <2>1, HandlerBelow DEF Catching, Top
  <2>4. Flags' \in SUBSET Flag /\ torn' \in SUBSET Flag
    BY <2>1 DEF IInv, TypeOK
  <2>5. QED
    BY <1>2, <1>7, <2>1, <2>2, <2>3, <2>4, MuffledBelow, FlagsBelow, ReturnKeeps
<1>8. QED
  BY <1>4, <1>5, <1>6, <1>7

-----------------------------------------------------------------------------
(* Theorems.                                                               *)

LEMMA InitIInv ==
  ASSUME Init
  PROVE  IInv
<1>1. DOMAIN calls = {} /\ Len(calls) = 0 /\ calls \in Seq(Frame)
  BY DEF Init
<1>2. TypeOK
  BY <1>1, SessionAssumption DEF Init, TypeOK, Flag
<1>3. \A form \in Form : Under(form) = {}
  BY <1>1 DEF Under
<1>4. HandlersSaved /\ MuffleSaved /\ PrintingIsLast
  BY <1>1 DEF Init, HandlersSaved, Innermost, MuffleSaved, PrintingIsLast
<1>5. MuffledInside /\ FlagsReturn
  BY <1>3 DEF Init, MuffledInside, FlagsReturn, Form
<1>6. QED
  BY <1>2, <1>4, <1>5 DEF IInv

LEMMA NextIInv ==
  ASSUME IInv, [Next]_vars
  PROVE  IInv'
<1>1. CASE TypeLine \/ Continue \/ Abort \/ Evaluate \/ Error
  BY <1>1, PromptStep
<1>2. CASE prin1object \/ sp_defvar \/ sp_ignoreerrors \/ sp_unwindprotect \/ fn_break
  BY <1>2, CallsStep
<1>3. CASE Printed \/ DefvarReturns \/ IgnoreErrorsReturns \/ (CleanupReturns /\ ~Top.signaled)
  BY <1>3, ReturnsStep
<1>4. CASE ProtectedReturns
  BY <1>4, ProtectedStep
<1>5. CASE CleanupReturns /\ Top.signaled
  <2>1. longjmp /\ typed' \in 0 .. MaxTyped
    BY <1>5 DEF CleanupReturns, IInv, TypeOK
  <2>2. QED
    BY <2>1, LongjmpKeeps
<1>6. CASE UNCHANGED vars
  BY <1>6 DEF vars, IInv, TypeOK, HandlersSaved, MuffledInside, MuffleSaved,
              PrintingIsLast, FlagsReturn, Innermost, Catching, Under
<1>7. QED
  BY <1>1, <1>2, <1>3, <1>4, <1>5, <1>6 DEF Next

\* However deep forms are nested and however they end, what each saved is what its
\* end must put back.
THEOREM Invariance == Spec => []IInv
<1>1. Init => IInv
  BY InitIInv
<1>2. IInv /\ [Next]_vars => IInv'
  BY NextIInv
<1>3. QED
  BY <1>1, <1>2, PTL DEF Spec

\* The handler is the innermost call that catches errors.
LEMMA IInvHandler == IInv => HandlerLive
<1> SUFFICES ASSUME IInv PROVE HandlerLive
  OBVIOUS
<1> DEFINE live == {0} \union {i \in Under("ignore-errors") \union Under("unwind-protect") :
                                 ~calls[i].cleanup}
<1>1. Innermost(calls, handler, Len(calls)) /\ handler \in Nat /\ DOMAIN calls = 1 .. Len(calls)
      /\ Len(calls) \in Nat
  BY DEF IInv, HandlersSaved, TypeOK
<1>2. live \subseteq Nat
  BY <1>1 DEF Under
<1>3. handler \in live
  BY <1>1 DEF Innermost, Catching, Under
<1>4. ASSUME NEW y \in live
      PROVE  handler >= y
  <2>1. CASE y = 0
    BY <1>1, <2>1
  <2>2. CASE y # 0
    <3>1. y \in 1 .. Len(calls) /\ Catching(calls, y)
      BY <1>1, <2>2 DEF Catching, Under
    <3>2. ~(handler < y)
      BY <1>1, <3>1 DEF Innermost
    <3>3. QED
      BY <1>1, <3>1, <3>2
  <2>3. QED
    BY <2>1, <2>2
<1> HIDE DEF live
<1>5. \A x \in live : (\A y \in live : x >= y) => x = handler
  BY <1>1, <1>2, <1>3, <1>4
<1>6. Max(live) = handler
  BY <1>3, <1>4, <1>5 DEF Max
<1>7. QED
  BY <1>6 DEF live, HandlerLive

\* handler is never the jmp_buf of a call that is over, and messages are muffled inside
\* ignore-errors and nowhere else, for any number of calls under way.
THEOREM HandlersStayNested == Spec => []HandlersNest
<1>1. IInv => HandlersNest
  BY IInvHandler DEF IInv, HandlersNest
<1>2. QED
  BY <1>1, Invariance, PTL

\* Printing is readable and the escape key heard, but where a form under way, or an
\* error that left one, explains it.
THEOREM FlagsExplained == Spec => []FlagsReturn
<1>1. IInv => FlagsReturn
  BY DEF IInv
<1>2. QED
  BY <1>1, Invariance, PTL

-----------------------------------------------------------------------------
(* The level of breaks.                                                    *)

\* The breaks under way, and one more or one less.
LEMMA BreaksCount ==
  ASSUME IInv
  PROVE  /\ IsFiniteSet(Under("break")) /\ Cardinality(Under("break")) \in Nat
         /\ BreakLevel \in Nat
         /\ \A T \in SUBSET Under("break") : Cardinality(T) <= Cardinality(Under("break"))
<1>1. Under("break") \in SUBSET (1 .. Len(calls)) /\ Len(calls) \in Int
  BY DEF Under, IInv, TypeOK
<1>2. IsFiniteSet(1 .. Len(calls))
  BY <1>1, FS_Interval
<1>3. IsFiniteSet(Under("break"))
  BY <1>1, <1>2, FS_Subset
<1>4. QED
  BY <1>3, FS_CardinalityType, FS_Subset DEF IInv, TypeOK

\* With as many breaks or fewer, the level does.
LEMMA NoMoreBreaks ==
  ASSUME IInv, BreakCanLeave, UNCHANGED BreakLevel, Under("break")' \in SUBSET Under("break")
  PROVE  BreakCanLeave'
<1>1. /\ Cardinality(Under("break")') <= Cardinality(Under("break"))
      /\ Cardinality(Under("break")) \in Nat /\ BreakLevel \in Nat
      /\ Cardinality(Under("break")') \in Nat
  BY BreaksCount, FS_Subset, FS_CardinalityType
<1>2. QED
  BY <1>1 DEF BreakCanLeave

\* Forms that are left, and a cleanup that begins, add no break.
LEMMA LeavingBreaks ==
  ASSUME IInv, NEW n \in 0 .. Len(calls),
         \/ calls' = SubSeq(calls, 1, n)
         \/ n # 0 /\ \E f \in Frame : f.form = "unwind-protect"
                                      /\ calls' = Append(SubSeq(calls, 1, n - 1), f)
  PROVE  Under("break")' \in SUBSET Under("break")
<1>1. CASE calls' = SubSeq(calls, 1, n)
  <2>1. DOMAIN calls = 1 .. Len(calls) /\ DOMAIN calls' = 1 .. n /\ n \in Nat
        /\ n <= Len(calls) /\ Len(calls) \in Nat /\ \A k \in 1 .. n : calls'[k] = calls[k]
    BY <1>1, PopShape DEF IInv, TypeOK
  <2>2. QED
    BY <2>1 DEF Under
<1>2. CASE n # 0 /\ \E f \in Frame : f.form = "unwind-protect"
                                     /\ calls' = Append(SubSeq(calls, 1, n - 1), f)
  <2>1. PICK f \in Frame : f.form = "unwind-protect"
                           /\ calls' = Append(SubSeq(calls, 1, n - 1), f)
    BY <1>2
  <2>2. n \in 1 .. Len(calls) /\ Len(calls) \in Nat /\ calls \in Seq(Frame)
    BY <1>2 DEF IInv, TypeOK
  <2>3. /\ DOMAIN calls = 1 .. Len(calls) /\ DOMAIN calls' = 1 .. n
        /\ \A k \in 1 .. n - 1 : calls'[k] = calls[k]
        /\ calls'[n] = f
    BY <2>1, <2>2, CatchShape
  <2>4. ASSUME NEW i \in Under("break")'
        PROVE  i \in Under("break")
    <3>1. i \in 1 .. n /\ calls'[i].form = "break"
      BY <2>3 DEF Under
    <3>2. i \in 1 .. Len(calls) /\ (i = n \/ i \in 1 .. n - 1)
      BY <2>2, <3>1
    <3>3. calls[i].form = "break"
      BY <2>1, <2>2, <2>3, <3>1, <3>2
    <3>4. QED
      BY <2>3, <3>2, <3>3 DEF Under
  <2>5. QED
    BY <2>4
<1>3. QED
  BY <1>1, <1>2

LEMMA UlisperrorBreaks ==
  ASSUME ulisperror
  PROVE  BreakCanLeave'
<1>1. Under("break")' = {} /\ BreakLevel' = 0
  BY DEF ulisperror, Under
<1>2. Cardinality(Under("break")') = 0
  BY <1>1, FS_EmptySet
<1>3. QED
  BY <1>1, <1>2 DEF BreakCanLeave

LEMMA LongjmpBreaks ==
  ASSUME IInv, BreakCanLeave, longjmp
  PROVE  BreakCanLeave'
<1>1. CASE handler = 0
  BY <1>1, UlisperrorBreaks DEF longjmp
<1>2. CASE handler # 0
  <2>1. /\ handler \in 0 .. Len(calls) /\ handler - 1 \in 0 .. Len(calls)
        /\ calls[handler] \in Frame
        /\ calls[handler].form \in {"ignore-errors", "unwind-protect"}
    <3>1. handler \in 1 .. Len(calls) /\ calls \in Seq(Frame) /\ Len(calls) \in Nat
      BY <1>2 DEF IInv, TypeOK
    <3>2. Catching(calls, handler)
      BY <1>2 DEF IInv, HandlersSaved, Innermost
    <3>3. QED
      BY <3>1, <3>2 DEF Catching
  <2>2. CASE calls[handler].form = "ignore-errors"
    <3>1. calls' = SubSeq(calls, 1, handler - 1) /\ UNCHANGED BreakLevel
      BY <1>2, <2>2 DEF longjmp
    <3>2. Under("break")' \in SUBSET Under("break")
      BY <2>1, <3>1, LeavingBreaks
    <3>3. QED
      BY <3>1, <3>2, NoMoreBreaks
  <2>3. CASE calls[handler].form = "unwind-protect"
    <3> DEFINE f == [calls[handler] EXCEPT !.cleanup = TRUE, !.signaled = TRUE]
    <3>1. calls' = Append(SubSeq(calls, 1, handler - 1), f) /\ UNCHANGED BreakLevel
      BY <1>2, <2>3 DEF longjmp
    <3>2. f \in Frame /\ f.form = "unwind-protect"
      BY <2>1, <2>3 DEF Frame
    <3> HIDE DEF f
    <3>3. Under("break")' \in SUBSET Under("break")
      BY <1>2, <2>1, <3>1, <3>2, LeavingBreaks
    <3>4. QED
      BY <3>1, <3>3, NoMoreBreaks
  <2>4. QED
    BY <2>1, <2>2, <2>3
<1>3. QED
  BY <1>1, <1>2

\* A call of any other form adds no break, one of break adds one.
LEMMA CallBreaks ==
  ASSUME IInv, NEW form \in Form, NEW flags, NEW hand, NEW level,
         Call(form, flags, hand, level)
  PROVE  /\ form # "break" => Under("break")' \in SUBSET Under("break")
         /\ form = "break" =>
              /\ Under("break")' = Under("break") \union {Len(calls) + 1}
              /\ Len(calls) + 1 \notin Under("break")
<1> DEFINE f == [form |-> form, Flags |-> Flags, handler |-> handler,
                 cleanup |-> FALSE, signaled |-> FALSE]
<1>1. f \in Frame /\ f.form = form /\ calls' = Append(calls, f) /\ calls \in Seq(Frame)
  BY DEF Call, IInv, TypeOK, Frame
<1> HIDE DEF f
<1>2. /\ Len(calls) \in Nat
      /\ DOMAIN calls = 1 .. Len(calls) /\ DOMAIN calls' = 1 .. Len(calls) + 1
      /\ \A k \in 1 .. Len(calls) : calls'[k] = calls[k]
      /\ calls'[Len(calls) + 1] = f
  BY <1>1, PushShape
<1>3. QED
  BY <1>1, <1>2 DEF Under

LEMMA NextBreaks ==
  ASSUME MaxBreak < Levels, IInv, BreakCanLeave, [Next]_vars
  PROVE  BreakCanLeave'
<1>1. CASE TypeLine \/ Evaluate \/ UNCHANGED vars
  <2>1. UNCHANGED <<calls, BreakLevel>>
    BY <1>1 DEF TypeLine, Evaluate, vars
  <2>2. QED
    BY <2>1 DEF BreakCanLeave, Under
<1>2. CASE Abort \/ Error \/ (CleanupReturns /\ Top.signaled)
  BY <1>2, LongjmpBreaks DEF Abort, Error, CleanupReturns
<1>3. CASE Continue /\ calls = << >>
  BY <1>3, UlisperrorBreaks DEF Continue
<1>4. CASE Continue /\ calls # << >>
  <2>1. /\ calls' = SubSeq(calls, 1, Len(calls) - 1) /\ Top.form = "break"
        /\ BreakLevel' = (BreakLevel - 1) % Levels /\ BreakLevel # 0
    BY <1>4 DEF Continue, AtPrompt, Popped
  <2>2. /\ calls \in Seq(Frame) /\ Len(calls) \in 1 .. Len(calls) /\ Len(calls) \in Nat
        /\ Len(calls) - 1 \in 0 .. Len(calls) /\ DOMAIN calls = 1 .. Len(calls)
    BY <1>4, TopIsLast DEF IInv, TypeOK
  <2>3. DOMAIN calls' = 1 .. Len(calls) - 1 /\ \A k \in 1 .. Len(calls) - 1 : calls'[k] = calls[k]
    BY <2>1, <2>2, PopShape
  <2>4. Under("break")' = Under("break") \ {Len(calls)} /\ Len(calls) \in Under("break")
    BY <2>1, <2>2, <2>3 DEF Under, Top
  <2>5. Cardinality(Under("break")') = Cardinality(Under("break")) - 1
    BY <2>4, BreaksCount, FS_RemoveElement
  <2>6. BreakLevel' = BreakLevel - 1
    <3>1. BreakLevel - 1 \in 0 .. Levels - 1 /\ BreakLevel - 1 \in Int
      BY <2>1, SessionAssumption DEF IInv, TypeOK
    <3>2. QED
      BY <2>1, <3>1, LevelWraps
  <2>7. BreakLevel \in Nat /\ Cardinality(Under("break")) \in Nat
    BY BreaksCount
  <2>8. QED
    BY <2>5, <2>6, <2>7 DEF BreakCanLeave
<1>5. CASE prin1object \/ sp_defvar \/ sp_ignoreerrors \/ sp_unwindprotect
  <2>1. \E form \in Form \ {"break"} : \E flags, hand : Call(form, flags, hand, BreakLevel)
    BY <1>5 DEF prin1object, sp_defvar, sp_ignoreerrors, sp_unwindprotect, Form
  <2>2. Under("break")' \in SUBSET Under("break") /\ UNCHANGED BreakLevel
    BY <2>1, CallBreaks DEF Call
  <2>3. QED
    BY <2>2, NoMoreBreaks
<1>6. CASE fn_break
  <2>1. /\ Under("break")' = Under("break") \union {Len(calls) + 1}
        /\ Len(calls) + 1 \notin Under("break")
        /\ BreakLevel' = (BreakLevel + 1) % Levels /\ BreakLevel < MaxBreak
    BY <1>6, CallBreaks DEF fn_break, Call, Form
  <2>2. Cardinality(Under("break")') = Cardinality(Under("break")) + 1
    BY <2>1, BreaksCount, FS_AddElement
  <2>3. BreakLevel' = BreakLevel + 1
    <3>1. BreakLevel + 1 \in 0 .. Levels - 1 /\ BreakLevel + 1 \in Int
      BY <2>1, SessionAssumption DEF IInv, TypeOK
    <3>2. QED
      BY <2>1, <3>1, LevelWraps
  <2>4. BreakLevel \in Nat /\ Cardinality(Under("break")) \in Nat
    BY BreaksCount
  <2>5. QED
    BY <2>2, <2>3, <2>4 DEF BreakCanLeave
<1>7. CASE Printed \/ DefvarReturns \/ IgnoreErrorsReturns \/ (CleanupReturns /\ ~Top.signaled)
  <2>1. calls # << >> /\ calls' = SubSeq(calls, 1, Len(calls) - 1) /\ UNCHANGED BreakLevel
    BY <1>7 DEF Printed, DefvarReturns, IgnoreErrorsReturns, CleanupReturns, Return, AtPrompt,
                Popped
  <2>2. Len(calls) - 1 \in 0 .. Len(calls)
    BY <2>1, TopIsLast
  <2>3. Under("break")' \in SUBSET Under("break")
    BY <2>1, <2>2, LeavingBreaks
  <2>4. QED
    BY <2>1, <2>3, NoMoreBreaks
<1>8. CASE ProtectedReturns
  <2>1. calls # << >> /\ UNCHANGED BreakLevel /\ Top.form = "unwind-protect"
        /\ calls' = [calls EXCEPT ![Len(calls)].cleanup = TRUE]
    BY <1>8 DEF ProtectedReturns, AtPrompt
  <2>2. calls \in Seq(Frame) /\ Len(calls) \in DOMAIN calls /\ DOMAIN calls' = DOMAIN calls
    BY <2>1, TopIsLast DEF IInv, TypeOK
  <2>3. \A k \in DOMAIN calls : calls'[k].form = calls[k].form
    BY <2>1, <2>2 DEF Frame
  <2>4. Under("break")' \in SUBSET Under("break")
    BY <2>2, <2>3 DEF Under
  <2>5. QED
    BY <2>1, <2>4, NoMoreBreaks
<1>9. QED
  BY <1>1, <1>2, <1>3, <1>4, <1>5, <1>6, <1>7, <1>8 DEF Next

\* While the level stays below the values it has, a continue leaves every break that
\* is under way, whatever errors there were in between.
THEOREM BreaksCanLeave ==
  ASSUME MaxBreak < Levels
  PROVE  Spec => []BreakCanLeave
<1>1. Init => BreakCanLeave
  <2> SUFFICES ASSUME Init PROVE BreakCanLeave
    OBVIOUS
  <2>1. Under("break") = {} /\ BreakLevel = 0
    BY DEF Init, Under
  <2>2. Cardinality(Under("break")) = 0
    BY <2>1, FS_EmptySet
  <2>3. QED
    BY <2>1, <2>2 DEF BreakCanLeave
<1>2. IInv /\ BreakCanLeave /\ [Next]_vars => BreakCanLeave'
  BY NextBreaks
<1>3. QED
  BY <1>1, <1>2, Invariance, PTL DEF Spec

\* What holds of Session holds in the instance that joins it with the other parts.
THEOREM PartsKeepSession == PartSpec => Spec
<1>1. PartInit => Init
  BY DEF PartInit
<1>2. [PartNext]_partvars => [Next]_vars
  BY DEF PartNext, partvars
<1>3. QED
  BY <1>1, <1>2, PTL DEF PartSpec, Spec

-----------------------------------------------------------------------------
(* Streams: the forms under way, the last one first.                       *)

StreamForm == [kind : Opened!Kind, target : Target \union Nat, alone : BOOLEAN]

\* A form or a string that begins meets some of the forms under way.
LEMMA JoinedShape ==
  ASSUME open \in Seq(StreamForm), NEW kind, NEW target
  PROVE  /\ Opened!Joined(kind, target) \in Seq(StreamForm)
         /\ Len(Opened!Joined(kind, target)) = Len(open)
         /\ DOMAIN open = 1 .. Len(open)
         /\ \A k \in 1 .. Len(open) :
              LET f == Opened!Joined(kind, target)[k] IN
              /\ f.kind = open[k].kind /\ f.target = open[k].target
              /\ f.alone = (open[k].alone /\ ~Opened!Meets(open[k], kind, target))
<1> DEFINE J == Opened!Joined(kind, target)
<1>1. Len(open) \in Nat /\ DOMAIN open = 1 .. Len(open)
      /\ \A k \in 1 .. Len(open) : open[k] \in StreamForm
  OBVIOUS
<1>2. /\ J = [k \in 1 .. Len(open) |-> J[k]]
      /\ \A k \in 1 .. Len(open) :
           J[k] = IF Opened!Meets(open[k], kind, target)
                  THEN [open[k] EXCEPT !.alone = FALSE] ELSE open[k]
  BY <1>1 DEF Opened!Joined
<1>3. \A k \in 1 .. Len(open) :
        /\ J[k] \in StreamForm /\ J[k].kind = open[k].kind /\ J[k].target = open[k].target
        /\ J[k].alone = (open[k].alone /\ ~Opened!Meets(open[k], kind, target))
  <2> SUFFICES ASSUME NEW k \in 1 .. Len(open)
               PROVE  /\ J[k] \in StreamForm /\ J[k].kind = open[k].kind
                      /\ J[k].target = open[k].target
                      /\ J[k].alone = (open[k].alone /\ ~Opened!Meets(open[k], kind, target))
    OBVIOUS
  <2> DEFINE f == open[k]
             m == Opened!Meets(f, kind, target)
  <2>1. f \in StreamForm /\ m \in BOOLEAN
    BY <1>1 DEF Opened!Meets
  <2>2. J[k] = IF m THEN [f EXCEPT !.alone = FALSE] ELSE f
    BY <1>2
  <2> HIDE DEF f, m, J
  <2>3. /\ J[k] \in StreamForm /\ J[k].kind = f.kind /\ J[k].target = f.target
        /\ J[k].alone = (f.alone /\ ~m)
    BY <2>1, <2>2 DEF StreamForm
  <2>4. QED
    BY <2>3 DEF f, m
<1>4. J \in Seq(StreamForm) /\ Len(J) = Len(open)
  <2> HIDE DEF J
  <2>1. J \in [1 .. Len(open) -> StreamForm]
    BY <1>2, <1>3
  <2>2. QED
    BY <1>1, <2>1, LenProperties, SeqDef
<1>5. QED
  BY <1>1, <1>3, <1>4

\* A form that begins comes first.
LEMMA OpenShape ==
  ASSUME open \in Seq(StreamForm), NEW f \in StreamForm, NEW kind, NEW target,
         open' = <<f>> \o Opened!Joined(kind, target)
  PROVE  /\ open' \in Seq(StreamForm) /\ Len(open') = Len(open) + 1 /\ Len(open) \in Nat
         /\ DOMAIN open = 1 .. Len(open) /\ DOMAIN open' = 1 .. Len(open) + 1
         /\ open'[1] = f
         /\ \A k \in 1 .. Len(open) :
              /\ open'[k + 1].kind = open[k].kind /\ open'[k + 1].target = open[k].target
              /\ open'[k + 1].alone = (open[k].alone /\ ~Opened!Meets(open[k], kind, target))
<1> DEFINE J == Opened!Joined(kind, target)
<1>1. /\ J \in Seq(StreamForm) /\ Len(J) = Len(open) /\ DOMAIN open = 1 .. Len(open)
      /\ \A k \in 1 .. Len(open) :
           /\ J[k].kind = open[k].kind /\ J[k].target = open[k].target
           /\ J[k].alone = (open[k].alone /\ ~Opened!Meets(open[k], kind, target))
  BY JoinedShape
<1>2. open' = <<f>> \o J
  OBVIOUS
<1> HIDE DEF J
<1>3. <<f>> \in Seq(StreamForm) /\ Len(<<f>>) = 1 /\ <<f>>[1] = f /\ Len(open) \in Nat
  OBVIOUS
<1> DEFINE s == <<f>>
           c == s \o J
<1> HIDE DEF s
<1>4. /\ c \in Seq(StreamForm) /\ Len(c) = Len(s) + Len(J)
      /\ \A i \in 1 .. Len(s) + Len(J) : c[i] = IF i <= Len(s) THEN s[i] ELSE J[i - Len(s)]
  BY <1>1, <1>3, ConcatProperties DEF s
<1>a. open' = c /\ Len(s) = 1 /\ s[1] = f
  BY <1>2, <1>3 DEF s
<1> HIDE DEF c
<1>5. Len(open') = Len(open) + 1 /\ DOMAIN open' = 1 .. Len(open) + 1
  BY <1>1, <1>3, <1>4, <1>a
<1>6. open'[1] = f /\ \A k \in 1 .. Len(open) : open'[k + 1] = J[k]
  BY <1>1, <1>3, <1>4, <1>a
<1>7. QED
  BY <1>1, <1>3, <1>4, <1>5, <1>6, <1>a

\* The forms from the nth on are left.
LEMMA LeftShape ==
  ASSUME open \in Seq(StreamForm), NEW n \in 1 .. Len(open),
         open' = SubSeq(open, n + 1, Len(open))
  PROVE  /\ open' \in Seq(StreamForm) /\ Len(open') = Len(open) - n /\ Len(open) \in Nat
         /\ DOMAIN open = 1 .. Len(open) /\ DOMAIN open' = 1 .. Len(open) - n
         /\ \A k \in 1 .. Len(open) - n : open'[k] = open[k + n]
<1>1. Len(open) \in Nat /\ n \in Nat /\ n <= Len(open) /\ n + 1 \in Int /\ Len(open) \in Int
      /\ DOMAIN open = 1 .. Len(open)
  OBVIOUS
<1>2. \A i \in n + 1 .. Len(open) : open[i] \in StreamForm
  BY <1>1
<1>3. /\ open' \in Seq(StreamForm)
      /\ Len(open') = IF n + 1 <= Len(open) THEN Len(open) - (n + 1) + 1 ELSE 0
      /\ \A i \in 1 .. Len(open) - (n + 1) + 1 : open'[i] = open[n + 1 + i - 1]
  BY <1>1, <1>2, SubSeqProperties
<1>4. Len(open') = Len(open) - n /\ DOMAIN open' = 1 .. Len(open) - n
  <2>1. Len(open') = Len(open) - n
    <3> DEFINE left == Len(open')
               all == Len(open)
    <3>1. all \in Nat /\ n \in Nat /\ n <= all
          /\ left = IF n + 1 <= all THEN all - (n + 1) + 1 ELSE 0
      BY <1>1, <1>3
    <3> HIDE DEF left, all
    <3>2. left = all - n
      BY <3>1
    <3>3. QED
      BY <3>2 DEF left, all
  <2>2. DOMAIN open' = 1 .. Len(open')
    BY <1>3
  <2>3. QED
    BY <2>1, <2>2
<1>5. \A k \in 1 .. Len(open) - n : open'[k] = open[k + n]
  <2> SUFFICES ASSUME NEW k \in 1 .. Len(open) - n PROVE open'[k] = open[k + n]
    OBVIOUS
  <2>1. k \in 1 .. Len(open) - (n + 1) + 1 /\ n + 1 + k - 1 = k + n
    BY <1>1
  <2>2. QED
    BY <1>3, <2>1
<1>6. QED
  BY <1>1, <1>3, <1>4, <1>5

\* The last of them is left.
LEMMA TailIsRest ==
  ASSUME open \in Seq(StreamForm), open # << >>
  PROVE  Tail(open) = SubSeq(open, 2, Len(open)) /\ 1 \in 1 .. Len(open) /\ Head(open) = open[1]
OBVIOUS

-----------------------------------------------------------------------------
(* What keeps the invariant of the streams.                                *)

\* What f reaches over its own stream when c is connected.
ReachedBy(c, f) == IF f.kind = "serial" THEN c[f.kind] \cap {f.target} ELSE c[f.kind]

LEMMA StreamsTyped ==
  ASSUME Opened!IInv
  PROVE  /\ open \in Seq(StreamForm) /\ Len(open) \in Nat /\ DOMAIN open = 1 .. Len(open)
         /\ \A k \in 1 .. Len(open) :
              /\ open[k].kind \in Opened!Kind /\ open[k].alone \in BOOLEAN
              /\ open[k].alone => ReachedBy(to, open[k]) = {open[k].target}
         /\ to \in [Opened!Kind -> SUBSET (Target \union Nat)]
         /\ \A kind \in Opened!Kind :
              to[kind] \subseteq IF kind = "string" THEN 1 .. strings ELSE Target
         /\ strings \in Nat /\ strings \in 0 .. MaxStrings
<1>1. /\ open \in Seq(StreamForm) /\ to \in [Opened!Kind -> SUBSET (Target \union Nat)]
      /\ \A kind \in Opened!Kind :
           to[kind] \subseteq IF kind = "string" THEN 1 .. strings ELSE Target
      /\ strings \in 0 .. MaxStrings
  BY DEF Opened!IInv, Opened!FormsTyped, Opened!TypeOK, StreamForm
<1>2. Len(open) \in Nat /\ DOMAIN open = 1 .. Len(open)
      /\ \A k \in 1 .. Len(open) : open[k] \in StreamForm
  BY <1>1
<1>3. \A k \in 1 .. Len(open) : open[k].kind \in Opened!Kind /\ open[k].alone \in BOOLEAN
  BY <1>2 DEF StreamForm
<1>4. \A k \in 1 .. Len(open) : open[k].alone => ReachedBy(to, open[k]) = {open[k].target}
  BY <1>2 DEF Opened!IInv, Opened!AloneReaches, Opened!Reached, ReachedBy
<1>5. QED
  BY <1>1, <1>2, <1>3, <1>4

\* Some of the forms under way are over; what is connected may be closed.
LEMMA LeftStep ==
  ASSUME Opened!IInv, NEW n \in 1 .. Len(open), open' = SubSeq(open, n + 1, Len(open)),
         went' = << >>, UNCHANGED <<used, strings, freed>>,
         to' \in [Opened!Kind -> SUBSET (Target \union Nat)],
         \A kind \in Opened!Kind : to'[kind] \subseteq to[kind],
         \A k \in n + 1 .. Len(open) :
           open[k].alone => ReachedBy(to', open[k]) = ReachedBy(to, open[k]),
         Opened!Explained'
  PROVE  Opened!IInv'
<1>1. /\ open \in Seq(StreamForm) /\ Len(open) \in Nat /\ DOMAIN open = 1 .. Len(open)
      /\ \A k \in 1 .. Len(open) :
           /\ open[k].kind \in Opened!Kind /\ open[k].alone \in BOOLEAN
           /\ open[k].alone => ReachedBy(to, open[k]) = {open[k].target}
      /\ \A kind \in Opened!Kind :
           to[kind] \subseteq IF kind = "string" THEN 1 .. strings ELSE Target
  BY StreamsTyped
<1>2. /\ open' \in Seq(StreamForm) /\ n \in Nat /\ DOMAIN open' = 1 .. Len(open) - n
      /\ \A k \in 1 .. Len(open) - n :
           open'[k] = open[k + n] /\ k + n \in 1 .. Len(open) /\ k + n \in n + 1 .. Len(open)
  <2>0. open \in Seq(StreamForm) /\ open' = SubSeq(open, n + 1, Len(open))
    BY <1>1
  <2>1. /\ open' \in Seq(StreamForm) /\ DOMAIN open' = 1 .. Len(open) - n
        /\ \A k \in 1 .. Len(open) - n : open'[k] = open[k + n]
    BY <2>0, LeftShape
  <2>4. n \in Nat
    BY <1>1
  <2>2. \A k \in 1 .. Len(open) - n : k + n \in 1 .. Len(open) /\ k + n \in n + 1 .. Len(open)
    BY <1>1
  <2>3. QED
    BY <2>1, <2>2, <2>4
<1>3. Opened!TypeOK'
  <2>1. used' \subseteq Opened!Kind /\ strings' \in 0 .. MaxStrings /\ freed' \subseteq 1 .. strings'
    BY DEF Opened!IInv, Opened!TypeOK
  <2>2. \A kind \in Opened!Kind :
          to'[kind] \subseteq IF kind = "string" THEN 1 .. strings' ELSE Target
    BY <1>1
  <2>3. \A k \in DOMAIN open' : open'[k].kind \in Opened!Kind
    BY <1>1, <1>2
  <2>4. QED
    BY <2>1, <2>2, <2>3 DEF Opened!TypeOK
<1>4. Opened!FormsTyped'
  BY <1>2 DEF Opened!FormsTyped, StreamForm
<1>5. Opened!AloneReaches'
  <2>1. \A k \in DOMAIN open' :
          open'[k].alone => ReachedBy(to', open'[k]) = {open'[k].target}
    BY <1>1, <1>2
  <2>2. QED
    BY <2>1 DEF Opened!AloneReaches, Opened!Reached, ReachedBy
<1>6. Opened!NewestAlone'
  <2> SUFFICES ASSUME NEW j \in DOMAIN open', NEW k \in DOMAIN open', j < k,
                      Opened!Meets(open'[k], open'[j].kind, open'[j].target)
               PROVE  ~open'[k].alone
    BY DEF Opened!NewestAlone, Opened!Meets
  <2>1. /\ j + n \in DOMAIN open /\ k + n \in DOMAIN open /\ j + n < k + n
        /\ open'[j] = open[j + n] /\ open'[k] = open[k + n]
    BY <1>1, <1>2
  <2>2. QED
    BY <2>1 DEF Opened!IInv, Opened!NewestAlone
<1>7. Opened!ReachesItsOwn'
  BY DEF Opened!ReachesItsOwn
<1>8. QED
  BY <1>3, <1>4, <1>5, <1>6, <1>7 DEF Opened!IInv

\* The end of a form: what is disconnected was its own, or was already another one's.
LEMMA ReturnStep == Opened!IInv /\ Opened!Return => Opened!IInv'
<1> SUFFICES ASSUME Opened!IInv, Opened!Return PROVE Opened!IInv'
  OBVIOUS
<1> DEFINE f == open[1]
           left == IF f.kind \in Opened!Many THEN to[f.kind] \ {f.target}
                   ELSE IF f.kind = "string" THEN to[f.kind] ELSE {}
<1>1. /\ open \in Seq(StreamForm) /\ Len(open) \in Nat /\ DOMAIN open = 1 .. Len(open)
      /\ \A k \in 1 .. Len(open) :
           /\ open[k].kind \in Opened!Kind /\ open[k].alone \in BOOLEAN
           /\ open[k].alone => ReachedBy(to, open[k]) = {open[k].target}
      /\ to \in [Opened!Kind -> SUBSET (Target \union Nat)]
  BY StreamsTyped
<1>2. /\ open # << >> /\ to' = [to EXCEPT ![Head(open).kind] =
           IF Head(open).kind \in Opened!Many THEN @ \ {Head(open).target}
           ELSE IF Head(open).kind = "string" THEN @ ELSE {}]
      /\ open' = Tail(open) /\ went' = << >> /\ UNCHANGED <<used, strings, freed, failed>>
  BY DEF Opened!Return, Opened!Closed
<1>3. /\ 1 \in 1 .. Len(open) /\ Head(open) = f /\ open' = SubSeq(open, 1 + 1, Len(open))
      /\ f.kind \in Opened!Kind
  BY <1>1, <1>2, TailIsRest
<1>4. to' = [to EXCEPT ![f.kind] = left]
  BY <1>2, <1>3
<1>5. left \subseteq to[f.kind] /\ left \in SUBSET (Target \union Nat)
  BY <1>1, <1>3
<1>6. /\ to' \in [Opened!Kind -> SUBSET (Target \union Nat)]
      /\ to'[f.kind] = left /\ \A kind \in Opened!Kind \ {f.kind} : to'[kind] = to[kind]
  <2> HIDE DEF left, f
  <2>1. QED
    BY <1>1, <1>3, <1>4, <1>5
<1>7. \A kind \in Opened!Kind : to'[kind] \subseteq to[kind]
  BY <1>5, <1>6
<1>8. \A k \in 1 + 1 .. Len(open) :
        open[k].alone => ReachedBy(to', open[k]) = ReachedBy(to, open[k])
  <2> SUFFICES ASSUME NEW k \in 1 + 1 .. Len(open), open[k].alone
               PROVE  ReachedBy(to', open[k]) = ReachedBy(to, open[k])
    OBVIOUS
  <2>1. k \in 1 .. Len(open) /\ 1 < k /\ 1 \in DOMAIN open /\ k \in DOMAIN open
    BY <1>1, <1>3
  <2>2. ~Opened!Meets(open[k], f.kind, f.target)
    BY <2>1 DEF Opened!IInv, Opened!NewestAlone
  <2>3. open[k].kind \in Opened!Kind
    BY <1>1, <2>1
  <2>4. CASE open[k].kind # f.kind
    BY <1>6, <2>3, <2>4 DEF ReachedBy
  <2>5. CASE open[k].kind = f.kind
    <3>1. f.kind = "serial" /\ open[k].target # f.target
      BY <2>2, <2>5 DEF Opened!Meets
    <3>2. to'["serial"] = to["serial"] \ {f.target}
      BY <1>6, <3>1 DEF Opened!Many
    <3>3. QED
      BY <2>5, <3>1, <3>2 DEF ReachedBy
  <2>6. QED
    BY <2>4, <2>5
<1>9. Opened!Explained'
  <2> SUFFICES ASSUME ~failed, NEW kind \in Opened!Kind \ {"string"}, NEW t \in to'[kind]
               PROVE  \E k \in DOMAIN open' : open'[k].kind = kind /\ open'[k].target = t
    BY <1>2 DEF Opened!Explained
  <2>1. t \in to[kind]
    BY <1>7
  <2>2. PICK k \in DOMAIN open : open[k].kind = kind /\ open[k].target = t
    BY <2>1 DEF Opened!IInv, Opened!Explained
  <2>3. k # 1
    <3>1. CASE kind = f.kind
      <4>1. t \in left
        BY <1>6, <3>1
      <4>2. t # f.target
        BY <3>1, <4>1
      <4>3. QED
        BY <2>2, <4>2
    <3>2. CASE kind # f.kind
      BY <2>2, <3>2
    <3>3. QED
      BY <3>1, <3>2
  <2>4. /\ DOMAIN open' = 1 .. Len(open) - 1
        /\ \A i \in 1 .. Len(open) - 1 : open'[i] = open[i + 1]
    BY <1>1, <1>3, LeftShape
  <2>5. k - 1 \in 1 .. Len(open) - 1 /\ (k - 1) + 1 = k
    BY <1>1, <2>2, <2>3
  <2>6. k - 1 \in DOMAIN open' /\ open'[k - 1] = open[k]
    BY <2>4, <2>5
  <2>7. QED
    BY <2>2, <2>6
<1>10. QED
  BY <1>2, <1>3, <1>6, <1>7, <1>8, <1>9, LeftStep

\* An error: nothing is disconnected, and nothing said of that.
LEMMA ErrorStep == Opened!IInv /\ Opened!Error => Opened!IInv'
<1> SUFFICES ASSUME Opened!IInv, Opened!Error PROVE Opened!IInv'
  OBVIOUS
<1>1. open \in Seq(StreamForm) /\ DOMAIN open = 1 .. Len(open)
      /\ to \in [Opened!Kind -> SUBSET (Target \union Nat)]
  BY StreamsTyped
<1>2. PICK n \in DOMAIN open :
        /\ open' = SubSeq(open, n + 1, Len(open)) /\ failed' = TRUE /\ went' = << >>
        /\ UNCHANGED <<used, to, strings, freed>>
  BY DEF Opened!Error
<1>3. Opened!Explained'
  BY <1>2 DEF Opened!Explained
<1>4. QED
  BY <1>1, <1>2, <1>3, LeftStep

\* A form that begins: it is alone, or was told of what is still connected, and those
\* whose place it takes are alone no more.
LEMMA OpenStep ==
  ASSUME Opened!IInv, NEW kind \in Opened!Kind, NEW target \in Target \union Nat,
         Opened!Open(kind, target), UNCHANGED <<freed, failed>>,
         strings' \in 0 .. MaxStrings, strings <= strings',
         kind = "string" => target \in 1 .. strings', kind # "string" => target \in Target
  PROVE  Opened!IInv'
<1> DEFINE new == Opened!Form(kind, target, kind = "spi" => to["spi"] = {})
           now == IF kind \in Opened!Many THEN to[kind] \union {target} ELSE {target}
<1>1. /\ open \in Seq(StreamForm) /\ Len(open) \in Nat /\ DOMAIN open = 1 .. Len(open)
      /\ \A k \in 1 .. Len(open) :
           /\ open[k].kind \in Opened!Kind /\ open[k].alone \in BOOLEAN
           /\ open[k].alone => ReachedBy(to, open[k]) = {open[k].target}
      /\ to \in [Opened!Kind -> SUBSET (Target \union Nat)]
      /\ \A d \in Opened!Kind :
           to[d] \subseteq IF d = "string" THEN 1 .. strings ELSE Target
      /\ strings \in Nat
  BY StreamsTyped
<1>2. /\ to' = [to EXCEPT ![kind] = now] /\ went' = << >> /\ UNCHANGED used
      /\ open' = <<new>> \o Opened!Joined(kind, target)
  BY DEF Opened!Open, Opened!Connected
<1>3. /\ new \in StreamForm /\ new.kind = kind /\ new.target = target
      /\ new.alone => (kind = "spi" => to["spi"] = {})
  BY DEF Opened!Form, StreamForm
<1>4. /\ open' \in Seq(StreamForm) /\ DOMAIN open' = 1 .. Len(open) + 1
      /\ open'[1] = new
      /\ \A k \in 1 .. Len(open) :
           /\ open'[k + 1].kind = open[k].kind /\ open'[k + 1].target = open[k].target
           /\ open'[k + 1].alone = (open[k].alone /\ ~Opened!Meets(open[k], kind, target))
  BY <1>1, <1>2, <1>3, OpenShape
<1>5. /\ to' \in [Opened!Kind -> SUBSET (Target \union Nat)] /\ to'[kind] = now
      /\ \A d \in Opened!Kind \ {kind} : to'[d] = to[d]
  <2>1. now \in SUBSET (Target \union Nat)
    BY <1>1
  <2> HIDE DEF now
  <2>2. QED
    BY <1>1, <1>2, <2>1
<1> HIDE DEF new
<1>6. \A k \in DOMAIN open' : k = 1 \/ (k - 1 \in DOMAIN open /\ (k - 1) + 1 = k)
  BY <1>1, <1>4
<1>7. Opened!TypeOK'
  <2>1. used' \subseteq Opened!Kind /\ strings' \in 0 .. MaxStrings /\ freed' \subseteq 1 .. strings'
    <3>1. 1 .. strings \subseteq 1 .. strings'
      BY <1>1
    <3>2. QED
      BY <1>2, <3>1 DEF Opened!IInv, Opened!TypeOK
  <2>2. ASSUME NEW d \in Opened!Kind
        PROVE  to'[d] \subseteq IF d = "string" THEN 1 .. strings' ELSE Target
    <3>1. 1 .. strings \subseteq 1 .. strings'
      BY <1>1
    <3>2. CASE d = kind
      BY <1>1, <1>5, <3>1, <3>2 DEF Opened!Many
    <3>3. CASE d # kind
      BY <1>1, <1>5, <3>1, <3>3
    <3>4. QED
      BY <3>2, <3>3
  <2>3. ASSUME NEW k \in DOMAIN open' PROVE open'[k].kind \in Opened!Kind
    <3>1. CASE k = 1
      BY <1>3, <1>4, <3>1
    <3>2. CASE k # 1
      <4>1. k - 1 \in 1 .. Len(open) /\ (k - 1) + 1 = k
        BY <1>1, <1>6, <3>2
      <4>2. QED
        BY <1>1, <1>4, <4>1
    <3>3. QED
      BY <3>1, <3>2
  <2>4. QED
    BY <2>1, <2>2, <2>3 DEF Opened!TypeOK
<1>8. Opened!FormsTyped'
  BY <1>4, <1>5 DEF Opened!FormsTyped, StreamForm
<1>9. Opened!AloneReaches'
  <2>1. ASSUME NEW k \in DOMAIN open', open'[k].alone
        PROVE  ReachedBy(to', open'[k]) = {open'[k].target}
    <3>1. CASE k = 1
      <4>1. open'[k].kind = kind /\ open'[k].target = target /\ (kind = "spi" => to["spi"] = {})
        BY <1>3, <1>4, <2>1, <3>1
      <4>2. QED
        BY <1>5, <4>1 DEF ReachedBy, Opened!Many
    <3>2. CASE k # 1
      <4> DEFINE f == open[k - 1]
      <4>1. /\ f.alone /\ ~Opened!Meets(f, kind, target) /\ f.kind \in Opened!Kind
            /\ open'[k].kind = f.kind /\ open'[k].target = f.target
            /\ ReachedBy(to, f) = {f.target}
        BY <1>1, <1>4, <1>6, <2>1, <3>2
      <4> HIDE DEF f
      <4>2. ReachedBy(to', f) = {f.target}
        <5>1. CASE f.kind # kind
          BY <1>5, <4>1, <5>1 DEF ReachedBy
        <5>2. CASE f.kind = kind
          <6>1. kind = "serial" /\ f.target # target
            BY <4>1, <5>2 DEF Opened!Meets
          <6>2. to'["serial"] = to["serial"] \union {target}
            BY <1>5, <6>1 DEF Opened!Many
          <6>3. QED
            BY <4>1, <5>2, <6>1, <6>2 DEF ReachedBy
        <5>3. QED
          BY <5>1, <5>2
      <4>3. QED
        BY <4>1, <4>2 DEF ReachedBy
    <3>3. QED
      BY <3>1, <3>2
  <2>2. QED
    BY <2>1 DEF Opened!AloneReaches, Opened!Reached, ReachedBy
<1>10. Opened!NewestAlone'
  <2> SUFFICES ASSUME NEW j \in DOMAIN open', NEW k \in DOMAIN open', j < k,
                      Opened!Meets(open'[k], open'[j].kind, open'[j].target)
               PROVE  ~open'[k].alone
    BY DEF Opened!NewestAlone, Opened!Meets
  <2>1. k # 1 /\ k - 1 \in DOMAIN open /\ (k - 1) + 1 = k
    BY <1>4, <1>6
  <2>2. /\ open'[k].kind = open[k - 1].kind /\ open'[k].target = open[k - 1].target
        /\ open'[k].alone = (open[k - 1].alone /\ ~Opened!Meets(open[k - 1], kind, target))
    BY <1>1, <1>4, <2>1
  <2>3. CASE j = 1
    BY <1>3, <1>4, <2>2, <2>3 DEF Opened!Meets
  <2>4. CASE j # 1
    <3>1. /\ j - 1 \in DOMAIN open /\ j - 1 < k - 1
          /\ open'[j].kind = open[j - 1].kind /\ open'[j].target = open[j - 1].target
      BY <1>1, <1>4, <1>6, <2>4
    <3>2. Opened!Meets(open[k - 1], open[j - 1].kind, open[j - 1].target)
      BY <2>2, <3>1 DEF Opened!Meets
    <3>3. QED
      BY <2>1, <2>2, <3>1, <3>2 DEF Opened!IInv, Opened!NewestAlone
  <2>5. QED
    BY <2>3, <2>4
<1>11. Opened!Explained'
  <2> SUFFICES ASSUME ~failed, NEW d \in Opened!Kind \ {"string"}, NEW t \in to'[d]
               PROVE  \E k \in DOMAIN open' : open'[k].kind = d /\ open'[k].target = t
    BY DEF Opened!Explained
  <2>1. CASE d = kind /\ t = target
    <3>1. 1 \in DOMAIN open' /\ open'[1].kind = d /\ open'[1].target = t
      BY <1>1, <1>3, <1>4, <2>1
    <3>2. QED
      BY <3>1
  <2>2. CASE ~(d = kind /\ t = target)
    <3>1. t \in to[d]
      BY <1>5, <2>2
    <3>2. PICK k \in DOMAIN open : open[k].kind = d /\ open[k].target = t
      BY <3>1 DEF Opened!IInv, Opened!Explained
    <3>3. k + 1 \in DOMAIN open'
      BY <1>1, <1>4, <3>2
    <3>4. open'[k + 1].kind = d /\ open'[k + 1].target = t
      BY <1>1, <1>4, <3>2
    <3>5. QED
      BY <3>3, <3>4
  <2>3. QED
    BY <2>1, <2>2
<1>12. Opened!ReachesItsOwn'
  BY <1>2 DEF Opened!ReachesItsOwn
<1>13. QED
  BY <1>7, <1>8, <1>9, <1>10, <1>11, <1>12 DEF Opened!IInv

-----------------------------------------------------------------------------
(* Every step.                                                             *)

\* A string that is made in between takes the place of the one a form is building.
LEMMA StringStep == Opened!IInv /\ Opened!princtostring => Opened!IInv'
<1> SUFFICES ASSUME Opened!IInv, Opened!princtostring PROVE Opened!IInv'
  OBVIOUS
<1>1. /\ open \in Seq(StreamForm) /\ Len(open) \in Nat /\ DOMAIN open = 1 .. Len(open)
      /\ \A k \in 1 .. Len(open) :
           /\ open[k].kind \in Opened!Kind /\ open[k].alone \in BOOLEAN
           /\ open[k].alone => ReachedBy(to, open[k]) = {open[k].target}
      /\ to \in [Opened!Kind -> SUBSET (Target \union Nat)]
      /\ \A d \in Opened!Kind :
           to[d] \subseteq IF d = "string" THEN 1 .. strings ELSE Target
      /\ strings \in Nat /\ strings \in 0 .. MaxStrings
  BY StreamsTyped
<1>2. /\ strings < MaxStrings /\ strings' = strings + 1
      /\ to' = [to EXCEPT !["string"] = {strings + 1}] /\ went' = << >>
      /\ open' = Opened!Joined("string", strings + 1) /\ UNCHANGED <<used, freed, failed>>
  BY DEF Opened!princtostring, Opened!Connected, Opened!Many
<1>3. /\ open' \in Seq(StreamForm) /\ DOMAIN open' = 1 .. Len(open)
      /\ \A k \in 1 .. Len(open) :
           /\ open'[k].kind = open[k].kind /\ open'[k].target = open[k].target
           /\ open'[k].alone = (open[k].alone /\ ~Opened!Meets(open[k], "string", strings + 1))
  <2>1. /\ open' \in Seq(StreamForm) /\ Len(open') = Len(open)
        /\ \A k \in 1 .. Len(open) :
             /\ open'[k].kind = open[k].kind /\ open'[k].target = open[k].target
             /\ open'[k].alone = (open[k].alone /\ ~Opened!Meets(open[k], "string", strings + 1))
    BY <1>1, <1>2, JoinedShape
  <2>2. DOMAIN open' = 1 .. Len(open)
    BY <2>1
  <2>3. QED
    BY <2>1, <2>2
<1>4. "string" \in Opened!Kind
  BY DEF Opened!Kind
<1>5. /\ to' \in [Opened!Kind -> SUBSET (Target \union Nat)] /\ to'["string"] = {strings + 1}
      /\ \A d \in Opened!Kind \ {"string"} : to'[d] = to[d]
  BY <1>1, <1>2, <1>4
<1>6. Opened!TypeOK'
  <2>0. 1 .. strings \subseteq 1 .. strings' /\ strings' \in 0 .. MaxStrings
        /\ strings + 1 \in 1 .. strings'
    BY <1>1, <1>2, PartsAssumption DEF Opened!StreamAssumption
  <2>1. used' \subseteq Opened!Kind /\ freed' \subseteq 1 .. strings'
    BY <1>2, <2>0 DEF Opened!IInv, Opened!TypeOK
  <2>2. ASSUME NEW d \in Opened!Kind
        PROVE  to'[d] \subseteq IF d = "string" THEN 1 .. strings' ELSE Target
    BY <1>1, <1>5, <2>0
  <2>3. \A k \in DOMAIN open' : open'[k].kind \in Opened!Kind
    BY <1>1, <1>3
  <2>4. QED
    BY <2>0, <2>1, <2>2, <2>3 DEF Opened!TypeOK
<1>7. Opened!FormsTyped'
  BY <1>3, <1>5 DEF Opened!FormsTyped, StreamForm
<1>8. Opened!AloneReaches'
  <2>1. ASSUME NEW k \in DOMAIN open', open'[k].alone
        PROVE  ReachedBy(to', open'[k]) = {open'[k].target}
    <3> DEFINE f == open[k]
    <3>1. /\ f.alone /\ ~Opened!Meets(f, "string", strings + 1) /\ f.kind \in Opened!Kind
          /\ open'[k].kind = f.kind /\ open'[k].target = f.target
          /\ ReachedBy(to, f) = {f.target}
      BY <1>1, <1>3, <2>1
    <3> HIDE DEF f
    <3>2. f.kind # "string"
      BY <3>1 DEF Opened!Meets
    <3>3. ReachedBy(to', f) = {f.target}
      BY <1>5, <3>1, <3>2 DEF ReachedBy
    <3>4. QED
      BY <3>1, <3>3 DEF ReachedBy
  <2>2. QED
    BY <2>1 DEF Opened!AloneReaches, Opened!Reached, ReachedBy
<1>9. Opened!NewestAlone'
  <2> SUFFICES ASSUME NEW j \in DOMAIN open', NEW k \in DOMAIN open', j < k,
                      Opened!Meets(open'[k], open'[j].kind, open'[j].target)
               PROVE  ~open'[k].alone
    BY DEF Opened!NewestAlone, Opened!Meets
  <2>1. /\ j \in DOMAIN open /\ k \in DOMAIN open
        /\ open'[j].kind = open[j].kind /\ open'[j].target = open[j].target
        /\ open'[k].kind = open[k].kind /\ open'[k].target = open[k].target
        /\ open'[k].alone => open[k].alone
    BY <1>1, <1>3
  <2>2. Opened!Meets(open[k], open[j].kind, open[j].target)
    BY <2>1 DEF Opened!Meets
  <2>3. QED
    BY <2>1, <2>2 DEF Opened!IInv, Opened!NewestAlone
<1>10. Opened!Explained'
  <2> SUFFICES ASSUME ~failed, NEW d \in Opened!Kind \ {"string"}, NEW t \in to'[d]
               PROVE  \E k \in DOMAIN open' : open'[k].kind = d /\ open'[k].target = t
    BY <1>2 DEF Opened!Explained
  <2>1. t \in to[d]
    BY <1>5
  <2>2. PICK k \in DOMAIN open : open[k].kind = d /\ open[k].target = t
    BY <2>1 DEF Opened!IInv, Opened!Explained
  <2>3. QED
    BY <1>1, <1>3, <2>2
<1>11. Opened!ReachesItsOwn'
  BY <1>2 DEF Opened!ReachesItsOwn
<1>12. QED
  BY <1>6, <1>7, <1>8, <1>9, <1>10, <1>11 DEF Opened!IInv

\* A transfer changes nothing but what it tells.
LEMMA TransferStep ==
  ASSUME Opened!IInv, NEW k \in DOMAIN open, NEW over, Opened!Transfer(open[k], over)
  PROVE  Opened!IInv'
<1>1. /\ UNCHANGED <<used, to, open, strings, freed, failed>>
      /\ went' = <<[form |-> open[k], over |-> over, with |-> Opened!Reached(open[k], over)]>>
  BY DEF Opened!Transfer
<1>2. Opened!TypeOK' /\ Opened!FormsTyped'
  BY <1>1 DEF Opened!IInv, Opened!TypeOK, Opened!FormsTyped
<1>3. Opened!AloneReaches' /\ Opened!NewestAlone' /\ Opened!Explained'
  BY <1>1 DEF Opened!IInv, Opened!AloneReaches, Opened!NewestAlone, Opened!Explained,
              Opened!Reached, Opened!Meets
<1>4. Opened!ReachesItsOwn'
  <2> DEFINE f == open[k]
             r == Opened!Reached(f, over)
  <2>1. f.alone /\ over = f.kind => r = {f.target}
    BY DEF Opened!IInv, Opened!AloneReaches
  <2>2. went' = <<[form |-> f, over |-> over, with |-> r]>>
    BY <1>1
  <2> HIDE DEF f, r
  <2>3. ASSUME NEW n \in DOMAIN went'
        PROVE  went'[n].form = f /\ went'[n].over = over /\ went'[n].with = r
    BY <2>2
  <2>4. QED
    BY <2>1, <2>3 DEF Opened!ReachesItsOwn
<1>5. QED
  BY <1>2, <1>3, <1>4 DEF Opened!IInv

\* A collection frees strings.
LEMMA CollectStep == Opened!IInv /\ Opened!Collect => Opened!IInv'
<1> SUFFICES ASSUME Opened!IInv, Opened!Collect PROVE Opened!IInv'
  OBVIOUS
<1>1. /\ freed' \subseteq 1 .. strings /\ went' = << >>
      /\ UNCHANGED <<used, to, open, strings, failed>>
  BY DEF Opened!Collect
<1>2. Opened!TypeOK' /\ Opened!FormsTyped'
  BY <1>1 DEF Opened!IInv, Opened!TypeOK, Opened!FormsTyped
<1>3. Opened!AloneReaches' /\ Opened!NewestAlone' /\ Opened!Explained'
  BY <1>1 DEF Opened!IInv, Opened!AloneReaches, Opened!NewestAlone, Opened!Explained,
              Opened!Reached, Opened!Meets
<1>4. Opened!ReachesItsOwn'
  BY <1>1 DEF Opened!ReachesItsOwn
<1>5. QED
  BY <1>2, <1>3, <1>4 DEF Opened!IInv

LEMMA StreamsInit == Opened!Init => Opened!IInv
<1> SUFFICES ASSUME Opened!Init PROVE Opened!IInv
  OBVIOUS
<1>1. /\ used \subseteq Opened!Kind /\ to = [kind \in Opened!Kind |-> {}]
      /\ open = << >> /\ strings = 0 /\ freed = {} /\ went = << >> /\ MaxStrings \in Nat
  BY PartsAssumption DEF Opened!Init, Opened!StreamAssumption
<1>2. DOMAIN open = {} /\ DOMAIN went = {} /\ open \in Seq(StreamForm)
  BY <1>1
<1>3. Opened!TypeOK
  BY <1>1, <1>2 DEF Opened!TypeOK
<1>4. Opened!FormsTyped
  BY <1>1, <1>2 DEF Opened!FormsTyped, StreamForm
<1>5. Opened!AloneReaches /\ Opened!NewestAlone /\ Opened!Explained /\ Opened!ReachesItsOwn
  BY <1>1, <1>2 DEF Opened!AloneReaches, Opened!NewestAlone, Opened!Explained,
                    Opened!ReachesItsOwn
<1>6. QED
  BY <1>3, <1>4, <1>5 DEF Opened!IInv

LEMMA StreamsNext == Opened!IInv /\ Opened!Next => Opened!IInv'
<1> SUFFICES ASSUME Opened!IInv, Opened!Next PROVE Opened!IInv'
  OBVIOUS
<1>1. /\ strings \in Nat /\ strings \in 0 .. MaxStrings /\ strings <= strings
      /\ {"spi", "serial", "i2c", "read", "write", "string"} \subseteq Opened!Kind
  BY StreamsTyped DEF Opened!Kind
<1>2. CASE Opened!sp_withspi
  BY <1>1, <1>2, OpenStep DEF Opened!sp_withspi
<1>3. CASE Opened!sp_withserial
  BY <1>1, <1>3, OpenStep DEF Opened!sp_withserial
<1>4. CASE Opened!sp_withi2c
  BY <1>1, <1>4, OpenStep DEF Opened!sp_withi2c
<1>5. CASE Opened!sp_withsdcard
  BY <1>1, <1>5, OpenStep DEF Opened!sp_withsdcard
<1>6. CASE Opened!sp_withoutputtostring
  <2>1. /\ Opened!Open("string", strings + 1) /\ UNCHANGED <<freed, failed>>
        /\ strings < MaxStrings /\ strings' = strings + 1
    BY <1>6 DEF Opened!sp_withoutputtostring
  <2>2. /\ strings' \in 0 .. MaxStrings /\ strings <= strings'
        /\ strings + 1 \in 1 .. strings' /\ strings + 1 \in Target \union Nat
    BY <1>1, <2>1, PartsAssumption DEF Opened!StreamAssumption
  <2>3. QED
    BY <1>1, <2>1, <2>2, OpenStep
<1>7. CASE Opened!Return
  BY <1>7, ReturnStep
<1>8. CASE Opened!Error
  BY <1>8, ErrorStep
<1>9. CASE Opened!SDwrite
  BY <1>9, TransferStep DEF Opened!SDwrite
<1>10. CASE Opened!SDread
  BY <1>10, TransferStep DEF Opened!SDread
<1>11. CASE Opened!pstr
  BY <1>11, TransferStep DEF Opened!pstr
<1>12. CASE Opened!Send
  BY <1>12, TransferStep DEF Opened!Send
<1>13. CASE Opened!princtostring
  BY <1>13, StringStep
<1>14. CASE Opened!Collect
  BY <1>14, CollectStep
<1>15. QED
  BY <1>2, <1>3, <1>4, <1>5, <1>6, <1>7, <1>8, <1>9, <1>10, <1>11, <1>12, <1>13, <1>14
     DEF Opened!Next

LEMMA StreamsStutter == Opened!IInv /\ UNCHANGED opened => Opened!IInv'
BY DEF opened, Opened!IInv, Opened!TypeOK, Opened!FormsTyped, Opened!AloneReaches,
       Opened!NewestAlone, Opened!Explained, Opened!ReachesItsOwn, Opened!Reached, Opened!Meets

\* With no form under way nothing is connected, since no form explains it.
LEMMA StreamsImplied == Opened!IInv => Opened!StreamsDeliver
<1> SUFFICES ASSUME Opened!IInv PROVE Opened!StreamsDeliver
  OBVIOUS
<1>1. Opened!ClosedAtPrompt
  <2> SUFFICES ASSUME open = << >>, ~failed, NEW kind \in Opened!Kind \ {"string"}
               PROVE  to[kind] = {}
    BY DEF Opened!ClosedAtPrompt
  <2>1. DOMAIN open = {}
    OBVIOUS
  <2>2. QED
    BY <2>1 DEF Opened!IInv, Opened!Explained
<1>2. QED
  BY <1>1 DEF Opened!StreamsDeliver, Opened!IInv

\* What goes over the stream of a form goes to what the form has opened and to nothing
\* else, as long as nothing of its kind began inside; where no error has passed,
\* everything is closed again at the prompt (the with- forms of ulisp_builtins_control.cpp
\* over the globals of ulisp_streams.cpp).
THEOREM StreamsCorrect == PartSpec => []StreamsDeliver
<1> DEFINE I == part = "opened" => Opened!IInv
<1>1. PartInit => I
  BY StreamsInit DEF PartInit
<1>2. I /\ [PartNext]_partvars => I'
  <2> SUFFICES ASSUME I, [PartNext]_partvars, part' = "opened" PROVE Opened!IInv'
    OBVIOUS
  <2>1. CASE part = "opened" /\ Opened!Next
    BY <2>1, StreamsNext
  <2>2. CASE part = "opened" /\ UNCHANGED opened
    BY <2>2, StreamsStutter
  <2>3. part = "opened" /\ (Opened!Next \/ UNCHANGED opened)
    BY DEF PartNext, partvars
  <2>4. QED
    BY <2>1, <2>2, <2>3
<1>3. I => StreamsDeliver
  BY StreamsImplied DEF StreamsDeliver
<1>4. QED
  BY <1>1, <1>2, <1>3, PTL DEF PartSpec

-----------------------------------------------------------------------------
(* The code of machine-code functions.                                     *)

CodeObject == [start : 0 .. CODESIZE, end : 0 .. CODESIZE, length : Nat]

\* Each name's function lies where its object says, and no two over each other.
Laid(env, objects, bytes, names) ==
  /\ \A n \in names : \A k \in 0 .. objects[env[n]].length - 1 :
       bytes[objects[env[n]].start + k] = <<env[n], k>>
  /\ \A m, n \in names : env[m] # env[n] =>
       \A i \in Nat : ~(/\ objects[env[m]].start <= i /\ i < objects[env[m]].end
                        /\ objects[env[n]].start <= i /\ i < objects[env[n]].end)

Typed(env, objects, bytes) ==
  /\ bytes \in [0 .. CODESIZE - 1 -> Blocks!Word]
  /\ env \in [Name -> Blocks!Code \union {NoCode}]
  /\ objects \in [Blocks!Code -> CodeObject]
  /\ \A c \in Blocks!Code : objects[c].start + objects[c].length <= objects[c].end

LEMMA CodeTyped ==
  ASSUME Blocks!TypeOK
  PROVE  /\ Typed(GlobalEnv, code, MyCode)
         /\ CODESIZE \in Nat /\ origin \in Nat /\ origin <= CODESIZE /\ length \in Nat
         /\ var \in Name /\ spoilt \subseteq Name /\ NoCode \notin Blocks!Code
         /\ Blocks!Live \subseteq Name /\ \A n \in Blocks!Live : GlobalEnv[n] \in Blocks!Code
         /\ \A c \in Blocks!Code :
              /\ code[c].start \in Nat /\ code[c].end \in Nat /\ code[c].length \in Nat
              /\ code[c].start <= code[c].end /\ code[c].end <= CODESIZE
              /\ code[c].start + code[c].length <= code[c].end
              /\ Blocks!Size(c) \in Nat /\ code[c].end = code[c].start + Blocks!Size(c)
              /\ code[c].length <= Blocks!Size(c)
<1>1. /\ CODESIZE \in Nat /\ NoCode \notin Blocks!Code
  BY PartsAssumption DEF Blocks!CodeAssumption, Blocks!Code
<1>2. /\ Typed(GlobalEnv, code, MyCode) /\ origin \in Nat /\ origin <= CODESIZE
      /\ length \in Nat /\ var \in Name /\ spoilt \subseteq Name
  BY <1>1 DEF Blocks!TypeOK, Typed, CodeObject
<1>3. Blocks!Live \subseteq Name /\ \A n \in Blocks!Live : GlobalEnv[n] \in Blocks!Code
  BY <1>2 DEF Blocks!Live, Typed
<1>4. ASSUME NEW c \in Blocks!Code
      PROVE  /\ code[c].start \in Nat /\ code[c].end \in Nat /\ code[c].length \in Nat
             /\ code[c].end <= CODESIZE /\ code[c].start + code[c].length <= code[c].end
  <2>1. code[c] \in CodeObject
    BY <1>2 DEF Typed
  <2>2. QED
    BY <1>1, <1>2, <2>1 DEF Typed, CodeObject
<1>5. QED
  BY <1>1, <1>2, <1>3, <1>4 DEF Blocks!Size

\* That the functions lie apart and hold their code, said with operators of values.
LEMMA LaidMeans ==
  ASSUME Blocks!TypeOK
  PROVE  /\ Blocks!Apart /\ Blocks!CodeIntact => Laid(GlobalEnv, code, MyCode, Blocks!Live)
         /\ Laid(GlobalEnv, code, MyCode, Blocks!Live) => Blocks!Apart /\ Blocks!CodeIntact
<1>1. ASSUME NEW m \in Blocks!Live, NEW n \in Blocks!Live
      PROVE  Blocks!Block(GlobalEnv[m]) \intersect Blocks!Block(GlobalEnv[n]) = {}
             <=> \A i \in Nat : ~(/\ code[GlobalEnv[m]].start <= i /\ i < code[GlobalEnv[m]].end
                                  /\ code[GlobalEnv[n]].start <= i /\ i < code[GlobalEnv[n]].end)
  <2> DEFINE a == code[GlobalEnv[m]].start  b == code[GlobalEnv[m]].end
             c == code[GlobalEnv[n]].start  d == code[GlobalEnv[n]].end
  <2>1. a \in Nat /\ b \in Nat /\ c \in Nat /\ d \in Nat
    BY CodeTyped
  <2> HIDE DEF a, b, c, d
  <2>2. (a .. b - 1) \intersect (c .. d - 1) = {}
        <=> \A i \in Nat : ~(a <= i /\ i < b /\ c <= i /\ i < d)
    BY <2>1
  <2>3. QED
    BY <2>2 DEF Blocks!Block, a, b, c, d
<1>2. Blocks!CodeIntact <=> \A n \in Blocks!Live : \A k \in 0 .. code[GlobalEnv[n]].length - 1 :
                              MyCode[code[GlobalEnv[n]].start + k] = <<GlobalEnv[n], k>>
  BY DEF Blocks!CodeIntact, Blocks!Holds
<1>3. QED
  BY <1>1, <1>2 DEF Blocks!Apart, Laid

-----------------------------------------------------------------------------
\* The halfwords of some functions are a finite set, and count the same wherever
\* the functions lie.
Halves(env, objects, names) ==
  {p \in names \X (0 .. CODESIZE - 1) :
     env[p[1]] # NoCode /\ p[2] < objects[env[p[1]]].end - objects[env[p[1]]].start}

LEMMA HalvesFinite ==
  ASSUME NEW env, NEW objects, NEW names \in SUBSET Name
  PROVE  /\ IsFiniteSet(Halves(env, objects, names))
         /\ Cardinality(Halves(env, objects, names)) \in Nat
<1>1. IsFiniteSet(names)
  <2>1. IsFiniteSet(Name)
    BY PartsAssumption DEF Blocks!CodeAssumption, Blocks!IsFiniteSet, IsFiniteSet
  <2>2. QED
    BY <2>1, FS_Subset
<1>2. IsFiniteSet(0 .. CODESIZE - 1)
  BY PartsAssumption, FS_Interval DEF Blocks!CodeAssumption
<1>3. IsFiniteSet(names \X (0 .. CODESIZE - 1))
  BY <1>1, <1>2, FS_Product
<1>4. Halves(env, objects, names) \in SUBSET (names \X (0 .. CODESIZE - 1))
  BY DEF Halves
<1>5. IsFiniteSet(Halves(env, objects, names))
  BY <1>3, <1>4, FS_Subset
<1>6. QED
  BY <1>5, FS_CardinalityType

\* A function that is taken out of some frees its size.
LEMMA HalvesLess ==
  ASSUME NEW env, NEW objects, NEW names \in SUBSET Name, NEW n \in names,
         NEW rest \in SUBSET (names \ {n}), env[n] # NoCode,
         NEW m \in 0 .. CODESIZE, objects[env[n]].end - objects[env[n]].start = m
  PROVE  Cardinality(Halves(env, objects, rest)) + m
           <= Cardinality(Halves(env, objects, names))
<1> DEFINE A == Halves(env, objects, rest)  B == {n} \X (0 .. m - 1)
           C == Halves(env, objects, names)
<1>1. CODESIZE \in Nat /\ m \in Nat
  BY PartsAssumption DEF Blocks!CodeAssumption
<1>2. IsFiniteSet(A) /\ Cardinality(A) \in Nat /\ IsFiniteSet(C) /\ Cardinality(C) \in Nat
  BY HalvesFinite
<1>3. IsFiniteSet(B) /\ Cardinality(B) = m
  <2>1. IsFiniteSet({n}) /\ Cardinality({n}) = 1
    BY FS_Singleton
  <2>2. IsFiniteSet(0 .. m - 1) /\ Cardinality(0 .. m - 1) = m
    <3>1. 0 \in Int /\ m - 1 \in Int
      BY <1>1
    <3>2. IsFiniteSet(0 .. m - 1)
          /\ Cardinality(0 .. m - 1) = IF 0 > m - 1 THEN 0 ELSE (m - 1) - 0 + 1
      BY <3>1, FS_Interval
    <3>3. QED
      BY <1>1, <3>2
  <2>3. IsFiniteSet(B) /\ Cardinality(B) = Cardinality({n}) * Cardinality(0 .. m - 1)
    BY <2>1, <2>2, FS_Product
  <2>4. QED
    BY <1>1, <2>1, <2>2, <2>3
<1>4. A \intersect B = {}
  BY DEF Halves
<1>5. A \union B \in SUBSET C
  <2>1. A \subseteq C
    BY DEF Halves
  <2>2. ASSUME NEW p \in B PROVE p \in C
    <3>1. p \in names \X (0 .. CODESIZE - 1) /\ p[1] = n /\ p[2] < m
      BY <1>1
    <3>2. QED
      BY <3>1 DEF Halves
  <2>3. QED
    BY <2>1, <2>2
<1> HIDE DEF A, B, C
<1>6. /\ IsFiniteSet(A \union B)
      /\ Cardinality(A \union B) = Cardinality(A) + Cardinality(B) - Cardinality(A \intersect B)
  BY <1>2, <1>3, FS_Union
<1>7. Cardinality(A \union B) <= Cardinality(C)
  BY <1>2, <1>5, FS_Subset
<1>8. Cardinality(A \intersect B) = 0
  BY <1>4, FS_EmptySet
<1>9. Cardinality(A) + m <= Cardinality(C)
  BY <1>1, <1>2, <1>3, <1>6, <1>7, <1>8
<1>10. QED
  BY <1>9 DEF A, C

LEMMA HalvesFewer ==
  ASSUME NEW env, NEW objects, NEW names \in SUBSET Name, NEW rest \in SUBSET names
  PROVE  Cardinality(Halves(env, objects, rest)) <= Cardinality(Halves(env, objects, names))
<1>1. IsFiniteSet(Halves(env, objects, names))
  BY HalvesFinite
<1>2. Halves(env, objects, rest) \in SUBSET Halves(env, objects, names)
  BY DEF Halves
<1>3. QED
  BY <1>1, <1>2, FS_Subset

LEMMA HalvesMean ==
  ASSUME NEW names
  PROVE  Blocks!Halfwords(names) = Halves(GlobalEnv, code, names)
BY DEF Blocks!Halfwords, Halves, Blocks!Size

\* The room that was counted, said with the halves.
Room(pc, env, objects, above, o, v, n) ==
  /\ pc = "compact" => o + Cardinality(Halves(env, objects, above))
                         <= Cardinality(Halves(env, objects, Name \ {v}))
  /\ pc = "assemble" => above = {} /\ o <= Cardinality(Halves(env, objects, Name \ {v}))
  /\ pc # "lisp" => Cardinality(Halves(env, objects, Name \ {v})) + n <= CODESIZE

LEMMA TakenMeans ==
  ASSUME NEW v
  PROVE  /\ Blocks!Taken(v) = Cardinality(Halves(GlobalEnv, code, Name \ {v}))
         /\ Blocks!Taken(v) \in Nat
<1>1. Blocks!Taken(v) = Cardinality(Halves(GlobalEnv, code, Name \ {v}))
  <2>1. Blocks!Halfwords(Name \ {v}) = Halves(GlobalEnv, code, Name \ {v})
    BY HalvesMean
  <2>2. QED
    BY <2>1 DEF Blocks!Taken, Blocks!Cardinality, Cardinality
<1>2. QED
  BY <1>1, HalvesFinite

LEMMA RoomMeans ==
  Blocks!CountedRoom
    <=> Room(at, GlobalEnv, code, Blocks!Above, origin, var, Blocks!Rounded(length))
<1>1. Blocks!Taken(var) = Cardinality(Halves(GlobalEnv, code, Name \ {var}))
  <2>1. Blocks!Halfwords(Name \ {var}) = Halves(GlobalEnv, code, Name \ {var})
    BY DEF Blocks!Halfwords, Halves, Blocks!Size
  <2>2. QED
    BY <2>1 DEF Blocks!Taken, Blocks!Cardinality, Cardinality
<1>2. Blocks!Cardinality(Blocks!Halfwords(Blocks!Above))
        = Cardinality(Halves(GlobalEnv, code, Blocks!Above))
  <2>1. Blocks!Halfwords(Blocks!Above) = Halves(GlobalEnv, code, Blocks!Above)
    BY DEF Blocks!Halfwords, Halves, Blocks!Size
  <2>2. QED
    BY <2>1 DEF Blocks!Cardinality, Cardinality
<1>3. QED
  BY <1>1, <1>2 DEF Blocks!CountedRoom, Room

-----------------------------------------------------------------------------
\* One turn of the compaction: the lowest block is moved down to origin.
LEMMA CompactShape ==
  ASSUME Blocks!TypeOK, Blocks!Compact
  PROVE  \E n \in Blocks!Lowest : \E m \in Nat :
           /\ GlobalEnv[n] \in Blocks!Code
           /\ code[GlobalEnv[n]].end = code[GlobalEnv[n]].start + m
           /\ origin' = origin + m
           /\ code' = [code EXCEPT ![GlobalEnv[n]].start = origin,
                                   ![GlobalEnv[n]].end = origin + m]
           /\ MyCode' = [i \in 0 .. CODESIZE - 1 |->
                           IF i >= origin /\ i < origin + m
                           THEN MyCode[code[GlobalEnv[n]].start + i - origin] ELSE MyCode[i]]
<1>1. PICK n \in Blocks!Lowest :
        /\ origin' = origin + Blocks!Size(GlobalEnv[n])
        /\ IF code[GlobalEnv[n]].start = origin
           THEN UNCHANGED <<MyCode, code>>
           ELSE /\ Blocks!Slide(GlobalEnv[n])
                /\ code' = [code EXCEPT ![GlobalEnv[n]].start = origin,
                                        ![GlobalEnv[n]].end = origin + Blocks!Size(GlobalEnv[n])]
  BY DEF Blocks!Compact
<1> DEFINE c == GlobalEnv[n]  m == Blocks!Size(c)
<1>2. c \in Blocks!Code
  BY CodeTyped DEF Blocks!Lowest, Blocks!Above, Blocks!Kept, Typed
<1>3. m \in Nat /\ code[c].end = code[c].start + m /\ code[c].start \in Nat
  BY <1>2, CodeTyped
<1>4. /\ CODESIZE \in Nat /\ origin \in Nat /\ MyCode \in [0 .. CODESIZE - 1 -> Blocks!Word]
      /\ DOMAIN MyCode = 0 .. CODESIZE - 1 /\ code \in [Blocks!Code -> CodeObject]
      /\ code[c] \in CodeObject
  BY <1>2, CodeTyped DEF Typed
<1> HIDE DEF c, m
<1>5. CASE code[c].start = origin
  <2>1. code[c] = [code[c] EXCEPT !.start = origin, !.end = origin + m]
    BY <1>3, <1>4, <1>5 DEF CodeObject
  <2>2. code = [code EXCEPT ![c].start = origin, ![c].end = origin + m]
    BY <1>2, <1>4, <2>1
  <2>3. MyCode = [i \in 0 .. CODESIZE - 1 |->
                    IF i >= origin /\ i < origin + m
                    THEN MyCode[code[c].start + i - origin] ELSE MyCode[i]]
    <3>1. \A i \in 0 .. CODESIZE - 1 : code[c].start + i - origin = i
      BY <1>4, <1>5
    <3>2. QED
      BY <1>4, <3>1
  <2>4. QED
    BY <1>1, <1>2, <1>3, <1>5, <2>2, <2>3 DEF c, m
<1>6. CASE code[c].start # origin
  <2>1. /\ origin' = origin + m /\ Blocks!Slide(c)
        /\ code' = [code EXCEPT ![c].start = origin, ![c].end = origin + m]
    BY <1>1, <1>6 DEF c, m
  <2>2. MyCode' = [i \in 0 .. CODESIZE - 1 |->
                     IF i >= origin /\ i < origin + m
                     THEN MyCode[code[c].start + i - origin] ELSE MyCode[i]]
    BY <1>4, <2>1 DEF Blocks!Slide, m
  <2>3. QED
    BY <1>2, <1>3, <2>1, <2>2 DEF c
<1>7. QED
  BY <1>5, <1>6

\* A block c moved down to o, with m halfwords.
MovedObjects(objects, c, o, m) == [objects EXCEPT ![c].start = o, ![c].end = o + m]
MovedBytes(bytes, s, o, m) ==
  [i \in 0 .. CODESIZE - 1 |-> IF i >= o /\ i < o + m THEN bytes[s + i - o] ELSE bytes[i]]

LEMMA MovedShape ==
  ASSUME NEW objects, objects \in [Blocks!Code -> CodeObject], NEW c \in Blocks!Code,
         NEW o \in 0 .. CODESIZE, NEW m \in Nat, o + m <= CODESIZE
  PROVE  LET moved == MovedObjects(objects, c, o, m) IN
         /\ moved \in [Blocks!Code -> CodeObject]
         /\ moved[c].start = o /\ moved[c].end = o + m /\ moved[c].length = objects[c].length
         /\ \A d \in Blocks!Code : d # c => moved[d] = objects[d]
<1>1. objects[c] \in CodeObject /\ o + m \in 0 .. CODESIZE
  BY PartsAssumption DEF Blocks!CodeAssumption
<1> DEFINE new == [objects[c] EXCEPT !.start = o, !.end = o + m]
           moved == MovedObjects(objects, c, o, m)
<1>2. new.start = o /\ new.end = o + m /\ new.length = objects[c].length
  BY <1>1 DEF CodeObject
<1>3. new \in CodeObject
  BY <1>1 DEF CodeObject
<1>4. moved = [objects EXCEPT ![c] = new]
  BY DEF MovedObjects
<1> HIDE DEF moved, new
<1>5. QED
  BY <1>2, <1>3, <1>4 DEF moved

LEMMA MovedTyped ==
  ASSUME NEW env, NEW objects, NEW bytes, Typed(env, objects, bytes), NEW c \in Blocks!Code,
         NEW o \in Nat, NEW m \in Nat, o <= objects[c].start,
         objects[c].end = objects[c].start + m
  PROVE  Typed(env, MovedObjects(objects, c, o, m), MovedBytes(bytes, objects[c].start, o, m))
<1> DEFINE moved == MovedObjects(objects, c, o, m)  s == objects[c].start
           slid == MovedBytes(bytes, s, o, m)
<1>1. /\ objects \in [Blocks!Code -> CodeObject] /\ objects[c] \in CodeObject
      /\ s \in Nat /\ objects[c].end <= CODESIZE /\ CODESIZE \in Nat /\ objects[c].length \in Nat
      /\ s + objects[c].length <= objects[c].end
  BY PartsAssumption DEF Typed, CodeObject, Blocks!CodeAssumption
<1>2. o \in 0 .. CODESIZE /\ o + m <= CODESIZE
  BY <1>1
<1>3. /\ moved \in [Blocks!Code -> CodeObject]
      /\ moved[c].start = o /\ moved[c].end = o + m /\ moved[c].length = objects[c].length
      /\ \A d \in Blocks!Code : d # c => moved[d] = objects[d]
  BY <1>1, <1>2, MovedShape
<1>4. slid \in [0 .. CODESIZE - 1 -> Blocks!Word]
  <2>1. ASSUME NEW i \in 0 .. CODESIZE - 1, i >= o, i < o + m
        PROVE  s + i - o \in 0 .. CODESIZE - 1
    BY <1>1, <2>1
  <2>2. QED
    BY <2>1 DEF Typed, MovedBytes
<1> HIDE DEF moved, slid
<1>5. ASSUME NEW d \in Blocks!Code
      PROVE  moved[d].start + moved[d].length <= moved[d].end
  <2>1. CASE d = c
    BY <1>1, <1>3, <2>1
  <2>2. CASE d # c
    BY <1>3, <2>2 DEF Typed
  <2>3. QED
    BY <2>1, <2>2
<1>6. QED
  BY <1>3, <1>4, <1>5 DEF Typed, moved, slid

\* Nothing of what is kept is overwritten, and none lies across the new origin.
LEMMA MovedLaid ==
  ASSUME NEW env, NEW objects, NEW bytes, Typed(env, objects, bytes),
         NEW names \in SUBSET Name, \A n \in names : env[n] \in Blocks!Code,
         Laid(env, objects, bytes, names), NEW c \in Blocks!Code,
         NEW o \in Nat, NEW m \in Nat, o <= objects[c].start,
         objects[c].end = objects[c].start + m, \E n \in names : env[n] = c,
         \A n \in names : /\ objects[env[n]].start < o => objects[env[n]].end <= o
                          /\ objects[env[n]].start >= o
                               => objects[env[n]].start >= objects[c].start
  PROVE  LET moved == MovedObjects(objects, c, o, m)
             slid  == MovedBytes(bytes, objects[c].start, o, m) IN
         /\ Laid(env, moved, slid, names)
         /\ \A n \in names : moved[env[n]].start < o + m => moved[env[n]].end <= o + m
<1> DEFINE moved == MovedObjects(objects, c, o, m)  s == objects[c].start
           slid == MovedBytes(bytes, s, o, m)
<1>1. /\ objects \in [Blocks!Code -> CodeObject] /\ objects[c] \in CodeObject
      /\ s \in Nat /\ objects[c].end <= CODESIZE /\ CODESIZE \in Nat
      /\ \A d \in Blocks!Code : /\ objects[d].start \in Nat /\ objects[d].end \in Nat
                                /\ objects[d].length \in Nat /\ objects[d].end <= CODESIZE
                                /\ objects[d].start + objects[d].length <= objects[d].end
  BY PartsAssumption DEF Typed, CodeObject, Blocks!CodeAssumption
<1>2. o \in 0 .. CODESIZE /\ o + m <= CODESIZE
  BY <1>1
<1>3. /\ moved[c].start = o /\ moved[c].end = o + m /\ moved[c].length = objects[c].length
      /\ \A d \in Blocks!Code : d # c => moved[d] = objects[d]
  BY <1>1, <1>2, MovedShape
<1>4. \A i \in 0 .. CODESIZE - 1 :
        slid[i] = IF i >= o /\ i < o + m THEN bytes[s + i - o] ELSE bytes[i]
  BY DEF MovedBytes
<1> HIDE DEF moved, slid, s
\* A kept block other than c is below origin or above c.
<1>5. ASSUME NEW n \in names, env[n] # c, NEW i \in Nat,
             objects[env[n]].start <= i, i < objects[env[n]].end
      PROVE  i < o \/ i >= s + m
  <2>1. PICK k \in names : env[k] = c
    OBVIOUS
  <2>2. ~(s <= i /\ i < s + m)
    BY <1>5, <2>1 DEF Laid, s
  <2>3. env[n] \in Blocks!Code
    OBVIOUS
  <2>4. CASE objects[env[n]].start < o
    BY <1>1, <1>5, <2>3, <2>4
  <2>5. CASE objects[env[n]].start >= o
    <3>1. objects[env[n]].start >= s
      BY <2>5 DEF s
    <3>2. QED
      BY <1>1, <1>5, <2>2, <2>3, <3>1
  <2>6. QED
    BY <1>1, <2>3, <2>4, <2>5
<1>6. ASSUME NEW n \in names, NEW k \in 0 .. moved[env[n]].length - 1
      PROVE  slid[moved[env[n]].start + k] = <<env[n], k>>
  <2>1. env[n] \in Blocks!Code
    OBVIOUS
  <2>2. CASE env[n] = c
    <3>1. k \in 0 .. objects[c].length - 1 /\ moved[env[n]].start + k = o + k
      BY <1>3, <2>2
    <3>2. k \in Nat /\ k < m /\ o + k \in 0 .. CODESIZE - 1 /\ s + (o + k) - o = s + k
      BY <1>1, <1>2, <3>1 DEF s
    <3>3. slid[o + k] = bytes[s + k]
      BY <1>4, <3>2
    <3>4. bytes[s + k] = <<c, k>>
      BY <2>2, <3>1 DEF Laid, s
    <3>5. QED
      BY <2>2, <3>1, <3>3, <3>4
  <2>3. CASE env[n] # c
    <3> DEFINE i == objects[env[n]].start + k
    <3>1. moved[env[n]] = objects[env[n]] /\ k \in 0 .. objects[env[n]].length - 1
      BY <1>3, <2>1, <2>3
    <3>2. /\ i \in Nat /\ objects[env[n]].start <= i /\ i < objects[env[n]].end
          /\ i \in 0 .. CODESIZE - 1
      BY <1>1, <2>1, <3>1
    <3>3. bytes[i] = <<env[n], k>>
      BY <3>1 DEF Laid
    <3> HIDE DEF i
    <3>4. i < o \/ i >= s + m
      BY <1>5, <2>3, <3>2
    <3>5. ~(i >= o /\ i < o + m)
      BY <1>1, <3>2, <3>4 DEF s
    <3>6. slid[i] = bytes[i]
      BY <1>4, <3>2, <3>5
    <3>7. QED
      BY <3>1, <3>3, <3>6 DEF i
  <2>4. QED
    BY <2>2, <2>3
<1>7. ASSUME NEW j \in names, NEW n \in names, env[j] # env[n], NEW i \in Nat,
             moved[env[j]].start <= i, i < moved[env[j]].end,
             moved[env[n]].start <= i, i < moved[env[n]].end
      PROVE  FALSE
  <2>1. env[j] \in Blocks!Code /\ env[n] \in Blocks!Code
    OBVIOUS
  <2>2. CASE env[j] = c
    <3>1. /\ moved[env[n]] = objects[env[n]] /\ o <= i /\ i < o + m
          /\ objects[env[n]].start <= i /\ i < objects[env[n]].end
      BY <1>3, <1>7, <2>1, <2>2
    <3>2. i < o \/ i >= s + m
      BY <1>5, <1>7, <2>2, <3>1
    <3>3. QED
      BY <1>1, <3>1, <3>2 DEF s
  <2>3. CASE env[n] = c
    <3>1. /\ moved[env[j]] = objects[env[j]] /\ o <= i /\ i < o + m
          /\ objects[env[j]].start <= i /\ i < objects[env[j]].end
      BY <1>3, <1>7, <2>1, <2>3
    <3>2. i < o \/ i >= s + m
      BY <1>5, <1>7, <2>3, <3>1
    <3>3. QED
      BY <1>1, <3>1, <3>2 DEF s
  <2>4. CASE env[j] # c /\ env[n] # c
    BY <1>3, <1>7, <2>1, <2>4 DEF Laid
  <2>5. QED
    BY <2>2, <2>3, <2>4
<1>8. ASSUME NEW n \in names, moved[env[n]].start < o + m PROVE moved[env[n]].end <= o + m
  <2>1. env[n] \in Blocks!Code
    OBVIOUS
  <2>2. CASE env[n] = c
    BY <1>1, <1>3, <2>2
  <2>3. CASE env[n] # c
    <3> DEFINE a == objects[env[n]].start  b == objects[env[n]].end
    <3>1. moved[env[n]] = objects[env[n]] /\ a < o + m /\ a \in Nat /\ b \in Nat
      BY <1>1, <1>3, <1>8, <2>1, <2>3
    <3>2. a < o => b <= o
      OBVIOUS
    <3>3. a >= o => a >= s
      BY DEF s
    <3>4. a < b => a < o \/ a >= s + m
      BY <1>5, <2>3, <3>1
    <3> HIDE DEF a, b
    <3>5. b <= o + m
      BY <1>1, <3>1, <3>2, <3>3, <3>4 DEF s
    <3>6. QED
      BY <3>1, <3>5 DEF b
  <2>4. QED
    BY <2>2, <2>3
<1>9. QED
  BY <1>6, <1>7, <1>8 DEF Laid, moved, slid, s

\* The halfwords count the same if the sizes are the same.
LEMMA HalvesSame ==
  ASSUME NEW env, env \in [Name -> Blocks!Code \union {NoCode}], NEW objects, NEW others,
         NEW names \in SUBSET Name,
         \A c \in Blocks!Code :
           others[c].end - others[c].start = objects[c].end - objects[c].start
  PROVE  Halves(env, others, names) = Halves(env, objects, names)
<1>1. ASSUME NEW p \in names \X (0 .. CODESIZE - 1), env[p[1]] # NoCode
      PROVE  others[env[p[1]]].end - others[env[p[1]]].start
               = objects[env[p[1]]].end - objects[env[p[1]]].start
  BY <1>1
<1>2. QED
  BY <1>1 DEF Halves

LEMMA CompactStep == Blocks!IInv /\ Blocks!Compact => Blocks!IInv'
<1> SUFFICES ASSUME Blocks!IInv, Blocks!Compact PROVE Blocks!IInv'
  OBVIOUS
<1>1. Blocks!TypeOK
  BY DEF Blocks!IInv
<1>2. /\ at = "compact" /\ at' = at /\ GlobalEnv' = GlobalEnv /\ var' = var
      /\ length' = length /\ spoilt' = spoilt
  BY DEF Blocks!Compact
<1>3. PICK n \in Blocks!Lowest, m \in Nat :
        /\ GlobalEnv[n] \in Blocks!Code
        /\ code[GlobalEnv[n]].end = code[GlobalEnv[n]].start + m
        /\ origin' = origin + m
        /\ code' = [code EXCEPT ![GlobalEnv[n]].start = origin,
                                ![GlobalEnv[n]].end = origin + m]
        /\ MyCode' = [i \in 0 .. CODESIZE - 1 |->
                        IF i >= origin /\ i < origin + m
                        THEN MyCode[code[GlobalEnv[n]].start + i - origin] ELSE MyCode[i]]
  BY <1>1, CompactShape
<1> DEFINE c == GlobalEnv[n]  s == code[c].start
<1>4. /\ CODESIZE \in Nat /\ origin \in Nat /\ Typed(GlobalEnv, code, MyCode)
      /\ var \in Name /\ NoCode \notin Blocks!Code
      /\ GlobalEnv \in [Name -> Blocks!Code \union {NoCode}]
      /\ code \in [Blocks!Code -> CodeObject]
      /\ \A d \in Blocks!Code : /\ code[d].start \in Nat /\ code[d].end \in Nat
                                /\ code[d].end <= CODESIZE /\ code[d].start <= code[d].end
  BY <1>1, CodeTyped DEF Typed
<1>5. /\ n \in Name /\ n # var /\ n \in Blocks!Above /\ c \in Blocks!Code
      /\ s \in Nat /\ origin <= s /\ s < CODESIZE /\ code[c].end = s + m
      /\ s + m <= CODESIZE /\ origin + m <= CODESIZE
      /\ \A x \in Blocks!Above : s <= code[GlobalEnv[x]].start
  BY <1>3, <1>4 DEF Blocks!Lowest, Blocks!Above, Blocks!Kept
<1>6. /\ code' = MovedObjects(code, c, origin, m)
      /\ MyCode' = MovedBytes(MyCode, s, origin, m)
  BY <1>3 DEF MovedObjects, MovedBytes
<1> HIDE DEF c, s
<1>7. Typed(GlobalEnv', code', MyCode')
  BY <1>2, <1>4, <1>5, <1>6, MovedTyped DEF s
<1>8. Blocks!TypeOK'
  <2>1. origin' \in 0 .. CODESIZE
    BY <1>3, <1>4, <1>5
  <2>2. QED
    BY <1>1, <1>2, <1>7, <2>1 DEF Blocks!TypeOK, Typed, CodeObject, Blocks!Code, Blocks!Word
<1>9. Blocks!Live' = Blocks!Live /\ Blocks!Live \subseteq Name
      /\ \A x \in Blocks!Live : GlobalEnv[x] \in Blocks!Code
  BY <1>1, <1>2, CodeTyped DEF Blocks!Live
<1>10. /\ Laid(GlobalEnv', code', MyCode', Blocks!Live')
       /\ Blocks!NoneAcross'
  <2>1. CASE spoilt = Name
    <3>1. Blocks!Live = {}
      BY <2>1 DEF Blocks!Live
    <3>2. QED
      BY <1>9, <3>1 DEF Laid, Blocks!NoneAcross
  <2>2. CASE spoilt \subseteq {var}
    <3>1. Blocks!Live = Blocks!Kept
      BY <1>2, <2>2 DEF Blocks!Live, Blocks!Kept
    <3>2. n \in Blocks!Live /\ GlobalEnv[n] = c
      BY <1>5, <3>1 DEF Blocks!Above, c
    <3>3. Laid(GlobalEnv, code, MyCode, Blocks!Live)
      BY <1>1, LaidMeans DEF Blocks!IInv
    <3>4. ASSUME NEW x \in Blocks!Live
          PROVE  /\ code[GlobalEnv[x]].start < origin => code[GlobalEnv[x]].end <= origin
                 /\ code[GlobalEnv[x]].start >= origin => code[GlobalEnv[x]].start >= s
      <4>1. code[GlobalEnv[x]].start < origin => code[GlobalEnv[x]].end <= origin
        BY <1>2 DEF Blocks!IInv, Blocks!NoneAcross
      <4>2. code[GlobalEnv[x]].start \in Nat
        BY <1>4, <1>9
      <4>3. CASE code[GlobalEnv[x]].start >= origin /\ code[GlobalEnv[x]].start < CODESIZE
        <5>1. x \in Blocks!Above
          BY <3>1, <4>3 DEF Blocks!Above
        <5>2. QED
          BY <1>4, <1>5, <4>1, <4>2, <5>1
      <4>4. QED
        BY <1>4, <1>5, <4>1, <4>2, <4>3
    <3>5. /\ Laid(GlobalEnv, code', MyCode', Blocks!Live)
          /\ \A x \in Blocks!Live : code'[GlobalEnv[x]].start < origin + m
                                      => code'[GlobalEnv[x]].end <= origin + m
      BY <1>4, <1>5, <1>6, <1>9, <3>2, <3>3, <3>4, MovedLaid DEF s
    <3>6. QED
      BY <1>2, <1>3, <1>9, <3>5 DEF Blocks!NoneAcross
  <2>3. QED
    BY <1>2, <2>1, <2>2 DEF Blocks!IInv, Blocks!SpoiltTogether
<1>11. Blocks!Apart' /\ Blocks!CodeIntact'
  <2>1. Blocks!TypeOK' => (Laid(GlobalEnv, code, MyCode, Blocks!Live)'
                             => Blocks!Apart' /\ Blocks!CodeIntact')
    BY LaidMeans, PTL
  <2>2. QED
    BY <1>8, <1>10, <2>1 DEF Laid
<1>12. /\ code'[c].start = origin /\ code'[c].end = origin + m
       /\ \A d \in Blocks!Code : d # c => code'[d] = code[d]
  <2>1. origin \in 0 .. CODESIZE
    BY <1>4, <1>5
  <2>2. QED
    BY <1>4, <1>5, <1>6, <2>1, MovedShape
<1>13. \A d \in Blocks!Code : code'[d].end - code'[d].start = code[d].end - code[d].start
  BY <1>4, <1>5, <1>12 DEF s
<1>14. Blocks!CountedRoom'
  <2>1. \A names \in SUBSET Name : Halves(GlobalEnv', code', names) = Halves(GlobalEnv, code, names)
    BY <1>2, <1>4, <1>13, HalvesSame
  <2>2. Blocks!Above \in SUBSET Name /\ Blocks!Above' \in SUBSET Name
    BY <1>2 DEF Blocks!Above, Blocks!Kept
  <2>3. Blocks!Above' \subseteq Blocks!Above /\ (m > 0 => n \notin Blocks!Above')
    <3>1. ASSUME NEW x \in Blocks!Above' PROVE x \in Blocks!Above /\ (m > 0 => x # n)
      <4>1. /\ x \in Name \ {var} /\ GlobalEnv[x] # NoCode
            /\ code'[GlobalEnv[x]].start >= origin + m /\ code'[GlobalEnv[x]].start < CODESIZE
            /\ GlobalEnv[x] \in Blocks!Code
        BY <1>2, <1>3, <1>4, <3>1 DEF Blocks!Above, Blocks!Kept
      <4>2. CASE GlobalEnv[x] = c
        <5>1. m = 0 /\ code[GlobalEnv[x]].start >= origin /\ code[GlobalEnv[x]].start < CODESIZE
          BY <1>4, <1>5, <1>12, <4>1, <4>2 DEF s
        <5>2. QED
          BY <4>1, <5>1 DEF Blocks!Above, Blocks!Kept
      <4>3. CASE GlobalEnv[x] # c
        <5>1. code[GlobalEnv[x]].start >= origin /\ code[GlobalEnv[x]].start < CODESIZE /\ x # n
          BY <1>4, <1>5, <1>12, <4>1, <4>3 DEF c
        <5>2. QED
          BY <4>1, <5>1 DEF Blocks!Above, Blocks!Kept
      <4>4. QED
        BY <4>2, <4>3
    <3>2. QED
      BY <3>1
  <2>4. m + Cardinality(Halves(GlobalEnv, code, Blocks!Above'))
          <= Cardinality(Halves(GlobalEnv, code, Blocks!Above))
    <3>1. CASE m = 0
      <4>1. Cardinality(Halves(GlobalEnv, code, Blocks!Above'))
              <= Cardinality(Halves(GlobalEnv, code, Blocks!Above))
        BY <2>2, <2>3, HalvesFewer
      <4>2. QED
        BY <2>2, <3>1, <4>1, HalvesFinite
    <3>2. CASE m > 0
      <4>1. /\ Blocks!Above' \in SUBSET (Blocks!Above \ {n}) /\ n \in Blocks!Above
            /\ GlobalEnv[n] # NoCode
        BY <1>4, <1>5, <2>3, <3>2 DEF c
      <4>2. m \in 0 .. CODESIZE /\ code[GlobalEnv[n]].end - code[GlobalEnv[n]].start = m
        BY <1>4, <1>5 DEF c, s
      <4>3. Cardinality(Halves(GlobalEnv, code, Blocks!Above')) + m
              <= Cardinality(Halves(GlobalEnv, code, Blocks!Above))
        BY <2>2, <4>1, <4>2, HalvesLess
      <4>4. QED
        BY <2>2, <4>3, HalvesFinite
    <3>3. QED
      BY <3>1, <3>2
  <2> DEFINE a == Cardinality(Halves(GlobalEnv, code, Blocks!Above'))
             b == Cardinality(Halves(GlobalEnv, code, Blocks!Above))
             t == Cardinality(Halves(GlobalEnv, code, Name \ {var}))
  <2>5. a \in Nat /\ b \in Nat /\ t \in Nat
    BY <2>2, HalvesFinite
  <2>6. origin + b <= t /\ t + Blocks!Rounded(length) <= CODESIZE
    BY <1>2, RoomMeans DEF Blocks!IInv, Room
  <2>7. m + a <= b
    BY <2>4
  <2> HIDE DEF a, b, t
  <2>8. (origin + m) + a <= t
    BY <1>4, <2>5, <2>6, <2>7
  <2>9. Room(at', GlobalEnv', code', Blocks!Above', origin', var', Blocks!Rounded(length)')
    BY <1>2, <1>3, <2>1, <2>2, <2>6, <2>8 DEF Room, Blocks!Rounded, a, t
  <2>10. Room(at, GlobalEnv, code, Blocks!Above, origin, var, Blocks!Rounded(length))'
    BY <2>9
  <2>11. QED
    BY <2>10, RoomMeans, PTL
<1>15. Blocks!SpoiltTogether'
  BY <1>2 DEF Blocks!IInv, Blocks!SpoiltTogether
<1>16. QED
  BY <1>8, <1>10, <1>11, <1>14, <1>15 DEF Blocks!IInv

-----------------------------------------------------------------------------
\* Functions that have the values of others that are laid well.
LEMMA LaidImage ==
  ASSUME NEW env, NEW former, NEW objects, NEW bytes, NEW names, NEW others,
         Laid(former, objects, bytes, others),
         \A x \in names : \E y \in others : env[x] = former[y]
  PROVE  Laid(env, objects, bytes, names)
<1>1. ASSUME NEW x \in names, NEW k \in 0 .. objects[env[x]].length - 1
      PROVE  bytes[objects[env[x]].start + k] = <<env[x], k>>
  <2>1. PICK y \in others : env[x] = former[y]
    OBVIOUS
  <2>2. QED
    BY <2>1 DEF Laid
<1>2. ASSUME NEW m \in names, NEW n \in names, env[m] # env[n], NEW i \in Nat
      PROVE  ~(/\ objects[env[m]].start <= i /\ i < objects[env[m]].end
               /\ objects[env[n]].start <= i /\ i < objects[env[n]].end)
  <2>1. PICK x \in others : env[m] = former[x]
    OBVIOUS
  <2>2. PICK y \in others : env[n] = former[y]
    OBVIOUS
  <2>3. QED
    BY <1>2, <2>1, <2>2 DEF Laid
<1>3. QED
  BY <1>1, <1>2 DEF Laid

\* What is garbage is wiped, the rest stays.
LEMMA DisposeKeeps ==
  ASSUME Blocks!TypeOK, NEW env, NEW objects, NEW bytes, Typed(env, objects, bytes),
         Blocks!Dispose(env, objects, bytes), NEW names \in SUBSET Name,
         \A n \in names : env[n] \in Blocks!Code
  PROVE  /\ Typed(GlobalEnv', code', MyCode')
         /\ Laid(env, objects, bytes, names) => Laid(GlobalEnv', code', MyCode', names)
<1> DEFINE used0 == {env[n] : n \in Name}
<1>1. /\ GlobalEnv' = env
      /\ code' = [c \in Blocks!Code |-> IF c \in used0 THEN objects[c] ELSE Blocks!Unused]
      /\ MyCode' = [i \in 0 .. CODESIZE - 1 |->
                      IF bytes[i][1] \in used0 THEN bytes[i] ELSE Blocks!Blank]
  <2>1. DOMAIN MyCode = 0 .. CODESIZE - 1
    BY DEF Blocks!TypeOK
  <2>2. QED
    BY <2>1 DEF Blocks!Dispose
<1> HIDE DEF used0
<1>2. CODESIZE \in Nat
  BY PartsAssumption DEF Blocks!CodeAssumption
<1>3. Blocks!Unused \in CodeObject /\ Blocks!Blank \in Blocks!Word
  BY <1>2 DEF Blocks!Unused, CodeObject, Blocks!Blank, Blocks!Word
<1>4. code' \in [Blocks!Code -> CodeObject] /\ MyCode' \in [0 .. CODESIZE - 1 -> Blocks!Word]
  BY <1>1, <1>3 DEF Typed
<1>5. \A c \in Blocks!Code : code'[c].start + code'[c].length <= code'[c].end
  BY <1>1 DEF Typed, Blocks!Unused
<1>6. Typed(GlobalEnv', code', MyCode')
  BY <1>1, <1>4, <1>5 DEF Typed
<1>7. ASSUME Laid(env, objects, bytes, names) PROVE Laid(env, code', MyCode', names)
  <2>1. \A n \in names : env[n] \in used0 /\ code'[env[n]] = objects[env[n]]
    BY <1>1 DEF used0
  <2>2. ASSUME NEW n \in names, NEW k \in 0 .. code'[env[n]].length - 1
        PROVE  MyCode'[code'[env[n]].start + k] = <<env[n], k>>
    <3> DEFINE i == objects[env[n]].start + k
    <3>1. k \in 0 .. objects[env[n]].length - 1 /\ code'[env[n]].start + k = i
      BY <2>1
    <3>2. bytes[i] = <<env[n], k>>
      BY <1>7, <3>1 DEF Laid
    <3>3. i \in 0 .. CODESIZE - 1
      <4>1. objects[env[n]] \in CodeObject
            /\ objects[env[n]].start + objects[env[n]].length <= objects[env[n]].end
        BY DEF Typed
      <4>2. QED
        BY <1>2, <3>1, <4>1 DEF CodeObject
    <3> HIDE DEF i
    <3>4. bytes[i][1] \in used0
      BY <2>1, <3>2
    <3>5. QED
      BY <1>1, <3>1, <3>2, <3>3, <3>4
  <2>3. QED
    BY <1>7, <2>1, <2>2 DEF Laid
<1>8. QED
  BY <1>1, <1>6, <1>7

\* What is written where none of the functions lies spoils none.
LEMMA WrittenLaid ==
  ASSUME NEW env, NEW objects, NEW bytes, NEW written, Typed(env, objects, bytes),
         NEW names \in SUBSET Name, \A n \in names : env[n] \in Blocks!Code,
         Laid(env, objects, bytes, names),
         \A n \in names : \A i \in 0 .. CODESIZE - 1 :
           objects[env[n]].start <= i /\ i < objects[env[n]].end => written[i] = bytes[i]
  PROVE  Laid(env, objects, written, names)
<1>1. ASSUME NEW n \in names, NEW k \in 0 .. objects[env[n]].length - 1
      PROVE  written[objects[env[n]].start + k] = <<env[n], k>>
  <2> DEFINE i == objects[env[n]].start + k
  <2>1. /\ objects[env[n]] \in CodeObject /\ CODESIZE \in Nat
        /\ objects[env[n]].start + objects[env[n]].length <= objects[env[n]].end
    BY PartsAssumption DEF Typed, Blocks!CodeAssumption
  <2>2. i \in 0 .. CODESIZE - 1 /\ objects[env[n]].start <= i /\ i < objects[env[n]].end
    BY <2>1 DEF CodeObject
  <2>3. written[i] = bytes[i]
    BY <2>2
  <2>4. QED
    BY <2>3 DEF Laid
<1>2. QED
  BY <1>1 DEF Laid

\* There is a CODE object that is no value.
LEMMA FreshFree ==
  ASSUME Blocks!TypeOK
  PROVE  Blocks!Fresh \in Blocks!Code /\ \A n \in Name : GlobalEnv[n] # Blocks!Fresh
<1>1. IsFiniteSet(Name) /\ Spare \notin Name
  BY PartsAssumption DEF Blocks!CodeAssumption, Blocks!IsFiniteSet, IsFiniteSet
<1>2. IsFiniteSet(Blocks!Code) /\ Cardinality(Blocks!Code) = Cardinality(Name) + 1
  BY <1>1, FS_AddElement DEF Blocks!Code
<1>3. Cardinality(Name) \in Nat
  BY <1>1, FS_CardinalityType
<1> DEFINE Values == {GlobalEnv[n] : n \in Name}
<1>4. \E c \in Blocks!Code : c \notin Values
  <2> SUFFICES ASSUME Blocks!Code \subseteq Values PROVE FALSE
    OBVIOUS
  <2> DEFINE f == [n \in Name |-> GlobalEnv[n]]
  <2>1. f \in Surjection(Name, Values)
    BY DEF Surjection
  <2>2. IsFiniteSet(Values) /\ Cardinality(Values) <= Cardinality(Name)
    BY <1>1, <2>1, FS_Surjection
  <2> HIDE DEF Values
  <2>3. Cardinality(Blocks!Code) <= Cardinality(Values) /\ Cardinality(Values) \in Nat
    BY <2>2, FS_Subset, FS_CardinalityType
  <2>4. QED
    BY <1>2, <1>3, <2>2, <2>3
<1>5. \E c \in Blocks!Code : \A n \in Name : GlobalEnv[n] # c
  BY <1>4
<1>6. QED
  BY <1>5 DEF Blocks!Fresh

\* Back at the prompt, the functions must lie well, and that is all.
LEMMA LispStep ==
  ASSUME at' = "lisp", Typed(GlobalEnv', code', MyCode'), origin' \in 0 .. CODESIZE,
         length' \in Nat, var' \in Name, spoilt' \subseteq Name,
         Laid(GlobalEnv', code', MyCode', Blocks!Live')
  PROVE  Blocks!IInv'
<1>1. Blocks!TypeOK'
  BY DEF Blocks!TypeOK, Typed, CodeObject, Blocks!Code, Blocks!Word
<1>2. Laid(GlobalEnv, code, MyCode, Blocks!Live)'
  OBVIOUS
<1>3. Blocks!Apart' /\ Blocks!CodeIntact'
  BY <1>1, <1>2, LaidMeans, PTL
<1>4. Blocks!SpoiltTogether' /\ Blocks!NoneAcross' /\ Blocks!CountedRoom'
  BY DEF Blocks!SpoiltTogether, Blocks!NoneAcross, Blocks!CountedRoom
<1>5. QED
  BY <1>1, <1>3, <1>4 DEF Blocks!IInv

LEMMA BlocksInit == Blocks!Init => Blocks!IInv
<1> SUFFICES ASSUME Blocks!Init PROVE Blocks!IInv
  OBVIOUS
<1>1. CODESIZE \in Nat /\ NoCode \notin Name /\ Name # {}
  BY PartsAssumption DEF Blocks!CodeAssumption
<1>2. /\ Blocks!Unused \in CodeObject /\ Blocks!Blank \in Blocks!Word
      /\ Blocks!Unused.start + Blocks!Unused.length <= Blocks!Unused.end
  BY <1>1 DEF Blocks!Unused, CodeObject, Blocks!Blank, Blocks!Word
<1>3. /\ MyCode = [i \in 0 .. CODESIZE - 1 |-> Blocks!Blank]
      /\ code = [c \in Blocks!Code |-> Blocks!Unused] /\ GlobalEnv = [n \in Name |-> NoCode]
      /\ at = "lisp" /\ var \in Name /\ length = 0 /\ origin = 0 /\ spoilt = {}
  BY <1>1 DEF Blocks!Init, Blocks!Unset
<1>4. Blocks!Live = {}
  BY <1>3 DEF Blocks!Live
<1>5. Blocks!TypeOK
  <2>1. /\ MyCode \in [0 .. CODESIZE - 1 -> Blocks!Word] /\ code \in [Blocks!Code -> CodeObject]
        /\ GlobalEnv \in [Name -> Blocks!Code \union {NoCode}]
        /\ \A c \in Blocks!Code : code[c].start + code[c].length <= code[c].end
    BY <1>2, <1>3
  <2>2. QED
    BY <1>1, <1>3, <2>1 DEF Blocks!TypeOK, CodeObject
<1>6. QED
  BY <1>3, <1>4, <1>5 DEF Blocks!IInv, Blocks!SpoiltTogether, Blocks!Apart, Blocks!NoneAcross,
                          Blocks!CountedRoom, Blocks!CodeIntact

\* The room is counted before anything moves.
LEMMA DefcodeStep ==
  ASSUME Blocks!IInv, NEW v \in Name, NEW n \in Lengths, Blocks!sp_defcode(v, n)
  PROVE  Blocks!IInv'
<1>1. /\ Blocks!TypeOK /\ at = "lisp" /\ Blocks!Taken(v) + Blocks!Rounded(n) <= CODESIZE
      /\ at' = "compact" /\ var' = v /\ length' = n /\ origin' = 0
      /\ spoilt' = (IF spoilt \subseteq {v} THEN spoilt ELSE Name)
      /\ MyCode' = MyCode /\ code' = code /\ GlobalEnv' = GlobalEnv
  BY DEF Blocks!IInv, Blocks!sp_defcode
<1>2. CODESIZE \in Nat /\ n \in Nat /\ Typed(GlobalEnv, code, MyCode) /\ spoilt' \subseteq Name
  BY <1>1, CodeTyped, PartsAssumption DEF Blocks!CodeAssumption
<1>3. Blocks!TypeOK'
  BY <1>1, <1>2 DEF Blocks!TypeOK, Blocks!Code, Blocks!Word
<1>4. Blocks!Live' \subseteq Blocks!Live
  <2>1. spoilt \subseteq spoilt'
    BY <1>1, CodeTyped
  <2>2. QED
    BY <1>1, <2>1 DEF Blocks!Live
<1>5. Blocks!Apart' /\ Blocks!CodeIntact'
  BY <1>1, <1>4 DEF Blocks!IInv, Blocks!Apart, Blocks!CodeIntact, Blocks!Block, Blocks!Holds
<1>6. Blocks!SpoiltTogether' /\ Blocks!NoneAcross'
  <2>1. \A x \in Blocks!Live' : code'[GlobalEnv'[x]].start >= 0
                                /\ code'[GlobalEnv'[x]].start \in Nat
    BY <1>1, <1>4, CodeTyped
  <2>2. QED
    BY <1>1, <2>1 DEF Blocks!SpoiltTogether, Blocks!NoneAcross
<1>7. Blocks!CountedRoom'
  <2>1. /\ Blocks!Taken(v) = Cardinality(Halves(GlobalEnv, code, Name \ {v}))
        /\ Blocks!Taken(v) \in Nat
    BY TakenMeans
  <2>2. Blocks!Above' \in SUBSET (Name \ {v}) /\ Name \ {v} \in SUBSET Name
    BY <1>1 DEF Blocks!Above, Blocks!Kept
  <2>3. Cardinality(Halves(GlobalEnv, code, Blocks!Above')) \in Nat
        /\ Cardinality(Halves(GlobalEnv, code, Blocks!Above'))
             <= Cardinality(Halves(GlobalEnv, code, Name \ {v}))
    BY <2>2, HalvesFinite, HalvesFewer
  <2>4. Blocks!Rounded(length)' = Blocks!Rounded(n)
    BY <1>1 DEF Blocks!Rounded
  <2>5. Room(at, GlobalEnv, code, Blocks!Above, origin, var, Blocks!Rounded(length))'
    BY <1>1, <2>1, <2>3, <2>4 DEF Room
  <2>6. QED
    BY <2>5, RoomMeans, PTL
<1>8. QED
  BY <1>3, <1>5, <1>6, <1>7 DEF Blocks!IInv

LEMMA CompactedStep == Blocks!IInv /\ Blocks!Compacted => Blocks!IInv'
<1> SUFFICES ASSUME Blocks!IInv, Blocks!Compacted PROVE Blocks!IInv'
  OBVIOUS
<1>1. /\ Blocks!TypeOK /\ at = "compact" /\ Blocks!Above = {} /\ at' = "assemble"
      /\ MyCode' = MyCode /\ code' = code /\ GlobalEnv' = GlobalEnv /\ var' = var
      /\ length' = length /\ origin' = origin /\ spoilt' = spoilt
  BY DEF Blocks!IInv, Blocks!Compacted
<1>2. Blocks!TypeOK'
  BY <1>1 DEF Blocks!TypeOK, Blocks!Code, Blocks!Word
<1>3. Blocks!Live' = Blocks!Live /\ Blocks!Above' = {}
  BY <1>1 DEF Blocks!Live, Blocks!Above, Blocks!Kept
<1>4. Blocks!Apart' /\ Blocks!CodeIntact' /\ Blocks!SpoiltTogether' /\ Blocks!NoneAcross'
  BY <1>1, <1>3 DEF Blocks!IInv, Blocks!Apart, Blocks!CodeIntact, Blocks!Block, Blocks!Holds,
                    Blocks!SpoiltTogether, Blocks!NoneAcross
<1>5. Blocks!CountedRoom'
  <2> DEFINE b == Cardinality(Halves(GlobalEnv, code, Blocks!Above))
             t == Cardinality(Halves(GlobalEnv, code, Name \ {var}))
  <2>1. b \in Nat /\ t \in Nat /\ origin \in Nat
    <3>1. Blocks!Above \in SUBSET Name
      BY <1>1
    <3>2. QED
      BY <1>1, <3>1, HalvesFinite, CodeTyped
  <2>2. origin + b <= t /\ t + Blocks!Rounded(length) <= CODESIZE
    BY <1>1, RoomMeans DEF Blocks!IInv, Room
  <2> HIDE DEF b, t
  <2>3. origin <= t
    BY <2>1, <2>2
  <2>4. Blocks!Rounded(length)' = Blocks!Rounded(length)
    BY <1>1 DEF Blocks!Rounded
  <2>5. Room(at, GlobalEnv, code, Blocks!Above, origin, var, Blocks!Rounded(length))'
    BY <1>1, <1>3, <2>2, <2>3, <2>4 DEF Room, t
  <2>6. QED
    BY <2>5, RoomMeans, PTL
<1>6. QED
  BY <1>2, <1>4, <1>5 DEF Blocks!IInv

\* What is written from origin on lies over none of the functions that are kept.
LEMMA FreeAbove ==
  ASSUME Blocks!IInv, at = "assemble"
  PROVE  \A n \in Blocks!Live : \A i \in 0 .. CODESIZE - 1 :
           code[GlobalEnv[n]].start <= i /\ i < code[GlobalEnv[n]].end => i < origin
<1> SUFFICES ASSUME NEW n \in Blocks!Live, NEW i \in 0 .. CODESIZE - 1,
                    code[GlobalEnv[n]].start <= i, i < code[GlobalEnv[n]].end
             PROVE  i < origin
  OBVIOUS
<1>1. Blocks!TypeOK /\ Blocks!Above = {}
  BY DEF Blocks!IInv, Blocks!CountedRoom
<1>2. /\ n \in Name /\ n # var /\ GlobalEnv[n] # NoCode /\ GlobalEnv[n] \in Blocks!Code
      /\ code[GlobalEnv[n]].start \in Nat /\ code[GlobalEnv[n]].end \in Nat
      /\ origin \in Nat /\ CODESIZE \in Nat
  BY <1>1, CodeTyped DEF Blocks!Live
<1>3. code[GlobalEnv[n]].start < origin
  BY <1>1, <1>2 DEF Blocks!Above, Blocks!Kept
<1>4. code[GlobalEnv[n]].end <= origin
  BY <1>3 DEF Blocks!IInv, Blocks!NoneAcross
<1>5. QED
  BY <1>2, <1>4

LEMMA PutcodeShape ==
  ASSUME Blocks!TypeOK, NEW k \in Nat
  PROVE  /\ Blocks!putcode(k) \in [0 .. CODESIZE - 1 -> Blocks!Word]
         /\ \A i \in 0 .. CODESIZE - 1 :
              Blocks!putcode(k)[i] = IF i >= origin /\ i < origin + k
                                     THEN <<Blocks!Fresh, i - origin>> ELSE MyCode[i]
<1>1. DOMAIN MyCode = 0 .. CODESIZE - 1 /\ MyCode \in [0 .. CODESIZE - 1 -> Blocks!Word]
  BY DEF Blocks!TypeOK
<1>2. ASSUME NEW i \in 0 .. CODESIZE - 1, i >= origin
      PROVE  <<Blocks!Fresh, i - origin>> \in Blocks!Word
  <2>1. i - origin \in Nat
    BY <1>2, CodeTyped
  <2>2. QED
    BY <2>1, FreshFree DEF Blocks!Word
<1>3. QED
  BY <1>1, <1>2 DEF Blocks!putcode

LEMMA FailsStep ==
  ASSUME Blocks!IInv, NEW k \in 0 .. length - 1, Blocks!SecondPassFails(k)
  PROVE  Blocks!IInv'
<1>1. /\ Blocks!TypeOK /\ at = "assemble" /\ at' = "lisp" /\ length' = 0 /\ origin' = 0
      /\ var' = var
      /\ spoilt' = spoilt \union IF GlobalEnv[var] \in {GlobalEnv[n] : n \in Blocks!Kept} \union {NoCode}
                                 THEN {} ELSE {var}
      /\ Blocks!Dispose(GlobalEnv, code, Blocks!putcode(k))
  BY DEF Blocks!IInv, Blocks!SecondPassFails, Blocks!Done
<1>2. /\ k \in Nat /\ Typed(GlobalEnv, code, MyCode) /\ CODESIZE \in Nat /\ origin \in Nat
      /\ var \in Name /\ spoilt \subseteq Name /\ Blocks!Live \in SUBSET Name
      /\ \A n \in Blocks!Live : GlobalEnv[n] \in Blocks!Code
  BY <1>1, CodeTyped
<1>3. Typed(GlobalEnv, code, Blocks!putcode(k))
  BY <1>1, <1>2, PutcodeShape DEF Typed
<1>4. Laid(GlobalEnv, code, Blocks!putcode(k), Blocks!Live)
  <2>1. Laid(GlobalEnv, code, MyCode, Blocks!Live)
    BY <1>1, LaidMeans DEF Blocks!IInv
  <2>2. \A n \in Blocks!Live : \A i \in 0 .. CODESIZE - 1 :
          code[GlobalEnv[n]].start <= i /\ i < code[GlobalEnv[n]].end
            => Blocks!putcode(k)[i] = MyCode[i]
    <3>1. \A i \in 0 .. CODESIZE - 1 :
            Blocks!putcode(k)[i] = IF i >= origin /\ i < origin + k
                                   THEN <<Blocks!Fresh, i - origin>> ELSE MyCode[i]
      BY <1>1, <1>2, PutcodeShape
    <3>2. \A n \in Blocks!Live : \A i \in 0 .. CODESIZE - 1 :
            code[GlobalEnv[n]].start <= i /\ i < code[GlobalEnv[n]].end => i < origin
      BY <1>1, FreeAbove
    <3> SUFFICES ASSUME NEW n \in Blocks!Live, NEW i \in 0 .. CODESIZE - 1,
                        code[GlobalEnv[n]].start <= i, i < code[GlobalEnv[n]].end
                 PROVE  Blocks!putcode(k)[i] = MyCode[i]
      OBVIOUS
    <3>3. i < origin
      BY <3>2
    <3>4. ~(i >= origin)
      BY <1>2, <3>3
    <3>5. QED
      BY <3>1, <3>4
  <2>3. QED
    BY <1>2, <2>1, <2>2, WrittenLaid
<1>5. GlobalEnv' = GlobalEnv
  BY <1>1 DEF Blocks!Dispose
<1>6. \A x \in Blocks!Live' : \E y \in Blocks!Live : GlobalEnv[x] = GlobalEnv[y]
  <2> SUFFICES ASSUME NEW x \in Blocks!Live'
               PROVE  \E y \in Blocks!Live : GlobalEnv[x] = GlobalEnv[y]
    OBVIOUS
  <2>1. x \in Name /\ x \notin spoilt /\ x \notin spoilt' /\ GlobalEnv[x] # NoCode
    BY <1>1, <1>5 DEF Blocks!Live
  <2>2. CASE x # var
    BY <2>1, <2>2 DEF Blocks!Live
  <2>3. CASE x = var
    <3>1. PICK y \in Blocks!Kept : GlobalEnv[y] = GlobalEnv[var]
      BY <1>1, <2>1, <2>3
    <3>2. spoilt \subseteq {var}
      BY <1>1, <2>1 DEF Blocks!IInv, Blocks!SpoiltTogether
    <3>3. y \in Blocks!Live
      BY <3>1, <3>2 DEF Blocks!Live, Blocks!Kept
    <3>4. QED
      BY <2>3, <3>1, <3>3
  <2>4. QED
    BY <2>2, <2>3
<1>7. Laid(GlobalEnv, code, Blocks!putcode(k), Blocks!Live')
  BY <1>4, <1>6, LaidImage
<1>8. /\ Blocks!Live' \in SUBSET Name
      /\ \A x \in Blocks!Live' : GlobalEnv[x] \in Blocks!Code
  BY <1>2, <1>6 DEF Blocks!Live
<1>9. Typed(GlobalEnv', code', MyCode') /\ Laid(GlobalEnv', code', MyCode', Blocks!Live')
  BY <1>1, <1>3, <1>7, <1>8, DisposeKeeps
<1>10. QED
  BY <1>1, <1>2, <1>9, LispStep

LEMMA AliasStep ==
  ASSUME Blocks!IInv, NEW m \in Name, NEW n \in Name, Blocks!Alias(m, n)
  PROVE  Blocks!IInv'
<1> DEFINE env == [GlobalEnv EXCEPT ![m] = GlobalEnv[n]]
<1>1. /\ Blocks!TypeOK /\ at = "lisp" /\ at' = at /\ length' = length /\ origin' = origin
      /\ var' = var
      /\ spoilt' = (IF n \in spoilt THEN spoilt \union {m} ELSE spoilt \ {m})
      /\ Blocks!Dispose(env, code, MyCode)
  BY DEF Blocks!IInv, Blocks!Alias, Blocks!def
<1>2. /\ Typed(GlobalEnv, code, MyCode) /\ origin \in 0 .. CODESIZE /\ length \in Nat
      /\ var \in Name /\ spoilt \subseteq Name /\ NoCode \notin Blocks!Code
      /\ \A x \in Blocks!Live : GlobalEnv[x] \in Blocks!Code
  BY <1>1, CodeTyped
<1>3. /\ Typed(env, code, MyCode) /\ env[m] = GlobalEnv[n]
      /\ \A x \in Name \ {m} : env[x] = GlobalEnv[x]
  BY <1>2 DEF Typed
<1> HIDE DEF env
<1>4. GlobalEnv' = env
  BY <1>1 DEF Blocks!Dispose
<1>5. Blocks!Live' \in SUBSET Name
      /\ \A x \in Blocks!Live' : \E y \in Blocks!Live : env[x] = GlobalEnv[y]
  <2> SUFFICES ASSUME NEW x \in Blocks!Live'
               PROVE  x \in Name /\ \E y \in Blocks!Live : env[x] = GlobalEnv[y]
    OBVIOUS
  <2>1. x \in Name /\ x \notin spoilt' /\ env[x] # NoCode
    BY <1>4 DEF Blocks!Live
  <2>2. CASE x = m
    <3>1. n \in Blocks!Live
      BY <1>1, <1>3, <2>1, <2>2 DEF Blocks!Live
    <3>2. QED
      BY <1>3, <2>1, <2>2, <3>1
  <2>3. CASE x # m
    <3>1. x \in Blocks!Live
      BY <1>1, <1>3, <2>1, <2>3 DEF Blocks!Live
    <3>2. QED
      BY <1>3, <2>1, <2>3, <3>1
  <2>4. QED
    BY <2>2, <2>3
<1>6. Laid(env, code, MyCode, Blocks!Live')
  <2>1. Laid(GlobalEnv, code, MyCode, Blocks!Live)
    BY <1>1, LaidMeans DEF Blocks!IInv
  <2>2. QED
    BY <1>5, <2>1, LaidImage
<1>7. \A x \in Blocks!Live' : env[x] \in Blocks!Code
  BY <1>2, <1>5
<1>8. Typed(GlobalEnv', code', MyCode') /\ Laid(GlobalEnv', code', MyCode', Blocks!Live')
  BY <1>1, <1>3, <1>5, <1>6, <1>7, DisposeKeeps
<1>9. spoilt' \subseteq Name
  BY <1>1, <1>2
<1>10. QED
  BY <1>1, <1>2, <1>8, <1>9, LispStep

LEMMA ForgetStep ==
  ASSUME Blocks!IInv, NEW m \in Name, Blocks!Forget(m)
  PROVE  Blocks!IInv'
<1> DEFINE env == [GlobalEnv EXCEPT ![m] = NoCode]
<1>1. /\ Blocks!TypeOK /\ at = "lisp" /\ at' = at /\ length' = length /\ origin' = origin
      /\ var' = var /\ spoilt' = spoilt \ {m} /\ Blocks!Dispose(env, code, MyCode)
  BY DEF Blocks!IInv, Blocks!Forget, Blocks!def
<1>2. /\ Typed(GlobalEnv, code, MyCode) /\ origin \in 0 .. CODESIZE /\ length \in Nat
      /\ var \in Name /\ spoilt \subseteq Name
      /\ \A x \in Blocks!Live : GlobalEnv[x] \in Blocks!Code
  BY <1>1, CodeTyped
<1>3. /\ Typed(env, code, MyCode) /\ env[m] = NoCode
      /\ \A x \in Name \ {m} : env[x] = GlobalEnv[x]
  BY <1>2 DEF Typed
<1> HIDE DEF env
<1>4. GlobalEnv' = env
  BY <1>1 DEF Blocks!Dispose
<1>5. Blocks!Live' \in SUBSET Name
      /\ \A x \in Blocks!Live' : x \in Blocks!Live /\ env[x] = GlobalEnv[x]
  BY <1>1, <1>3, <1>4 DEF Blocks!Live
<1>6. Laid(env, code, MyCode, Blocks!Live')
  <2>1. Laid(GlobalEnv, code, MyCode, Blocks!Live)
    BY <1>1, LaidMeans DEF Blocks!IInv
  <2>2. \A x \in Blocks!Live' : \E y \in Blocks!Live : env[x] = GlobalEnv[y]
    BY <1>5
  <2>3. QED
    BY <2>1, <2>2, LaidImage
<1>7. Typed(GlobalEnv', code', MyCode') /\ Laid(GlobalEnv', code', MyCode', Blocks!Live')
  BY <1>1, <1>2, <1>3, <1>5, <1>6, DisposeKeeps
<1>8. QED
  BY <1>1, <1>2, <1>7, LispStep

\* The new function is laid above all that are kept.
LEMMA DefinedStep == Blocks!IInv /\ Blocks!Defined => Blocks!IInv'
<1> SUFFICES ASSUME Blocks!IInv, Blocks!Defined PROVE Blocks!IInv'
  OBVIOUS
<1> DEFINE fresh == Blocks!Fresh  r == Blocks!Rounded(length)
           new == [start |-> origin, end |-> origin + r, length |-> length]
           env == [GlobalEnv EXCEPT ![var] = fresh]
           objects == [code EXCEPT ![fresh] = new]
           written == Blocks!putcode(length)
           names == Blocks!Live \union {var}
<1>1. /\ Blocks!TypeOK /\ at = "assemble" /\ at' = "lisp" /\ length' = 0 /\ origin' = 0
      /\ var' = var /\ spoilt' = spoilt \ {var} /\ Blocks!Dispose(env, objects, written)
  BY DEF Blocks!IInv, Blocks!Defined, Blocks!Done
<1>2. /\ Typed(GlobalEnv, code, MyCode) /\ CODESIZE \in Nat /\ origin \in Nat /\ length \in Nat
      /\ var \in Name /\ spoilt \subseteq Name /\ Blocks!Live \in SUBSET Name
      /\ \A n \in Blocks!Live : GlobalEnv[n] \in Blocks!Code
  BY <1>1, CodeTyped
<1>3. fresh \in Blocks!Code /\ \A n \in Name : GlobalEnv[n] # fresh
  BY <1>1, FreshFree
<1>4. r \in Nat /\ length <= r
  BY <1>2 DEF Blocks!Rounded
<1>5. origin + r <= CODESIZE
  <2> DEFINE t == Cardinality(Halves(GlobalEnv, code, Name \ {var}))
  <2>1. t \in Nat
    BY HalvesFinite
  <2>2. origin <= t /\ t + r <= CODESIZE
    BY <1>1, RoomMeans DEF Blocks!IInv, Room
  <2> HIDE DEF t, r
  <2>3. QED
    BY <1>2, <1>4, <2>1, <2>2
<1> HIDE DEF fresh, r
<1>6. new \in CodeObject
  BY <1>2, <1>4, <1>5 DEF CodeObject
<1>7. /\ written \in [0 .. CODESIZE - 1 -> Blocks!Word]
      /\ \A i \in 0 .. CODESIZE - 1 :
           written[i] = IF i >= origin /\ i < origin + length
                        THEN <<fresh, i - origin>> ELSE MyCode[i]
  BY <1>1, <1>2, PutcodeShape DEF fresh
<1>8. /\ objects[fresh] = new /\ \A c \in Blocks!Code \ {fresh} : objects[c] = code[c]
      /\ objects \in [Blocks!Code -> CodeObject]
  BY <1>2, <1>3, <1>6 DEF Typed
<1>9. /\ env \in [Name -> Blocks!Code \union {NoCode}]
      /\ env[var] = fresh /\ \A n \in Name \ {var} : env[n] = GlobalEnv[n]
  BY <1>2, <1>3 DEF Typed
<1>10. /\ new.start = origin /\ new.end = origin + r /\ new.length = length
  OBVIOUS
<1> HIDE DEF new, env, objects, written
<1>11. Typed(env, objects, written)
  <2>1. ASSUME NEW c \in Blocks!Code
        PROVE  objects[c].start + objects[c].length <= objects[c].end
    <3>1. CASE c = fresh
      BY <1>2, <1>4, <1>8, <1>10, <3>1
    <3>2. CASE c # fresh
      BY <1>2, <1>8, <3>2 DEF Typed
    <3>3. QED
      BY <3>1, <3>2
  <2>2. QED
    BY <1>7, <1>8, <1>9, <2>1 DEF Typed
<1>12. \A n \in Blocks!Live : /\ n # var /\ env[n] = GlobalEnv[n] /\ env[n] # fresh
                              /\ objects[env[n]] = code[GlobalEnv[n]]
  BY <1>1, <1>2, <1>3, <1>8, <1>9 DEF Blocks!Live
<1>13. \A n \in Blocks!Live : \A i \in 0 .. CODESIZE - 1 :
         objects[env[n]].start <= i /\ i < objects[env[n]].end => i < origin
  BY <1>1, <1>12, FreeAbove
<1>14. Laid(env, objects, written, Blocks!Live)
  <2>1. Laid(GlobalEnv, code, MyCode, Blocks!Live)
    BY <1>1, LaidMeans DEF Blocks!IInv
  <2>2. Laid(env, objects, MyCode, Blocks!Live)
    BY <1>12, <2>1 DEF Laid
  <2>3. Typed(env, objects, MyCode)
    BY <1>2, <1>11 DEF Typed
  <2>4. \A n \in Blocks!Live : \A i \in 0 .. CODESIZE - 1 :
          objects[env[n]].start <= i /\ i < objects[env[n]].end => written[i] = MyCode[i]
    BY <1>2, <1>7, <1>13
  <2>5. \A n \in Blocks!Live : env[n] \in Blocks!Code
    BY <1>2, <1>12
  <2>6. QED
    BY <1>2, <2>2, <2>3, <2>4, <2>5, WrittenLaid
<1>15. Laid(env, objects, written, names)
  <2>1. ASSUME NEW k \in 0 .. length - 1 PROVE written[origin + k] = <<fresh, k>>
    <3> DEFINE i == origin + k
    <3>1. /\ k \in Nat /\ i \in 0 .. CODESIZE - 1 /\ i - origin = k
          /\ i >= origin /\ i < origin + length
      BY <1>2, <1>4, <1>5
    <3> HIDE DEF i
    <3>2. written[i] = <<fresh, k>>
      BY <1>7, <3>1
    <3>3. QED
      BY <3>2 DEF i
  <2>2. ASSUME NEW n \in names, NEW k \in 0 .. objects[env[n]].length - 1
        PROVE  written[objects[env[n]].start + k] = <<env[n], k>>
    <3>1. CASE n = var
      BY <1>8, <1>9, <1>10, <2>1, <3>1
    <3>2. CASE n \in Blocks!Live
      BY <1>14, <3>2 DEF Laid
    <3>3. QED
      BY <3>1, <3>2
  <2>3. ASSUME NEW n \in Blocks!Live, NEW i \in Nat,
               objects[env[n]].start <= i, i < objects[env[n]].end, origin <= i
        PROVE  FALSE
    <3>1. objects[env[n]].end <= CODESIZE /\ objects[env[n]].end \in Nat
      BY <1>2, <1>8, <1>12 DEF CodeObject
    <3>2. i \in 0 .. CODESIZE - 1
      BY <1>2, <2>3, <3>1
    <3>3. QED
      BY <1>2, <1>13, <2>3, <3>2
  <2>4. ASSUME NEW m \in names, NEW n \in names, env[m] # env[n], NEW i \in Nat,
               objects[env[m]].start <= i, i < objects[env[m]].end,
               objects[env[n]].start <= i, i < objects[env[n]].end
        PROVE  FALSE
    <3>1. CASE m = var /\ n \in Blocks!Live
      BY <1>8, <1>9, <1>10, <2>3, <2>4, <3>1
    <3>2. CASE n = var /\ m \in Blocks!Live
      BY <1>8, <1>9, <1>10, <2>3, <2>4, <3>2
    <3>3. CASE m \in Blocks!Live /\ n \in Blocks!Live
      BY <1>14, <2>4, <3>3 DEF Laid
    <3>4. QED
      BY <2>4, <3>1, <3>2, <3>3
  <2>5. QED
    BY <2>2, <2>4 DEF Laid
<1>16. GlobalEnv' = env
  BY <1>1 DEF Blocks!Dispose
<1>17. Blocks!Live' \in SUBSET Name /\ Blocks!Live' \subseteq names
  BY <1>1, <1>2, <1>9, <1>16 DEF Blocks!Live
<1> HIDE DEF names
<1>18. Laid(env, objects, written, Blocks!Live')
  <2>1. \A x \in Blocks!Live' : \E y \in names : env[x] = env[y]
    BY <1>17
  <2>2. QED
    BY <1>15, <2>1, LaidImage
<1>19. \A x \in Blocks!Live' : env[x] \in Blocks!Code
  BY <1>2, <1>3, <1>9, <1>12, <1>17 DEF names
<1>20. Typed(GlobalEnv', code', MyCode') /\ Laid(GlobalEnv', code', MyCode', Blocks!Live')
  BY <1>1, <1>11, <1>17, <1>18, <1>19, DisposeKeeps
<1>21. QED
  BY <1>1, <1>2, <1>20, LispStep

LEMMA BlocksNext == Blocks!IInv /\ Blocks!Next => Blocks!IInv'
BY CompactStep, CompactedStep, DefinedStep, FailsStep, DefcodeStep, AliasStep, ForgetStep
   DEF Blocks!Next

LEMMA BlocksStutter == Blocks!IInv /\ UNCHANGED blocks => Blocks!IInv'
<1> SUFFICES ASSUME Blocks!IInv, UNCHANGED blocks PROVE Blocks!IInv'
  OBVIOUS
<1>1. /\ MyCode' = MyCode /\ code' = code /\ GlobalEnv' = GlobalEnv /\ at' = at /\ var' = var
      /\ length' = length /\ origin' = origin /\ spoilt' = spoilt
  BY DEF blocks
<1>2. Blocks!TypeOK'
  BY <1>1 DEF Blocks!IInv, Blocks!TypeOK, Blocks!Code, Blocks!Word
<1>3. Blocks!Live' = Blocks!Live /\ Blocks!Above' = Blocks!Above
  BY <1>1 DEF Blocks!Live, Blocks!Above, Blocks!Kept
<1>4. Blocks!Apart' /\ Blocks!CodeIntact' /\ Blocks!SpoiltTogether' /\ Blocks!NoneAcross'
  BY <1>1, <1>3 DEF Blocks!IInv, Blocks!Apart, Blocks!CodeIntact, Blocks!Block, Blocks!Holds,
                    Blocks!SpoiltTogether, Blocks!NoneAcross
<1>5. Blocks!CountedRoom'
  <2>1. Room(at, GlobalEnv, code, Blocks!Above, origin, var, Blocks!Rounded(length))
    BY RoomMeans DEF Blocks!IInv
  <2>2. Room(at, GlobalEnv, code, Blocks!Above, origin, var, Blocks!Rounded(length))'
    BY <1>1, <1>3, <2>1 DEF Blocks!Rounded
  <2>3. QED
    BY <2>2, RoomMeans, PTL
<1>6. QED
  BY <1>2, <1>4, <1>5 DEF Blocks!IInv

\* The room for the second pass is what the first counted.
LEMMA BlocksImplied == Blocks!IInv => CodeIntact
<1> SUFFICES ASSUME Blocks!IInv PROVE CodeIntact
  OBVIOUS
<1>1. Blocks!TypeOK /\ Blocks!CodeIntact
  BY DEF Blocks!IInv
<1>2. ASSUME at = "assemble" PROVE origin + Blocks!Rounded(length) <= CODESIZE
  <2> DEFINE t == Cardinality(Halves(GlobalEnv, code, Name \ {var}))
             r == Blocks!Rounded(length)
  <2>1. t \in Nat /\ origin \in Nat /\ CODESIZE \in Nat
    BY <1>1, HalvesFinite, CodeTyped
  <2>2. r \in Nat
    BY <1>1, CodeTyped DEF Blocks!Rounded
  <2>3. origin <= t /\ t + r <= CODESIZE
    BY <1>2, RoomMeans DEF Blocks!IInv, Room
  <2> HIDE DEF t, r
  <2>4. origin + r <= CODESIZE
    BY <2>1, <2>2, <2>3
  <2>5. QED
    BY <2>4 DEF r
<1>3. QED
  BY <1>1, <1>2 DEF CodeIntact, Blocks!RoomLeft

\* A call of a machine-code function runs the code made for it, whatever was defined,
\* redefined, copied and dropped since, where no redefinition failed; and the second pass
\* of defcode has the room that the first counted (sp_defcode,
\* ulisp_builtins_control.cpp), for any number of functions and any size of the code.
THEOREM CodeStaysIntact == PartSpec => []CodeIntact
<1>1. PartInit => Blocks!IInv
  BY BlocksInit DEF PartInit
<1>2. Blocks!IInv /\ [PartNext]_partvars => Blocks!IInv'
  <2> SUFFICES ASSUME Blocks!IInv, [PartNext]_partvars PROVE Blocks!IInv'
    OBVIOUS
  <2>1. Blocks!Next \/ UNCHANGED blocks
    BY DEF PartNext, partvars
  <2>2. QED
    BY <2>1, BlocksNext, BlocksStutter
<1>3. Blocks!IInv => CodeIntact
  BY BlocksImplied
<1>4. QED
  BY <1>1, <1>2, <1>3, PTL DEF PartSpec

-----------------------------------------------------------------------------
(* The tables of trace and backtrace.                                      *)

CallFrame == [name : Function \union {NoName}, trace : 0 .. TRACEMAX, told : BOOLEAN]

LEMMA TraceSizes ==
  /\ TRACEMAX \in Nat /\ BACKTRACESIZE \in Nat /\ BACKTRACESIZE >= 1
  /\ Modulus \in Nat /\ Modulus >= 1 /\ MaxDepth \in Nat /\ MaxDepth < Modulus
  /\ NoName \notin Function /\ Closures \subseteq Function
BY PartsAssumption DEF Traces!TraceAssumption

\* The greatest of some numbers, and the least, are among them.
LEMMA LeastOf ==
  ASSUME NEW T \in SUBSET Nat, T # {}
  PROVE  \E i \in T : \A j \in T : i <= j
<1> DEFINE Less == OpToRel(<, Nat)
<1>1. IsWellFoundedOn(Less, Nat)
  BY NatLessThanWellFounded
<1>2. \A x, y \in Nat : <<x, y>> \in Less <=> x < y
  BY DEF OpToRel
<1> HIDE DEF Less
<1>3. \E i \in T : \A j \in T : ~(<<j, i>> \in Less)
  BY <1>1, WFMin
<1>4. \A x, y \in Nat : ~(<<x, y>> \in Less) => y <= x
  BY <1>2
<1>5. QED
  BY <1>3, <1>4

LEMMA GreatestOf ==
  ASSUME NEW n \in Nat, NEW S \in SUBSET (1 .. n), S # {}
  PROVE  /\ Traces!Max(S) \in S /\ \A y \in S : y <= Traces!Max(S)
         /\ Traces!Min(S) \in S
<1> DEFINE T == {n - x : x \in S}
<1>1. T \in SUBSET Nat /\ T # {} /\ S \in SUBSET Nat
  <2>1. \A x \in S : x \in Nat /\ n - x \in Nat
    OBVIOUS
  <2>2. QED
    BY <2>1, Zenon
<1>2. PICK i \in T : \A j \in T : i <= j
  BY <1>1, LeastOf
<1>3. PICK x \in S : i = n - x
  OBVIOUS
<1>4. \A y \in S : x >= y
  <2> SUFFICES ASSUME NEW y \in S PROVE x >= y
    OBVIOUS
  <2>1. n - y \in T /\ y \in Nat /\ x \in Nat
    BY <1>1
  <2>2. n - x <= n - y
    BY <1>2, <1>3, <2>1
  <2>3. QED
    BY <2>1, <2>2
<1>5. PICK l \in S : \A y \in S : l <= y
  BY <1>1, LeastOf
<1>6. Traces!Max(S) \in S /\ \A y \in S : Traces!Max(S) >= y
  BY <1>4 DEF Traces!Max
<1>7. Traces!Min(S) \in S
  BY <1>5 DEF Traces!Min
<1>8. QED
  BY <1>1, <1>6, <1>7

\* A place in the ring that is one turn off is put right.
LEMMA RingPlace ==
  ASSUME NEW n \in Int, 0 - BACKTRACESIZE <= n, n < 2 * BACKTRACESIZE
  PROVE  Traces!modbacktrace(n) =
           IF n < 0 THEN n + BACKTRACESIZE ELSE IF n < BACKTRACESIZE THEN n ELSE n - BACKTRACESIZE
<1>1. BACKTRACESIZE \in Nat /\ BACKTRACESIZE >= 1
  BY TraceSizes
<1>2. (n + BACKTRACESIZE) % BACKTRACESIZE =
        IF n < 0 THEN n + BACKTRACESIZE ELSE IF n < BACKTRACESIZE THEN n ELSE n - BACKTRACESIZE
  BY <1>1, Z3
<1>3. QED
  BY <1>2 DEF Traces!modbacktrace

\* A count that is left is one less, unless it was nothing.
LEMMA LevelLess ==
  ASSUME NEW d \in 0 .. Modulus - 1
  PROVE  (d - 1) % Modulus = IF d = 0 THEN Modulus - 1 ELSE d - 1
<1>1. Modulus \in Nat /\ Modulus >= 1
  BY TraceSizes
<1>2. QED
  BY <1>1, Z3

\* How many there are of some numbers from 1 to n.
LEMMA Tallied ==
  ASSUME NEW n \in Nat, NEW S \in SUBSET (1 .. n)
  PROVE  /\ Cardinality(S) \in Nat
         /\ Cardinality(S \union {n + 1}) = Cardinality(S) + 1
         /\ \A R \in SUBSET S : Cardinality(R) \in Nat /\ Cardinality(R) <= Cardinality(S)
         /\ \A k \in S : Cardinality(S \ {k}) = Cardinality(S) - 1
<1>1. IsFiniteSet(1 .. n)
  BY FS_Interval
<1>2. IsFiniteSet(S) /\ Cardinality(S) \in Nat
  BY <1>1, FS_Subset, FS_CardinalityType
<1>3. n + 1 \notin S
  OBVIOUS
<1>4. Cardinality(S \union {n + 1}) = Cardinality(S) + 1
  BY <1>2, <1>3, FS_AddElement
<1>5. \A R \in SUBSET S : Cardinality(R) \in Nat /\ Cardinality(R) <= Cardinality(S)
  BY <1>2, FS_Subset, FS_CardinalityType
<1>6. \A k \in S : Cardinality(S \ {k}) = Cardinality(S) - 1
  BY <1>2, FS_RemoveElement
<1>7. QED
  BY <1>2, <1>4, <1>5, <1>6

-----------------------------------------------------------------------------
(* The calls that wait, said with operators of values.                     *)

Counts(s, i) == Cardinality({k \in DOMAIN s : s[k].trace = i})
ToldOf(s)    == {k \in DOMAIN s : s[k].told}
RankOf(s, k) == Cardinality({j \in ToldOf(s) : j <= k})

\* The ring bt from start to top names the calls told but for the first m.
Named(s, bt, start, top, m) ==
  /\ m <= Cardinality(ToldOf(s))
  /\ Traces!modbacktrace(top - start) = Cardinality(ToldOf(s)) - m
  /\ \A k \in ToldOf(s) : RankOf(s, k) > m =>
       bt[Traces!modbacktrace(top - (Cardinality(ToldOf(s)) - RankOf(s, k) + 1))] = s[k].name

Ring == [0 .. BACKTRACESIZE - 1 -> Function \union {NoName}]

\* What there is to say of any waiting calls.
LEMMA WaitingShape ==
  ASSUME NEW s \in Seq(CallFrame)
  PROVE  /\ Len(s) \in Nat /\ DOMAIN s = 1 .. Len(s) /\ \A k \in 1 .. Len(s) : s[k] \in CallFrame
         /\ ToldOf(s) \in SUBSET (1 .. Len(s)) /\ Cardinality(ToldOf(s)) \in Nat
         /\ \A k \in ToldOf(s) : RankOf(s, k) \in 1 .. Cardinality(ToldOf(s))
         /\ \A i : Counts(s, i) \in Nat
<1>1. Len(s) \in Nat /\ DOMAIN s = 1 .. Len(s) /\ \A k \in 1 .. Len(s) : s[k] \in CallFrame
  BY LenProperties, ElementOfSeq
<1>2. ToldOf(s) \in SUBSET (1 .. Len(s))
  BY <1>1 DEF ToldOf
<1>3. Cardinality(ToldOf(s)) \in Nat
  BY <1>1, <1>2, Tallied
<1>4. ASSUME NEW k \in ToldOf(s) PROVE RankOf(s, k) \in 1 .. Cardinality(ToldOf(s))
  <2> DEFINE R == {j \in ToldOf(s) : j <= k}
  <2>1. R \in SUBSET ToldOf(s) /\ R \in SUBSET (1 .. Len(s)) /\ k \in R
    BY <1>1, <1>2
  <2>2. Cardinality(R) \in Nat /\ Cardinality(R) <= Cardinality(ToldOf(s))
    BY <1>1, <1>2, <2>1, Tallied
  <2>3. Cardinality(R \ {k}) \in Nat /\ Cardinality(R \ {k}) = Cardinality(R) - 1
    <3>1. R \ {k} \in SUBSET R
      OBVIOUS
    <3>2. QED
      BY <1>1, <2>1, <3>1, Tallied
  <2>4. QED
    BY <1>3, <2>2, <2>3 DEF RankOf
<1>5. ASSUME NEW i PROVE Counts(s, i) \in Nat
  <2>1. {k \in DOMAIN s : s[k].trace = i} \in SUBSET (1 .. Len(s))
    BY <1>1
  <2>2. QED
    BY <1>1, <2>1, Tallied DEF Counts
<1>6. QED
  BY <1>1, <1>2, <1>3, <1>4, <1>5

\* One call more.
LEMMA Entering ==
  ASSUME NEW s \in Seq(CallFrame), NEW f \in CallFrame
  PROVE  LET s2 == Append(s, f) IN
         /\ s2 \in Seq(CallFrame) /\ DOMAIN s2 = 1 .. Len(s) + 1
         /\ \A k \in 1 .. Len(s) : s2[k] = s[k]
         /\ s2[Len(s) + 1] = f
         /\ ToldOf(s2) = IF f.told THEN ToldOf(s) \union {Len(s) + 1} ELSE ToldOf(s)
         /\ Cardinality(ToldOf(s2)) = Cardinality(ToldOf(s)) + (IF f.told THEN 1 ELSE 0)
         /\ \A k \in ToldOf(s) : RankOf(s2, k) = RankOf(s, k)
         /\ f.told => RankOf(s2, Len(s) + 1) = Cardinality(ToldOf(s)) + 1
         /\ \A i : Counts(s2, i) = Counts(s, i) + (IF f.trace = i THEN 1 ELSE 0)
<1> DEFINE s2 == Append(s, f)
<1>1. /\ s2 \in Seq(CallFrame) /\ DOMAIN s2 = 1 .. Len(s) + 1
      /\ \A k \in 1 .. Len(s) : s2[k] = s[k]
      /\ s2[Len(s) + 1] = f
  <2>1. /\ s2 \in Seq(CallFrame) /\ Len(s2) = Len(s) + 1
        /\ \A k \in 1 .. Len(s) : s2[k] = s[k]
        /\ s2[Len(s) + 1] = f
    BY AppendProperties
  <2> HIDE DEF s2
  <2>2. QED
    BY <2>1, LenProperties
<1> HIDE DEF s2
<1>2. /\ Len(s) \in Nat /\ DOMAIN s = 1 .. Len(s)
      /\ ToldOf(s) \in SUBSET (1 .. Len(s)) /\ Cardinality(ToldOf(s)) \in Nat
      /\ \A i : Counts(s, i) \in Nat
  BY WaitingShape
<1>3. f.told \in BOOLEAN
  BY DEF CallFrame
<1>4. ToldOf(s2) = IF f.told THEN ToldOf(s) \union {Len(s) + 1} ELSE ToldOf(s)
  BY <1>1, <1>2 DEF ToldOf
<1>5. Cardinality(ToldOf(s) \union {Len(s) + 1}) = Cardinality(ToldOf(s)) + 1
  BY <1>2, Tallied
<1>6. Cardinality(ToldOf(s2)) = Cardinality(ToldOf(s)) + (IF f.told THEN 1 ELSE 0)
  BY <1>2, <1>4, <1>5
<1>7. ASSUME NEW k \in ToldOf(s) PROVE RankOf(s2, k) = RankOf(s, k)
  <2>1. {j \in ToldOf(s2) : j <= k} = {j \in ToldOf(s) : j <= k}
    BY <1>2, <1>4
  <2>2. QED
    BY <2>1 DEF RankOf
<1>8. ASSUME f.told PROVE RankOf(s2, Len(s) + 1) = Cardinality(ToldOf(s)) + 1
  <2>1. {j \in ToldOf(s2) : j <= Len(s) + 1} = ToldOf(s) \union {Len(s) + 1}
    BY <1>2, <1>4, <1>8
  <2>2. QED
    BY <1>5, <2>1 DEF RankOf
<1>9. ASSUME NEW i PROVE Counts(s2, i) = Counts(s, i) + (IF f.trace = i THEN 1 ELSE 0)
  <2> DEFINE A == {k \in DOMAIN s : s[k].trace = i}
             B == {k \in DOMAIN s2 : s2[k].trace = i}
  <2>1. B = IF f.trace = i THEN A \union {Len(s) + 1} ELSE A
    BY <1>1, <1>2
  <2>2. A \in SUBSET (1 .. Len(s))
    BY <1>2
  <2>3. Cardinality(A \union {Len(s) + 1}) = Cardinality(A) + 1 /\ Cardinality(A) \in Nat
    BY <1>2, <2>2, Tallied
  <2>4. Counts(s, i) = Cardinality(A) /\ Counts(s2, i) = Cardinality(B)
    BY DEF Counts
  <2> HIDE DEF A, B
  <2>5. CASE f.trace = i
    BY <2>1, <2>3, <2>4, <2>5
  <2>6. CASE f.trace # i
    BY <2>1, <2>3, <2>4, <2>6
  <2>7. QED
    BY <2>5, <2>6
<1>10. QED
  BY <1>1, <1>4, <1>6, <1>7, <1>8, <1>9 DEF s2

LEMMA ButTheLast ==
  ASSUME NEW l \in Nat, NEW n \in Nat, l = n + 1
  PROVE  \A k \in 1 .. l : (k <= n => k # l) /\ (k # l => k <= n)
OBVIOUS

\* The first n calls only.
LEMMA Leaving ==
  ASSUME NEW s \in Seq(CallFrame), NEW n \in 0 .. Len(s)
  PROVE  LET s2 == SubSeq(s, 1, n) IN
         /\ s2 \in Seq(CallFrame) /\ DOMAIN s2 = 1 .. n
         /\ \A k \in 1 .. n : s2[k] = s[k]
         /\ ToldOf(s2) = {k \in ToldOf(s) : k <= n}
         /\ \A k \in ToldOf(s2) : RankOf(s2, k) = RankOf(s, k)
         /\ \A i : Counts(s2, i) <= Counts(s, i)
         /\ Len(s) = n + 1 =>
              /\ ToldOf(s2) = ToldOf(s) \ {Len(s)}
              /\ Cardinality(ToldOf(s2)) = Cardinality(ToldOf(s)) - (IF s[Len(s)].told THEN 1 ELSE 0)
              /\ \A i : Counts(s2, i) = Counts(s, i) - (IF s[Len(s)].trace = i THEN 1 ELSE 0)
<1> DEFINE s2 == SubSeq(s, 1, n)
<1>0. Len(s) \in Nat /\ DOMAIN s = 1 .. Len(s) /\ n \in Nat /\ n <= Len(s)
  BY WaitingShape
<1>1. /\ Len(s) \in Nat /\ DOMAIN s = 1 .. Len(s) /\ n \in Nat /\ n <= Len(s)
      /\ ToldOf(s) \in SUBSET (1 .. Len(s)) /\ Cardinality(ToldOf(s)) \in Nat
      /\ \A k \in 1 .. Len(s) : s[k] \in CallFrame
      /\ \A i : Counts(s, i) \in Nat
  BY WaitingShape
<1>2. /\ s2 \in Seq(CallFrame) /\ DOMAIN s2 = 1 .. n
      /\ \A k \in 1 .. n : s2[k] = s[k]
  <2>1. /\ s2 \in Seq(CallFrame) /\ Len(s2) = n
        /\ \A k \in 1 .. n : s2[k] = s[k]
    BY <1>1, SubSeqProperties
  <2> HIDE DEF s2
  <2>2. QED
    BY <2>1, LenProperties
<1> HIDE DEF s2
<1>3. ToldOf(s2) = {k \in ToldOf(s) : k <= n}
  BY <1>1, <1>2 DEF ToldOf
<1>4. ASSUME NEW k \in ToldOf(s2) PROVE RankOf(s2, k) = RankOf(s, k)
  <2>1. {j \in ToldOf(s2) : j <= k} = {j \in ToldOf(s) : j <= k}
    BY <1>1, <1>3
  <2>2. QED
    BY <2>1 DEF RankOf
<1>5. ASSUME NEW i
      PROVE  /\ Counts(s2, i) <= Counts(s, i)
             /\ Len(s) = n + 1 =>
                  Counts(s2, i) = Counts(s, i) - (IF s[Len(s)].trace = i THEN 1 ELSE 0)
  <2> DEFINE A == {k \in DOMAIN s : s[k].trace = i}
             B == {k \in DOMAIN s2 : s2[k].trace = i}
  <2>1. /\ A \in SUBSET (1 .. Len(s)) /\ (Len(s) \in A => s[Len(s)].trace = i)
        /\ (Len(s) = n + 1 /\ s[Len(s)].trace = i => Len(s) \in A)
    <3>1. Len(s) = n + 1 => Len(s) \in 1 .. Len(s)
      BY <1>0
    <3>2. QED
      BY <1>0, <3>1, Zenon
  <2>9. B = {k \in A : k <= n}
    <3>1. \A k \in 1 .. n : k \in 1 .. Len(s) /\ k <= n
      BY <1>1
    <3>2. \A k \in 1 .. Len(s) : k <= n => k \in 1 .. n
      BY <1>1
    <3>3. \A k : k \in B <=> k \in A /\ k <= n
      BY <1>1, <1>2, <3>1, <3>2, Zenon
    <3>4. QED
      BY <3>3
  <2>2. Counts(s, i) = Cardinality(A) /\ Counts(s2, i) = Cardinality(B)
    BY DEF Counts
  <2> HIDE DEF A, B
  <2>3. B \in SUBSET A
    BY <2>9
  <2>4. Cardinality(B) <= Cardinality(A)
    BY <1>1, <2>1, <2>3, Tallied
  <2>5. ASSUME Len(s) = n + 1, s[Len(s)].trace = i PROVE Cardinality(B) = Cardinality(A) - 1
    <3>0. \A k \in 1 .. Len(s) : (k <= n => k # Len(s)) /\ (k # Len(s) => k <= n)
      BY <1>0, <2>5, ButTheLast
    <3>1. Len(s) \in A /\ B = A \ {Len(s)}
      BY <2>1, <2>5, <2>9, <3>0
    <3>2. QED
      BY <1>1, <2>1, <3>1, Tallied
  <2>6. ASSUME Len(s) = n + 1, s[Len(s)].trace # i PROVE B = A
    <3>1. \A k \in 1 .. Len(s) : (k <= n => k # Len(s)) /\ (k # Len(s) => k <= n)
      BY <1>0, <2>6, ButTheLast
    <3>2. QED
      BY <2>1, <2>6, <2>9, <3>1
  <2>7. Cardinality(A) \in Nat
    BY <1>1, <2>2
  <2>8. QED
    BY <2>2, <2>4, <2>5, <2>6, <2>7
<1>6. ASSUME Len(s) = n + 1
      PROVE  /\ ToldOf(s2) = ToldOf(s) \ {Len(s)}
             /\ Cardinality(ToldOf(s2)) = Cardinality(ToldOf(s)) - (IF s[Len(s)].told THEN 1 ELSE 0)
  <2>1. ToldOf(s2) = ToldOf(s) \ {Len(s)} /\ Len(s) \in 1 .. Len(s)
    BY <1>1, <1>3, <1>6
  <2>2. (Len(s) \in ToldOf(s) => s[Len(s)].told) /\ (s[Len(s)].told => Len(s) \in ToldOf(s))
    BY <1>1, <2>1 DEF ToldOf
  <2>3. ASSUME Len(s) \in ToldOf(s)
        PROVE  Cardinality(ToldOf(s) \ {Len(s)}) = Cardinality(ToldOf(s)) - 1
    BY <1>1, <2>3, Tallied
  <2>4. ASSUME Len(s) \notin ToldOf(s) PROVE ToldOf(s2) = ToldOf(s)
    BY <2>1, <2>4
  <2>8. s[Len(s)].told \in BOOLEAN
    BY <1>1, <2>1 DEF CallFrame
  <2>5. CASE s[Len(s)].told
    BY <2>1, <2>2, <2>3, <2>5
  <2>6. CASE ~s[Len(s)].told
    <3>1. Cardinality(ToldOf(s2)) = Cardinality(ToldOf(s))
      BY <2>2, <2>4, <2>6, Zenon
    <3>2. QED
      BY <1>1, <2>1, <2>6, <3>1
  <2>7. QED
    BY <2>5, <2>6
<1>7. QED
  BY <1>2, <1>3, <1>4, <1>5, <1>6 DEF s2

\* A call that is told takes the next place in the ring, that of the oldest if it is full.
LEMMA NamedEntering ==
  ASSUME NEW s \in Seq(CallFrame), NEW f \in CallFrame, f.told,
         NEW bt \in Ring, NEW start \in 0 .. BACKTRACESIZE - 1, NEW top \in 0 .. BACKTRACESIZE - 1,
         NEW m \in Nat, Named(s, bt, start, top, m),
         NEW top2, top2 = Traces!modbacktrace(top + 1),
         NEW start2, start2 = IF start = top2 THEN Traces!modbacktrace(start + 1) ELSE start,
         NEW m2 \in Nat, m2 >= m, m2 >= Cardinality(ToldOf(s)) + 2 - BACKTRACESIZE,
         m2 = m \/ m2 = Cardinality(ToldOf(s)) + 2 - BACKTRACESIZE
  PROVE  Named(Append(s, f), [bt EXCEPT ![top] = f.name], start2, top2, m2)
<1> DEFINE s2 == Append(s, f)
           B == BACKTRACESIZE
           t == Cardinality(ToldOf(s))
           bt2 == [bt EXCEPT ![top] = f.name]
<1>1. /\ B \in Nat /\ B >= 1 /\ start \in Nat /\ start < B /\ top \in Nat /\ top < B
      /\ m \in Nat /\ m2 \in Nat
  BY TraceSizes
<1>2. /\ t \in Nat /\ \A k \in ToldOf(s) : RankOf(s, k) \in 1 .. t /\ k \in 1 .. Len(s)
      /\ Len(s) \in Nat
  BY WaitingShape
<1>3. /\ \A k \in 1 .. Len(s) : s2[k] = s[k]
      /\ s2[Len(s) + 1] = f
      /\ ToldOf(s2) = ToldOf(s) \union {Len(s) + 1}
      /\ Cardinality(ToldOf(s2)) = t + 1
      /\ \A k \in ToldOf(s) : RankOf(s2, k) = RankOf(s, k)
      /\ RankOf(s2, Len(s) + 1) = t + 1
  BY Entering
<1>4. /\ m <= t /\ Traces!modbacktrace(top - start) = t - m
      /\ \A k \in ToldOf(s) : RankOf(s, k) > m =>
           bt[Traces!modbacktrace(top - (t - RankOf(s, k) + 1))] = s[k].name
  BY DEF Named
<1>5. bt2[top] = f.name /\ \A p \in 0 .. B - 1 : p # top => bt2[p] = bt[p]
  BY DEF Ring
<1>6. \A n \in Int : 0 - B <= n /\ n < 2 * B =>
        Traces!modbacktrace(n) = IF n < 0 THEN n + B ELSE IF n < B THEN n ELSE n - B
  BY RingPlace
<1>7. m2 >= m /\ m2 >= t + 2 - B /\ (m2 = m \/ m2 = t + 2 - B)
  OBVIOUS
<1> HIDE DEF B, t, s2, bt2
<1>8. top2 = IF top + 1 = B THEN 0 ELSE top + 1
  <2>1. top + 1 \in Int /\ 0 - B <= top + 1 /\ top + 1 < 2 * B
    BY <1>1
  <2>2. QED
    BY <1>1, <1>6, <2>1
<1>9. start2 = IF start = top2 THEN (IF start + 1 = B THEN 0 ELSE start + 1) ELSE start
  <2>1. start + 1 \in Int /\ 0 - B <= start + 1 /\ start + 1 < 2 * B
    BY <1>1
  <2>2. QED
    BY <1>1, <1>6, <2>1
<1>10. t - m = IF top < start THEN top - start + B ELSE top - start
  <2>1. top - start \in Int /\ 0 - B <= top - start /\ top - start < 2 * B
    BY <1>1
  <2>2. QED
    BY <1>1, <1>4, <1>6, <2>1
<1>11. m2 = IF t - m = B - 1 THEN m + 1 ELSE m
  BY <1>1, <1>2, <1>7, <1>10
<1>12. m2 <= t + 1
  BY <1>1, <1>2, <1>4, <1>11
<1>13. Traces!modbacktrace(top2 - start2) = (t + 1) - m2
  <2>1. top2 - start2 \in Int /\ 0 - B <= top2 - start2 /\ top2 - start2 < 2 * B
    BY <1>1, <1>8, <1>9
  <2>2. Traces!modbacktrace(top2 - start2) =
          IF top2 < start2 THEN top2 - start2 + B ELSE top2 - start2
    BY <1>1, <1>6, <1>8, <1>9, <2>1
  <2>3. CASE start = top2
    <3>1. t - m = B - 1 /\ m2 = m + 1
      BY <1>1, <1>8, <1>10, <1>11, <2>3
    <3>2. (IF top2 < start2 THEN top2 - start2 + B ELSE top2 - start2) = B - 1
      BY <1>1, <1>8, <1>9, <2>3
    <3>3. QED
      BY <1>1, <1>2, <2>2, <3>1, <3>2
  <2>4. CASE start # top2
    <3>1. start2 = start
      BY <1>9, <2>4
    <3>2. (IF top2 < start THEN top2 - start + B ELSE top2 - start)
            = (IF top < start THEN top - start + B ELSE top - start) + 1
      BY <1>1, <1>8, <2>4
    <3>3. (IF top2 < start THEN top2 - start + B ELSE top2 - start) < B
      BY <1>1, <1>8
    <3>4. t - m # B - 1
      BY <1>1, <1>2, <1>10, <3>2, <3>3
    <3>5. QED
      BY <1>1, <1>2, <1>10, <1>11, <2>2, <3>1, <3>2, <3>4
  <2>5. QED
    BY <2>3, <2>4
<1>14. ASSUME NEW k \in ToldOf(s2), RankOf(s2, k) > m2
       PROVE  bt2[Traces!modbacktrace(top2 - ((t + 1) - RankOf(s2, k) + 1))] = s2[k].name
  <2>1. CASE k = Len(s) + 1
    <3>1. top2 - ((t + 1) - RankOf(s2, k) + 1) = top2 - 1
      BY <1>2, <1>3, <1>1, <1>8, <2>1
    <3>2. Traces!modbacktrace(top2 - 1) = top
      <4>1. top2 - 1 \in Int /\ 0 - B <= top2 - 1 /\ top2 - 1 < 2 * B
        BY <1>1, <1>8
      <4>2. QED
        BY <1>1, <1>6, <1>8, <4>1
    <3>3. QED
      BY <1>3, <1>5, <2>1, <3>1, <3>2
  <2>2. CASE k \in ToldOf(s)
    <3> DEFINE r == RankOf(s, k)
    <3>1. r \in Nat /\ r <= t /\ r > m2 /\ r > m /\ RankOf(s2, k) = r /\ s2[k] = s[k]
      BY <1>1, <1>2, <1>3, <1>7, <1>14, <2>2
    <3>2. bt[Traces!modbacktrace(top - (t - r + 1))] = s[k].name
      BY <1>4, <2>2, <3>1
    <3> HIDE DEF r
    <3> DEFINE d == t - r + 1
    <3>3. d \in Nat /\ 1 <= d /\ d <= B - 1 /\ ((t + 1) - r) + 1 = d + 1 /\ t - r + 1 = d
      BY <1>1, <1>2, <1>7, <3>1
    <3> HIDE DEF d
    <3>4. Traces!modbacktrace(top - d) = IF top < d THEN top - d + B ELSE top - d
      <4>1. top - d \in Int /\ 0 - B <= top - d /\ top - d < 2 * B
        BY <1>1, <3>3
      <4>2. QED
        BY <1>1, <1>6, <3>3, <4>1
    <3>5. Traces!modbacktrace(top2 - (d + 1)) = Traces!modbacktrace(top - d)
      <4>1. top2 - (d + 1) \in Int /\ 0 - B <= top2 - (d + 1) /\ top2 - (d + 1) < 2 * B
        BY <1>1, <1>8, <3>3
      <4>2. Traces!modbacktrace(top2 - (d + 1)) =
              IF top2 < d + 1 THEN top2 - (d + 1) + B ELSE top2 - (d + 1)
        BY <1>1, <1>6, <1>8, <3>3, <4>1
      <4>3. CASE top + 1 = B
        <5>1. top2 = 0 /\ top2 < d + 1 /\ ~(top < d) /\ top2 - (d + 1) + B = top - d
          BY <1>1, <1>8, <3>3, <4>3
        <5>2. QED
          BY <3>4, <4>2, <5>1, Zenon
      <4>4. CASE top + 1 # B
        <5>1. /\ top2 < d + 1 => top < d
              /\ top < d => top2 < d + 1
              /\ top2 - (d + 1) = top - d
          BY <1>1, <1>8, <3>3, <4>4
        <5>2. QED
          BY <3>4, <4>2, <5>1, Zenon
      <4>5. QED
        BY <4>3, <4>4
    <3>6. Traces!modbacktrace(top - d) \in 0 .. B - 1 /\ Traces!modbacktrace(top - d) # top
      BY <1>1, <3>3, <3>4
    <3>7. QED
      BY <1>5, <3>1, <3>2, <3>3, <3>5, <3>6
  <2>3. QED
    BY <1>3, <2>1, <2>2
<1>15. Named(s2, bt2, start2, top2, m2)
  <2>0. Cardinality(ToldOf(s2)) = t + 1
    BY <1>3
  <2>1. m2 <= Cardinality(ToldOf(s2))
        /\ Traces!modbacktrace(top2 - start2) = Cardinality(ToldOf(s2)) - m2
    BY <1>12, <1>13, <2>0, Zenon
  <2>2. ASSUME NEW k \in ToldOf(s2), RankOf(s2, k) > m2
        PROVE  bt2[Traces!modbacktrace(top2 - (Cardinality(ToldOf(s2)) - RankOf(s2, k) + 1))]
                 = s2[k].name
    BY <1>14, <2>0, <2>2, Zenon
  <2>3. QED
    BY <2>1, <2>2 DEF Named
<1>16. QED
  BY <1>15 DEF s2, bt2

\* The end of a call that was told gives its place back.
LEMMA NamedLeaving ==
  ASSUME NEW s \in Seq(CallFrame), NEW n \in Nat, Len(s) = n + 1,
         NEW bt \in Ring, NEW start \in 0 .. BACKTRACESIZE - 1, NEW top \in 0 .. BACKTRACESIZE - 1,
         NEW m \in Nat, Named(s, bt, start, top, m),
         NEW top2, top2 = IF s[Len(s)].told THEN Traces!modbacktrace(top - 1) ELSE top,
         m <= Cardinality(ToldOf(s) \ {Len(s)})
  PROVE  Named(SubSeq(s, 1, n), bt, start, top2, m)
<1> DEFINE s2 == SubSeq(s, 1, n)
           B == BACKTRACESIZE
           t == Cardinality(ToldOf(s))
<1>1. /\ B \in Nat /\ B >= 1 /\ start \in Nat /\ start < B /\ top \in Nat /\ top < B
      /\ m \in Nat /\ n \in 0 .. Len(s) /\ Len(s) \in 1 .. Len(s)
  BY TraceSizes
<1>2. /\ t \in Nat /\ \A k \in ToldOf(s) : RankOf(s, k) \in 1 .. t /\ k \in 1 .. Len(s)
      /\ s[Len(s)].told \in BOOLEAN
  BY <1>1, WaitingShape DEF CallFrame
<1>3. /\ \A k \in 1 .. n : s2[k] = s[k]
      /\ ToldOf(s2) = ToldOf(s) \ {Len(s)}
      /\ Cardinality(ToldOf(s2)) = t - (IF s[Len(s)].told THEN 1 ELSE 0)
      /\ \A k \in ToldOf(s2) : RankOf(s2, k) = RankOf(s, k)
      /\ s2 \in Seq(CallFrame) /\ DOMAIN s2 = 1 .. n
  BY <1>1, Leaving
<1>4. /\ m <= t /\ Traces!modbacktrace(top - start) = t - m
      /\ \A k \in ToldOf(s) : RankOf(s, k) > m =>
           bt[Traces!modbacktrace(top - (t - RankOf(s, k) + 1))] = s[k].name
  BY DEF Named
<1>6. \A i \in Int : 0 - B <= i /\ i < 2 * B =>
        Traces!modbacktrace(i) = IF i < 0 THEN i + B ELSE IF i < B THEN i ELSE i - B
  BY RingPlace
<1>7. m <= Cardinality(ToldOf(s2))
  BY <1>3
<1>8. \A k \in ToldOf(s2) : k \in ToldOf(s) /\ s2[k] = s[k] /\ RankOf(s, k) \in 1 .. Cardinality(ToldOf(s2))
  <2>1. \A k \in ToldOf(s2) : RankOf(s2, k) \in 1 .. Cardinality(ToldOf(s2)) /\ k \in 1 .. n
    <3>1. \A k \in ToldOf(s2) : RankOf(s2, k) \in 1 .. Cardinality(ToldOf(s2))
      BY <1>3, WaitingShape
    <3>2. \A k \in ToldOf(s2) : k \in 1 .. n
      BY <1>3 DEF ToldOf
    <3>3. QED
      BY <3>1, <3>2
  <2>2. QED
    BY <1>3, <2>1
<1> HIDE DEF B, t, s2
<1>9. CASE ~s[Len(s)].told
  <2>1. top2 = top /\ Cardinality(ToldOf(s2)) = t
    BY <1>2, <1>3, <1>9
  <2>2. QED
    BY <1>3, <1>4, <1>8, <2>1 DEF Named, s2
<1>10. CASE s[Len(s)].told
  <2>1. top2 = Traces!modbacktrace(top - 1) /\ Cardinality(ToldOf(s2)) = t - 1
    BY <1>3, <1>10
  <2>2. top2 = IF top = 0 THEN B - 1 ELSE top - 1
    <3>1. top - 1 \in Int /\ 0 - B <= top - 1 /\ top - 1 < 2 * B
      BY <1>1
    <3>2. QED
      BY <1>1, <1>6, <2>1, <3>1
  <2>3. t - m = IF top < start THEN top - start + B ELSE top - start
    <3>1. top - start \in Int /\ 0 - B <= top - start /\ top - start < 2 * B
      BY <1>1
    <3>2. QED
      BY <1>1, <1>4, <1>6, <3>1
  <2>4. m <= t - 1
    BY <1>7, <2>1
  <2>5. Traces!modbacktrace(top2 - start) = t - 1 - m
    <3>1. top2 - start \in Int /\ 0 - B <= top2 - start /\ top2 - start < 2 * B
      BY <1>1, <2>2
    <3>2. QED
      BY <1>1, <1>2, <1>6, <2>2, <2>3, <2>4, <3>1
  <2>6. ASSUME NEW k \in ToldOf(s2), RankOf(s2, k) > m
        PROVE  bt[Traces!modbacktrace(top2 - (t - 1 - RankOf(s2, k) + 1))] = s2[k].name
    <3> DEFINE d == t - RankOf(s, k) + 1
    <3>1. /\ RankOf(s, k) \in Nat /\ RankOf(s, k) <= t - 1 /\ RankOf(s, k) > m
          /\ k \in ToldOf(s) /\ s2[k] = s[k] /\ RankOf(s2, k) = RankOf(s, k)
      <4>1. /\ k \in ToldOf(s) /\ s2[k] = s[k] /\ RankOf(s2, k) = RankOf(s, k)
            /\ RankOf(s, k) \in 1 .. t - 1
        BY <1>3, <1>8, <2>1, <2>6
      <4>2. QED
        BY <1>2, <2>6, <4>1
    <3>2. bt[Traces!modbacktrace(top - d)] = s[k].name
      BY <1>4, <3>1
    <3>3. d \in Nat /\ 2 <= d /\ d <= B - 1 /\ t - 1 - RankOf(s, k) + 1 = d - 1
      BY <1>1, <1>2, <2>3, <3>1
    <3> HIDE DEF d
    <3>4. Traces!modbacktrace(top - d) = IF top < d THEN top - d + B ELSE top - d
      <4>1. top - d \in Int /\ 0 - B <= top - d /\ top - d < 2 * B
        BY <1>1, <3>3
      <4>2. QED
        BY <1>1, <1>6, <3>3, <4>1
    <3>5. Traces!modbacktrace(top2 - (d - 1)) = Traces!modbacktrace(top - d)
      <4>1. top2 - (d - 1) \in Int /\ 0 - B <= top2 - (d - 1) /\ top2 - (d - 1) < 2 * B
        BY <1>1, <2>2, <3>3
      <4>2. QED
        BY <1>1, <1>6, <2>2, <3>3, <3>4, <4>1
    <3>6. QED
      BY <3>1, <3>2, <3>3, <3>5
  <2>7. QED
    BY <2>1, <2>4, <2>5, <2>6 DEF Named, s2
<1>11. QED
  BY <1>2, <1>9, <1>10

-----------------------------------------------------------------------------
(* The steps of trace and backtrace.                                       *)

LEMMA TracesTyped ==
  ASSUME Traces!TypeOK
  PROVE  /\ TraceDepth \in [1 .. TRACEMAX -> 0 .. Modulus - 1]
         /\ TraceFn \in [1 .. TRACEMAX -> Function \union {NoName}]
         /\ Backtrace \in Ring
         /\ TraceStart \in 0 .. BACKTRACESIZE - 1 /\ TraceTop \in 0 .. BACKTRACESIZE - 1
         /\ BACKTRACE \in BOOLEAN /\ missed \in Nat
         /\ active \in Seq(CallFrame)
         /\ Len(active) \in Nat /\ DOMAIN active = 1 .. Len(active)
         /\ \A k \in 1 .. Len(active) :
              /\ active[k] \in CallFrame
              /\ active[k].name = NoName => active[k].trace = 0 /\ ~active[k].told
         /\ caught \in BOOLEAN /\ retraced \in BOOLEAN /\ switched \in BOOLEAN
         /\ overrun \in BOOLEAN
<1>1. active \in Seq(CallFrame)
  BY DEF Traces!TypeOK, Traces!Frame, CallFrame
<1>2. Len(active) \in Nat /\ DOMAIN active = 1 .. Len(active)
      /\ \A k \in 1 .. Len(active) : active[k] \in CallFrame
  BY <1>1, WaitingShape
<1>3. QED
  BY <1>1, <1>2 DEF Traces!TypeOK, Ring

LEMMA TracesCount == \A S : Traces!Cardinality(S) = Cardinality(S)
BY DEF Traces!Cardinality, Cardinality

\* What the properties say, said of values.
Sound == ~caught /\ ~switched /\ ~overrun => Named(active, Backtrace, TraceStart, TraceTop, missed)
Deep == ~retraced => \A i \in 1 .. TRACEMAX :
          /\ TraceDepth[i] >= Counts(active, i)
          /\ ~caught => TraceDepth[i] = Counts(active, i)

LEMMA TracesMean ==
  Traces!TypeOK => /\ Traces!DepthsCount <=> Deep
                   /\ Traces!NamesTheCalls /\ Traces!SomeHeld <=> Sound
<1> SUFFICES ASSUME Traces!TypeOK
             PROVE  /\ Traces!DepthsCount <=> Deep
                    /\ Traces!NamesTheCalls /\ Traces!SomeHeld <=> Sound
  OBVIOUS
<1>1. Traces!DepthsCount <=> Deep
  <2>1. \A i : Traces!Active(i) = Counts(active, i)
    BY TracesCount, Zenon DEF Traces!Active, Counts
  <2>2. QED
    BY <2>1, Zenon DEF Traces!DepthsCount, Deep
<1> DEFINE t == Cardinality(ToldOf(active))
           h == Traces!modbacktrace(TraceTop - TraceStart)
           quiet == ~caught /\ ~switched /\ ~overrun
<1>2. Traces!Told = ToldOf(active) /\ \A k : Traces!Rank(k) = RankOf(active, k)
  <2>1. Traces!Told = ToldOf(active)
    BY DEF Traces!Told, ToldOf
  <2>2. QED
    BY <2>1, TracesCount, Zenon DEF Traces!Rank, RankOf
<1>3. /\ t \in Nat /\ \A k \in ToldOf(active) : RankOf(active, k) \in 1 .. t
      /\ missed \in Nat /\ TraceStart \in Nat /\ TraceTop \in Nat
      /\ TraceStart < BACKTRACESIZE /\ TraceTop < BACKTRACESIZE /\ BACKTRACESIZE \in Nat
  BY TracesTyped, WaitingShape, TraceSizes
<1>4. h \in Nat
  <2>1. TraceTop - TraceStart \in Int /\ 0 - BACKTRACESIZE <= TraceTop - TraceStart
        /\ TraceTop - TraceStart < 2 * BACKTRACESIZE
    BY <1>3
  <2>2. h = IF TraceTop - TraceStart < 0 THEN TraceTop - TraceStart + BACKTRACESIZE
            ELSE TraceTop - TraceStart
    BY <1>3, <2>1, RingPlace
  <2>3. QED
    BY <1>3, <2>2
<1>5. /\ DOMAIN Traces!printbacktrace = 1 .. h
      /\ \A i \in 1 .. h : Traces!printbacktrace[i] = Backtrace[Traces!modbacktrace(TraceTop - i)]
  BY DEF Traces!printbacktrace
<1>6. ASSUME missed <= t PROVE 1 .. h = 1 .. t - missed <=> h = t - missed
  <2>1. ASSUME 1 .. h = 1 .. t - missed PROVE h = t - missed
    <3> DEFINE d == t - missed
    <3>1. d \in Nat
      BY <1>3, <1>6
    <3>2. \A i \in Nat : i >= 1 => (i <= h <=> i <= d)
      <4>1. \A i \in Nat : i >= 1 => (i <= h <=> i \in 1 .. h) /\ (i <= d <=> i \in 1 .. d)
        BY <1>4, <3>1
      <4>2. QED
        BY <2>1, <4>1, Zenon
    <3> HIDE DEF d, h
    <3>3. h <= d
      BY <1>4, <3>1, <3>2
    <3>4. d <= h
      BY <1>4, <3>1, <3>2
    <3>5. h = d
      BY <1>4, <3>1, <3>3, <3>4
    <3>6. QED
      BY <3>5 DEF d, h
  <2>2. QED
    BY <2>1, Zenon
<1>7. ASSUME missed <= t, h = t - missed
      PROVE  (\A k \in Traces!Told : Traces!Rank(k) > missed =>
                Traces!printbacktrace[Cardinality(Traces!Told) - Traces!Rank(k) + 1] = active[k].name)
             <=> (\A k \in ToldOf(active) : RankOf(active, k) > missed =>
                   Backtrace[Traces!modbacktrace(TraceTop - (t - RankOf(active, k) + 1))]
                     = active[k].name)
  <2>1. \A k \in ToldOf(active) : RankOf(active, k) > missed =>
          t - RankOf(active, k) + 1 \in 1 .. h
    BY <1>3, <1>7
  <2>2. QED
    BY <1>2, <1>5, <2>1, Zenon
<1>8. Traces!NamesTheCalls /\ Traces!SomeHeld <=> Sound
  <2>1. Traces!SomeHeld <=> (quiet => missed <= t)
    BY <1>2, TracesCount, Zenon DEF Traces!SomeHeld
  <2>2. Sound <=> (quiet => Named(active, Backtrace, TraceStart, TraceTop, missed))
    BY DEF Sound
  <2>3. Traces!NamesTheCalls <=>
          (quiet => /\ 1 .. h = 1 .. t - missed
                    /\ \A k \in Traces!Told : Traces!Rank(k) > missed =>
                         Traces!printbacktrace[Cardinality(Traces!Told) - Traces!Rank(k) + 1]
                           = active[k].name)
    BY <1>2, <1>5, TracesCount, Zenon DEF Traces!NamesTheCalls
  <2>4. ASSUME missed <= t
        PROVE  Named(active, Backtrace, TraceStart, TraceTop, missed) <=>
                 /\ 1 .. h = 1 .. t - missed
                 /\ \A k \in Traces!Told : Traces!Rank(k) > missed =>
                       Traces!printbacktrace[Cardinality(Traces!Told) - Traces!Rank(k) + 1]
                         = active[k].name
    BY <1>6, <1>7, <2>4, Zenon DEF Named
  <2>5. Named(active, Backtrace, TraceStart, TraceTop, missed) => missed <= t
    BY DEF Named
  <2> HIDE DEF t, h, quiet
  <2>6. QED
    BY <2>1, <2>2, <2>3, <2>4, <2>5, Zenon
<1>9. QED
  BY <1>1, <1>8

LEMMA TraceInvariant ==
  /\ Traces!IInv <=> Traces!TypeOK /\ Traces!ToldNow /\ Deep /\ Sound
  /\ Traces!IInv' <=> Traces!TypeOK' /\ Traces!ToldNow' /\ Deep' /\ Sound'
<1>1. Traces!IInv <=> Traces!TypeOK /\ Traces!ToldNow /\ Deep /\ Sound
  BY TracesMean, Zenon DEF Traces!IInv
<1>2. QED
  BY <1>1, PTL

\* No call waits.
LEMMA NoneWaiting ==
  /\ << >> \in Seq(CallFrame) /\ DOMAIN << >> = {}
  /\ ToldOf(<< >>) = {} /\ \A i : Counts(<< >>, i) = 0
  /\ \A bt : Named(<< >>, bt, 0, 0, 0)
<1>1. << >> \in Seq(CallFrame) /\ DOMAIN << >> = {}
  OBVIOUS
<1>2. ToldOf(<< >>) = {}
  BY DEF ToldOf
<1>3. Cardinality({}) = 0
  BY FS_EmptySet
<1>4. ASSUME NEW i PROVE Counts(<< >>, i) = 0
  <2>1. {k \in DOMAIN << >> : << >>[k].trace = i} = {}
    BY <1>1, Zenon
  <2>2. QED
    BY <1>3, <2>1, Zenon DEF Counts
<1>5. Traces!modbacktrace(0 - 0) = 0
  <2>1. 0 - 0 \in Int /\ 0 - BACKTRACESIZE <= 0 - 0 /\ 0 - 0 < 2 * BACKTRACESIZE
    BY TraceSizes
  <2>2. QED
    BY <2>1, TraceSizes, RingPlace
<1>6. ASSUME NEW bt PROVE Named(<< >>, bt, 0, 0, 0)
  <2> DEFINE none == << >>
  <2>1. ToldOf(none) = {} /\ Cardinality(ToldOf(none)) = 0
    BY <1>2, <1>3
  <2> HIDE DEF none
  <2>2. Traces!modbacktrace(0 - 0) = Cardinality(ToldOf(none)) - 0
    BY <1>5, <2>1
  <2>3. 0 <= Cardinality(ToldOf(none))
    BY <2>1
  <2>4. Named(none, bt, 0, 0, 0)
    BY <2>1, <2>2, <2>3, Zenon DEF Named
  <2>5. QED
    BY <2>4 DEF none
<1>7. QED
  BY <1>1, <1>2, <1>4, <1>6

\* A call that is not told leaves the ring as it is.
LEMMA NamedUntold ==
  ASSUME NEW s \in Seq(CallFrame), NEW f \in CallFrame, ~f.told,
         NEW bt, NEW start, NEW top, NEW m, Named(s, bt, start, top, m)
  PROVE  Named(Append(s, f), bt, start, top, m)
<1> DEFINE s2 == Append(s, f)
<1>1. /\ \A k \in 1 .. Len(s) : s2[k] = s[k]
      /\ ToldOf(s2) = ToldOf(s)
      /\ \A k \in ToldOf(s) : RankOf(s2, k) = RankOf(s, k)
  BY Entering
<1>2. \A k \in ToldOf(s) : k \in 1 .. Len(s)
  BY WaitingShape
<1> HIDE DEF s2
<1>3. Named(s2, bt, start, top, m)
  BY <1>1, <1>2, Zenon DEF Named
<1>4. QED
  BY <1>3 DEF s2

\* What the table says of a name.
LEMMA TracingSlot ==
  ASSUME NEW name
  PROVE  /\ Traces!tracing(name) \in 0 .. TRACEMAX
         /\ Traces!tracing(name) # 0 => Traces!tracing(name) \in 1 .. TRACEMAX
<1> DEFINE places == {i \in 1 .. TRACEMAX : TraceFn[i] = name}
<1>1. TRACEMAX \in Nat /\ places \in SUBSET (1 .. TRACEMAX)
  BY TraceSizes
<1>2. ASSUME places # {} PROVE Traces!Min(places) \in 1 .. TRACEMAX
  BY <1>1, <1>2, GreatestOf
<1>3. Traces!tracing(name) = IF places = {} THEN 0 ELSE Traces!Min(places)
  BY DEF Traces!tracing
<1> HIDE DEF places
<1>4. QED
  BY <1>1, <1>2, <1>3

\* A call counts once in the table.
LEMMA EnteredDepths ==
  ASSUME Traces!TypeOK, NEW name,
         Traces!tracing(name) # 0 => TraceDepth[Traces!tracing(name)] < MaxDepth
  PROVE  /\ Traces!Entered(name) \in [1 .. TRACEMAX -> 0 .. Modulus - 1]
         /\ \A j \in 1 .. TRACEMAX : Traces!Entered(name)[j] =
              TraceDepth[j] + (IF j = Traces!tracing(name) THEN 1 ELSE 0)
<1> DEFINE i == Traces!tracing(name)
<1>1. i \in 0 .. TRACEMAX /\ (i # 0 => i \in 1 .. TRACEMAX) /\ TRACEMAX \in Nat
  BY TracingSlot, TraceSizes
<1>2. TraceDepth \in [1 .. TRACEMAX -> 0 .. Modulus - 1]
  BY TracesTyped
<1>3. MaxDepth \in Nat /\ MaxDepth < Modulus /\ Modulus \in Nat
  BY TraceSizes
<1>4. Traces!Entered(name) = IF i = 0 THEN TraceDepth ELSE [TraceDepth EXCEPT ![i] = TraceDepth[i] + 1]
  BY DEF Traces!Entered
<1>5. i # 0 => TraceDepth[i] < MaxDepth
  OBVIOUS
<1> HIDE DEF i
<1>6. \A j \in 1 .. TRACEMAX : TraceDepth[j] \in Nat
  BY <1>2, <1>3
<1>7. CASE i = 0
  <2>1. \A j \in 1 .. TRACEMAX : j # i
    BY <1>1, <1>7
  <2>2. QED
    BY <1>2, <1>4, <1>6, <1>7, <2>1
       DEF i
<1>8. CASE i # 0
  <2>1. TraceDepth[i] + 1 \in 0 .. Modulus - 1
    BY <1>1, <1>3, <1>5, <1>6, <1>8
  <2>2. QED
    BY <1>1, <1>2, <1>4, <1>6, <1>8, <2>1 DEF i
<1>9. QED
  BY <1>7, <1>8

\* The greater of two.
LEMMA GreaterOf ==
  ASSUME NEW a \in Int, NEW b \in Int
  PROVE  Traces!Max({a, b}) = IF a >= b THEN a ELSE b
<1> DEFINE S == {a, b}
<1>1. ASSUME NEW x \in S, \A y \in S : x >= y PROVE x = IF a >= b THEN a ELSE b
  BY <1>1
<1>2. \E x \in S : \A y \in S : x >= y
  OBVIOUS
<1>3. Traces!Max(S) \in S /\ \A y \in S : Traces!Max(S) >= y
  BY <1>2 DEF Traces!Max
<1>4. QED
  BY <1>1, <1>3

\* A call or an ignore-errors more, as far as its frame goes.
LEMMA EnteringTyped ==
  ASSUME Traces!TypeOK, Traces!ToldNow, NEW f \in CallFrame,
         f.name = NoName => f.trace = 0 /\ ~f.told,
         f.name # NoName => f.told = BACKTRACE, f.name \in Closures => f.told,
         active' = Append(active, f), BACKTRACE' = BACKTRACE, switched' = switched
  PROVE  /\ active' \in Seq(Traces!Frame)
         /\ \A k \in DOMAIN active' : active'[k].name = NoName => active'[k].trace = 0 /\ ~active'[k].told
         /\ Traces!ToldNow'
<1>1. /\ active \in Seq(CallFrame) /\ DOMAIN active = 1 .. Len(active) /\ Len(active) \in Nat
      /\ \A k \in 1 .. Len(active) :
           active[k].name = NoName => active[k].trace = 0 /\ ~active[k].told
  BY TracesTyped
<1>2. /\ active' \in Seq(CallFrame) /\ DOMAIN active' = 1 .. Len(active) + 1
      /\ \A k \in 1 .. Len(active) : active'[k] = active[k]
      /\ active'[Len(active) + 1] = f
  BY <1>1, Entering
<1>3. \A k \in DOMAIN active' : k \in 1 .. Len(active) \/ k = Len(active) + 1
  BY <1>1, <1>2
<1>4. active' \in Seq(Traces!Frame)
  BY <1>2 DEF Traces!Frame, CallFrame
<1>5. \A k \in DOMAIN active' : active'[k].name = NoName => active'[k].trace = 0 /\ ~active'[k].told
  BY <1>1, <1>2, <1>3, Zenon
<1>6. Traces!ToldNow'
  BY <1>1, <1>2, <1>3, Zenon DEF Traces!ToldNow
<1>7. QED
  BY <1>4, <1>5, <1>6

\* The first n calls, as far as their frames go.
LEMMA LeavingTyped ==
  ASSUME Traces!TypeOK, Traces!ToldNow, NEW n \in 0 .. Len(active),
         active' = SubSeq(active, 1, n), BACKTRACE' = BACKTRACE, switched' = switched
  PROVE  /\ active' \in Seq(Traces!Frame)
         /\ \A k \in DOMAIN active' : active'[k].name = NoName => active'[k].trace = 0 /\ ~active'[k].told
         /\ Traces!ToldNow'
<1>1. /\ active \in Seq(CallFrame) /\ DOMAIN active = 1 .. Len(active) /\ Len(active) \in Nat
      /\ \A k \in 1 .. Len(active) :
           active[k].name = NoName => active[k].trace = 0 /\ ~active[k].told
  BY TracesTyped
<1>2. /\ active' \in Seq(CallFrame) /\ DOMAIN active' = 1 .. n
      /\ \A k \in 1 .. n : active'[k] = active[k]
  BY <1>1, Leaving, Zenon
<1>3. \A k \in DOMAIN active' : k \in 1 .. Len(active) /\ active'[k] = active[k]
  BY <1>1, <1>2
<1>4. active' \in Seq(Traces!Frame)
  BY <1>2 DEF Traces!Frame, CallFrame
<1>5. \A k \in DOMAIN active' : active'[k].name = NoName => active'[k].trace = 0 /\ ~active'[k].told
  BY <1>1, <1>3, Zenon
<1>6. Traces!ToldNow'
  BY <1>1, <1>3, Zenon DEF Traces!ToldNow
<1>7. QED
  BY <1>4, <1>5, <1>6

\* An error leaves what it ends out of the depths, which are then too large, unless it
\* is the handler itself that is next.
LEMMA UnwoundStep ==
  ASSUME Traces!IInv, NEW depths \in [1 .. TRACEMAX -> 0 .. Modulus - 1],
         \A i \in 1 .. TRACEMAX : depths[i] >= TraceDepth[i],
         Traces!Unwound(depths), UNCHANGED <<TraceFn, Backtrace, BACKTRACE>>
  PROVE  Traces!IInv'
<1>1. Traces!TypeOK /\ Traces!ToldNow /\ Deep /\ Sound
  BY TraceInvariant
<1>2. /\ TraceFn \in [1 .. TRACEMAX -> Function \union {NoName}] /\ TraceFn' = TraceFn
      /\ Backtrace \in Ring /\ Backtrace' = Backtrace
      /\ BACKTRACE \in BOOLEAN /\ BACKTRACE' = BACKTRACE
      /\ active \in Seq(CallFrame) /\ Len(active) \in Nat /\ DOMAIN active = 1 .. Len(active)
      /\ missed \in Nat /\ TraceDepth \in [1 .. TRACEMAX -> 0 .. Modulus - 1]
      /\ \A k \in 1 .. Len(active) :
           active[k].name = NoName => active[k].trace = 0 /\ ~active[k].told
  BY <1>1, TracesTyped
<1>3. /\ TraceStart \in 0 .. BACKTRACESIZE - 1 /\ TraceTop \in 0 .. BACKTRACESIZE - 1
      /\ caught \in BOOLEAN /\ retraced \in BOOLEAN /\ switched \in BOOLEAN
      /\ overrun \in BOOLEAN
  BY <1>1, TracesTyped
<1>4. /\ BACKTRACESIZE \in Nat /\ BACKTRACESIZE >= 1 /\ Modulus \in Nat /\ Modulus >= 1
      /\ TRACEMAX \in Nat
  BY TraceSizes
<1> DEFINE handlers == {k \in DOMAIN active : active[k].name = NoName}
<1>5. CASE handlers = {}
  <2>1. /\ active' = << >> /\ TraceStart' = 0 /\ TraceTop' = 0
        /\ TraceDepth' = [i \in 1 .. TRACEMAX |-> 0]
        /\ missed' = 0 /\ caught' = FALSE /\ retraced' = FALSE /\ switched' = FALSE
        /\ overrun' = FALSE
    BY <1>5 DEF Traces!Unwound
  <2>2. /\ active' \in Seq(Traces!Frame) /\ DOMAIN active' = {}
    BY <2>1
  <2>3. 0 \in 0 .. BACKTRACESIZE - 1 /\ 0 \in 0 .. Modulus - 1
    BY <1>4
  <2>4. Traces!TypeOK'
    BY <1>2, <2>1, <2>2, <2>3 DEF Traces!TypeOK, Ring
  <2>5. Traces!ToldNow'
    BY <2>2, Zenon DEF Traces!ToldNow
  <2>6. Deep'
    <3>1. \A i : Counts(active', i) = 0
      BY <2>1, NoneWaiting
    <3>2. \A i \in 1 .. TRACEMAX : TraceDepth'[i] = 0
      BY <2>1
    <3>3. \A i \in 1 .. TRACEMAX : TraceDepth'[i] >= Counts(active', i)
                                 /\ TraceDepth'[i] = Counts(active', i)
      BY <3>1, <3>2
    <3>4. QED
      BY <3>3, Zenon DEF Deep
  <2>7. Sound'
    BY <2>1, NoneWaiting, Zenon DEF Sound
  <2>8. QED
    BY <2>4, <2>5, <2>6, <2>7, TraceInvariant
<1>6. CASE handlers # {}
  <2> DEFINE n == Traces!Max(handlers) - 1
  <2>1. /\ active' = SubSeq(active, 1, n)
        /\ caught' = (caught \/ Traces!Max(handlers) < Len(active) \/ depths # TraceDepth)
        /\ TraceDepth' = depths /\ TraceStart' = TraceStart /\ TraceTop' = TraceTop
        /\ missed' = missed /\ retraced' = retraced /\ switched' = switched
        /\ overrun' = overrun
    BY <1>6 DEF Traces!Unwound
  <2>2. Traces!Max(handlers) \in handlers
    BY <1>2, <1>6, GreatestOf
  <2>3. /\ n \in Nat /\ n + 1 \in 1 .. Len(active) /\ n \in 0 .. Len(active)
        /\ active[n + 1].name = NoName
        /\ (Traces!Max(handlers) < Len(active)) \/ Len(active) = n + 1
    BY <1>2, <2>2
  <2> HIDE DEF n, handlers
  <2>4. /\ active' \in Seq(Traces!Frame)
        /\ \A k \in DOMAIN active' : active'[k].name = NoName => active'[k].trace = 0 /\ ~active'[k].told
        /\ Traces!ToldNow'
    BY <1>1, <1>2, <2>1, <2>3, LeavingTyped
  <2>5. caught' \in BOOLEAN
    BY <2>1
  <2>6. Traces!TypeOK'
    BY <1>2, <1>3, <2>1, <2>4, <2>5 DEF Traces!TypeOK, Ring
  <2>7. /\ \A i : Counts(active', i) <= Counts(active, i)
        /\ Len(active) = n + 1 =>
             /\ ToldOf(active') = ToldOf(active) \ {Len(active)}
             /\ \A i : Counts(active', i) =
                         Counts(active, i) - (IF active[Len(active)].trace = i THEN 1 ELSE 0)
    <3> DEFINE s2 == SubSeq(active, 1, n)
    <3>1. /\ \A i : Counts(s2, i) <= Counts(active, i)
          /\ Len(active) = n + 1 =>
               /\ ToldOf(s2) = ToldOf(active) \ {Len(active)}
               /\ \A i : Counts(s2, i) =
                           Counts(active, i) - (IF active[Len(active)].trace = i THEN 1 ELSE 0)
      BY <1>2, <2>3, Leaving
    <3>2. active' = s2
      BY <2>1
    <3> HIDE DEF s2
    <3>3. QED
      BY <3>1, <3>2, Zenon
  <2>8. \A i : Counts(active, i) \in Nat /\ Counts(active', i) \in Nat
    <3>1. active' \in Seq(CallFrame)
      BY <2>4 DEF Traces!Frame, CallFrame
    <3>2. QED
      BY <1>2, <3>1, WaitingShape
  <2>9. Deep'
    <3> SUFFICES ASSUME ~retraced', NEW i \in 1 .. TRACEMAX
                 PROVE  /\ TraceDepth'[i] >= Counts(active', i)
                        /\ ~caught' => TraceDepth'[i] = Counts(active', i)
      BY DEF Deep
    <3>1. /\ TraceDepth[i] >= Counts(active, i)
          /\ ~caught => TraceDepth[i] = Counts(active, i)
      BY <1>1, <2>1 DEF Deep
    <3>2. depths[i] \in Nat /\ TraceDepth[i] \in Nat /\ depths[i] >= TraceDepth[i]
      BY <1>2, <1>4
    <3>3. TraceDepth'[i] >= Counts(active', i)
      BY <2>1, <2>7, <2>8, <3>1, <3>2
    <3>4. ASSUME ~caught' PROVE TraceDepth'[i] = Counts(active', i)
      <4>1. ~caught /\ Len(active) = n + 1 /\ depths = TraceDepth
        BY <2>1, <2>3, <3>4
      <4>2. active[Len(active)].trace = 0 /\ i # 0
        BY <1>2, <1>4, <2>3, <4>1
      <4>3. Counts(active', i) = Counts(active, i)
        BY <2>7, <2>8, <4>1, <4>2
      <4>4. QED
        BY <2>1, <3>1, <4>1, <4>3
    <3>5. QED
      BY <3>3, <3>4
  <2>10. Sound'
    <3> SUFFICES ASSUME ~caught', ~switched', ~overrun'
                 PROVE  Named(active', Backtrace', TraceStart', TraceTop', missed')
      BY DEF Sound
    <3>1. ~caught /\ Len(active) = n + 1
      BY <2>1, <2>3
    <3>2. Named(active, Backtrace, TraceStart, TraceTop, missed)
      BY <1>1, <2>1, <3>1 DEF Sound
    <3>3. ~active[Len(active)].told /\ Len(active) \notin ToldOf(active)
      BY <1>2, <2>3, <3>1 DEF ToldOf
    <3>4. ToldOf(active) \ {Len(active)} = ToldOf(active)
      BY <3>3
    <3>5. missed <= Cardinality(ToldOf(active) \ {Len(active)})
      BY <3>2, <3>4, Zenon DEF Named
    <3>6. Named(SubSeq(active, 1, n), Backtrace, TraceStart, TraceTop, missed)
      BY <1>2, <1>3, <2>3, <3>1, <3>2, <3>3, <3>5, NamedLeaving
    <3>7. QED
      BY <1>2, <2>1, <3>6
  <2>11. QED
    BY <2>4, <2>6, <2>9, <2>10, TraceInvariant
<1>7. QED
  BY <1>5, <1>6

LEMMA TraceErrorStep == Traces!IInv /\ Traces!Error => Traces!IInv'
<1> SUFFICES ASSUME Traces!IInv, Traces!Error PROVE Traces!IInv'
  OBVIOUS
<1>1. TraceDepth \in [1 .. TRACEMAX -> 0 .. Modulus - 1] /\ Modulus \in Nat
  BY TracesTyped, TraceSizes, TraceInvariant
<1>2. \A i \in 1 .. TRACEMAX : TraceDepth[i] >= TraceDepth[i]
  BY <1>1
<1>3. Traces!Unwound(TraceDepth) /\ UNCHANGED <<TraceFn, Backtrace, BACKTRACE>>
  BY DEF Traces!Error
<1>4. QED
  BY <1>1, <1>2, <1>3, UnwoundStep

LEMMA CallFailsStep ==
  ASSUME Traces!IInv, NEW name, Traces!CallFails(name)
  PROVE  Traces!IInv'
<1>1. Traces!TypeOK /\ TraceDepth \in [1 .. TRACEMAX -> 0 .. Modulus - 1] /\ Modulus \in Nat
  BY TracesTyped, TraceSizes, TraceInvariant
<1>2. /\ Traces!tracing(name) # 0 => TraceDepth[Traces!tracing(name)] < MaxDepth
      /\ Traces!Unwound(Traces!Entered(name)) /\ UNCHANGED <<TraceFn, Backtrace, BACKTRACE>>
  BY DEF Traces!CallFails
<1>3. /\ Traces!Entered(name) \in [1 .. TRACEMAX -> 0 .. Modulus - 1]
      /\ \A j \in 1 .. TRACEMAX : Traces!Entered(name)[j] =
           TraceDepth[j] + (IF j = Traces!tracing(name) THEN 1 ELSE 0)
  BY <1>1, <1>2, EnteredDepths
<1>4. \A j \in 1 .. TRACEMAX : Traces!Entered(name)[j] >= TraceDepth[j]
  BY <1>1, <1>3
<1>5. QED
  BY <1>2, <1>3, <1>4, UnwoundStep

LEMMA IgnoreErrorsStep == Traces!IInv /\ Traces!ignoreerrors => Traces!IInv'
<1> SUFFICES ASSUME Traces!IInv, Traces!ignoreerrors PROVE Traces!IInv'
  OBVIOUS
<1> DEFINE f == [name |-> NoName, trace |-> 0, told |-> FALSE]
           s2 == Append(active, f)
<1>1. Traces!TypeOK /\ Traces!ToldNow /\ Deep /\ Sound
  BY TraceInvariant
<1>2. /\ active' = s2 /\ TraceFn' = TraceFn /\ TraceDepth' = TraceDepth
      /\ Backtrace' = Backtrace /\ TraceStart' = TraceStart /\ TraceTop' = TraceTop
      /\ BACKTRACE' = BACKTRACE /\ missed' = missed /\ caught' = caught
      /\ retraced' = retraced /\ switched' = switched /\ overrun' = overrun
  BY DEF Traces!ignoreerrors, Traces!traced, Traces!ring, Traces!ghosts
<1>3. f \in CallFrame /\ f.name = NoName /\ f.trace = 0 /\ ~f.told /\ NoName \notin Closures
  BY TraceSizes DEF CallFrame
<1>4. active \in Seq(CallFrame) /\ \A i : Counts(active, i) \in Nat
  BY <1>1, TracesTyped, WaitingShape
<1>5. \A i : Counts(s2, i) = Counts(active, i) + (IF f.trace = i THEN 1 ELSE 0)
  BY <1>3, <1>4, Entering
<1>6. \A bt, start, top, m :
        Named(active, bt, start, top, m) => Named(s2, bt, start, top, m)
  BY <1>3, <1>4, NamedUntold
<1> HIDE DEF f
<1>7. /\ active' \in Seq(Traces!Frame)
      /\ \A k \in DOMAIN active' : active'[k].name = NoName => active'[k].trace = 0 /\ ~active'[k].told
      /\ Traces!ToldNow'
  BY <1>1, <1>2, <1>3, EnteringTyped
<1> HIDE DEF s2
<1>8. Traces!TypeOK'
  BY <1>1, <1>2, <1>7 DEF Traces!TypeOK
<1>9. Deep'
  <2>1. \A i \in 1 .. TRACEMAX : Counts(s2, i) = Counts(active, i)
    BY <1>3, <1>4, <1>5, TraceSizes
  <2>2. QED
    BY <1>1, <1>2, <2>1, Zenon DEF Deep
<1>10. Sound'
  BY <1>1, <1>2, <1>6, Zenon DEF Sound
<1>11. QED
  BY <1>7, <1>8, <1>9, <1>10, TraceInvariant

LEMMA TraceReturnStep == Traces!IInv /\ Traces!Return => Traces!IInv'
<1> SUFFICES ASSUME Traces!IInv, Traces!Return PROVE Traces!IInv'
  OBVIOUS
<1> DEFINE l == Len(active)
           n == Len(active) - 1
           i == active[Len(active)].trace
           s2 == SubSeq(active, 1, n)
<1>1. Traces!TypeOK /\ Traces!ToldNow /\ Deep /\ Sound
  BY TraceInvariant
<1>2. /\ active # << >> /\ active' = s2
      /\ TraceDepth' = IF i = 0 THEN TraceDepth
                       ELSE [TraceDepth EXCEPT ![i] = (TraceDepth[i] - 1) % Modulus]
      /\ TraceTop' = IF active[l].name \in IF BACKTRACE THEN Function ELSE Closures
                      THEN Traces!modbacktrace(TraceTop - 1) ELSE TraceTop
      /\ overrun' = (overrun \/ Traces!Cardinality(Traces!Told \ {l}) < missed)
      /\ TraceFn' = TraceFn /\ Backtrace' = Backtrace /\ TraceStart' = TraceStart
      /\ BACKTRACE' = BACKTRACE /\ missed' = missed /\ caught' = caught
      /\ retraced' = retraced /\ switched' = switched
  BY DEF Traces!Return, Traces!Left
<1>3. /\ active \in Seq(CallFrame) /\ l \in Nat /\ DOMAIN active = 1 .. l
      /\ \A k \in 1 .. l : /\ active[k] \in CallFrame
                           /\ active[k].name = NoName => active[k].trace = 0 /\ ~active[k].told
      /\ \A j : Counts(active, j) \in Nat
      /\ missed \in Nat /\ TraceDepth \in [1 .. TRACEMAX -> 0 .. Modulus - 1]
      /\ Backtrace \in Ring /\ overrun \in BOOLEAN
  BY <1>1, TracesTyped, WaitingShape
<1>4. /\ TraceStart \in 0 .. BACKTRACESIZE - 1 /\ TraceTop \in 0 .. BACKTRACESIZE - 1
      /\ BACKTRACE \in BOOLEAN /\ caught \in BOOLEAN /\ switched \in BOOLEAN
  BY <1>1, TracesTyped
<1>5. /\ Modulus \in Nat /\ Modulus >= 1 /\ TRACEMAX \in Nat
      /\ BACKTRACESIZE \in Nat /\ BACKTRACESIZE >= 1
  BY TraceSizes
<1>6. l # 0
  BY <1>2, <1>3
<1>7. /\ n \in Nat /\ n \in 0 .. l /\ l = n + 1 /\ l \in 1 .. l
  BY <1>3, <1>6
<1>8. i \in 0 .. TRACEMAX /\ active[l].told \in BOOLEAN /\ (i # 0 => i \in 1 .. TRACEMAX)
  <2>1. active[l] \in CallFrame
    BY <1>3, <1>7
  <2>2. i \in 0 .. TRACEMAX /\ active[l].told \in BOOLEAN
    BY <2>1 DEF CallFrame
  <2>3. QED
    BY <1>5, <2>2
<1>9. /\ s2 \in Seq(CallFrame)
      /\ \A j : Counts(s2, j) = Counts(active, j) - (IF i = j THEN 1 ELSE 0)
  BY <1>3, <1>7, Leaving
<1> HIDE DEF n, s2
<1>10. \A j : Counts(s2, j) \in Nat
  BY <1>9, WaitingShape
<1>11. /\ active' \in Seq(Traces!Frame)
       /\ \A k \in DOMAIN active' : active'[k].name = NoName => active'[k].trace = 0 /\ ~active'[k].told
       /\ Traces!ToldNow'
  BY <1>1, <1>2, <1>7, LeavingTyped DEF s2
<1> HIDE DEF i
<1>12. TraceDepth' \in [1 .. TRACEMAX -> 0 .. Modulus - 1]
  <2>1. CASE i = 0
    BY <1>2, <1>3, <2>1
  <2>2. CASE i # 0
    <3>1. TraceDepth[i] \in 0 .. Modulus - 1
      BY <1>3, <1>8, <2>2
    <3>2. (TraceDepth[i] - 1) % Modulus \in 0 .. Modulus - 1
      BY <1>5, <3>1, LevelLess
    <3>3. QED
      BY <1>2, <1>3, <1>8, <2>2, <3>2
  <2>3. QED
    BY <2>1, <2>2
<1>13. TraceTop' \in 0 .. BACKTRACESIZE - 1
  <2>1. TraceTop - 1 \in Int /\ 0 - BACKTRACESIZE <= TraceTop - 1 /\ TraceTop - 1 < 2 * BACKTRACESIZE
    BY <1>4, <1>5
  <2>2. Traces!modbacktrace(TraceTop - 1) \in 0 .. BACKTRACESIZE - 1
    <3>1. Traces!modbacktrace(TraceTop - 1) =
            IF TraceTop - 1 < 0 THEN TraceTop - 1 + BACKTRACESIZE
            ELSE IF TraceTop - 1 < BACKTRACESIZE THEN TraceTop - 1 ELSE TraceTop - 1 - BACKTRACESIZE
      BY <2>1, RingPlace
    <3>2. QED
      BY <1>4, <1>5, <3>1
  <2>3. QED
    BY <1>2, <1>4, <2>2, Zenon
<1>14. Traces!TypeOK'
  <2>1. overrun' \in BOOLEAN
    BY <1>2, Zenon
  <2>2. {caught, retraced, switched, overrun}' \subseteq BOOLEAN
    BY <1>1, <1>2, <2>1 DEF Traces!TypeOK
  <2>3. QED
    BY <1>1, <1>2, <1>11, <1>12, <1>13, <2>2 DEF Traces!TypeOK
<1>15. Deep'
  <2> SUFFICES ASSUME ~retraced', NEW j \in 1 .. TRACEMAX
               PROVE  /\ TraceDepth'[j] >= Counts(active', j)
                      /\ ~caught' => TraceDepth'[j] = Counts(active', j)
    BY DEF Deep
  <2>1. /\ TraceDepth[j] >= Counts(active, j)
        /\ ~caught => TraceDepth[j] = Counts(active, j)
    BY <1>1, <1>2 DEF Deep
  <2>2. TraceDepth[j] \in 0 .. Modulus - 1 /\ TraceDepth[j] \in Nat
    BY <1>3, <1>5
  <2>3. active' = s2 /\ caught' = caught
    BY <1>2
  <2>4. CASE i = j
    <3>1. Counts(s2, j) = Counts(active, j) - 1
      BY <1>9, <2>4
    <3>2. TraceDepth[j] >= 1
      BY <1>3, <1>10, <2>1, <2>2, <3>1
    <3>3. (TraceDepth[j] - 1) % Modulus = TraceDepth[j] - 1
      BY <2>2, <3>2, LevelLess
    <3>4. TraceDepth'[j] = TraceDepth[j] - 1
      BY <1>2, <1>3, <1>5, <2>4, <3>3
    <3>5. QED
      BY <1>3, <2>1, <2>2, <2>3, <3>1, <3>4
  <2>5. CASE i # j
    <3>1. Counts(s2, j) = Counts(active, j)
      BY <1>3, <1>9, <2>5
    <3>2. TraceDepth'[j] = TraceDepth[j]
      BY <1>2, <1>3, <2>5
    <3>3. QED
      BY <2>1, <2>3, <3>1, <3>2
  <2>6. QED
    BY <2>4, <2>5
<1>16. Sound'
  <2> SUFFICES ASSUME ~caught', ~switched', ~overrun'
               PROVE  Named(active', Backtrace', TraceStart', TraceTop', missed')
    BY DEF Sound
  <2>1. ~caught /\ ~switched /\ ~overrun /\ ~(Cardinality(ToldOf(active) \ {l}) < missed)
    <3>1. Traces!Told = ToldOf(active)
      BY DEF Traces!Told, ToldOf
    <3>2. QED
      BY <1>2, <3>1, TracesCount, Zenon
  <2>2. Named(active, Backtrace, TraceStart, TraceTop, missed)
    BY <1>1, <2>1 DEF Sound
  <2>3. missed <= Cardinality(ToldOf(active) \ {l})
    <3>1. Cardinality(ToldOf(active) \ {l}) \in Nat
      <4>1. ToldOf(active) \ {l} \in SUBSET (1 .. l)
        BY <1>3, WaitingShape
      <4>2. QED
        BY <1>3, <4>1, Tallied
    <3>2. QED
      BY <1>3, <2>1, <3>1
  <2>4. TraceTop' = IF active[l].told THEN Traces!modbacktrace(TraceTop - 1) ELSE TraceTop
    <3>1. active[l].name # NoName => active[l].told = BACKTRACE
      BY <1>1, <1>3, <1>7, <2>1, Zenon DEF Traces!ToldNow
    <3>2. active[l].name = NoName => ~active[l].told
      BY <1>3, <1>7
    <3>3. /\ active[l].name \in Closures => active[l].told
          /\ active[l].name = NoName \/ active[l].name \in Function
          /\ NoName \notin Function /\ Closures \subseteq Function
      BY <1>1, <1>3, <1>7, TraceSizes DEF Traces!ToldNow, CallFrame
    <3>4. active[l].told <=> active[l].name \in IF BACKTRACE THEN Function ELSE Closures
      <4>1. CASE BACKTRACE
        BY <1>3, <1>7, <3>1, <3>2, <3>3, <4>1 DEF CallFrame
      <4>2. CASE ~BACKTRACE
        BY <1>3, <1>7, <3>1, <3>2, <3>3, <4>2 DEF CallFrame
      <4>3. QED
        BY <4>1, <4>2
    <3>5. QED
      BY <1>2, <3>4, Zenon
  <2>5. Named(s2, Backtrace, TraceStart, TraceTop', missed)
    BY <1>3, <1>4, <1>7, <2>2, <2>3, <2>4, NamedLeaving DEF s2
  <2>6. QED
    BY <1>2, <2>5
<1>17. QED
  BY <1>11, <1>14, <1>15, <1>16, TraceInvariant

LEMMA TraceCallStep ==
  ASSUME Traces!IInv, NEW name \in Function, Traces!Call(name)
  PROVE  Traces!IInv'
<1> DEFINE i == Traces!tracing(name)
           slot == IF name \in Closures THEN 0 ELSE i
           f == [name |-> name, trace |-> slot, told |-> BACKTRACE]
           s2 == Append(active, f)
           more == Cardinality(ToldOf(active)) + 2 - BACKTRACESIZE
<1>1. Traces!TypeOK /\ Traces!ToldNow /\ Deep /\ Sound
  BY TraceInvariant
<1>2. /\ active \in Seq(CallFrame) /\ Cardinality(ToldOf(active)) \in Nat
      /\ \A j : Counts(active, j) \in Nat
      /\ missed \in Nat /\ TraceDepth \in [1 .. TRACEMAX -> 0 .. Modulus - 1]
      /\ Backtrace \in Ring
      /\ TraceStart \in 0 .. BACKTRACESIZE - 1 /\ TraceTop \in 0 .. BACKTRACESIZE - 1
      /\ BACKTRACE \in BOOLEAN /\ caught \in BOOLEAN
  BY <1>1, TracesTyped, WaitingShape
<1>3. /\ Modulus \in Nat /\ Modulus >= 1 /\ TRACEMAX \in Nat
      /\ BACKTRACESIZE \in Nat /\ BACKTRACESIZE >= 1 /\ NoName \notin Function
  BY TraceSizes
<1>4. i \in 0 .. TRACEMAX /\ (i # 0 => i \in 1 .. TRACEMAX) /\ slot \in 0 .. TRACEMAX
  BY <1>3, TracingSlot
<1>5. /\ i # 0 => TraceDepth[i] < MaxDepth
      /\ TraceDepth' = Traces!Entered(name)
      /\ active' = IF BACKTRACE \/ slot # 0 THEN s2 ELSE active
      /\ caught' = (caught \/ i # slot)
      /\ TraceFn' = TraceFn /\ BACKTRACE' = BACKTRACE /\ retraced' = retraced
      /\ switched' = switched /\ overrun' = overrun
      /\ BACKTRACE => Traces!backtrace(name)
                       /\ missed' = Traces!Max({missed, Traces!Cardinality(Traces!Told) + 2 - BACKTRACESIZE})
      /\ ~BACKTRACE => /\ Backtrace' = Backtrace /\ TraceStart' = TraceStart /\ TraceTop' = TraceTop
                       /\ missed' = missed
  BY DEF Traces!Call, Traces!ring
<1>6. f \in CallFrame /\ f.name = name /\ f.name # NoName /\ f.trace = slot /\ f.told = BACKTRACE
  BY <1>2, <1>3, <1>4 DEF CallFrame
<1>7. /\ Traces!Entered(name) \in [1 .. TRACEMAX -> 0 .. Modulus - 1]
      /\ \A j \in 1 .. TRACEMAX : Traces!Entered(name)[j] =
           TraceDepth[j] + (IF j = i THEN 1 ELSE 0)
  BY <1>1, <1>5, EnteredDepths
<1>8. \A j : Counts(s2, j) = Counts(active, j) + (IF f.trace = j THEN 1 ELSE 0)
  BY <1>2, <1>6, Entering
<1> HIDE DEF f
<1>9. /\ active' \in Seq(Traces!Frame)
      /\ \A k \in DOMAIN active' : active'[k].name = NoName => active'[k].trace = 0 /\ ~active'[k].told
      /\ Traces!ToldNow'
  <2>1. CASE BACKTRACE \/ slot # 0
    <3>1. active' = Append(active, f)
      BY <1>5, <2>1
    <3>2. QED
      BY <1>1, <1>5, <1>6, <2>1, <3>1, EnteringTyped
  <2>2. CASE ~(BACKTRACE \/ slot # 0)
    <3>1. active' = active /\ switched' = switched /\ BACKTRACE' = BACKTRACE
      BY <1>5, <2>2
    <3>2. QED
      BY <1>1, <3>1, Zenon DEF Traces!TypeOK, Traces!ToldNow
  <2>3. QED
    BY <2>1, <2>2
<1>10. more \in Int
  BY <1>2, <1>3
<1>11. BACKTRACE => missed' = IF missed >= more THEN missed ELSE more
  <2>1. Traces!Cardinality(Traces!Told) = Cardinality(ToldOf(active))
    <3>1. Traces!Told = ToldOf(active)
      BY DEF Traces!Told, ToldOf
    <3>2. QED
      BY <3>1, TracesCount, Zenon
  <2>2. Traces!Max({missed, more}) = IF missed >= more THEN missed ELSE more
    BY <1>2, <1>10, GreaterOf
  <2>3. QED
    BY <1>5, <2>1, <2>2, Zenon
<1>12. BACKTRACE => /\ Backtrace' = [Backtrace EXCEPT ![TraceTop] = name]
                    /\ TraceTop' = Traces!modbacktrace(TraceTop + 1)
                    /\ TraceStart' = IF TraceStart = TraceTop'
                                     THEN Traces!modbacktrace(TraceStart + 1) ELSE TraceStart
  BY <1>5, Zenon DEF Traces!backtrace
<1>13. missed' \in Nat
  <2>1. missed >= more \/ more \in Nat
    BY <1>2, <1>10
  <2>2. QED
    BY <1>2, <1>5, <1>11, <2>1, Zenon
<1>14. \A n \in 0 .. BACKTRACESIZE - 1 : Traces!modbacktrace(n + 1) \in 0 .. BACKTRACESIZE - 1
  <2> SUFFICES ASSUME NEW n \in 0 .. BACKTRACESIZE - 1
               PROVE  Traces!modbacktrace(n + 1) \in 0 .. BACKTRACESIZE - 1
    OBVIOUS
  <2> DEFINE m == n + 1
  <2>1. m \in Int /\ 0 - BACKTRACESIZE <= m /\ m < 2 * BACKTRACESIZE /\ 0 <= m /\ m <= BACKTRACESIZE
    BY <1>3
  <2> HIDE DEF m
  <2>2. Traces!modbacktrace(m) = IF m < 0 THEN m + BACKTRACESIZE
                               ELSE IF m < BACKTRACESIZE THEN m ELSE m - BACKTRACESIZE
    BY <2>1, RingPlace
  <2>3. Traces!modbacktrace(m) \in 0 .. BACKTRACESIZE - 1
    BY <1>3, <2>1, <2>2
  <2>4. QED
    BY <2>3 DEF m
<1>15. /\ Backtrace' \in Ring
       /\ TraceStart' \in 0 .. BACKTRACESIZE - 1 /\ TraceTop' \in 0 .. BACKTRACESIZE - 1
  <2>1. CASE BACKTRACE
    <3>1. Backtrace' \in Ring
      BY <1>2, <1>12, <2>1 DEF Ring
    <3>2. QED
      BY <1>2, <1>12, <1>14, <2>1, <3>1, Zenon
  <2>2. CASE ~BACKTRACE
    BY <1>2, <1>5, <2>2
  <2>3. QED
    BY <2>1, <2>2
<1>16. Traces!TypeOK'
  <2>1. caught' \in BOOLEAN
    BY <1>5, Zenon
  <2>2. {caught, retraced, switched, overrun}' \subseteq BOOLEAN
    BY <1>1, <1>5, <2>1 DEF Traces!TypeOK
  <2>3. QED
    BY <1>1, <1>5, <1>7, <1>9, <1>13, <1>15, <2>2 DEF Traces!TypeOK, Ring
<1>17. \A j \in 1 .. TRACEMAX :
         Counts(active', j) = Counts(active, j) + (IF slot = j THEN 1 ELSE 0)
  <2>1. CASE BACKTRACE \/ slot # 0
    BY <1>5, <1>6, <1>8, <2>1
  <2>2. CASE ~(BACKTRACE \/ slot # 0)
    <3>1. active' = active /\ slot = 0
      BY <1>5, <2>2
    <3>2. \A j \in 1 .. TRACEMAX : j # 0
      BY <1>3
    <3>3. QED
      BY <1>2, <3>1, <3>2
  <2>3. QED
    BY <2>1, <2>2
<1> HIDE DEF i, s2, more
<1>18. Deep'
  <2> SUFFICES ASSUME ~retraced', NEW j \in 1 .. TRACEMAX
               PROVE  /\ TraceDepth'[j] >= Counts(active', j)
                      /\ ~caught' => TraceDepth'[j] = Counts(active', j)
    BY DEF Deep
  <2>1. /\ TraceDepth[j] >= Counts(active, j)
        /\ ~caught => TraceDepth[j] = Counts(active, j)
    BY <1>1, <1>5 DEF Deep
  <2>2. TraceDepth[j] \in Nat /\ Counts(active, j) \in Nat /\ j # 0
    BY <1>2, <1>3
  <2>3. TraceDepth'[j] = TraceDepth[j] + (IF j = i THEN 1 ELSE 0)
    BY <1>5, <1>7
  <2>4. Counts(active', j) = Counts(active, j) + (IF slot = j THEN 1 ELSE 0)
    BY <1>17
  <2>5. slot = j => j = i
    BY <2>2
  <2>6. TraceDepth'[j] >= Counts(active', j)
    BY <2>1, <2>2, <2>3, <2>4, <2>5
  <2>7. ASSUME ~caught' PROVE TraceDepth'[j] = Counts(active', j)
    <3>1. ~caught /\ i = slot
      BY <1>5, <2>7
    <3>2. QED
      BY <2>1, <2>2, <2>3, <2>4, <3>1
  <2>8. QED
    BY <2>6, <2>7
<1>19. Sound'
  <2> SUFFICES ASSUME ~caught', ~switched', ~overrun'
               PROVE  Named(active', Backtrace', TraceStart', TraceTop', missed')
    BY DEF Sound
  <2>1. Named(active, Backtrace, TraceStart, TraceTop, missed)
    BY <1>1, <1>5, Zenon DEF Sound
  <2>2. CASE BACKTRACE
    <3>1. f.told /\ f.name = name
      BY <1>6, <2>2
    <3>2. /\ missed' >= missed /\ missed' >= more
          /\ missed' = missed \/ missed' = more
      BY <1>2, <1>10, <1>11, <2>2
    <3>3. Named(Append(active, f), [Backtrace EXCEPT ![TraceTop] = f.name], TraceStart', TraceTop', missed')
      BY <1>2, <1>6, <1>12, <1>13, <2>1, <2>2, <3>1, <3>2, NamedEntering DEF more
    <3>4. active' = Append(active, f) /\ Backtrace' = [Backtrace EXCEPT ![TraceTop] = f.name]
      BY <1>5, <1>12, <2>2, <3>1 DEF s2
    <3>5. QED
      BY <3>3, <3>4
  <2>3. CASE ~BACKTRACE
    <3>1. ~f.told
      BY <1>6, <2>3
    <3>2. Named(Append(active, f), Backtrace, TraceStart, TraceTop, missed)
      BY <1>2, <1>6, <2>1, <3>1, NamedUntold
    <3>3. active' = active \/ active' = Append(active, f)
      BY <1>5, Zenon DEF s2
    <3>4. QED
      BY <1>5, <2>1, <2>3, <3>2, <3>3, Zenon
  <2>4. QED
    BY <2>2, <2>3
<1>20. QED
  BY <1>9, <1>16, <1>18, <1>19, TraceInvariant

\* A change of the table; with a slot that no call under way has found, the depths stay
\* as they should be.
LEMMA RetracedStep ==
  ASSUME Traces!IInv,
         TraceFn' \in [1 .. TRACEMAX -> Function \union {NoName}],
         TraceDepth' \in [1 .. TRACEMAX -> 0 .. Modulus - 1], retraced' \in BOOLEAN,
         ~retraced' => /\ ~retraced
                       /\ \A i \in 1 .. TRACEMAX :
                            \/ TraceDepth'[i] = TraceDepth[i]
                            \/ TraceDepth'[i] = 0 /\ Counts(active, i) = 0,
         UNCHANGED <<Backtrace, TraceStart, TraceTop, BACKTRACE, active, missed, caught, switched,
                     overrun>>
  PROVE  Traces!IInv'
<1>1. Traces!TypeOK /\ Traces!ToldNow /\ Deep /\ Sound
  BY TraceInvariant
<1>2. Traces!TypeOK'
  BY <1>1 DEF Traces!TypeOK
<1>3. Traces!ToldNow' /\ Sound'
  BY <1>1 DEF Traces!ToldNow, Sound
<1>4. Deep'
  <2> SUFFICES ASSUME ~retraced', NEW i \in 1 .. TRACEMAX
               PROVE  /\ TraceDepth'[i] >= Counts(active, i)
                      /\ ~caught => TraceDepth'[i] = Counts(active, i)
    BY DEF Deep
  <2>1. /\ TraceDepth[i] >= Counts(active, i)
        /\ ~caught => TraceDepth[i] = Counts(active, i)
    BY <1>1 DEF Deep
  <2>2. CASE TraceDepth'[i] = TraceDepth[i]
    BY <2>1, <2>2
  <2>3. CASE TraceDepth'[i] = 0 /\ Counts(active, i) = 0
    BY <2>3
  <2>4. QED
    BY <2>2, <2>3
<1>5. QED
  BY <1>2, <1>3, <1>4, TraceInvariant

LEMMA TraceFormStep ==
  ASSUME Traces!IInv, NEW name \in Function, Traces!trace(name) \/ Traces!untrace(name)
  PROVE  Traces!IInv'
<1> DEFINE i == IF Traces!trace(name) THEN Traces!tracing(NoName) ELSE Traces!tracing(name)
           new == IF Traces!trace(name) THEN name ELSE NoName
<1>1. /\ TraceFn \in [1 .. TRACEMAX -> Function \union {NoName}]
      /\ TraceDepth \in [1 .. TRACEMAX -> 0 .. Modulus - 1] /\ retraced \in BOOLEAN
      /\ active \in Seq(CallFrame)
  BY TracesTyped, TraceInvariant
<1>2. \A j : Traces!Active(j) = Counts(active, j) /\ Counts(active, j) \in Nat
  <2>1. \A j : Counts(active, j) \in Nat
    BY <1>1, WaitingShape
  <2>2. QED
    BY <2>1, TracesCount, Zenon DEF Traces!Active, Counts
<1>3. /\ i \in 1 .. TRACEMAX /\ new \in Function \union {NoName} /\ Traces!Changed(i, new)
      /\ TraceDepth' = IF Traces!trace(name) THEN [TraceDepth EXCEPT ![i] = 0] ELSE TraceDepth
  BY TracingSlot, Zenon DEF Traces!trace, Traces!untrace
<1> HIDE DEF i, new
<1>4. /\ TraceFn' = [TraceFn EXCEPT ![i] = new]
      /\ retraced' = (retraced \/ Traces!Active(i) > 0)
      /\ UNCHANGED <<Backtrace, TraceStart, TraceTop, BACKTRACE, active, missed, caught, switched,
                     overrun>>
  BY <1>3 DEF Traces!Changed, Traces!ring
<1>5. TraceFn' \in [1 .. TRACEMAX -> Function \union {NoName}]
  BY <1>1, <1>3, <1>4
<1>6. TraceDepth' \in [1 .. TRACEMAX -> 0 .. Modulus - 1]
  <2>1. 0 \in 0 .. Modulus - 1
    BY TraceSizes
  <2>2. QED
    BY <1>1, <1>3, <2>1
<1>7. ASSUME ~retraced'
      PROVE  /\ ~retraced
             /\ \A j \in 1 .. TRACEMAX : \/ TraceDepth'[j] = TraceDepth[j]
                                         \/ TraceDepth'[j] = 0 /\ Counts(active, j) = 0
  <2>1. ~retraced /\ ~(Traces!Active(i) > 0)
    BY <1>4, <1>7, Zenon
  <2>2. Counts(active, i) = 0
    BY <1>2, <2>1
  <2>3. QED
    BY <1>1, <1>3, <2>1, <2>2
<1>8. retraced' \in BOOLEAN
  BY <1>4, Zenon
<1>9. QED
  BY <1>4, <1>5, <1>6, <1>7, <1>8, RetracedStep

LEMMA UntraceAllStep == Traces!IInv /\ Traces!untraceAll => Traces!IInv'
<1> SUFFICES ASSUME Traces!IInv, Traces!untraceAll PROVE Traces!IInv'
  OBVIOUS
<1>1. /\ TraceFn' = [i \in 1 .. TRACEMAX |-> NoName] /\ TraceDepth' = TraceDepth
      /\ retraced' = (retraced \/ \E i \in 1 .. TRACEMAX : Traces!Active(i) > 0)
      /\ UNCHANGED <<Backtrace, TraceStart, TraceTop, BACKTRACE, active, missed, caught, switched,
                     overrun>>
  BY DEF Traces!untraceAll, Traces!ring
<1>2. TraceDepth \in [1 .. TRACEMAX -> 0 .. Modulus - 1]
  BY TracesTyped, TraceInvariant
<1>3. TraceFn' \in [1 .. TRACEMAX -> Function \union {NoName}]
  BY <1>1
<1>4. retraced' \in BOOLEAN /\ (~retraced' => ~retraced)
  BY <1>1, Zenon
<1>5. QED
  BY <1>1, <1>2, <1>3, <1>4, RetracedStep

\* With the flag changed where no call waits, all those there are were told what it says:
\* there are none.
LEMMA BacktraceStep == Traces!IInv /\ Traces!fn_backtrace => Traces!IInv'
<1> SUFFICES ASSUME Traces!IInv, Traces!fn_backtrace PROVE Traces!IInv'
  OBVIOUS
<1>1. Traces!TypeOK /\ Traces!ToldNow /\ Deep /\ Sound
  BY TraceInvariant
<1>2. /\ BACKTRACE' \in BOOLEAN
      /\ switched' = (switched \/ \E k \in DOMAIN active : active[k].name # NoName)
      /\ UNCHANGED <<TraceFn, TraceDepth, Backtrace, TraceStart, TraceTop, active, missed, caught,
                     retraced, overrun>>
  BY DEF Traces!fn_backtrace, Traces!traced, Traces!ring
<1>3. switched' \in BOOLEAN
  BY <1>2, Zenon
<1>4. Traces!TypeOK'
  BY <1>1, <1>2, <1>3 DEF Traces!TypeOK
<1>5. Traces!ToldNow'
  BY <1>1, <1>2, Zenon DEF Traces!ToldNow
<1>6. Deep' /\ Sound'
  BY <1>1, <1>2, Zenon DEF Deep, Sound
<1>7. QED
  BY <1>4, <1>5, <1>6, TraceInvariant

LEMMA TracesInit == Traces!Init => Traces!IInv
<1> SUFFICES ASSUME Traces!Init PROVE Traces!IInv
  OBVIOUS
<1>1. /\ TraceFn = [i \in 1 .. TRACEMAX |-> NoName] /\ TraceDepth = [i \in 1 .. TRACEMAX |-> 0]
      /\ Backtrace = [i \in 0 .. BACKTRACESIZE - 1 |-> NoName] /\ TraceStart = 0 /\ TraceTop = 0
      /\ BACKTRACE = FALSE /\ active = <<>> /\ missed = 0
      /\ caught = FALSE /\ retraced = FALSE /\ switched = FALSE /\ overrun = FALSE
  BY DEF Traces!Init
<1>2. Traces!TypeOK
  <2>1. active \in Seq(Traces!Frame) /\ DOMAIN active = {}
    BY <1>1
  <2>2. 0 \in 0 .. Modulus - 1 /\ 0 \in 0 .. BACKTRACESIZE - 1
    BY TraceSizes
  <2>3. QED
    BY <1>1, <2>1, <2>2 DEF Traces!TypeOK
<1>3. Traces!ToldNow
  BY <1>1, NoneWaiting, Zenon DEF Traces!ToldNow
<1>4. Deep
  BY <1>1, NoneWaiting DEF Deep
<1>5. Sound
  BY <1>1, NoneWaiting, Zenon DEF Sound
<1>6. QED
  BY <1>2, <1>3, <1>4, <1>5, TraceInvariant

LEMMA TracesNext == Traces!IInv /\ Traces!Next => Traces!IInv'
<1> SUFFICES ASSUME Traces!IInv, Traces!Next PROVE Traces!IInv'
  OBVIOUS
<1>1. CASE Traces!Error
  BY <1>1, TraceErrorStep
<1>2. CASE Traces!ignoreerrors
  BY <1>2, IgnoreErrorsStep
<1>3. CASE Traces!Return
  BY <1>3, TraceReturnStep
<1>4. ASSUME NEW name \in Function, Traces!Call(name) PROVE Traces!IInv'
  BY <1>4, TraceCallStep
<1>5. ASSUME NEW name \in Function, Traces!CallFails(name) PROVE Traces!IInv'
  BY <1>5, CallFailsStep
<1>6. ASSUME NEW name \in Function, Traces!trace(name) \/ Traces!untrace(name) PROVE Traces!IInv'
  BY <1>6, TraceFormStep
<1>7. CASE Traces!untraceAll
  BY <1>7, UntraceAllStep
<1>8. CASE Traces!fn_backtrace
  BY <1>8, BacktraceStep
<1>9. QED
  BY <1>1, <1>2, <1>3, <1>4, <1>5, <1>6, <1>7, <1>8, Zenon DEF Traces!Next

LEMMA TracesStutter == Traces!IInv /\ UNCHANGED traces => Traces!IInv'
<1> SUFFICES ASSUME Traces!IInv, UNCHANGED traces PROVE Traces!IInv'
  OBVIOUS
<1>1. Traces!TypeOK /\ Traces!ToldNow /\ Deep /\ Sound
  BY TraceInvariant
<1>2. UNCHANGED <<TraceFn, TraceDepth, Backtrace, TraceStart, TraceTop, BACKTRACE, active,
                  missed, caught, retraced, switched, overrun>>
  BY DEF traces
<1>3. Traces!TypeOK'
  BY <1>1, <1>2 DEF Traces!TypeOK
<1>4. Traces!ToldNow'
  BY <1>1, <1>2 DEF Traces!ToldNow
<1>5. Deep' /\ Sound'
  BY <1>1, <1>2, Zenon DEF Deep, Sound
<1>6. QED
  BY <1>3, <1>4, <1>5, TraceInvariant

\* What trace and backtrace keep tells the truth: a traced call is printed with as many
\* calls of that function around it as its depth says, never fewer counted than there are,
\* and an error message names the calls under way in their order, but for as many of the
\* outermost ones as the ring had no place for (apply and eval, ulisp_eval.cpp;
\* ulisp_runtime_symbols.cpp; printbacktrace, ulisp_error.cpp).  For any number of slots,
\* any size of the ring and any depth of calls that the counters can count.
THEOREM TracesAreTold == PartSpec => []TracesTell
<1>1. PartInit => Traces!IInv
  BY TracesInit DEF PartInit
<1>2. Traces!IInv /\ [PartNext]_partvars => Traces!IInv'
  <2> SUFFICES ASSUME Traces!IInv, [PartNext]_partvars PROVE Traces!IInv'
    OBVIOUS
  <2>1. Traces!Next \/ UNCHANGED traces
    BY DEF PartNext, partvars
  <2>2. QED
    BY <2>1, TracesNext, TracesStutter
<1>3. Traces!IInv => TracesTell
  BY DEF Traces!IInv, TracesTell
<1>4. QED
  BY <1>1, <1>2, <1>3, PTL DEF PartSpec
=============================================================================
