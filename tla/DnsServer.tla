----------------------------- MODULE DnsServer -----------------------------
(***************************************************************************)
(* The DNS server of the access point (src/dnsserver.c): it answers every  *)
(* query with the access point's own address.  It keeps no state between   *)
(* queries; the scan of the name is modelled one turn of its loop at a     *)
(* time, with the sizes as constants.                                      *)
(***************************************************************************)
EXTENDS Integers, Sequences

CONSTANTS
  MAX_DNS_MSG_SIZE,  \* 300, the buffer
  Header,            \* sizeof(dns_header_t), 12
  MaxLabel,          \* 63
  MaxName,           \* 255
  Trailer,           \* 4: what follows the name in a question
  Answer,            \* 16: the record appended
  Byte               \* the bytes a name is made of

DnsAssumption ==
  /\ {MAX_DNS_MSG_SIZE, Header, MaxLabel, MaxName, Trailer, Answer} \subseteq Nat
  /\ Byte \subseteq Nat /\ 0 \in Byte
  /\ Header + MaxName + Trailer + Answer <= MAX_DNS_MSG_SIZE

VARIABLES
  at,            \* "idle", "scan" in the loop over the labels, "done"
  query,         \* [QR, OPCODE, QDCOUNT: whether they are those of a query; body]
  question_ptr,  \* an index into dns_msg
  reply          \* the last reply: [len, kept: how much of the body it repeats]

vars == <<at, query, question_ptr, reply>>

Body == UNION {[1 .. n -> Byte] : n \in 0 .. MAX_DNS_MSG_SIZE - Header}
Query == [asks : BOOLEAN, body : Body]
NoReply == [len |-> 0, kept |-> 0]

\* msg_len, and dns_msg[i]
MsgLen == Header + Len(query.body)
dns_msg(i) == query.body[i - Header + 1]

TypeOK ==
  /\ at \in {"idle", "scan", "done"} /\ query.asks \in BOOLEAN
  /\ query.body \in Seq(Byte) /\ MsgLen <= MAX_DNS_MSG_SIZE
  /\ question_ptr \in Nat /\ reply \in [len : Nat, kept : Nat]

NoQuery == [asks |-> FALSE, body |-> << >>]

Init == at = "idle" /\ query = NoQuery /\ question_ptr = Header /\ reply = NoReply

\* A message of at least a header arrives; what does not fit was cut off.  A response,
\* an operation other than a standard query, and no question at all are ignored.
Receive ==
  /\ at = "idle" /\ query' \in Query /\ UNCHANGED <<question_ptr, reply>>
  /\ at' = IF query'.asks THEN "scan" ELSE "done"

Ignore == at' = "done" /\ UNCHANGED <<question_ptr, reply>>

\* The name ends before p: the type and the class are skipped unseen, and the answer
\* is written there.  Counts of one question and one answer end the message with it.
SendReply(p) ==
  /\ at' = "done"
  /\ IF p - Header > MaxName
     THEN UNCHANGED <<question_ptr, reply>>
     ELSE /\ question_ptr' = p + Trailer
          /\ reply' = [len |-> p + Trailer + Answer, kept |-> p + Trailer - Header]

\* Mutant: the length byte is not counted.
Scan_LengthOnly ==
  /\ at = "scan" /\ UNCHANGED query
  /\ \/ question_ptr >= MsgLen /\ SendReply(question_ptr)
     \/ question_ptr < MsgLen /\ dns_msg(question_ptr) = 0 /\ SendReply(question_ptr + 1)
     \/ question_ptr < MsgLen /\ dns_msg(question_ptr) > MaxLabel /\ Ignore
     \/ /\ question_ptr < MsgLen /\ dns_msg(question_ptr) \in 1 .. MaxLabel
        /\ question_ptr' = question_ptr + dns_msg(question_ptr)
        /\ UNCHANGED <<at, reply>>

Scan ==
  /\ at = "scan" /\ UNCHANGED query
  /\ \/ question_ptr >= MsgLen /\ SendReply(question_ptr)
     \/ question_ptr < MsgLen /\ dns_msg(question_ptr) = 0 /\ SendReply(question_ptr + 1)
     \/ question_ptr < MsgLen /\ dns_msg(question_ptr) > MaxLabel /\ Ignore
     \/ /\ question_ptr < MsgLen /\ dns_msg(question_ptr) \in 1 .. MaxLabel
        /\ question_ptr' = question_ptr + 1 + dns_msg(question_ptr)
        /\ UNCHANGED <<at, reply>>

\* The callback returns: nothing is kept.
Return ==
  /\ at = "done" /\ at' = "idle"
  /\ query' = NoQuery /\ question_ptr' = Header /\ reply' = NoReply

Next == Receive \/ Scan \/ Return

Spec == Init /\ [][Next]_vars

-----------------------------------------------------------------------------
(* Properties.                                                             *)

\* Nothing is written past the buffer, whatever lengths the labels claim.
AnswerFits == reply.len <= MAX_DNS_MSG_SIZE

\* A name in body b, from its first byte to the zero at n: places has the length bytes
\* of its labels.
IsName(b, places, n) ==
  /\ {1, n} \subseteq places /\ b[n] = 0
  /\ \A i \in places \ {n} : b[i] \in 1 .. MaxLabel /\ i + 1 + b[i] \in places

\* A query with a whole question is answered, right behind that question, unless its
\* name is longer than names may be; what follows the question is dropped.
AnswersTheQuestion ==
  at = "done" /\ query.asks =>
    \A n \in 1 .. Len(query.body) :
      n <= MaxName /\ (\E places \in SUBSET (1 .. n) : IsName(query.body, places, n))
        => reply = [len |-> Header + n + Trailer + Answer, kept |-> n + Trailer]

-----------------------------------------------------------------------------
(* Why it does: an invariant of every step.                                *)

\* While a name is scanned, question_ptr is at one of its labels.
OnTheName ==
  at = "scan" =>
    \A n \in 1 .. Len(query.body) : \A places \in SUBSET (1 .. n) :
      IsName(query.body, places, n) => question_ptr - Header + 1 \in places

IInv == /\ TypeOK /\ AnswerFits /\ AnswersTheQuestion /\ OnTheName
        /\ at = "idle" => question_ptr = Header
        /\ question_ptr >= Header
=============================================================================
