---------------------------- MODULE ServicesProofs ----------------------------
(***************************************************************************)
(* Proofs about the network services of MCServices: what the DNS server,   *)
(* the station and the scan answer is as it is, and http-accept hands out  *)
(* whole requests, whatever the sizes, the sequences of tokens and the     *)
(* radio.  Each is an invariant of its own module's steps, taken together  *)
(* at the end.                                                             *)
(***************************************************************************)
EXTENDS MCServices, SequenceTheorems, FiniteSetTheorems, TLAPS

\* A sequence of one, and one more at an end of one.
LEMMA Short ==
  ASSUME NEW S
  PROVE  /\ << >> \in Seq(S) /\ Len(<< >>) = 0
         /\ \A x \in S : <<x>> \in Seq(S) /\ Len(<<x>>) = 1 /\ <<x>>[1] = x
OBVIOUS

LEMMA OneMore ==
  ASSUME NEW S, NEW s \in Seq(S), NEW x \in S
  PROVE  /\ Append(s, x) \in Seq(S) /\ Len(Append(s, x)) = Len(s) + 1
         /\ DOMAIN Append(s, x) = 1 .. Len(s) + 1 /\ DOMAIN s = 1 .. Len(s) /\ Len(s) \in Nat
         /\ \A i \in 1 .. Len(s) : Append(s, x)[i] = s[i]
         /\ Append(s, x)[Len(s) + 1] = x
BY AppendProperties, LenProperties

LEMMA OneBefore ==
  ASSUME NEW S, NEW s \in Seq(S), NEW x \in S
  PROVE  /\ <<x>> \o s \in Seq(S) /\ Len(<<x>> \o s) = Len(s) + 1 /\ Len(s) \in Nat
         /\ DOMAIN (<<x>> \o s) = 1 .. Len(s) + 1 /\ DOMAIN s = 1 .. Len(s)
         /\ (<<x>> \o s)[1] = x
         /\ \A i \in 1 .. Len(s) : (<<x>> \o s)[i + 1] = s[i]
<1> DEFINE one == <<x>>
           both == one \o s
<1>1. one \in Seq(S) /\ Len(one) = 1 /\ one[1] = x
  BY Short
<1> HIDE DEF one
<1>2. Len(s) \in Nat /\ DOMAIN s = 1 .. Len(s)
  BY LenProperties
<1>3. /\ both \in Seq(S) /\ Len(both) = Len(one) + Len(s)
      /\ \A i \in 1 .. Len(one) + Len(s) :
           both[i] = IF i <= Len(one) THEN one[i] ELSE s[i - Len(one)]
  BY <1>1, ConcatProperties, Zenon
<1> HIDE DEF both
<1>4. DOMAIN both = 1 .. Len(both)
  BY <1>3, LenProperties
<1>5. both[1] = x
  BY <1>1, <1>2, <1>3
<1>6. \A i \in 1 .. Len(s) : both[i + 1] = s[i]
  <2> SUFFICES ASSUME NEW i \in 1 .. Len(s) PROVE both[i + 1] = s[i]
    OBVIOUS
  <2>1. i + 1 \in 1 .. 1 + Len(s) /\ ~(i + 1 <= 1) /\ i + 1 - 1 = i
    BY <1>2
  <2> QED  BY <2>1, <1>1, <1>3
<1> QED  BY <1>1, <1>2, <1>3, <1>4, <1>5, <1>6 DEF one, both

-----------------------------------------------------------------------------
(* The DNS server.                                                         *)

LEMMA DnsSizes ==
  ASSUME Dns!DnsAssumption
  PROVE  /\ MAX_DNS_MSG_SIZE \in Nat /\ Header \in Nat /\ MaxLabel \in Nat /\ MaxName \in Nat
         /\ Trailer \in Nat /\ Answer \in Nat /\ 0 \in Byte /\ \A c \in Byte : c \in Nat
         /\ Header + MaxName + Trailer + Answer <= MAX_DNS_MSG_SIZE
BY DEF Dns!DnsAssumption

LEMMA DnsStarts == Dns!DnsAssumption /\ Dns!Init => Dns!IInv
<1> SUFFICES ASSUME Dns!DnsAssumption, Dns!Init PROVE Dns!IInv
  OBVIOUS
<1>1. Dns!TypeOK
  BY EmptySeq DEF Dns!DnsAssumption, Dns!Init, Dns!TypeOK, Dns!NoQuery, Dns!NoReply, Dns!MsgLen
<1>2. Dns!AnswerFits /\ Dns!AnswersTheQuestion /\ Dns!OnTheName
  BY DEF Dns!DnsAssumption, Dns!Init, Dns!AnswerFits, Dns!AnswersTheQuestion, Dns!OnTheName,
     Dns!NoQuery, Dns!NoReply
<1> QED  BY <1>1, <1>2, DnsSizes DEF Dns!IInv, Dns!Init

\* What arrives is a sequence of bytes that fits the buffer.
LEMMA DnsQueries ==
  ASSUME Dns!DnsAssumption, NEW q \in Dns!Query
  PROVE  q.asks \in BOOLEAN /\ q.body \in Seq(Byte) /\ Header + Len(q.body) <= MAX_DNS_MSG_SIZE
<1>1. PICK n \in 0 .. MAX_DNS_MSG_SIZE - Header : q.body \in [1 .. n -> Byte]
  BY DEF Dns!Query, Dns!Body
<1>2. n \in Nat /\ Header + n <= MAX_DNS_MSG_SIZE
  BY DnsSizes
<1>3. q.body \in Seq(Byte)
  BY <1>1, <1>2, SeqDef
<1>4. Len(q.body) = n
  BY <1>1, <1>2, <1>3, LenProperties
<1> QED  BY <1>2, <1>3, <1>4 DEF Dns!Query

\* Where the scan is when a name is whole: at one of its labels, or at its end.
LEMMA DnsAtLabel ==
  ASSUME Dns!DnsAssumption, Dns!IInv, at = "scan",
         NEW n \in 1 .. Len(query.body), NEW places \in SUBSET (1 .. n),
         Dns!IsName(query.body, places, n)
  PROVE  /\ question_ptr < Dns!MsgLen
         /\ Dns!dns_msg(question_ptr) = 0 <=> question_ptr - Header + 1 = n
         /\ Dns!dns_msg(question_ptr) # 0 =>
              /\ Dns!dns_msg(question_ptr) \in 1 .. MaxLabel
              /\ question_ptr + 1 + Dns!dns_msg(question_ptr) - Header + 1 \in places
<1> DEFINE i == question_ptr - Header + 1
<1>1. i \in places /\ i \in 1 .. n
  BY Zenon DEF Dns!IInv, Dns!OnTheName
<1>2. question_ptr \in Nat /\ Header \in Nat /\ query.body \in Seq(Byte) /\ MaxLabel \in Nat
      /\ \A c \in Byte : c \in Nat
  BY DnsSizes DEF Dns!IInv, Dns!TypeOK
<1>3. query.body[i] \in Nat /\ Len(query.body) \in Nat
  <2>1. Len(query.body) \in Nat /\ i \in 1 .. Len(query.body)
    BY <1>1, <1>2, LenProperties
  <2> HIDE DEF i
  <2>2. query.body[i] \in Byte
    BY <1>2, <2>1, ElementOfSeq
  <2> QED  BY <1>2, <2>1, <2>2, Zenon DEF i
<1>4. Dns!dns_msg(question_ptr) = query.body[i]
  BY DEF Dns!dns_msg
<1>5. query.body[n] = 0
      /\ \A k \in places \ {n} : query.body[k] \in 1 .. MaxLabel /\ k + 1 + query.body[k] \in places
  BY DEF Dns!IsName
<1>6. question_ptr < Dns!MsgLen
  BY <1>1, <1>2, <1>3 DEF Dns!MsgLen
<1>7. CASE i = n
  BY <1>7, <1>4, <1>5, <1>6
<1>8. CASE i # n
  <2>1. query.body[i] \in 1 .. MaxLabel /\ i + 1 + query.body[i] \in places
    BY <1>8, <1>1, <1>5
  <2>2. question_ptr + 1 + query.body[i] - Header + 1 = i + 1 + query.body[i]
    <3> DEFINE c == query.body[i]
    <3>1. c \in Nat /\ i = question_ptr - Header + 1
      BY <1>3
    <3> HIDE DEF c, i
    <3>2. question_ptr + 1 + c - Header + 1 = i + 1 + c
      BY <1>2, <3>1
    <3> QED  BY <3>2 DEF c
  <2>3. query.body[i] # 0
    BY <2>1, <1>2
  <2> HIDE DEF i
  <2> QED  BY <2>1, <2>2, <2>3, <1>4, <1>6, <1>8 DEF i
<1> QED  BY <1>7, <1>8

LEMMA DnsSteps ==
  ASSUME Dns!DnsAssumption, Dns!IInv, Dns!Next PROVE Dns!IInv'
<1>9. /\ MAX_DNS_MSG_SIZE \in Nat /\ Header \in Nat /\ MaxLabel \in Nat /\ MaxName \in Nat
      /\ Trailer \in Nat /\ Answer \in Nat
      /\ Header + MaxName + Trailer + Answer <= MAX_DNS_MSG_SIZE
  BY DnsSizes
<1>0. Dns!TypeOK /\ Dns!AnswerFits /\ Dns!AnswersTheQuestion /\ Dns!OnTheName
      /\ (at = "idle" => question_ptr = Header) /\ question_ptr \in Nat /\ question_ptr >= Header
  BY DEF Dns!IInv, Dns!TypeOK
<1>1. CASE Dns!Receive
  <2>1. query'.asks \in BOOLEAN /\ query'.body \in Seq(Byte)
        /\ Header + Len(query'.body) <= MAX_DNS_MSG_SIZE
    BY <1>1, DnsQueries DEF Dns!Receive
  <2>2. at' \in {"scan", "done"} /\ (query'.asks <=> at' = "scan") /\ question_ptr' = Header
        /\ reply' = reply
    BY <1>1, <1>0, <2>1, Zenon DEF Dns!Receive
  <2>3. Dns!TypeOK'
    BY <2>1, <2>2, <1>0, <1>9 DEF Dns!TypeOK, Dns!MsgLen
  <2>4. Dns!AnswerFits' /\ Dns!AnswersTheQuestion'
    BY <2>2, <1>0 DEF Dns!AnswerFits, Dns!AnswersTheQuestion
  <2>5. Dns!OnTheName'
    <3>1. question_ptr' - Header + 1 = 1
      BY <2>2, <1>9
    <3> QED  BY <3>1, Zenon DEF Dns!OnTheName, Dns!IsName
  <2> QED  BY <2>2, <2>3, <2>4, <2>5, <1>9 DEF Dns!IInv
<1>2. CASE Dns!Scan
  <2> DEFINE Whole(n, places) == Dns!IsName(query.body, places, n)
  <2>0. query' = query /\ at = "scan"
    BY <1>2 DEF Dns!Scan
  <2>1. ASSUME NEW p \in Nat, p = question_ptr \/ p = question_ptr + 1, Dns!SendReply(p),
               p >= Header,
               \A n \in 1 .. Len(query.body) : \A places \in SUBSET (1 .. n) :
                 Whole(n, places) => p - Header = n
        PROVE  Dns!IInv'
    <3> HIDE DEF Whole
    <3>1. CASE p - Header > MaxName
      <4>1. at' = "done" /\ question_ptr' = question_ptr /\ reply' = reply
        BY <2>1, <3>1 DEF Dns!SendReply
      <4>2. \A n \in 1 .. Len(query.body) : n <= MaxName =>
              ~ \E places \in SUBSET (1 .. n) : Whole(n, places)
        <5> SUFFICES ASSUME NEW n \in 1 .. Len(query.body), n <= MaxName,
                            NEW places \in SUBSET (1 .. n), Whole(n, places)
                     PROVE  FALSE
          OBVIOUS
        <5>1. p - Header = n
          BY <2>1
        <5> QED  BY <5>1, <3>1, <1>9
      <4>3. Dns!AnswersTheQuestion'
        BY <4>2, <2>0 DEF Dns!AnswersTheQuestion, Whole
      <4>4. Dns!TypeOK' /\ Dns!AnswerFits' /\ Dns!OnTheName'
        BY <4>1, <2>0, <1>0 DEF Dns!TypeOK, Dns!AnswerFits, Dns!OnTheName, Dns!MsgLen
      <4> QED  BY <4>1, <4>3, <4>4, <1>0 DEF Dns!IInv
    <3>2. CASE ~ (p - Header > MaxName)
      <4>1. at' = "done" /\ question_ptr' = p + Trailer
            /\ reply' = [len |-> p + Trailer + Answer, kept |-> p + Trailer - Header]
        BY <2>1, <3>2 DEF Dns!SendReply
      <4>2. \A n \in 1 .. Len(query.body) :
              (\E places \in SUBSET (1 .. n) : Whole(n, places)) =>
                reply' = [len |-> Header + n + Trailer + Answer, kept |-> n + Trailer]
        <5> SUFFICES ASSUME NEW n \in 1 .. Len(query.body),
                            \E places \in SUBSET (1 .. n) : Whole(n, places)
                     PROVE  reply' = [len |-> Header + n + Trailer + Answer,
                                      kept |-> n + Trailer]
          OBVIOUS
        <5>1. p - Header = n
          BY <2>1
        <5>2. p = Header + n
          BY <5>1, <2>1, <1>9
        <5>3. p + Trailer + Answer = Header + n + Trailer + Answer
              /\ p + Trailer - Header = n + Trailer
          BY <5>2, <1>9
        <5> QED  BY <4>1, <5>3
      <4>3. Dns!AnswersTheQuestion'
        BY <4>2, <2>0 DEF Dns!AnswersTheQuestion, Whole
      <4>4. Dns!AnswerFits'
        BY <4>1, <3>2, <2>1, <1>9 DEF Dns!AnswerFits
      <4>5. p + Trailer \in Nat /\ p + Trailer + Answer \in Nat /\ p + Trailer - Header \in Nat
        BY <2>1, <1>9
      <4>6. Dns!TypeOK' /\ Dns!OnTheName'
        BY <4>1, <4>5, <2>0, <1>0 DEF Dns!TypeOK, Dns!OnTheName, Dns!MsgLen
      <4>7. question_ptr' >= Header
        BY <4>1, <2>1, <1>9
      <4> QED  BY <4>1, <4>3, <4>4, <4>6, <4>7 DEF Dns!IInv
    <3> QED  BY <3>1, <3>2
  <2>2. question_ptr \in Nat /\ Dns!MsgLen \in Int
    BY <1>0, <1>9 DEF Dns!TypeOK, Dns!MsgLen
  <2>3. question_ptr >= Header
    BY <2>0 DEF Dns!IInv
  <2>4. CASE question_ptr >= Dns!MsgLen /\ Dns!SendReply(question_ptr)
    <3>1. ASSUME NEW n \in 1 .. Len(query.body), NEW places \in SUBSET (1 .. n), Whole(n, places)
          PROVE  FALSE
      BY <2>0, <2>2, <2>4, <3>1, DnsAtLabel
    <3> HIDE DEF Whole
    <3> QED  BY <2>1, <2>2, <2>3, <2>4, <3>1
  <2>5. CASE /\ question_ptr < Dns!MsgLen /\ Dns!dns_msg(question_ptr) = 0
             /\ Dns!SendReply(question_ptr + 1)
    <3>1. ASSUME NEW n \in 1 .. Len(query.body), NEW places \in SUBSET (1 .. n), Whole(n, places)
          PROVE  question_ptr + 1 - Header = n
      <4>1. question_ptr - Header + 1 = n
        BY <2>0, <2>5, <3>1, DnsAtLabel
      <4> QED  BY <4>1, <2>2, <1>9
    <3> HIDE DEF Whole
    <3> DEFINE p == question_ptr + 1
    <3>2. p \in Nat /\ p >= Header
      BY <2>2, <2>3, <1>9
    <3>3. \A n \in 1 .. Len(query.body) : \A places \in SUBSET (1 .. n) :
            Whole(n, places) => p - Header = n
      BY <3>1, <2>2, <1>9
    <3>4. p = question_ptr + 1 /\ Dns!SendReply(p)
      BY <2>5
    <3> HIDE DEF p
    <3> QED  BY <2>1, <3>2, <3>3, <3>4
  <2>6. CASE /\ question_ptr < Dns!MsgLen /\ Dns!dns_msg(question_ptr) > MaxLabel
             /\ Dns!Ignore
    <3>1. ASSUME NEW n \in 1 .. Len(query.body), NEW places \in SUBSET (1 .. n), Whole(n, places)
          PROVE  FALSE
      <4>1. Dns!dns_msg(question_ptr) # 0
        BY <2>6, <1>9
      <4>2. Dns!dns_msg(question_ptr) \in 1 .. MaxLabel
        BY <2>0, <3>1, <4>1, DnsAtLabel
      <4> QED  BY <4>2, <2>6, <1>9
    <3>2. at' = "done" /\ question_ptr' = question_ptr /\ reply' = reply
      BY <2>6 DEF Dns!Ignore
    <3>3. Dns!AnswersTheQuestion'
      BY <3>1, <2>0 DEF Dns!AnswersTheQuestion
    <3>4. Dns!TypeOK' /\ Dns!AnswerFits' /\ Dns!OnTheName'
      BY <3>2, <2>0, <1>0 DEF Dns!TypeOK, Dns!AnswerFits, Dns!OnTheName, Dns!MsgLen
    <3> QED  BY <3>2, <3>3, <3>4, <1>0 DEF Dns!IInv
  <2>7. CASE /\ question_ptr < Dns!MsgLen /\ Dns!dns_msg(question_ptr) \in 1 .. MaxLabel
             /\ question_ptr' = question_ptr + 1 + Dns!dns_msg(question_ptr)
             /\ UNCHANGED <<at, reply>>
    <3>1. ASSUME NEW n \in 1 .. Len(query.body), NEW places \in SUBSET (1 .. n), Whole(n, places)
          PROVE  question_ptr' - Header + 1 \in places
      <4>1. Dns!dns_msg(question_ptr) # 0
        BY <2>7, <1>9
      <4>2. question_ptr + 1 + Dns!dns_msg(question_ptr) - Header + 1 \in places
        BY <2>0, <3>1, <4>1, DnsAtLabel
      <4> DEFINE e == question_ptr + 1 + Dns!dns_msg(question_ptr)
      <4>3. question_ptr + 1 + Dns!dns_msg(question_ptr) - Header + 1 = e - Header + 1
        BY <2>2, <2>7, <1>9
      <4>4. question_ptr' = e
        BY <2>7, Zenon
      <4> HIDE DEF e
      <4> QED  BY <4>2, <4>3, <4>4
    <3>2. Dns!OnTheName'
      BY <3>1, <2>0 DEF Dns!OnTheName
    <3>3. question_ptr' \in Nat /\ question_ptr' >= Header
      BY <2>2, <2>3, <2>7, <1>9
    <3>4. Dns!TypeOK' /\ Dns!AnswerFits' /\ Dns!AnswersTheQuestion'
      BY <3>3, <2>7, <2>0, <1>0
         DEF Dns!TypeOK, Dns!AnswerFits, Dns!AnswersTheQuestion, Dns!MsgLen
    <3> QED  BY <3>2, <3>3, <3>4, <2>0, <2>7 DEF Dns!IInv
  <2> QED  BY <1>2, <2>4, <2>5, <2>6, <2>7 DEF Dns!Scan
<1>3. CASE Dns!Return
  <2>1. Dns!TypeOK'
    BY <1>3, <1>9, EmptySeq DEF Dns!Return, Dns!TypeOK, Dns!NoQuery, Dns!NoReply, Dns!MsgLen
  <2> QED
    BY <1>3, <1>9, <2>1 DEF Dns!Return, Dns!IInv, Dns!AnswerFits, Dns!AnswersTheQuestion,
       Dns!OnTheName, Dns!NoQuery, Dns!NoReply
<1> QED  BY <1>1, <1>2, <1>3 DEF Dns!Next

-----------------------------------------------------------------------------
(* The station.                                                            *)

\* The statuses, by number.
LEMMA LinkNumbers ==
  /\ Joining!CYW43_LINK_DOWN = 0 /\ Joining!CYW43_LINK_JOIN = 1 /\ Joining!CYW43_LINK_NOIP = 2
  /\ Joining!CYW43_LINK_UP = 3 /\ Joining!CYW43_LINK_FAIL = -1
  /\ Joining!CYW43_LINK_NONET = -2 /\ Joining!CYW43_LINK_BADAUTH = -3
  /\ Joining!Links = {0, 1, -1, -2, -3}
  /\ \A l \in Joining!Links : l \in -3 .. 3
BY DEF Joining!CYW43_LINK_DOWN, Joining!CYW43_LINK_JOIN, Joining!CYW43_LINK_NOIP,
   Joining!CYW43_LINK_UP, Joining!CYW43_LINK_FAIL, Joining!CYW43_LINK_NONET,
   Joining!CYW43_LINK_BADAUTH, Joining!Links

\* What lwIP's status says of the link and the address.
LEMMA StatusTells ==
  ASSUME link \in Joining!Links
  PROVE  /\ Joining!TcpipStatus \in -3 .. 3
         /\ Joining!TcpipStatus = 3 <=> link = 1 /\ ip # Unset
         /\ Joining!TcpipStatus # 1
         /\ Joining!TcpipStatus \in {-3, -2} => link = Joining!TcpipStatus
         /\ link \notin {1} => Joining!TcpipStatus = link
         /\ Joining!DhcpState \in {0, 6, 9} /\ (Joining!DhcpState = 9 <=> ip # Unset)
BY LinkNumbers DEF Joining!TcpipStatus, Joining!DhcpState

\* The names that are asked for.
LEMMA StatusNames ==
  ASSUME NEW s \in -3 .. 3
  PROVE  /\ Joining!wifi_link_status_name(s) = "up" <=> s = 3
         /\ Joining!wifi_link_status_name(s) = "joined" <=> s = 1
<1>1. s \in {-3, -2, -1, 0, 1, 2, 3}
  OBVIOUS
<1> QED
  BY <1>1, LinkNumbers DEF Joining!wifi_link_status_name

LEMMA DhcpNames ==
  /\ Joining!wifi_dhcp_state_name(9) = "bound"
  /\ Joining!wifi_dhcp_state_name(0) # "bound" /\ Joining!wifi_dhcp_state_name(6) # "bound"
BY DEF Joining!wifi_dhcp_state_name

LEMMA ErrorNames ==
  /\ "connected but no ip" \notin {""} \union Joining!ArgumentErrors
  /\ "bad authentication" \notin {""} \union Joining!ArgumentErrors
  /\ "network not found" \notin {""} \union Joining!ArgumentErrors
  /\ "unable to connect" \notin {""} \union Joining!ArgumentErrors
  /\ "" \notin Joining!ArgumentErrors
  /\ Joining!Means("connected but no ip") = {1} /\ Joining!Means("bad authentication") = {-3}
  /\ Joining!Means("network not found") = {-2} /\ Joining!Means("unable to connect") = {0, -1}
BY LinkNumbers DEF Joining!Means, Joining!ArgumentErrors

LEMMA ReadableValues ==
  /\ \A l \in Joining!Links : l \in Joining!Readable
  /\ link \in Joining!Links =>
       Joining!TcpipStatus \in Joining!Readable /\ Joining!DhcpState \in Joining!Readable
  /\ ip \in Address \union {Unset} => ip \in Joining!Readable
<1>1. link \in Joining!Links =>
        Joining!TcpipStatus \in Joining!Readable /\ Joining!DhcpState \in Joining!Readable
  <2>1. \A k \in -3 .. 9 : k \in Joining!Readable
    BY DEF Joining!Readable
  <2> QED  BY <2>1, StatusTells
<1> QED  BY <1>1, LinkNumbers DEF Joining!Readable

LEMMA StationStarts == Joining!StationAssumption /\ Joining!Init => Joining!IInv
<1> SUFFICES ASSUME Joining!StationAssumption, Joining!Init PROVE Joining!IInv
  OBVIOUS
<1>1. link \in Joining!Links /\ call = Joining!AtPrompt /\ answer = Joining!NoAnswer
      /\ ip = Unset /\ WifiTraceEnabled = FALSE
  BY LinkNumbers DEF Joining!Init
<1>2. Joining!TypeOK
  <2>1. call = [at |-> "prompt", read |-> << >>, steady |-> TRUE] /\ answer.alist = nil
    BY <1>1, Zenon DEF Joining!AtPrompt, Joining!NoAnswer, Joining!Said
  <2>2. call \in [at : Joining!Point, read : Seq(Joining!Readable), steady : BOOLEAN]
        /\ Len(call.read) <= 4
    BY <2>1, Short DEF Joining!Point
  <2>3. WifiTraceEnabled \in BOOLEAN
    BY <1>1
  <2>4. link \in Joining!Links /\ ip \in Address \union {Unset}
    BY <1>1
  <2> QED  BY <2>1, <2>2, <2>3, <2>4, Zenon DEF Joining!TypeOK
<1>3. Joining!AnswersAsItIs /\ Joining!Learned /\ call.at # "debug"
  BY <1>1, Zenon DEF Joining!AnswersAsItIs, Joining!Learned, Joining!AtPrompt, Joining!NoAnswer,
     Joining!Said
<1>4. Joining!TracingEnds
  BY <1>1, Zenon DEF Joining!TracingEnds, Joining!AtPrompt, Joining!NoAnswer, Joining!Said
<1> QED  BY <1>2, <1>3, <1>4 DEF Joining!IInv

\* What the invariant says of a step that leaves the radio alone, once the call's new
\* point is not the prompt.
LEMMA StationSteps ==
  ASSUME Joining!StationAssumption, Joining!IInv, Joining!Next PROVE Joining!IInv'
<1>0. /\ Joining!TypeOK /\ Joining!AnswersAsItIs /\ Joining!TracingEnds /\ Joining!Learned
      /\ (call.at = "debug" => call.read # << >>)
  BY DEF Joining!IInv
<1>1. /\ link \in Joining!Links /\ ip \in Address \union {Unset}
      /\ call.at \in Joining!Point /\ call.steady \in BOOLEAN
      /\ call.read \in Seq(Joining!Readable) /\ Len(call.read) <= 4
      /\ call = [at |-> call.at, read |-> call.read, steady |-> call.steady]
      /\ (answer.of # "wifi-debug" => answer.alist = nil)
      /\ WifiTraceEnabled \in BOOLEAN
      /\ (call.at = "connecting" => WifiTraceEnabled)
      /\ (call.at \in {"connected", "failed", "not joined", "not refused"} => ~WifiTraceEnabled)
  <2>1. /\ (call.at = "connecting" => WifiTraceEnabled)
        /\ (call.at \in {"connected", "failed", "not joined", "not refused"} =>
              ~WifiTraceEnabled)
    BY <1>0, Zenon DEF Joining!TracingEnds
  <2>2. /\ link \in Joining!Links /\ ip \in Address \union {Unset}
        /\ call.at \in Joining!Point /\ call.steady \in BOOLEAN
        /\ call.read \in Seq(Joining!Readable) /\ Len(call.read) <= 4
        /\ call = [at |-> call.at, read |-> call.read, steady |-> call.steady]
        /\ (answer.of # "wifi-debug" => answer.alist = nil)
    BY <1>0 DEF Joining!TypeOK
  <2>3. WifiTraceEnabled \in BOOLEAN
    BY <1>0 DEF Joining!TypeOK
  <2> QED  BY <2>1, <2>2, <2>3, Zenon
<1>2. UNCHANGED <<link, ip>> =>
        Joining!TcpipStatus' = Joining!TcpipStatus /\ Joining!DhcpState' = Joining!DhcpState
  BY DEF Joining!TcpipStatus, Joining!DhcpState
<1>3. ASSUME link' \in Joining!Links, ip' \in Address \union {Unset},
             call' = [call EXCEPT !.steady = FALSE], answer' = Joining!Forgotten,
             UNCHANGED WifiTraceEnabled
      PROVE  Joining!IInv'
  <2>1. call' = [at |-> call.at, read |-> call.read, steady |-> FALSE]
    BY <1>1, <1>3, Zenon
  <2>2. answer'.of # "wifi-debug" => answer'.alist = nil
    BY <1>1, <1>3, Zenon DEF Joining!Forgotten, Joining!NoAnswer, Joining!Said
  <2>3. Joining!TypeOK'
    BY <1>1, <1>3, <2>1, <2>2, Zenon DEF Joining!TypeOK
  <2>4. call'.at = "prompt" => answer'.of = "nothing"
    BY <1>3, <2>1, Zenon DEF Joining!Forgotten, Joining!NoAnswer, Joining!Said
  <2>5. Joining!TracingEnds'
    BY <1>1, <1>3, <2>1, <2>4, Zenon DEF Joining!TracingEnds
  <2> QED
    BY <2>1, <2>3, <2>5, <1>0, Zenon DEF Joining!IInv, Joining!AnswersAsItIs, Joining!Learned
<1>4. CASE Joining!LinkChanges
  BY <1>1, <1>3, <1>4 DEF Joining!LinkChanges
<1>5. CASE Joining!AddressChanges
  BY <1>1, <1>3, <1>5 DEF Joining!AddressChanges
\* To the prompt.
<1>6. ASSUME link' \in Joining!Links, ip' \in Address \union {Unset},
             WifiTraceEnabled' \in BOOLEAN, NEW s \in BOOLEAN,
             call' = [at |-> "prompt", read |-> << >>, steady |-> s],
             answer'.of # "wifi-debug" => answer'.alist = nil,
             answer'.of = "wifi-connect" =>
               (WifiTraceEnabled' <=> answer'.error \in Joining!ArgumentErrors),
             Joining!AnswersAsItIs'
      PROVE  Joining!IInv'
  <2>1. call' \in [at : Joining!Point, read : Seq(Joining!Readable), steady : BOOLEAN]
        /\ Len(call'.read) <= 4
    BY <1>6, Short DEF Joining!Point
  <2>2. Joining!TypeOK'
    BY <1>6, <2>1, Zenon DEF Joining!TypeOK
  <2>3. Joining!TracingEnds'
    BY <1>6, Zenon DEF Joining!TracingEnds
  <2> QED
    BY <1>6, <2>2, <2>3, Zenon DEF Joining!IInv, Joining!Learned
<1>7. ASSUME NEW of, NEW value, of \notin {"wifi-connect", "wifi-debug"},
             of = "wifi-status" => value = Joining!TcpipStatus, Joining!Replies(of, value)
      PROVE  Joining!IInv'
  <2>1. call' = [at |-> "prompt", read |-> << >>, steady |-> TRUE]
        /\ UNCHANGED <<link, ip, WifiTraceEnabled>> /\ call.at = "prompt"
        /\ answer' = [of |-> of, error |-> "", value |-> value, alist |-> nil]
    BY <1>7, Zenon DEF Joining!Replies, Joining!AtPrompt, Joining!Said
  <2>2. Joining!AnswersAsItIs'
    BY <1>2, <1>7, <2>1, Zenon DEF Joining!AnswersAsItIs
  <2>3. answer'.of \notin {"wifi-connect", "wifi-debug"} /\ answer'.alist = nil
    BY <1>7, <2>1
  <2> QED
    BY <1>1, <1>6, <2>1, <2>2, <2>3, Zenon
<1>8. CASE Joining!fn_wifistatus
  BY <1>7, <1>8 DEF Joining!fn_wifistatus
<1>9. CASE Joining!fn_wifilocalip
  BY <1>7, <1>9 DEF Joining!fn_wifilocalip
<1>10. CASE Joining!Disconnect
  <2>1. call' = [at |-> "prompt", read |-> << >>, steady |-> TRUE]
        /\ WifiTraceEnabled' = WifiTraceEnabled
        /\ answer' = [of |-> "disconnect", error |-> "", value |-> nil, alist |-> nil]
        /\ link' \in Joining!Links /\ ip' \in Address \union {Unset}
    BY <1>1, <1>10, LinkNumbers, Zenon DEF Joining!Disconnect, Joining!AtPrompt, Joining!Said
  <2>2. Joining!AnswersAsItIs'
    BY <2>1, Zenon DEF Joining!AnswersAsItIs
  <2> QED
    BY <1>1, <1>6, <2>1, <2>2, Zenon
\* Within a call.
<1>11. ASSUME UNCHANGED <<link, ip>>, answer' = answer \/ answer' = Joining!NoAnswer,
              call'.at # "prompt", WifiTraceEnabled' \in BOOLEAN,
              call'.at = "connecting" => WifiTraceEnabled',
              call'.at \in {"connected", "failed", "not joined", "not refused"} =>
                ~WifiTraceEnabled',
              call' \in [at : Joining!Point, read : Seq(Joining!Readable),
                         steady : BOOLEAN],
              Len(call'.read) <= 4, call'.at = "debug" => call'.read # << >>,
              Joining!Learned'
       PROVE  Joining!IInv'
  <2>1. answer'.of # "wifi-debug" => answer'.alist = nil
    <3>1. CASE answer' = answer
      BY <1>1, <3>1
    <3>2. CASE answer' = Joining!NoAnswer
      BY <3>2, Zenon DEF Joining!NoAnswer, Joining!Said
    <3> QED  BY <1>11, <3>1, <3>2
  <2>2. Joining!TypeOK'
    BY <1>1, <1>11, <2>1 DEF Joining!TypeOK
  <2>3. Joining!TracingEnds'
    BY <1>11, Zenon DEF Joining!TracingEnds
  <2> QED
    BY <1>11, <2>2, <2>3, Zenon DEF Joining!IInv, Joining!AnswersAsItIs
<1>12. CASE Joining!fn_wificonnect
  <2>0. WifiTraceEnabled' = TRUE /\ UNCHANGED <<link, ip>>
    BY <1>12, Zenon DEF Joining!fn_wificonnect
  <2>1. CASE /\ call' = [at |-> "connecting", read |-> << >>, steady |-> TRUE]
             /\ answer' = Joining!NoAnswer
    <3>1. Joining!Learned'
      BY <2>1 DEF Joining!Learned
    <3>2. call' \in [at : Joining!Point, read : Seq(Joining!Readable), steady : BOOLEAN]
          /\ Len(call'.read) <= 4 /\ call'.at = "connecting"
      BY <2>1, Short DEF Joining!Point
    <3> QED
      BY <1>11, <2>0, <2>1, <3>1, <3>2, Zenon
  \* An argument was refused.
  <2>2. CASE \E error \in Joining!ArgumentErrors :
               /\ call' = [at |-> "prompt", read |-> << >>, steady |-> TRUE]
               /\ answer' = [of |-> "wifi-connect", error |-> error, value |-> nil,
                             alist |-> nil]
    <3>1. PICK error \in Joining!ArgumentErrors :
            /\ call' = [at |-> "prompt", read |-> << >>, steady |-> TRUE]
            /\ answer' = [of |-> "wifi-connect", error |-> error, value |-> nil,
                          alist |-> nil]
      BY <2>2
    <3>2. error # "" /\ answer'.of = "wifi-connect" /\ answer'.error = error
      BY <3>1 DEF Joining!ArgumentErrors
    <3>3. Joining!AnswersAsItIs'
      BY <3>1, <3>2, Zenon DEF Joining!AnswersAsItIs
    <3> QED
      BY <1>1, <1>6, <2>0, <3>1, <3>2, <3>3, Zenon
  <2> QED
    BY <1>12, <2>1, <2>2, Zenon DEF Joining!fn_wificonnect, Joining!AtPrompt, Joining!Said
<1>13. CASE Joining!ConnectReturns
  <2>1. PICK ok \in BOOLEAN :
          /\ ok => Joining!TcpipStatus = Joining!CYW43_LINK_UP
          /\ call' = [at |-> IF ok THEN "connected" ELSE "failed", read |-> << >>,
                      steady |-> TRUE]
    BY <1>13, Zenon DEF Joining!ConnectReturns, Joining!AtPrompt
  <2>2. WifiTraceEnabled' = FALSE /\ UNCHANGED <<link, ip, answer>>
    BY <1>13 DEF Joining!ConnectReturns
  <2>3. Joining!Learned'
    BY <1>2, <2>1, <2>2, LinkNumbers DEF Joining!Learned
  <2>4. call'.at \in {"connected", "failed"} /\ Len(call'.read) <= 4
        /\ call' \in [at : Joining!Point, read : Seq(Joining!Readable), steady : BOOLEAN]
    BY <2>1, Short DEF Joining!Point
  <2> QED
    BY <1>11, <2>2, <2>3, <2>4, Zenon
\* A call that took several steps returns.
<1>14. ASSUME NEW spoken, Joining!Return(spoken), call.at \notin {"prompt", "connecting"},
              spoken.of # "wifi-debug" => spoken.alist = nil,
              spoken.of = "wifi-connect" =>
                ~WifiTraceEnabled /\ spoken.error \notin Joining!ArgumentErrors,
              call.steady /\ answer' = spoken /\ call'.steady => Joining!AnswersAsItIs'
       PROVE  Joining!IInv'
  <2>1. call' = [at |-> "prompt", read |-> << >>, steady |-> call.steady]
        /\ UNCHANGED <<link, ip, WifiTraceEnabled>> /\ answer' = spoken
    BY <1>14 DEF Joining!Return, Joining!AtPrompt
  <2>2. Joining!AnswersAsItIs'
    <3>1. CASE call.steady
      BY <1>14, <2>1, <3>1
    <3>2. CASE ~call.steady
      BY <2>1, <3>2, Zenon DEF Joining!AnswersAsItIs
    <3> QED  BY <3>1, <3>2
  <2> QED
    BY <1>1, <1>6, <1>14, <2>1, <2>2, Zenon
<1>15. ASSUME NEW error, Joining!Fail(error), call.at \notin {"prompt", "connecting"},
              ~WifiTraceEnabled, error \notin {""} \union Joining!ArgumentErrors,
              call.steady => link \in Joining!Means(error)
       PROVE  Joining!IInv'
  <2> DEFINE spoken == Joining!Said("wifi-connect", error, nil)
  <2>1. spoken = [of |-> "wifi-connect", error |-> error, value |-> nil, alist |-> nil]
    BY DEF Joining!Said
  <2>2. Joining!Return(spoken) /\ UNCHANGED link
    BY <1>15, Zenon DEF Joining!Fail, Joining!Return
  <2> HIDE DEF spoken
  <2>3. ASSUME call.steady, answer' = spoken PROVE Joining!AnswersAsItIs'
    <3>1. link' \in Joining!Means(error)
      BY <1>15, <2>2, <2>3, Zenon
    <3> QED  BY <1>15, <2>1, <2>3, <3>1, Zenon DEF Joining!AnswersAsItIs
  <2> QED
    BY <1>14, <1>15, <2>1, <2>2, <2>3, Zenon
<1>16. CASE Joining!Connected
  <2> DEFINE spoken == Joining!Said("wifi-connect", "", ip)
  <2>1. spoken = [of |-> "wifi-connect", error |-> "", value |-> ip, alist |-> nil]
    BY DEF Joining!Said
  <2>2. Joining!Return(spoken) /\ call.at = "connected" /\ UNCHANGED <<link, ip>>
    BY <1>16, Zenon DEF Joining!Connected, Joining!Return
  <2> HIDE DEF spoken
  <2>3. ASSUME call.steady, answer' = spoken PROVE Joining!AnswersAsItIs'
    <3>1. Joining!TcpipStatus = 3
      BY <1>0, <2>2, <2>3, LinkNumbers DEF Joining!Learned
    <3>2. ip \in Address
      BY <1>1, <3>1, StatusTells
    <3> QED  BY <1>2, <2>1, <2>2, <2>3, <3>1, <3>2, LinkNumbers, Zenon DEF Joining!AnswersAsItIs
  <2>4. ~WifiTraceEnabled
    BY <1>1, <2>2
  <2> QED
    BY <1>14, <2>1, <2>2, <2>3, <2>4, ErrorNames, Zenon
<1>17. ASSUME NEW point \in {"not joined", "not refused"}, Joining!Ask(point),
              call.at \in {"failed", "not joined"},
              call.steady => link # 1 /\ (point = "not refused" => link # -3)
       PROVE  Joining!IInv'
  <2>1. call' = [at |-> point, read |-> call.read, steady |-> call.steady]
        /\ UNCHANGED <<link, ip, WifiTraceEnabled, answer>>
    BY <1>1, <1>17, Zenon DEF Joining!Ask
  <2>2. Joining!Learned'
    BY <1>17, <2>1, LinkNumbers, Zenon DEF Joining!Learned
  <2> QED
    BY <1>1, <1>11, <1>17, <2>1, <2>2, Zenon DEF Joining!Point
<1>18. CASE Joining!WhyWifi
  <2>1. CASE link = 1
    BY <1>1, <1>15, <1>18, <2>1, LinkNumbers, ErrorNames, Zenon DEF Joining!WhyWifi
  <2>2. CASE link # 1
    BY <1>17, <1>18, <2>2, LinkNumbers, Zenon DEF Joining!WhyWifi
  <2> QED  BY <2>1, <2>2
<1>19. CASE Joining!WhyAuth
  <2>1. CASE Joining!TcpipStatus = -3
    <3>1. link = -3
      BY <1>1, <2>1, StatusTells
    <3> QED
      BY <1>1, <1>15, <1>19, <2>1, <3>1, LinkNumbers, ErrorNames, Zenon DEF Joining!WhyAuth
  <2>2. CASE Joining!TcpipStatus # -3
    <3>1. call.steady => link # 1 /\ link # -3
      BY <1>0, <1>1, <1>19, <2>2, StatusTells, LinkNumbers, Zenon
         DEF Joining!Learned, Joining!WhyAuth
    <3> QED
      BY <1>17, <1>19, <2>2, <3>1, LinkNumbers, Zenon DEF Joining!WhyAuth
  <2> QED  BY <2>1, <2>2
<1>20. CASE Joining!WhyNet
  <2>1. CASE Joining!TcpipStatus = -2
    <3>1. link = -2
      BY <1>1, <2>1, StatusTells
    <3> QED
      BY <1>1, <1>15, <1>20, <2>1, <3>1, LinkNumbers, ErrorNames, Zenon DEF Joining!WhyNet
  <2>2. CASE Joining!TcpipStatus # -2
    <3>1. call.steady => link \in {0, -1}
      BY <1>0, <1>1, <1>20, <2>2, StatusTells, LinkNumbers, Zenon
         DEF Joining!Learned, Joining!WhyNet
    <3> QED
      BY <1>1, <1>15, <1>20, <2>2, <3>1, LinkNumbers, ErrorNames, Zenon DEF Joining!WhyNet
  <2> QED  BY <2>1, <2>2
<1>21. CASE Joining!fn_wifidebug
  <2>1. call' = [at |-> "debug", read |-> <<link>>, steady |-> TRUE] /\ call.at = "prompt"
        /\ answer' = Joining!NoAnswer /\ UNCHANGED <<link, ip, WifiTraceEnabled>>
    BY <1>21, Zenon DEF Joining!fn_wifidebug, Joining!AtPrompt
  <2>2. <<link>> \in Seq(Joining!Readable) /\ Len(<<link>>) = 1
    <3>1. link \in Joining!Readable
      BY <1>1, ReadableValues
    <3> QED  BY <3>1, Short
  <2>3. Joining!Learned'
    BY <2>1 DEF Joining!Learned
  <2> QED
    BY <1>1, <1>11, <2>1, <2>2, <2>3 DEF Joining!Point
<1>22. CASE Joining!ReadValue
  <2> DEFINE n == Len(call.read)
             v == <<Joining!TcpipStatus, Joining!DhcpState, ip>>[n]
             more == Append(call.read, v)
  <2>1. n \in 1 .. 3 /\ call.at = "debug" /\ UNCHANGED <<link, ip, WifiTraceEnabled, answer>>
    <3>1. call.at = "debug" /\ n < 4 /\ UNCHANGED <<link, ip, WifiTraceEnabled, answer>>
      BY <1>22 DEF Joining!ReadValue
    <3>2. call.read # << >> /\ call.read \in Seq(Joining!Readable)
      BY <1>0, <1>1, <3>1
    <3>3. n \in Nat /\ n # 0
      BY <3>2, EmptySeq, LenProperties
    <3> HIDE DEF n
    <3> QED  BY <3>1, <3>3
  <2>2. call' = [at |-> "debug", read |-> more, steady |-> call.steady]
    BY <1>1, <1>22, <2>1, Zenon DEF Joining!ReadValue
  <2>3. n = 1 \/ n = 2 \/ n = 3
    <3> HIDE DEF n
    <3> QED  BY <2>1
  <2>4. v \in Joining!Readable
    <3>1. /\ Joining!TcpipStatus \in Joining!Readable /\ Joining!DhcpState \in Joining!Readable
          /\ ip \in Joining!Readable
      BY <1>1, ReadableValues
    <3> HIDE DEF n
    <3> QED  BY <2>3, <3>1
  <2>5. v = <<link, Joining!TcpipStatus, Joining!DhcpState, ip>>[n + 1]
    <3> HIDE DEF n
    <3> QED  BY <2>3
  <2> HIDE DEF v
  <2>6. /\ more \in Seq(Joining!Readable) /\ Len(more) = n + 1
        /\ \A i \in 1 .. n : more[i] = call.read[i]
        /\ more[n + 1] = v /\ DOMAIN more = 1 .. n + 1 /\ DOMAIN call.read = 1 .. n
    <3>1. call.read \in Seq(Joining!Readable)
      BY <1>1
    <3> QED  BY <3>1, <2>4, OneMore
  <2> HIDE DEF more, n
  <2>7. ASSUME call.steady, NEW i \in DOMAIN more
        PROVE  more[i] = <<link, Joining!TcpipStatus, Joining!DhcpState, ip>>[i]
    <3>1. i = n + 1 \/ i \in 1 .. n
      BY <2>1, <2>6, <2>7
    <3> QED
      BY <1>0, <2>1, <2>5, <2>6, <2>7, <3>1 DEF Joining!Learned
  <2>8. Joining!Learned'
    BY <1>2, <2>1, <2>2, <2>7 DEF Joining!Learned
  <2>9. Len(more) <= 4 /\ more # << >>
    BY <2>1, <2>6, EmptySeq
  <2> QED
    BY <1>1, <1>11, <2>1, <2>2, <2>6, <2>8, <2>9
<1>23. CASE Joining!DebugReturns
  <2> DEFINE r == call.read
             list == [wifi_status_code |-> r[1],
                      wifi_status |-> Joining!wifi_link_status_name(r[1]),
                      tcpip_status_code |-> r[2],
                      tcpip_status |-> Joining!wifi_link_status_name(r[2]),
                      dhcp_state_code |-> r[3],
                      dhcp_state |-> Joining!wifi_dhcp_state_name(r[3])]
             spoken == [of |-> "wifi-debug", error |-> "", value |-> r[4], alist |-> list]
  <2>1. Joining!Return(spoken) /\ call.at = "debug" /\ Len(r) = 4 /\ UNCHANGED <<link, ip>>
    BY <1>23, Zenon DEF Joining!DebugReturns, Joining!Return, Joining!Said
  <2>2. spoken.of = "wifi-debug" /\ spoken.error = "" /\ spoken.value = r[4] /\ spoken.alist = list
    OBVIOUS
  <2>3. /\ list.wifi_status_code = r[1]
        /\ list.wifi_status = Joining!wifi_link_status_name(r[1])
        /\ list.tcpip_status = Joining!wifi_link_status_name(r[2])
        /\ list.dhcp_state = Joining!wifi_dhcp_state_name(r[3])
    OBVIOUS
  <2>4. DOMAIN r = 1 .. 4
    BY <1>1, <2>1, LenProperties, Zenon
  <2> HIDE DEF spoken, list
  <2>5. ASSUME call.steady, answer' = spoken PROVE Joining!AnswersAsItIs'
    <3>1. r[1] = link /\ r[2] = Joining!TcpipStatus /\ r[3] = Joining!DhcpState /\ r[4] = ip
      BY <1>0, <2>1, <2>4, <2>5 DEF Joining!Learned
    <3>2. list.tcpip_status = "up" <=> Joining!TcpipStatus = 3
      BY <1>1, <2>3, <3>1, StatusTells, StatusNames
    <3>3. list.wifi_status = "joined" <=> link = 1
      <4>1. link \in -3 .. 3
        BY <1>1, LinkNumbers
      <4> QED  BY <4>1, <2>3, <3>1, StatusNames
    <3>4. list.dhcp_state = "bound" <=> ip # Unset
      BY <1>1, <2>3, <3>1, StatusTells, DhcpNames
    <3>5. list.tcpip_status = "up" <=> list.wifi_status = "joined" /\ ip # Unset
      BY <1>1, <3>2, <3>3, StatusTells
    <3> QED
      BY <2>1, <2>2, <2>3, <2>5, <3>1, <3>4, <3>5, Zenon DEF Joining!AnswersAsItIs
  <2> QED
    BY <1>14, <2>1, <2>2, <2>5, Zenon
<1> QED
  BY <1>4, <1>5, <1>8, <1>9, <1>10, <1>12, <1>13, <1>16, <1>18, <1>19, <1>20, <1>21, <1>22,
     <1>23 DEF Joining!Next

-----------------------------------------------------------------------------
(* The scan.                                                               *)

\* What the array, the lists and the functions hold.
Heard == Network \union {NoNetwork}

LEMMA ScanSizes ==
  ASSUME Wifi!ScanAssumption
  PROVE  kWifiMaxScanResults \in Nat /\ kWifiMaxScanResults > 0 /\ MaxMapping \in Nat
BY DEF Wifi!ScanAssumption

\* The invariant, its type part apart.
LEMMA ScanTyped ==
  Wifi!IInv <=>
    /\ /\ WifiScanResults \in Seq(Heard) /\ Len(WifiScanResults) = kWifiMaxScanResults
       /\ WifiScanCount \in 0 .. kWifiMaxScanResults
       /\ WifiScanEverStarted \in BOOLEAN /\ active \in BOOLEAN
    /\ /\ maps \in Seq(Wifi!Mapping) /\ Len(maps) <= MaxMapping
       /\ \A k \in DOMAIN maps : Len(maps[k].done) <= maps[k].n
    /\ listing \in [st : {"none", "asked", "reading"}, n : Nat, list : Seq(Heard)]
    /\ Wifi!Listed /\ Wifi!StillThere
BY DEF Wifi!IInv, Wifi!TypeOK, Heard

\* One mapping, as StillThere says of each: what it was begun with, and was given.
Good(m, results, count) ==
  /\ Len(m.heard) = m.n /\ Len(m.done) <= m.n
  /\ m.kept => /\ m.n <= count
               /\ \A j \in 1 .. m.n : m.heard[j] = results[j]
               /\ \A j \in 1 .. Len(m.done) : m.done[j] = m.heard[j]

LEMMA StillMeans ==
  Wifi!StillThere <=> \A k \in DOMAIN maps : Good(maps[k], WifiScanResults, WifiScanCount)
BY DEF Wifi!StillThere, Good

LEMMA ScanStarts == Wifi!ScanAssumption /\ Wifi!Init => Wifi!IInv
<1> SUFFICES ASSUME Wifi!ScanAssumption, Wifi!Init PROVE Wifi!IInv
  OBVIOUS
<1>1. /\ WifiScanResults = [i \in 1 .. kWifiMaxScanResults |-> NoNetwork]
      /\ WifiScanCount = 0 /\ WifiScanEverStarted = FALSE /\ active = FALSE
      /\ maps = << >> /\ listing = [st |-> "none", n |-> 0, list |-> << >>]
  BY DEF Wifi!Init, Wifi!NoListing
<1>2. kWifiMaxScanResults \in Nat
  BY ScanSizes
<1>3. WifiScanResults \in [1 .. kWifiMaxScanResults -> Heard]
  BY <1>1 DEF Heard
<1>4. WifiScanResults \in Seq(Heard) /\ Len(WifiScanResults) = kWifiMaxScanResults
  BY <1>2, <1>3, SeqDef, LenProperties
<1>5. maps \in Seq(Wifi!Mapping) /\ Len(maps) = 0 /\ DOMAIN maps = {}
  BY <1>1, Short, EmptySeq
<1>6. listing \in [st : {"none", "asked", "reading"}, n : Nat, list : Seq(Heard)]
      /\ Len(listing.list) = 0 /\ listing.list = << >> /\ listing.n = 0
  BY <1>1, Short
<1>7. Wifi!Listed
  BY <1>1, <1>6 DEF Wifi!Listed
<1>8. Wifi!StillThere
  BY <1>5 DEF Wifi!StillThere
<1>9. Len(maps) <= MaxMapping /\ \A k \in DOMAIN maps : Len(maps[k].done) <= maps[k].n
  BY <1>5, ScanSizes
<1>10. WifiScanCount \in 0 .. kWifiMaxScanResults
  <2>1. WifiScanCount = 0
    BY <1>1
  <2> QED  BY <2>1, <1>2
<1>11. WifiScanEverStarted \in BOOLEAN /\ active \in BOOLEAN
  BY <1>1, Zenon
<1> QED  BY <1>4, <1>5, <1>6, <1>7, <1>8, <1>9, <1>10, <1>11, ScanTyped, Zenon

\* What a scan that is begun or cleared leaves of the mappings.
Spoilt(ms) == [k \in DOMAIN ms |-> [ms[k] EXCEPT !.kept = FALSE]]

LEMMA SpoiltMaps ==
  ASSUME NEW ms \in Seq(Wifi!Mapping), NEW results, NEW count,
         \A k \in DOMAIN ms : Good(ms[k], results, count)
  PROVE  /\ Spoilt(ms) \in Seq(Wifi!Mapping) /\ Len(Spoilt(ms)) = Len(ms)
         /\ \A r, c : \A k \in DOMAIN Spoilt(ms) : Good(Spoilt(ms)[k], r, c)
<1> DEFINE spoilt == Spoilt(ms)
<1>1. Len(ms) \in Nat /\ DOMAIN ms = 1 .. Len(ms)
  BY LenProperties
<1>2. spoilt = [k \in DOMAIN ms |-> [ms[k] EXCEPT !.kept = FALSE]]
  BY DEF Spoilt
<1> HIDE DEF spoilt
<1>3. ASSUME NEW k \in DOMAIN ms
      PROVE  /\ ms[k].n \in 0 .. kWifiMaxScanResults
             /\ ms[k].done \in Seq(Heard) /\ ms[k].heard \in Seq(Heard)
             /\ spoilt[k] = [n |-> ms[k].n, done |-> ms[k].done, heard |-> ms[k].heard,
                             kept |-> FALSE]
  <2>1. ms[k] \in Wifi!Mapping
    BY <1>1, ElementOfSeq
  <2>2. spoilt[k] = [ms[k] EXCEPT !.kept = FALSE]
    BY <1>2
  <2> QED  BY <2>1, <2>2, Zenon DEF Wifi!Mapping, Heard
<1>4. ASSUME NEW k \in DOMAIN ms PROVE spoilt[k] \in Wifi!Mapping
  <2> DEFINE n == ms[k].n
             done == ms[k].done
             heard == ms[k].heard
  <2>1. n \in 0 .. kWifiMaxScanResults /\ done \in Seq(Heard) /\ heard \in Seq(Heard)
        /\ spoilt[k] = [n |-> n, done |-> done, heard |-> heard, kept |-> FALSE]
    BY <1>3
  <2> HIDE DEF n, done, heard
  <2> QED  BY <2>1 DEF Wifi!Mapping, Heard
<1>5. spoilt \in [1 .. Len(ms) -> Wifi!Mapping]
  BY <1>1, <1>2, <1>4
<1>6. spoilt \in Seq(Wifi!Mapping)
  BY <1>1, <1>5, SeqDef
<1>7. Len(spoilt) = Len(ms) /\ DOMAIN spoilt = DOMAIN ms
  BY <1>1, <1>5, <1>6, LenProperties
<1>8. ASSUME NEW r, NEW c, NEW k \in DOMAIN ms PROVE Good(spoilt[k], r, c)
  <2>1. /\ spoilt[k].n = ms[k].n /\ spoilt[k].done = ms[k].done
        /\ spoilt[k].heard = ms[k].heard /\ spoilt[k].kept = FALSE
    <3>1. spoilt[k] = [n |-> ms[k].n, done |-> ms[k].done, heard |-> ms[k].heard,
                       kept |-> FALSE]
      BY <1>3, Zenon
    <3> QED  BY <3>1, SMT
  <2>2. Len(ms[k].heard) = ms[k].n /\ Len(ms[k].done) <= ms[k].n
    BY DEF Good
  <2>3. Len(spoilt[k].heard) = spoilt[k].n /\ Len(spoilt[k].done) <= spoilt[k].n
    BY <2>1, <2>2
  <2> QED  BY <2>1, <2>3, Zenon DEF Good
<1> QED  BY <1>6, <1>7, <1>8 DEF spoilt

\* What is read of the results.
LEMMA ResultsRead ==
  ASSUME Wifi!ScanAssumption, Wifi!IInv
  PROVE  /\ \A i \in 1 .. WifiScanCount : WifiScanResults[i] \in Heard
         /\ Wifi!Results \in Seq(Heard) /\ Len(Wifi!Results) = WifiScanCount
         /\ \A i \in 1 .. WifiScanCount : Wifi!Results[i] = WifiScanResults[i]
<1>1. /\ WifiScanResults \in Seq(Heard) /\ Len(WifiScanResults) = kWifiMaxScanResults
      /\ WifiScanCount \in 0 .. kWifiMaxScanResults /\ kWifiMaxScanResults \in Nat
  BY ScanTyped, ScanSizes
<1>2. \A i \in 1 .. WifiScanCount : WifiScanResults[i] \in Heard
  BY <1>1, ElementOfSeq
<1>3. /\ SubSeq(WifiScanResults, 1, WifiScanCount) \in Seq(Heard)
      /\ Len(SubSeq(WifiScanResults, 1, WifiScanCount)) = WifiScanCount
      /\ \A i \in 1 .. WifiScanCount :
           SubSeq(WifiScanResults, 1, WifiScanCount)[i] = WifiScanResults[i]
  BY <1>1, SubSeqProperties
<1> QED  BY <1>2, <1>3 DEF Wifi!Results

LEMMA ScanSteps ==
  ASSUME Wifi!ScanAssumption, Wifi!IInv, Wifi!Next PROVE Wifi!IInv'
<1>1. /\ WifiScanResults \in Seq(Heard) /\ Len(WifiScanResults) = kWifiMaxScanResults
      /\ WifiScanCount \in 0 .. kWifiMaxScanResults
      /\ WifiScanEverStarted \in BOOLEAN /\ active \in BOOLEAN
      /\ maps \in Seq(Wifi!Mapping) /\ Len(maps) <= MaxMapping
      /\ listing \in [st : {"none", "asked", "reading"}, n : Nat, list : Seq(Heard)]
      /\ Wifi!Listed /\ Wifi!StillThere
  BY ScanTyped, Zenon
<1>2. kWifiMaxScanResults \in Nat /\ WifiScanCount \in Nat /\ MaxMapping \in Nat
  BY <1>1, ScanSizes
<1>3. \A k \in DOMAIN maps : Good(maps[k], WifiScanResults, WifiScanCount)
  BY <1>1, StillMeans
<1>4. /\ listing.st \in {"none", "asked", "reading"} /\ listing.n \in Nat
      /\ listing.list \in Seq(Heard)
      /\ listing = [st |-> listing.st, n |-> listing.n, list |-> listing.list]
      /\ listing.st # "reading" => listing.n = 0 /\ listing.list = << >>
      /\ listing.n <= WifiScanCount /\ Len(listing.list) <= listing.n
      /\ \A j \in 1 .. Len(listing.list) :
           listing.list[j] = WifiScanResults[listing.n - Len(listing.list) + j]
  BY <1>1 DEF Wifi!Listed
\* The parts, put together.
<1>5. ASSUME WifiScanResults' \in Seq(Heard), Len(WifiScanResults') = kWifiMaxScanResults,
             WifiScanCount' \in 0 .. kWifiMaxScanResults,
             WifiScanEverStarted' \in BOOLEAN, active' \in BOOLEAN,
             maps' \in Seq(Wifi!Mapping), Len(maps') <= MaxMapping,
             \A k \in DOMAIN maps' : Good(maps'[k], WifiScanResults', WifiScanCount'),
             listing' \in [st : {"none", "asked", "reading"}, n : Nat, list : Seq(Heard)],
             Wifi!Listed'
      PROVE  Wifi!IInv'
  <2>1. Wifi!StillThere'
    BY <1>5, Zenon DEF Wifi!StillThere, Good
  <2>2. \A k \in DOMAIN maps' : Len(maps'[k].done) <= maps'[k].n
    BY <1>5 DEF Good
  <2>3. Wifi!TypeOK'
    BY <1>5, <2>2, Zenon DEF Wifi!TypeOK, Heard
  <2> QED  BY <1>5, <2>1, <2>3, Zenon DEF Wifi!IInv, Heard
\* Between two steps of the program.
<1>6. ASSUME NEW x \in Network, Wifi!wifi_scan_callback(x) PROVE Wifi!IInv'
  <2>1. /\ WifiScanCount < kWifiMaxScanResults /\ WifiScanCount' = WifiScanCount + 1
        /\ WifiScanResults' = [WifiScanResults EXCEPT ![WifiScanCount + 1] = x]
        /\ UNCHANGED <<WifiScanEverStarted, active, maps, listing>>
    BY <1>6 DEF Wifi!wifi_scan_callback
  <2>2. WifiScanCount + 1 \in 1 .. Len(WifiScanResults) /\ x \in Heard
        /\ WifiScanCount' \in 0 .. kWifiMaxScanResults
    BY <1>1, <1>2, <2>1 DEF Heard
  <2>3. /\ WifiScanResults' \in Seq(Heard) /\ Len(WifiScanResults') = kWifiMaxScanResults
        /\ \A j \in 1 .. WifiScanCount : WifiScanResults'[j] = WifiScanResults[j]
    BY <1>1, <1>2, <2>1, <2>2, ExceptSeq
  <2>4. ASSUME NEW k \in DOMAIN maps PROVE Good(maps[k], WifiScanResults', WifiScanCount')
    <3>1. maps[k] \in Wifi!Mapping
      BY <1>1, ElementOfSeq, LenProperties
    <3>2. maps[k].n \in Nat
      BY <3>1 DEF Wifi!Mapping
    <3>3. Good(maps[k], WifiScanResults, WifiScanCount)
      BY <1>3
    <3> HIDE DEF Wifi!Mapping
    <3> QED  BY <1>2, <2>1, <2>3, <3>2, <3>3 DEF Good
  <2>5. Wifi!Listed'
    <3>1. Len(listing.list) \in Nat
      BY <1>4, LenProperties
    <3>2. \A j \in 1 .. Len(listing.list) : listing.n - Len(listing.list) + j \in 1 .. WifiScanCount
      BY <1>2, <1>4, <3>1
    <3>3. \A j \in 1 .. Len(listing.list) :
            listing.list[j] = WifiScanResults'[listing.n - Len(listing.list) + j]
      BY <1>4, <2>3, <3>2
    <3>4. listing.n <= WifiScanCount'
      BY <1>2, <1>4, <2>1
    <3> QED  BY <1>4, <2>1, <3>3, <3>4 DEF Wifi!Listed
  <2> QED  BY <1>1, <1>5, <2>1, <2>2, <2>3, <2>4, <2>5, Zenon
<1>7. ASSUME UNCHANGED <<WifiScanResults, WifiScanCount, maps, listing>>,
             WifiScanEverStarted' \in BOOLEAN, active' \in BOOLEAN
      PROVE  Wifi!IInv'
  <2>1. Wifi!Listed'
    BY <1>1, <1>7 DEF Wifi!Listed
  <2> QED  BY <1>1, <1>3, <1>5, <1>7, <2>1
<1>8. CASE Wifi!ScanOver
  BY <1>1, <1>7, <1>8, Zenon DEF Wifi!ScanOver
\* Of a list that was asked for nothing is made yet.
<1>9. ASSUME listing = Wifi!NoListing,
             listing' \in {Wifi!NoListing, [Wifi!NoListing EXCEPT !.st = "asked"]},
             UNCHANGED WifiScanResults, WifiScanCount' \in 0 .. kWifiMaxScanResults,
             WifiScanEverStarted' \in BOOLEAN, active' \in BOOLEAN,
             maps' \in Seq(Wifi!Mapping), Len(maps') <= MaxMapping,
             \A k \in DOMAIN maps' : Good(maps'[k], WifiScanResults', WifiScanCount')
      PROVE  Wifi!IInv'
  <2>1. PICK st \in {"none", "asked"} : listing' = [st |-> st, n |-> 0, list |-> << >>]
    BY <1>9 DEF Wifi!NoListing
  <2>2. /\ listing' \in [st : {"none", "asked", "reading"}, n : Nat, list : Seq(Heard)]
        /\ listing'.st = st /\ listing'.n = 0 /\ listing'.list = << >> /\ Len(listing'.list) = 0
    BY <2>1, Short
  <2>3. Wifi!Listed'
    BY <1>9, <2>1, <2>2, <1>2 DEF Wifi!Listed
  <2> QED  BY <1>1, <1>5, <1>9, <2>2, <2>3
<1>10. ASSUME NEW clear \in BOOLEAN, NEW ok \in BOOLEAN, Wifi!wifi_start_scan(clear, ok),
              listing = Wifi!NoListing,
              listing' \in {Wifi!NoListing, [Wifi!NoListing EXCEPT !.st = "asked"]}
       PROVE  Wifi!IInv'
  <2>1. UNCHANGED WifiScanResults /\ WifiScanEverStarted' \in BOOLEAN /\ active' \in BOOLEAN
    BY <1>1, <1>10 DEF Wifi!wifi_start_scan
  <2>2. CASE clear
    <3>1. WifiScanCount' = 0 /\ maps' = Spoilt(maps)
      BY <1>10, <2>2 DEF Wifi!wifi_start_scan, Wifi!Disturbed, Spoilt
    <3>2. /\ maps' \in Seq(Wifi!Mapping) /\ Len(maps') = Len(maps)
          /\ \A k \in DOMAIN maps' : Good(maps'[k], WifiScanResults', WifiScanCount')
      BY <1>1, <1>3, <3>1, SpoiltMaps, Zenon
    <3>3. WifiScanCount' \in 0 .. kWifiMaxScanResults
      BY <1>2, <3>1
    <3> QED  BY <1>1, <1>9, <1>10, <2>1, <3>2, <3>3
  <2>3. CASE ~clear
    <3>1. UNCHANGED <<WifiScanCount, maps>>
      BY <1>10, <2>3 DEF Wifi!wifi_start_scan
    <3> QED  BY <1>1, <1>3, <1>9, <1>10, <2>1, <3>1
  <2> QED  BY <2>2, <2>3
<1>11. CASE Wifi!fn_wifiscan
  <2>1. listing = Wifi!NoListing /\ listing' = [Wifi!NoListing EXCEPT !.st = "asked"]
    BY <1>11 DEF Wifi!fn_wifiscan, Wifi!AtProgram
  <2>2. \/ \E ok \in BOOLEAN : Wifi!wifi_start_scan(TRUE, ok)
        \/ UNCHANGED <<WifiScanResults, WifiScanCount, WifiScanEverStarted, active, maps>>
    BY <1>11, Zenon DEF Wifi!fn_wifiscan
  <2> QED  BY <1>1, <1>3, <1>9, <1>10, <2>1, <2>2, Zenon
<1>12. CASE Wifi!fn_wifiscanresults
  BY <1>1, <1>3, <1>9, <1>12 DEF Wifi!fn_wifiscanresults, Wifi!AtProgram
<1>13. CASE Wifi!fn_wifiscanstart
  <2>1. /\ listing = Wifi!NoListing /\ listing' = Wifi!NoListing
        /\ \E clear, ok \in BOOLEAN : Wifi!wifi_start_scan(clear, ok)
    BY <1>13 DEF Wifi!fn_wifiscanstart, Wifi!AtProgram
  <2> QED  BY <1>10, <2>1
<1>14. CASE Wifi!fn_wifiscanclear
  <2>1. /\ listing = Wifi!NoListing /\ listing' = Wifi!NoListing /\ WifiScanCount' = 0
        /\ WifiScanEverStarted' = FALSE /\ maps' = Spoilt(maps)
        /\ UNCHANGED <<WifiScanResults, active>>
    BY <1>14 DEF Wifi!fn_wifiscanclear, Wifi!AtProgram, Wifi!Disturbed, Spoilt
  <2>2. /\ maps' \in Seq(Wifi!Mapping) /\ Len(maps') = Len(maps)
        /\ \A k \in DOMAIN maps' : Good(maps'[k], WifiScanResults', WifiScanCount')
    BY <1>1, <1>3, <2>1, SpoiltMaps, Zenon
  <2>3. WifiScanCount' \in 0 .. kWifiMaxScanResults
    BY <1>2, <2>1
  <2> QED  BY <1>1, <1>9, <2>1, <2>2, <2>3, Zenon
\* The list.
<1>15. CASE Wifi!wifi_results_list
  <2>1. /\ listing' = [st |-> "reading", n |-> WifiScanCount, list |-> << >>]
        /\ UNCHANGED <<WifiScanResults, WifiScanCount, WifiScanEverStarted, active, maps>>
    BY <1>15 DEF Wifi!wifi_results_list
  <2>2. listing' \in [st : {"none", "asked", "reading"}, n : Nat, list : Seq(Heard)]
        /\ Len(listing'.list) = 0 /\ listing'.st = "reading" /\ listing'.n = WifiScanCount
    BY <1>2, <2>1, Short
  <2>3. Wifi!Listed'
    BY <1>2, <2>1, <2>2 DEF Wifi!Listed
  <2> QED  BY <1>1, <1>3, <1>5, <2>1, <2>2, <2>3
<1>16. CASE Wifi!wifi_scan_entry
  <2> DEFINE n == listing.n
             list == listing.list
             l == Len(list)
             x == WifiScanResults[n - l]
             more == <<x>> \o list
  <2>1. /\ listing.st = "reading" /\ l < n
        /\ UNCHANGED <<WifiScanResults, WifiScanCount, WifiScanEverStarted, active, maps>>
        /\ listing' = [st |-> "reading", n |-> n, list |-> more]
    BY <1>4, <1>16, Zenon DEF Wifi!wifi_scan_entry
  <2>2. /\ n \in Nat /\ list \in Seq(Heard) /\ n <= WifiScanCount /\ l \in Nat
        /\ \A j \in 1 .. l : list[j] = WifiScanResults[n - l + j]
    BY <1>4, LenProperties
  <2>3. x \in Heard
    <3>1. n - l \in 1 .. WifiScanCount
      BY <1>2, <2>1, <2>2
    <3> QED  BY <3>1, ResultsRead
  <2> HIDE DEF x, n
  <2>4. /\ more \in Seq(Heard) /\ Len(more) = l + 1 /\ more[1] = x
        /\ \A i \in 1 .. l : more[i + 1] = list[i]
    BY <2>2, <2>3, OneBefore
  <2> HIDE DEF more, list, l
  <2>5. ASSUME NEW j \in 1 .. l + 1 PROVE more[j] = WifiScanResults[n - (l + 1) + j]
    <3>1. CASE j = 1
      <4>1. n - (l + 1) + j = n - l
        BY <2>2, <3>1
      <4> QED  BY <2>4, <3>1, <4>1 DEF x, l
    <3>2. CASE j # 1
      <4> DEFINE i == j - 1
      <4>1. i \in 1 .. l /\ j = i + 1 /\ n - (l + 1) + j = n - l + i
        BY <2>2, <3>2
      <4> HIDE DEF i
      <4> QED  BY <2>2, <2>4, <4>1, Zenon
    <3> QED  BY <3>1, <3>2
  <2>6. Wifi!Listed'
    <3>1. /\ listing'.st = "reading" /\ listing'.n = n /\ listing'.list = more
          /\ n <= WifiScanCount' /\ Len(more) <= n
      BY <2>1, <2>2, <2>4
    <3>2. \A j \in 1 .. Len(more) : more[j] = WifiScanResults'[n - Len(more) + j]
      BY <2>1, <2>4, <2>5
    <3> QED  BY <3>1, <3>2, Zenon DEF Wifi!Listed
  <2>7. listing' \in [st : {"none", "asked", "reading"}, n : Nat, list : Seq(Heard)]
    BY <2>1, <2>2, <2>4
  <2> QED  BY <1>1, <1>3, <1>5, <2>1, <2>6, <2>7
<1>17. CASE Wifi!ListReturns
  <2>1. /\ listing' = [st |-> "none", n |-> 0, list |-> << >>]
        /\ UNCHANGED <<WifiScanResults, WifiScanCount, WifiScanEverStarted, active, maps>>
    BY <1>17 DEF Wifi!ListReturns, Wifi!NoListing
  <2>2. listing' \in [st : {"none", "asked", "reading"}, n : Nat, list : Seq(Heard)]
        /\ Len(listing'.list) = 0 /\ listing'.n = 0 /\ listing'.list = << >>
    BY <2>1, Short
  <2>3. Wifi!Listed'
    BY <1>2, <2>1, <2>2 DEF Wifi!Listed
  <2> QED  BY <1>1, <1>3, <1>5, <2>1, <2>2, <2>3
\* The mappings.
<1>18. CASE Wifi!fn_wifiscanmap
  <2> DEFINE m == [n |-> WifiScanCount, done |-> << >>, heard |-> Wifi!Results, kept |-> TRUE]
             more == <<m>> \o maps
  <2>1. /\ listing = Wifi!NoListing /\ Len(maps) < MaxMapping /\ maps' = more
        /\ UNCHANGED <<WifiScanResults, WifiScanCount, WifiScanEverStarted, active, listing>>
    BY <1>18 DEF Wifi!fn_wifiscanmap, Wifi!AtProgram
  <2>2. /\ Wifi!Results \in Seq(Heard) /\ Len(Wifi!Results) = WifiScanCount
        /\ \A i \in 1 .. WifiScanCount : Wifi!Results[i] = WifiScanResults[i]
    BY ResultsRead
  <2>3. /\ m.n = WifiScanCount /\ m.done = << >> /\ m.heard = Wifi!Results /\ m.kept = TRUE
        /\ Len(m.done) = 0
    BY Short
  <2>4. m \in Wifi!Mapping
    <3>1. WifiScanCount \in 0 .. kWifiMaxScanResults
      BY <1>1
    <3> QED  BY <2>2, <3>1, Short DEF Wifi!Mapping, Heard
  <2> HIDE DEF m
  <2>5. Good(m, WifiScanResults, WifiScanCount)
    BY <1>2, <2>2, <2>3 DEF Good
  <2>6. /\ more \in Seq(Wifi!Mapping) /\ Len(more) = Len(maps) + 1 /\ Len(maps) \in Nat
        /\ DOMAIN more = 1 .. Len(maps) + 1 /\ DOMAIN maps = 1 .. Len(maps) /\ more[1] = m
        /\ \A i \in 1 .. Len(maps) : more[i + 1] = maps[i]
    BY <1>1, <2>4, OneBefore
  <2> HIDE DEF more
  <2>7. ASSUME NEW k \in DOMAIN more PROVE Good(more[k], WifiScanResults, WifiScanCount)
    <3>1. CASE k = 1
      BY <2>5, <2>6, <3>1
    <3>2. CASE k # 1
      <4> DEFINE i == k - 1
      <4>1. i \in DOMAIN maps /\ k = i + 1
        BY <2>6, <3>2
      <4> HIDE DEF i
      <4>2. more[k] = maps[i]
        BY <2>6, <4>1
      <4> QED  BY <1>3, <4>1, <4>2
    <3> QED  BY <3>1, <3>2
  <2>8. Len(more) <= MaxMapping
    BY <1>2, <2>1, <2>6
  <2> QED  BY <1>1, <1>9, <2>1, <2>6, <2>7, <2>8
<1>19. CASE Wifi!Apply
  <2> DEFINE m == maps[1]
             l == Len(m.done)
             x == WifiScanResults[l + 1]
             done == Append(m.done, x)
             new == [n |-> m.n, done |-> done, heard |-> m.heard, kept |-> m.kept]
  <2>1. /\ listing = Wifi!NoListing /\ maps # << >> /\ Len(Head(maps).done) < Head(maps).n
        /\ maps' = [maps EXCEPT ![1].done = Append(@, WifiScanResults[Len(@) + 1])]
        /\ UNCHANGED <<WifiScanResults, WifiScanCount, WifiScanEverStarted, active, listing>>
    BY <1>19 DEF Wifi!Apply, Wifi!AtProgram
  <2>2. Len(maps) \in Nat /\ DOMAIN maps = 1 .. Len(maps) /\ Len(maps) # 0 /\ 1 \in DOMAIN maps
    BY <1>1, <2>1, EmptySeq, LenProperties
  <2>3. Head(maps) = m
    BY <1>1, <2>1, <2>2
  <2>4. m \in Wifi!Mapping /\ Good(m, WifiScanResults, WifiScanCount)
    BY <1>1, <1>3, <2>2, ElementOfSeq
  <2>5. /\ m = [n |-> m.n, done |-> m.done, heard |-> m.heard, kept |-> m.kept]
        /\ m.n \in Nat /\ m.done \in Seq(Heard) /\ m.heard \in Seq(Heard) /\ m.kept \in BOOLEAN
    BY <2>4 DEF Wifi!Mapping, Heard
  <2>6. l \in Nat /\ l < m.n
    BY <2>1, <2>3, <2>5, LenProperties
  <2> DEFINE h == WifiScanResults[Len(m.done) + 1]
  <2>7. maps' = [maps EXCEPT ![1] = new]
    <3>1. maps' = [maps EXCEPT ![1] = [maps[1] EXCEPT !.done = Append(maps[1].done, h)]]
      BY <2>1, <2>2, Zenon
    <3>2. [m EXCEPT !.done = done] = new
      <4> HIDE DEF done
      <4> QED  BY <2>4 DEF Wifi!Mapping
    <3> QED  BY <3>1, <3>2, Zenon
  <2>8. x \in Heard /\ (m.kept => x = m.heard[l + 1])
    <3>1. l + 1 \in 1 .. m.n /\ m.n <= kWifiMaxScanResults
      BY <2>4, <2>5, <2>6 DEF Wifi!Mapping
    <3>2. x \in Heard
      <4>1. l + 1 \in 1 .. Len(WifiScanResults)
        BY <1>1, <1>2, <2>5, <3>1
      <4> QED  BY <1>1, <4>1, ElementOfSeq
    <3>3. m.kept => \A j \in 1 .. m.n : m.heard[j] = WifiScanResults[j]
      BY <2>4, Zenon DEF Good
    <3> QED  BY <3>1, <3>2, <3>3
  <2>9. /\ done \in Seq(Heard) /\ Len(done) = l + 1 /\ done[l + 1] = x
        /\ \A j \in 1 .. l : done[j] = m.done[j]
    BY <2>5, <2>8, OneMore
  <2>10. new.n = m.n /\ new.done = done /\ new.heard = m.heard /\ new.kept = m.kept
    OBVIOUS
  <2>11. new \in Wifi!Mapping
    <3>1. m.n \in 0 .. kWifiMaxScanResults
      BY <2>4 DEF Wifi!Mapping
    <3> HIDE DEF done, m
    <3> QED  BY <2>5, <2>9, <3>1 DEF Wifi!Mapping, Heard
  <2> HIDE DEF new, done, x
  <2>12. Good(new, WifiScanResults, WifiScanCount)
    <3>1. /\ Len(m.heard) = m.n
          /\ m.kept => /\ m.n <= WifiScanCount
                       /\ \A j \in 1 .. m.n : m.heard[j] = WifiScanResults[j]
                       /\ \A j \in 1 .. l : m.done[j] = m.heard[j]
      BY <2>4 DEF Good
    <3>2. m.kept => \A j \in 1 .. l + 1 : done[j] = m.heard[j]
      <4> SUFFICES ASSUME m.kept, NEW j \in 1 .. l + 1 PROVE done[j] = m.heard[j]
        OBVIOUS
      <4>1. j = l + 1 \/ j \in 1 .. l
        BY <2>6
      <4> QED  BY <2>8, <2>9, <3>1, <4>1
    <3>3. l + 1 <= m.n
      BY <2>5, <2>6
    <3> QED  BY <2>9, <2>10, <3>1, <3>2, <3>3 DEF Good
  <2>13. /\ maps' \in Seq(Wifi!Mapping) /\ Len(maps') = Len(maps)
         /\ \A k \in DOMAIN maps : maps'[k] = IF k = 1 THEN new ELSE maps[k]
    BY <1>1, <2>2, <2>7, <2>11, ExceptSeq
  <2>14. DOMAIN maps' = DOMAIN maps
    BY <2>2, <2>13, LenProperties
  <2>15. \A k \in DOMAIN maps' : Good(maps'[k], WifiScanResults, WifiScanCount)
    BY <1>3, <2>12, <2>13, <2>14
  <2> QED  BY <1>1, <1>9, <2>1, <2>13, <2>15, Zenon
<1>20. CASE Wifi!MapReturns
  <2>1. /\ listing = Wifi!NoListing /\ maps # << >> /\ maps' = Tail(maps)
        /\ UNCHANGED <<WifiScanResults, WifiScanCount, WifiScanEverStarted, active, listing>>
    BY <1>20 DEF Wifi!MapReturns, Wifi!AtProgram
  <2>2. /\ maps' \in Seq(Wifi!Mapping) /\ Len(maps') = Len(maps) - 1
        /\ \A k \in 1 .. Len(maps') : maps'[k] = maps[k + 1]
    BY <1>1, <2>1, HeadTailProperties
  <2>3. /\ Len(maps) \in Nat /\ DOMAIN maps = 1 .. Len(maps) /\ Len(maps') \in Nat
        /\ DOMAIN maps' = 1 .. Len(maps')
    BY <1>1, <2>2, LenProperties
  <2>4. ASSUME NEW k \in DOMAIN maps' PROVE Good(maps'[k], WifiScanResults, WifiScanCount)
    <3>1. k + 1 \in DOMAIN maps /\ maps'[k] = maps[k + 1]
      BY <2>2, <2>3
    <3> QED  BY <1>3, <3>1
  <2>5. Len(maps') <= MaxMapping
    BY <1>1, <1>2, <2>2, <2>3
  <2> QED  BY <1>1, <1>9, <2>1, <2>2, <2>4, <2>5
<1> QED
  BY <1>6, <1>8, <1>11, <1>12, <1>13, <1>14, <1>15, <1>16, <1>17, <1>18, <1>19, <1>20
     DEF Wifi!Next

\* A scan's property follows: both its equations are between sequences of one length.
LEMMA ScanImplied == Wifi!ScanAssumption /\ Wifi!IInv => Wifi!MapsWhatWasHeard
<1> SUFFICES ASSUME Wifi!ScanAssumption, Wifi!IInv PROVE Wifi!MapsWhatWasHeard
  OBVIOUS
<1>1. listing.list = SubSeq(Wifi!Results, listing.n - Len(listing.list) + 1, listing.n)
  <2> DEFINE n == listing.n
             list == listing.list
             m == n - Len(list) + 1
             sub == SubSeq(Wifi!Results, m, n)
  <2>1. n \in Nat /\ list \in Seq(Heard) /\ WifiScanCount \in Nat
    BY ScanTyped, ScanSizes
  <2>2. Len(list) \in Nat /\ DOMAIN list = 1 .. Len(list)
    BY <2>1, LenProperties
  <2>3. /\ n <= WifiScanCount /\ Len(list) <= n
        /\ \A j \in 1 .. Len(list) : list[j] = WifiScanResults[n - Len(list) + j]
    BY ScanTyped DEF Wifi!Listed
  <2> DEFINE l == Len(list)
  <2> HIDE DEF n, list
  <2>4. Wifi!Results \in Seq(Heard) /\ Len(Wifi!Results) = WifiScanCount
        /\ \A i \in 1 .. WifiScanCount : Wifi!Results[i] = WifiScanResults[i]
    BY ResultsRead
  <2>5. l \in Nat /\ l <= n /\ m = n - l + 1 /\ m \in 1 .. WifiScanCount + 1 /\ n - m + 1 = l
    BY <2>1, <2>2, <2>3
  <2> HIDE DEF m
  <2>6. /\ sub \in Seq(Heard) /\ Len(sub) = IF m <= n THEN n - m + 1 ELSE 0
        /\ \A i \in 1 .. n - m + 1 : sub[i] = Wifi!Results[m + i - 1]
    BY <2>1, <2>3, <2>4, <2>5, SubSeqProperties
  <2> HIDE DEF sub
  <2>7. Len(sub) = l
    BY <2>1, <2>5, <2>6
  <2>8. ASSUME NEW j \in 1 .. l PROVE sub[j] = list[j]
    <3> DEFINE i == m + j - 1
    <3>1. i \in 1 .. WifiScanCount /\ i = n - l + j
      BY <2>1, <2>3, <2>5
    <3>2. sub[j] = Wifi!Results[i]
      BY <2>5, <2>6
    <3>3. list[j] = WifiScanResults[i]
      BY <2>3, <3>1
    <3> HIDE DEF i
    <3> QED  BY <3>1, <3>2, <3>3, <2>4
  <2> QED  BY <2>1, <2>6, <2>7, <2>8, SeqEqual, Zenon DEF m, n, list, sub
<1>2. ASSUME NEW k \in DOMAIN maps, maps[k].kept
      PROVE  maps[k].done = SubSeq(maps[k].heard, 1, Len(maps[k].done))
  <2> DEFINE done == maps[k].done
             heard == maps[k].heard
             l == Len(done)
             sub == SubSeq(heard, 1, l)
  <2>1. maps[k] \in Wifi!Mapping
    BY ScanTyped, ElementOfSeq, LenProperties
  <2>2. done \in Seq(Heard) /\ heard \in Seq(Heard)
    BY <2>1 DEF Wifi!Mapping, Heard
  <2>3. Len(heard) = maps[k].n /\ l <= maps[k].n /\ \A j \in 1 .. l : done[j] = heard[j]
    BY <1>2, ScanTyped, StillMeans DEF Good
  <2> HIDE DEF done, heard
  <2>4. l \in Nat /\ Len(heard) \in Nat /\ l <= Len(heard)
    BY <2>2, <2>3, LenProperties
  <2>5. sub \in Seq(Heard) /\ Len(sub) = l /\ \A j \in 1 .. l : sub[j] = heard[j]
    BY <2>2, <2>4, SubSeqProperties
  <2> HIDE DEF sub
  <2> QED  BY <2>2, <2>3, <2>5, SeqEqual DEF done, heard, sub
<1> QED  BY <1>1, <1>2 DEF Wifi!MapsWhatWasHeard

-----------------------------------------------------------------------------
(* The HTTP server.                                                        *)

\* What the connection sent, as far as the buffer goes, and what is handed out of it.
AsSent(b, sent) == [i \in DOMAIN b |-> sent[i]]
Whole(b, head) ==
  /\ Http!HeaderEnds(b) = {Len(b)} /\ Http!TooLong(b, Len(b)) = {}
  /\ b[1] = IF head THEN "HEAD" ELSE "GET"

LEMMA WholeMeans ==
  Http!HandsOutWholeRequests <=>
    (HttpAwaitingResponse => Whole(AsSent(HttpRequestBuffer, peer.sent), HttpRequestIsHead))
BY DEF Http!HandsOutWholeRequests, Whole, AsSent

\* The invariant, part by part.
HttpParts ==
  /\ HttpServerEnabled \in BOOLEAN /\ HttpClientActive \in BOOLEAN
  /\ HttpAwaitingResponse \in BOOLEAN /\ HttpRequestIsHead \in BOOLEAN
  /\ reading \in BOOLEAN /\ waiting \in BOOLEAN /\ begun \in BOOLEAN
  /\ HttpRequestBuffer \in Seq(Http!Token) /\ Len(HttpRequestBuffer) <= kRequestBufferSize
  /\ age \in 0 .. kClientTimeout + 1
  /\ peer \in [open : BOOLEAN, came : Seq(Http!Sent), sent : Seq(Http!Sent)]
  /\ Http!BufferIsPrefix
  /\ HttpAwaitingResponse => ~reading
  /\ HttpAwaitingResponse => Whole(AsSent(HttpRequestBuffer, peer.sent), HttpRequestIsHead)
  /\ ~HttpAwaitingResponse => Http!Clean \/ Http!Cut

LEMMA HttpTyped == Http!IInv <=> HttpParts
BY WholeMeans, Zenon DEF Http!IInv, Http!TypeOK, HttpParts

LEMMA HttpRetyped == HttpParts' => Http!IInv'
BY HttpTyped, PTL

LEMMA HttpSizes ==
  kRequestBufferSize \in Nat /\ kRequestBufferSize > 0 /\ kClientTimeout \in Nat
BY ServicesAssumption DEF Http!SizeAssumption

\* Nothing was read yet, or the connection is closed.
EmptyHttp ==
  /\ HttpServerEnabled \in BOOLEAN /\ HttpClientActive \in BOOLEAN
  /\ HttpAwaitingResponse = FALSE /\ HttpRequestIsHead \in BOOLEAN
  /\ HttpRequestBuffer = << >> /\ age = 0
  /\ reading \in BOOLEAN /\ waiting \in BOOLEAN /\ begun \in BOOLEAN
  /\ \E open \in BOOLEAN : peer = [open |-> open, came |-> << >>, sent |-> << >>]

LEMMA HttpEmpty == EmptyHttp => Http!IInv
<1> SUFFICES ASSUME EmptyHttp PROVE Http!IInv
  OBVIOUS
<1> USE DEF EmptyHttp
<1>1. /\ HttpRequestBuffer \in Seq(Http!Token) /\ Len(HttpRequestBuffer) = 0
      /\ DOMAIN HttpRequestBuffer = {}
  BY Short, EmptySeq
<1>2. /\ peer \in [open : BOOLEAN, came : Seq(Http!Sent), sent : Seq(Http!Sent)]
      /\ Len(peer.came) = 0 /\ Len(peer.sent) = 0 /\ DOMAIN peer.came = {}
  BY Short, EmptySeq
<1>3. Http!BufferIsPrefix
  BY <1>1, <1>2 DEF Http!BufferIsPrefix
<1>4. Http!Clean
  BY <1>1 DEF Http!Clean, Http!HeaderEnds, Http!Ends
<1>5. Len(HttpRequestBuffer) <= kRequestBufferSize /\ age \in 0 .. kClientTimeout + 1
  BY <1>1, HttpSizes
<1> QED  BY <1>1, <1>2, <1>3, <1>4, <1>5, HttpTyped, Zenon DEF HttpParts

LEMMA HttpEmptied == EmptyHttp' => Http!IInv'
BY HttpEmpty, PTL

LEMMA HttpStarts == Http!Init => Http!IInv
<1> SUFFICES ASSUME Http!Init PROVE EmptyHttp
  BY HttpEmpty
<1> QED  BY Zenon DEF Http!Init, Http!NoPeer, EmptyHttp

\* Reading one more token completes a header only with that token.
LEMMA EndsAtLast ==
  ASSUME NEW b \in Seq(Http!Token), NEW c \in Seq(Http!Token), Len(c) = Len(b) + 1,
         \A i \in 1 .. Len(b) : c[i] = b[i], Http!HeaderEnds(b) = {}
  PROVE  /\ Http!HeaderEnds(c) \subseteq {Len(c)}
         /\ Http!HeaderEnds(c) # {} => Http!HeaderEnds(c) = {Len(c)}
                                       /\ Http!find_header_end(c) = Len(c)
<1>1. Len(b) \in Nat /\ DOMAIN b = 1 .. Len(b) /\ DOMAIN c = 1 .. Len(c) /\ Len(c) \in Nat
  BY LenProperties
<1>2. ASSUME NEW i \in Http!HeaderEnds(c), i # Len(c) PROVE FALSE
  <2>1. i \in 1 .. Len(c) /\ i - 1 \in 1 .. Len(c) /\ c[i] = "nl" /\ c[i - 1] = "nl"
    BY <1>1 DEF Http!HeaderEnds, Http!Ends
  <2>2. i \in 1 .. Len(b) /\ i - 1 \in 1 .. Len(b)
    BY <1>1, <1>2, <2>1
  <2>3. i \in Http!Ends(b) /\ i - 1 \in Http!Ends(b)
    BY <1>1, <2>1, <2>2 DEF Http!Ends
  <2> QED  BY <2>3 DEF Http!HeaderEnds
<1>3. Http!HeaderEnds(c) \subseteq {Len(c)}
  BY <1>2
<1>4. ASSUME Http!HeaderEnds(c) # {}
      PROVE  Http!HeaderEnds(c) = {Len(c)} /\ Http!find_header_end(c) = Len(c)
  <2>1. Http!HeaderEnds(c) = {Len(c)}
    BY <1>3, <1>4
  <2>2. Http!Min({Len(c)}) = Len(c)
    BY <1>1 DEF Http!Min
  <2> QED  BY <2>1, <2>2 DEF Http!find_header_end
<1> QED  BY <1>3, <1>4

\* Taking a request apart leaves its length, and its first token not one of a request.
LEMMA ApartIsCut ==
  ASSUME NEW b \in Seq(Http!Token), Len(b) > 0, NEW e
  PROVE  /\ Http!TakenApart(b, e) \in Seq(Http!Token) /\ Len(Http!TakenApart(b, e)) = Len(b)
         /\ DOMAIN Http!TakenApart(b, e) = DOMAIN b
         /\ Http!TakenApart(b, e)[1] = "cut" /\ Http!TakenApart(b, e) # << >>
<1> DEFINE t == Http!TakenApart(b, e)
<1>1. Len(b) \in Nat /\ DOMAIN b = 1 .. Len(b)
  BY LenProperties
<1>2. t = [i \in DOMAIN b |-> IF i = 1 THEN "cut"
                              ELSE IF i \in Http!Ends(b) /\ i <= e THEN "zero" ELSE b[i]]
  BY DEF Http!TakenApart
<1> HIDE DEF t
<1>3. \A i \in 1 .. Len(b) : t[i] \in Http!Token
  <2>1. \A i \in 1 .. Len(b) : b[i] \in Http!Token
    BY ElementOfSeq
  <2>2. "cut" \in Http!Token /\ "zero" \in Http!Token
    BY DEF Http!Token
  <2> QED  BY <1>1, <1>2, <2>1, <2>2
<1>4. t \in [1 .. Len(b) -> Http!Token]
  BY <1>1, <1>2, <1>3
<1>5. t \in Seq(Http!Token)
  BY <1>1, <1>4, SeqDef
<1>6. Len(t) = Len(b) /\ DOMAIN t = DOMAIN b
  BY <1>1, <1>4, <1>5, LenProperties
<1>7. t[1] = "cut"
  BY <1>1, <1>2
<1>8. t # << >>
  BY <1>1, <1>6, EmptySeq
<1> QED  BY <1>5, <1>6, <1>7, <1>8 DEF t

LEMMA HttpSteps ==
  ASSUME Http!IInv, Http!Next PROVE Http!IInv'
<1> DEFINE buf == HttpRequestBuffer
           came == peer.came
           sent == peer.sent
<1>1. /\ HttpServerEnabled \in BOOLEAN /\ HttpClientActive \in BOOLEAN
      /\ HttpAwaitingResponse \in BOOLEAN /\ HttpRequestIsHead \in BOOLEAN
      /\ reading \in BOOLEAN /\ waiting \in BOOLEAN /\ begun \in BOOLEAN
      /\ age \in 0 .. kClientTimeout + 1
      /\ peer \in [open : BOOLEAN, came : Seq(Http!Sent), sent : Seq(Http!Sent)]
      /\ Http!BufferIsPrefix
      /\ HttpAwaitingResponse => ~reading
      /\ HttpAwaitingResponse => Whole(AsSent(buf, sent), HttpRequestIsHead)
      /\ ~HttpAwaitingResponse => Http!Clean \/ Http!Cut
  BY HttpTyped, Zenon DEF HttpParts
<1>2. buf \in Seq(Http!Token) /\ Len(buf) <= kRequestBufferSize
  BY HttpTyped, Zenon DEF HttpParts
<1>3. /\ peer.open \in BOOLEAN /\ came \in Seq(Http!Sent) /\ sent \in Seq(Http!Sent)
      /\ peer = [open |-> peer.open, came |-> came, sent |-> sent]
  BY <1>1
<1>4. /\ Len(buf) \in Nat /\ Len(came) \in Nat /\ Len(sent) \in Nat /\ DOMAIN buf = 1 .. Len(buf)
      /\ DOMAIN came = 1 .. Len(came)
  BY <1>2, <1>3, LenProperties
<1>5. Len(sent) = Len(buf) + Len(came) /\ \A j \in 1 .. Len(came) : came[j] = sent[Len(buf) + j]
  BY <1>1, <1>4, Zenon DEF Http!BufferIsPrefix
<1>6. kRequestBufferSize \in Nat /\ kRequestBufferSize > 0 /\ kClientTimeout \in Nat
  BY HttpSizes
\* A step that leaves the buffer and what the connection sent alone.
<1>7. ASSUME HttpServerEnabled' \in BOOLEAN, HttpClientActive' \in BOOLEAN,
             reading' \in BOOLEAN, waiting' \in BOOLEAN, begun' \in BOOLEAN,
             age' \in 0 .. kClientTimeout + 1,
             UNCHANGED <<HttpAwaitingResponse, HttpRequestIsHead, HttpRequestBuffer>>,
             HttpAwaitingResponse => ~reading',
             NEW open \in BOOLEAN, peer' = [open |-> open, came |-> came, sent |-> sent]
      PROVE  Http!IInv'
  <2>1. /\ peer'.came = came /\ peer'.sent = sent
        /\ peer' \in [open : BOOLEAN, came : Seq(Http!Sent), sent : Seq(Http!Sent)]
    BY <1>3, <1>7
  <2>2. Http!BufferIsPrefix'
    BY <1>1, <1>7, <2>1 DEF Http!BufferIsPrefix
  <2>3. HttpAwaitingResponse' => Whole(AsSent(HttpRequestBuffer', peer'.sent), HttpRequestIsHead')
    BY <1>1, <1>7, <2>1
  <2>4. ~HttpAwaitingResponse' => Http!Clean' \/ Http!Cut'
    BY <1>1, <1>7, <2>1 DEF Http!Clean, Http!Cut
  <2>5. HttpRequestBuffer' \in Seq(Http!Token) /\ Len(HttpRequestBuffer') <= kRequestBufferSize
    BY <1>2, <1>7
  <2> QED
    BY <1>1, <1>7, <2>1, <2>2, <2>3, <2>4, <2>5, HttpRetyped, Zenon DEF HttpParts
\* Closing the connection.
<1>8. ASSUME Http!close_active_client, HttpServerEnabled' \in BOOLEAN, reading' \in BOOLEAN,
             waiting' \in BOOLEAN
      PROVE  Http!IInv'
  <2>1. EmptyHttp'
    BY <1>8, Zenon DEF EmptyHttp, Http!close_active_client, Http!NoPeer
  <2> QED  BY <2>1, HttpEmptied
<1>9. CASE Http!fn_httpserverstart
  BY <1>1, <1>3, <1>7, <1>9 DEF Http!fn_httpserverstart
<1>10. CASE Http!fn_httpserverstop
  BY <1>1, <1>8, <1>10, Zenon DEF Http!fn_httpserverstop
<1>11. CASE Http!fn_httpaccept
  <2>1. ~HttpAwaitingResponse
    BY <1>11 DEF Http!fn_httpaccept
  <2>2. CASE reading' = TRUE /\ UNCHANGED <<Http!server, age, waiting, peer, begun>>
    BY <1>1, <1>3, <1>7, <2>1, <2>2 DEF Http!server
  <2>3. CASE Http!close_active_client /\ UNCHANGED <<HttpServerEnabled, reading, waiting>>
    BY <1>1, <1>8, <2>3
  <2>4. CASE /\ HttpClientActive' = TRUE /\ HttpRequestBuffer' = << >> /\ age' = 0
             /\ reading' = TRUE /\ waiting' = FALSE /\ peer' = [Http!NoPeer EXCEPT !.open = TRUE]
             /\ UNCHANGED <<HttpServerEnabled, HttpAwaitingResponse, HttpRequestIsHead, begun>>
    <3>1. peer' = [open |-> TRUE, came |-> << >>, sent |-> << >>]
      BY <2>4, Zenon DEF Http!NoPeer
    <3>2. EmptyHttp'
      BY <1>1, <2>1, <2>4, <3>1, Zenon DEF EmptyHttp
    <3> QED  BY <3>2, HttpEmptied
  <2> QED  BY <1>11, <2>2, <2>3, <2>4, Zenon DEF Http!fn_httpaccept
<1>12. CASE Http!ReadByte
  <2>1. /\ reading /\ came # << >> /\ UNCHANGED <<HttpServerEnabled, waiting>>
    BY <1>12 DEF Http!ReadByte
  <2>2. ~HttpAwaitingResponse
    BY <1>1, <2>1
  <2>3. CASE Len(buf) >= kRequestBufferSize
    <3>1. Http!write_error_and_close /\ reading' = FALSE
      BY <1>12, <2>3 DEF Http!ReadByte
    <3> QED  BY <1>1, <1>8, <2>1, <3>1, Zenon DEF Http!write_error_and_close
  <2>4. CASE ~(Len(buf) >= kRequestBufferSize)
    <3> DEFINE b == Append(buf, Head(came))
               came1 == Tail(came)
    <3>1. IF Http!HeaderEnds(b) # {}
          THEN Http!parse_request_to_lisp(b, Http!find_header_end(b)) /\ reading' = FALSE
          ELSE /\ HttpRequestBuffer' = b
               /\ peer' = [peer EXCEPT !.came = Tail(@)]
               /\ UNCHANGED <<HttpClientActive, HttpAwaitingResponse,
                              HttpRequestIsHead, age, reading, begun>>
      BY <1>12, <2>4, Zenon DEF Http!ReadByte
    <3>2. /\ Head(came) \in Http!Sent /\ came1 \in Seq(Http!Sent) /\ Len(came1) = Len(came) - 1
          /\ \A k \in 1 .. Len(came1) : came1[k] = came[k + 1]
      BY <1>3, <2>1, HeadTailProperties
    <3>3. Len(came) > 0 /\ Head(came) = came[1]
      BY <1>3, <1>4, <2>1, EmptySeq
    <3>4. Head(came) \in Http!Token
      BY <3>2 DEF Http!Token
    <3>5. /\ b \in Seq(Http!Token) /\ Len(b) = Len(buf) + 1 /\ DOMAIN b = 1 .. Len(buf) + 1
          /\ b[Len(buf) + 1] = Head(came) /\ \A i \in 1 .. Len(buf) : b[i] = buf[i]
      BY <1>2, <3>4, OneMore
    <3> HIDE DEF b, came1
    <3>6. Len(b) <= kRequestBufferSize /\ Len(b) > 0 /\ b # << >>
      BY <1>4, <1>6, <2>4, <3>5, EmptySeq
    <3>7. peer' = [peer EXCEPT !.came = Tail(@)] =>
            /\ peer'.came = came1 /\ peer'.sent = sent
            /\ peer' \in [open : BOOLEAN, came : Seq(Http!Sent), sent : Seq(Http!Sent)]
      <4> SUFFICES ASSUME peer' = [peer EXCEPT !.came = Tail(@)]
                   PROVE  peer' = [open |-> peer.open, came |-> came1, sent |-> sent]
        BY <1>3, <3>2
      <4> QED  BY <1>3, Zenon DEF came1
    <3>8. ASSUME peer'.came = came1, peer'.sent = sent, Len(HttpRequestBuffer') = Len(b)
          PROVE  Http!BufferIsPrefix'
      <4>1. DOMAIN came1 = 1 .. Len(came1) /\ Len(came1) \in Nat
        BY <3>2, LenProperties
      <4>2. Len(sent) = Len(b) + Len(came1)
        <5> HIDE DEF buf, came, sent
        <5> QED  BY <1>4, <1>5, <3>2, <3>5
      <4>3. \A j \in 1 .. Len(came1) : came1[j] = sent[Len(b) + j]
        <5> HIDE DEF buf, came, sent
        <5> SUFFICES ASSUME NEW j \in 1 .. Len(came1) PROVE came1[j] = sent[Len(b) + j]
          OBVIOUS
        <5>1. j + 1 \in 1 .. Len(came) /\ Len(buf) + (j + 1) = Len(b) + j
          BY <1>4, <3>2, <3>5
        <5>2. came1[j] = came[j + 1] /\ came[j + 1] = sent[Len(buf) + (j + 1)]
          BY <1>5, <3>2, <5>1
        <5> QED  BY <5>1, <5>2
      <4> HIDE DEF sent
      <4> QED  BY <3>8, <4>1, <4>2, <4>3 DEF Http!BufferIsPrefix
    \* What was read so far is as sent.
    <3>9. ASSUME Http!Clean
          PROVE  AsSent(b, sent) = b /\ \A i \in 1 .. Len(b) : b[i] = sent[i]
      <4>1. \A i \in 1 .. Len(buf) : buf[i] = sent[i]
        BY <1>4, <3>9 DEF Http!Clean
      <4>2. Head(came) = sent[Len(buf) + 1]
        <5> HIDE DEF buf, came, sent
        <5> QED  BY <1>4, <1>5, <3>3
      <4> HIDE DEF buf, came, sent
      <4>3. \A i \in 1 .. Len(b) : b[i] = sent[i]
        BY <1>4, <3>5, <4>1, <4>2
      <4>4. b = [i \in DOMAIN b |-> sent[i]]
        <5>1. b = [i \in DOMAIN b |-> b[i]]
          BY <3>5
        <5> QED  BY <3>5, <4>3, <5>1
      <4> QED  BY <4>3, <4>4 DEF AsSent
    <3>10. CASE Http!HeaderEnds(b) = {}
      <4>1. /\ HttpRequestBuffer' = b /\ peer' = [peer EXCEPT !.came = Tail(@)]
            /\ UNCHANGED <<HttpClientActive, HttpAwaitingResponse,
                           HttpRequestIsHead, age, reading, begun>>
        BY <3>1, <3>10
      <4>2. ~HttpAwaitingResponse' => Http!Clean' \/ Http!Cut'
        <5>1. CASE Http!Clean
          <6>1. \A i \in DOMAIN b : b[i] = sent[i]
            BY <3>5, <3>9, <5>1
          <6> HIDE DEF sent
          <6>2. Http!Clean'
            BY <3>7, <3>10, <4>1, <6>1 DEF Http!Clean
          <6> QED  BY <6>2
        <5>2. CASE Http!Cut
          <6>1. b[1] = "cut"
            <7>1. buf # << >> /\ buf[1] = "cut"
              BY <5>2 DEF Http!Cut
            <7>2. 1 \in 1 .. Len(buf)
              BY <1>2, <1>4, <7>1, EmptySeq
            <7> QED  BY <3>5, <7>1, <7>2
          <6> QED  BY <3>6, <4>1, <6>1 DEF Http!Cut
        <5> QED  BY <1>1, <2>2, <5>1, <5>2
      <4>3. HttpAwaitingResponse' = FALSE
        BY <1>1, <2>2, <4>1
      <4>4. Http!BufferIsPrefix'
        BY <3>7, <3>8, <4>1
      <4>5. HttpRequestBuffer' \in Seq(Http!Token) /\ Len(HttpRequestBuffer') <= kRequestBufferSize
        BY <3>5, <3>6, <4>1
      <4> QED
        BY <1>1, <2>1, <3>7, <4>1, <4>2, <4>3, <4>4, <4>5, HttpRetyped, Zenon DEF HttpParts
    <3>11. CASE Http!HeaderEnds(b) # {} /\ b[1] \notin {"GET", "HEAD"}
      <4>1. Http!close_active_client /\ reading' = FALSE
        BY <3>1, <3>11 DEF Http!parse_request_to_lisp, Http!write_error_and_close
      <4> QED  BY <1>1, <1>8, <2>1, <4>1, Zenon
    <3>12. CASE Http!HeaderEnds(b) # {} /\ b[1] \in {"GET", "HEAD"}
      <4>1. Http!Clean
        <5>1. ASSUME Http!Cut PROVE FALSE
          <6>1. buf # << >> /\ buf[1] = "cut"
            BY <5>1 DEF Http!Cut
          <6>2. 1 \in 1 .. Len(buf)
            BY <1>2, <1>4, <6>1, EmptySeq
          <6> QED  BY <3>5, <3>12, <6>1, <6>2
        <5> QED  BY <1>1, <2>2, <5>1
      <4>2. Http!HeaderEnds(b) = {Len(b)} /\ Http!find_header_end(b) = Len(b)
        BY <1>2, <3>5, <3>12, <4>1, EndsAtLast DEF Http!Clean
      <4> DEFINE long == Http!TooLong(b, Len(b))
      <4>3. /\ HttpRequestIsHead' = (b[1] = "HEAD")
            /\ IF long = {}
               THEN HttpAwaitingResponse' = TRUE
                    /\ HttpRequestBuffer' = Http!TakenApart(b, Len(b))
               ELSE /\ HttpAwaitingResponse' = FALSE
                    /\ HttpRequestBuffer' = Http!TakenApart(b, Http!Min(long))
            /\ peer' = [peer EXCEPT !.came = Tail(@)]
            /\ UNCHANGED <<HttpClientActive, age, begun>> /\ reading' = FALSE
        BY <3>1, <3>12, <4>2 DEF Http!parse_request_to_lisp
      <4>4. /\ HttpRequestBuffer' \in Seq(Http!Token) /\ Len(HttpRequestBuffer') = Len(b)
            /\ DOMAIN HttpRequestBuffer' = DOMAIN b
            /\ HttpRequestBuffer' # << >> /\ HttpRequestBuffer'[1] = "cut"
        <5> HIDE DEF long
        <5>1. CASE long = {}
          BY <3>5, <3>6, <4>3, <5>1, ApartIsCut
        <5>2. CASE long # {}
          BY <3>5, <3>6, <4>3, <5>2, ApartIsCut
        <5> QED  BY <5>1, <5>2
      <4>5. Http!BufferIsPrefix'
        BY <3>7, <3>8, <4>3, <4>4
      <4>6. ~HttpAwaitingResponse' => Http!Clean' \/ Http!Cut'
        BY <4>4 DEF Http!Cut
      <4>7. HttpAwaitingResponse' =>
              Whole(AsSent(HttpRequestBuffer', peer'.sent), HttpRequestIsHead')
        <5> SUFFICES ASSUME HttpAwaitingResponse'
                     PROVE  Whole(AsSent(HttpRequestBuffer', peer'.sent), HttpRequestIsHead')
          OBVIOUS
        <5>1. long = {}
          BY <4>3
        <5>2. peer'.sent = sent
          BY <3>7, <4>3
        <5> HIDE DEF sent
        <5>3. AsSent(HttpRequestBuffer', peer'.sent) = AsSent(b, sent)
          BY <4>4, <5>2 DEF AsSent
        <5>4. AsSent(HttpRequestBuffer', peer'.sent) = b
          BY <3>9, <4>1, <5>3
        <5>5. b[1] = IF HttpRequestIsHead' THEN "HEAD" ELSE "GET"
          BY <3>12, <4>3, Zenon
        <5>6. Whole(b, HttpRequestIsHead')
          BY <4>2, <5>1, <5>5, Zenon DEF Whole
        <5> QED  BY <5>4, <5>6
      <4>8. HttpRequestIsHead' \in BOOLEAN /\ HttpAwaitingResponse' \in BOOLEAN
        BY <4>3, Zenon
      <4>9. Len(HttpRequestBuffer') <= kRequestBufferSize
        BY <3>6, <4>4
      <4> QED
        BY <1>1, <2>1, <3>7, <4>3, <4>4, <4>5, <4>6, <4>7, <4>8, <4>9, HttpRetyped, Zenon
           DEF HttpParts
    <3> QED  BY <3>10, <3>11, <3>12
  <2> QED  BY <2>3, <2>4
<1>13. CASE Http!AcceptReturns
  <2>1. CASE Http!close_active_client /\ UNCHANGED <<HttpServerEnabled, waiting>>
    BY <1>1, <1>8, <1>13, <2>1, Zenon DEF Http!AcceptReturns
  <2>2. CASE UNCHANGED <<Http!server, age, waiting, peer, begun>>
    BY <1>1, <1>3, <1>7, <1>13, <2>2, Zenon DEF Http!AcceptReturns, Http!server
  <2> QED  BY <1>13, <2>1, <2>2 DEF Http!AcceptReturns
<1>14. ASSUME NEW ok \in BOOLEAN, Http!fn_httprespond(ok) PROVE Http!IInv'
  <2>1. CASE ok
    BY <1>1, <1>8, <1>14, <2>1 DEF Http!fn_httprespond
  <2>2. CASE ~ok
    BY <1>1, <1>3, <1>7, <1>14, <2>2 DEF Http!fn_httprespond, Http!server
  <2> QED  BY <2>1, <2>2
<1>15. CASE Http!Connect
  BY <1>1, <1>3, <1>7, <1>15 DEF Http!Connect, Http!server
<1>16. CASE Http!Hangup
  <2>1. peer' = [open |-> FALSE, came |-> came, sent |-> sent]
    BY <1>3, <1>16, Zenon DEF Http!Hangup
  <2> QED  BY <1>1, <1>7, <1>16, <2>1, Zenon DEF Http!Hangup, Http!server
<1>17. CASE Http!Tick
  <2>1. age' \in 0 .. kClientTimeout + 1
    BY <1>1, <1>6, <1>17 DEF Http!Tick
  <2> QED  BY <1>1, <1>3, <1>7, <1>17, <2>1 DEF Http!Tick, Http!server
\* What is sent comes behind what was.
<1>18. ASSUME NEW t \in Http!Sent, Http!Send(t) PROVE Http!IInv'
  <2> DEFINE came1 == Append(came, t)
             sent1 == Append(sent, t)
  <2>1. /\ peer' = [open |-> peer.open, came |-> came1, sent |-> sent1]
        /\ UNCHANGED <<HttpServerEnabled, HttpClientActive, HttpAwaitingResponse,
                       HttpRequestIsHead, HttpRequestBuffer, age, reading, waiting, begun>>
    BY <1>3, <1>18, Zenon DEF Http!Send, Http!server
  <2>2. /\ came1 \in Seq(Http!Sent) /\ Len(came1) = Len(came) + 1
        /\ DOMAIN came1 = 1 .. Len(came) + 1
        /\ came1[Len(came) + 1] = t /\ \A i \in 1 .. Len(came) : came1[i] = came[i]
    BY <1>3, OneMore
  <2>3. /\ sent1 \in Seq(Http!Sent) /\ Len(sent1) = Len(sent) + 1
        /\ sent1[Len(sent) + 1] = t /\ \A i \in 1 .. Len(sent) : sent1[i] = sent[i]
    BY <1>3, OneMore
  <2> HIDE DEF came1, sent1
  <2>4. /\ peer'.came = came1 /\ peer'.sent = sent1
        /\ peer' \in [open : BOOLEAN, came : Seq(Http!Sent), sent : Seq(Http!Sent)]
    BY <1>3, <2>1, <2>2, <2>3
  <2> HIDE DEF came, sent
  <2>5. \A i \in 1 .. Len(buf) : sent1[i] = sent[i]
    BY <1>4, <1>5, <2>3
  <2>6. AsSent(buf, sent1) = AsSent(buf, sent)
    <3> HIDE DEF buf
    <3> QED  BY <1>4, <2>5 DEF AsSent
  <2>7. Http!BufferIsPrefix'
    <3>1. \A j \in 1 .. Len(came) + 1 : came1[j] = sent1[Len(buf) + j]
      <4> SUFFICES ASSUME NEW j \in 1 .. Len(came) + 1 PROVE came1[j] = sent1[Len(buf) + j]
        OBVIOUS
      <4> HIDE DEF buf
      <4>1. CASE j = Len(came) + 1
        <5>1. Len(buf) + j = Len(sent) + 1
          BY <1>4, <1>5, <4>1
        <5> QED  BY <2>2, <2>3, <4>1, <5>1
      <4>2. CASE j # Len(came) + 1
        <5>1. j \in 1 .. Len(came) /\ Len(buf) + j \in 1 .. Len(sent)
          BY <1>4, <1>5, <4>2
        <5> QED  BY <1>5, <2>2, <2>3, <5>1
      <4> QED  BY <4>1, <4>2
    <3>2. Len(sent1) = Len(buf) + Len(came1)
      <4> HIDE DEF buf
      <4> QED  BY <1>4, <1>5, <2>2, <2>3
    <3> QED  BY <2>1, <2>2, <2>4, <3>1, <3>2, Zenon DEF Http!BufferIsPrefix
  <2>8. HttpAwaitingResponse' => Whole(AsSent(HttpRequestBuffer', peer'.sent), HttpRequestIsHead')
    BY <1>1, <2>1, <2>4, <2>6
  <2>9. ~HttpAwaitingResponse' => Http!Clean' \/ Http!Cut'
    <3>1. Http!Clean => Http!Clean'
      <4> SUFFICES ASSUME Http!Clean PROVE Http!Clean'
        OBVIOUS
      <4>1. \A i \in 1 .. Len(buf) : buf[i] = sent1[i]
        BY <1>4, <2>5 DEF Http!Clean, sent
      <4>2. Http!HeaderEnds(HttpRequestBuffer') = {}
        BY <2>1 DEF Http!Clean
      <4>3. DOMAIN HttpRequestBuffer' = 1 .. Len(buf) /\ HttpRequestBuffer' = buf
        BY <1>4, <2>1
      <4> HIDE DEF buf
      <4> QED  BY <2>4, <4>1, <4>2, <4>3 DEF Http!Clean
    <3>2. Http!Cut => Http!Cut'
      BY <2>1 DEF Http!Cut
    <3> QED  BY <1>1, <2>1, <3>1, <3>2
  <2>10. HttpRequestBuffer' \in Seq(Http!Token) /\ Len(HttpRequestBuffer') <= kRequestBufferSize
    BY <1>2, <2>1
  <2> QED  BY <1>1, <2>1, <2>4, <2>7, <2>8, <2>9, <2>10, HttpRetyped, Zenon DEF HttpParts
<1> QED
  BY <1>9, <1>10, <1>11, <1>12, <1>13, <1>14, <1>15, <1>16, <1>17, <1>18 DEF Http!Next

-----------------------------------------------------------------------------
(* The services together: each is alone in its behaviours.                 *)

LEMMA DnsStays == Dns!IInv /\ UNCHANGED dns => Dns!IInv'
<1> SUFFICES ASSUME Dns!IInv, UNCHANGED dns PROVE Dns!IInv'
  OBVIOUS
<1>1. at' = at /\ query' = query /\ question_ptr' = question_ptr /\ reply' = reply
  BY DEF dns
<1>2. Dns!TypeOK' /\ Dns!AnswerFits' /\ Dns!AnswersTheQuestion' /\ Dns!OnTheName'
  BY <1>1 DEF Dns!IInv, Dns!TypeOK, Dns!AnswerFits, Dns!AnswersTheQuestion, Dns!OnTheName,
     Dns!MsgLen
<1> QED  BY <1>1, <1>2 DEF Dns!IInv

LEMMA ScanStays == Wifi!IInv /\ UNCHANGED wifi => Wifi!IInv'
<1> SUFFICES ASSUME Wifi!IInv, UNCHANGED wifi PROVE Wifi!IInv'
  OBVIOUS
<1>1. UNCHANGED <<WifiScanResults, WifiScanCount, WifiScanEverStarted, active, maps, listing>>
  BY DEF wifi
<1>2. Wifi!TypeOK' /\ Wifi!Listed' /\ Wifi!StillThere'
  BY <1>1 DEF Wifi!IInv, Wifi!TypeOK, Wifi!Listed, Wifi!StillThere
<1> QED  BY <1>1, <1>2 DEF Wifi!IInv

LEMMA StationStays == Joining!IInv /\ UNCHANGED station => Joining!IInv'
<1> SUFFICES ASSUME Joining!IInv, UNCHANGED station PROVE Joining!IInv'
  OBVIOUS
<1>1. UNCHANGED <<link, ip, WifiTraceEnabled, call, answer>>
  BY DEF station
<1>2. Joining!TcpipStatus' = Joining!TcpipStatus /\ Joining!DhcpState' = Joining!DhcpState
  BY <1>1 DEF Joining!TcpipStatus, Joining!DhcpState
<1>3. Joining!TypeOK' /\ Joining!AnswersAsItIs' /\ Joining!TracingEnds' /\ Joining!Learned'
  BY <1>1, <1>2, Zenon DEF Joining!IInv, Joining!TypeOK, Joining!AnswersAsItIs,
     Joining!TracingEnds, Joining!Learned
<1> QED  BY <1>1, <1>3 DEF Joining!IInv

LEMMA HttpStays == Http!IInv /\ UNCHANGED http => Http!IInv'
<1> SUFFICES ASSUME Http!IInv, UNCHANGED http PROVE Http!IInv'
  OBVIOUS
<1>1. UNCHANGED <<HttpServerEnabled, HttpClientActive, HttpAwaitingResponse, HttpRequestIsHead,
                  HttpRequestBuffer, age, reading, waiting, peer, begun>>
  BY DEF http
<1>2. HttpParts
  BY HttpTyped
<1>3. HttpParts'
  BY <1>1, <1>2 DEF HttpParts, Http!BufferIsPrefix, Http!Clean, Http!Cut
<1> QED  BY <1>3, HttpRetyped

\* What the DNS server answers fits its buffer and is right behind the question; wifi-scan
\* and wifi-scan-map give what was heard, in order; and what the station's builtins answer
\* is as it is, unless the radio changed meanwhile, the driver being traced until it has
\* answered and after an argument was refused: for any sizes, any bytes, any number of
\* networks, mappings and addresses (src/dnsserver.c, wifi_scan_callback,
\* sp_withwifi and fn_wificonnect of src/ulisp_builtins_system.cpp).
THEOREM NetworkIsAnswered == Spec => []NetworkAnswers
<1> DEFINE I == /\ service = "dns" => Dns!IInv
                /\ service = "wifi" => Wifi!IInv
                /\ service = "station" => Joining!IInv
<1>0. Dns!DnsAssumption /\ Wifi!ScanAssumption /\ Joining!StationAssumption
  BY ServicesAssumption
<1>1. Init => I
  BY <1>0, DnsStarts, ScanStarts, StationStarts DEF Init
<1>2. I /\ [Next]_vars => I'
  <2> SUFFICES ASSUME I, [Next]_vars PROVE I'
    OBVIOUS
  <2>1. service' = service
    BY DEF Next, vars
  <2>2. ASSUME service = "dns" PROVE Dns!IInv'
    <3>1. Dns!Next \/ UNCHANGED dns
      BY <2>2 DEF Next, vars
    <3> QED  BY <1>0, <2>2, <3>1, DnsSteps, DnsStays
  <2>3. ASSUME service = "wifi" PROVE Wifi!IInv'
    <3>1. Wifi!Next \/ UNCHANGED wifi
      BY <2>3 DEF Next, vars
    <3> QED  BY <1>0, <2>3, <3>1, ScanSteps, ScanStays
  <2>4. ASSUME service = "station" PROVE Joining!IInv'
    <3>1. Joining!Next \/ UNCHANGED station
      BY <2>4 DEF Next, vars
    <3> QED  BY <1>0, <2>4, <3>1, StationSteps, StationStays
  <2> QED  BY <2>1, <2>2, <2>3, <2>4
<1>3. I => NetworkAnswers
  <2>1. Dns!IInv => Dns!TypeOK /\ Dns!AnswerFits /\ Dns!AnswersTheQuestion
    BY DEF Dns!IInv
  <2>2. Wifi!IInv => Wifi!TypeOK /\ Wifi!MapsWhatWasHeard
    BY <1>0, ScanImplied DEF Wifi!IInv
  <2>3. Joining!IInv => Joining!TypeOK /\ Joining!AnswersAsItIs /\ Joining!TracingEnds
    BY DEF Joining!IInv
  <2> QED  BY <2>1, <2>2, <2>3 DEF NetworkAnswers
<1> QED
  BY <1>1, <1>2, <1>3, PTL DEF Spec

\* What http-accept hands out is a whole request of its connection, as it was sent, whatever
\* the peer sends and in however many pieces, whatever was refused, left by an error or given
\* up before, and for any sizes of the buffer and of a line (fn_httpaccept,
\* parse_request_to_lisp, src/ulisp_http.cpp).
THEOREM RequestsAreWhole == Spec => []HandsOutWholeRequests
<1> DEFINE I == service = "http" => Http!IInv
<1>1. Init => I
  BY HttpStarts DEF Init
<1>2. I /\ [Next]_vars => I'
  <2> SUFFICES ASSUME I, [Next]_vars PROVE I'
    OBVIOUS
  <2>1. service' = service
    BY DEF Next, vars
  <2>2. ASSUME service = "http" PROVE Http!IInv'
    <3>1. Http!Next \/ UNCHANGED http
      BY <2>2 DEF Next, vars
    <3> QED  BY <2>2, <3>1, HttpSteps, HttpStays
  <2> QED  BY <2>1, <2>2
<1>3. I => HandsOutWholeRequests
  BY DEF HandsOutWholeRequests, Http!IInv
<1> QED
  BY <1>1, <1>2, <1>3, PTL DEF Spec
=============================================================================
