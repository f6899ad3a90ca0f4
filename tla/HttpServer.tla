---------------------------- MODULE HttpServer ----------------------------
(***************************************************************************)
(* The cooperative HTTP server (src/ulisp_http.cpp), as built with         *)
(* ULISP_HTTP_ARDUINO_TRANSPORT: one connection at a time, read a little   *)
(* at each http-accept, answered by http-respond.                          *)
(*                                                                         *)
(* A request is a sequence of tokens: "GET" and "HEAD" stand for a whole   *)
(* well-formed request line without its end, "text" for other text of unit *)
(* length, "nl" for the end of a line (LF, or CR and LF).  Parsing writes  *)
(* zeros into the buffer: "cut" is a request line whose spaces were        *)
(* zeroed, "zero" a zeroed end of line.  The TCP stack and the peer are    *)
(* external; what a header says is left out.                               *)
(***************************************************************************)
EXTENDS Integers, Sequences, FiniteSetsExt

CONSTANTS
  kRequestBufferSize,
  kMaxHeaderLine,
  kClientTimeout,   \* kClientTimeoutMs, in ticks
  MaxSent,          \* tokens one peer sends (bound of the model)
  Window            \* of which so many wait to be read (bound of the model)

SizeAssumption ==
  {kRequestBufferSize, kMaxHeaderLine, kClientTimeout, MaxSent, Window}
    \subseteq Nat \ {0}

Sent  == {"GET", "HEAD", "text", "nl"}
Token == Sent \union {"cut", "zero"}

VARIABLES
  HttpServerEnabled, HttpClientActive, HttpAwaitingResponse, HttpRequestIsHead,
  HttpRequestBuffer,  \* its first HttpRequestLength tokens
  age,                \* since HttpClientAcceptedAt
  reading,            \* inside http-accept
  waiting,            \* a peer has connected that was not accepted yet
  peer,               \* of the connection: [open, came: tokens to read, sent: all of them]
  begun               \* a response was begun and given up

server == <<HttpServerEnabled, HttpClientActive, HttpAwaitingResponse,
            HttpRequestIsHead, HttpRequestBuffer>>
vars == <<server, age, reading, waiting, peer, begun>>

NoPeer == [open |-> FALSE, came |-> << >>, sent |-> << >>]

TypeOK ==
  /\ {HttpServerEnabled, HttpClientActive, HttpAwaitingResponse, HttpRequestIsHead,
      reading, waiting, begun} \subseteq BOOLEAN
  /\ HttpRequestBuffer \in Seq(Token) /\ Len(HttpRequestBuffer) <= kRequestBufferSize
  /\ age \in 0 .. kClientTimeout + 1
  /\ peer \in [open : BOOLEAN, came : Seq(Sent), sent : Seq(Sent)]

Init ==
  /\ HttpServerEnabled = FALSE /\ HttpClientActive = FALSE
  /\ HttpAwaitingResponse = FALSE /\ HttpRequestIsHead = FALSE
  /\ HttpRequestBuffer = << >> /\ age = 0 /\ reading = FALSE
  /\ waiting = FALSE /\ peer = NoPeer /\ begun = FALSE

-----------------------------------------------------------------------------
(* The request.                                                            *)

\* The ends of the lines of b.
Ends(b) == {i \in DOMAIN b : b[i] = "nl"}
HeaderEnds(b) == {i \in Ends(b) : i - 1 \in Ends(b)}
find_header_end(b) == Min(HeaderEnds(b))

\* Where the line that ends at i begins.
Start(b, i) == Max({0} \union {j \in Ends(b) : j < i}) + 1

\* The ends of the header lines of b that are too long, the header ending at e.
TooLong(b, e) ==
  {i \in Ends(b) : Start(b, i) > 1 /\ i <= e /\ i - Start(b, i) > kMaxHeaderLine}

\* b when the lines up to the one that ends at e were taken apart.
TakenApart(b, e) ==
  [i \in DOMAIN b |-> IF i = 1 THEN "cut"
                      ELSE IF i \in Ends(b) /\ i <= e THEN "zero" ELSE b[i]]

-----------------------------------------------------------------------------
(* The functions.                                                          *)

close_active_client ==
  /\ HttpClientActive' = FALSE /\ HttpAwaitingResponse' = FALSE
  /\ HttpRequestIsHead' = FALSE /\ HttpRequestBuffer' = << >>
  /\ peer' = NoPeer /\ begun' = FALSE /\ age' = 0

write_error_and_close == close_active_client

fn_httpserverstart ==
  /\ ~reading /\ HttpServerEnabled' = TRUE
  /\ UNCHANGED <<HttpClientActive, HttpAwaitingResponse, HttpRequestIsHead,
                 HttpRequestBuffer, age, reading, waiting, peer, begun>>

fn_httpserverstop ==
  /\ ~reading /\ close_active_client /\ HttpServerEnabled' = FALSE
  /\ waiting' = FALSE /\ UNCHANGED reading

\* Mutant: a connection that was accepted may take as long as it wants.
fn_httpaccept_NoTimeout ==
  /\ ~reading /\ HttpServerEnabled /\ ~HttpAwaitingResponse
  /\ reading' = TRUE
  /\ \/ HttpClientActive /\ UNCHANGED <<server, age, waiting, peer, begun>>
     \/ /\ ~HttpClientActive /\ waiting
        /\ HttpClientActive' = TRUE /\ HttpRequestBuffer' = << >> /\ age' = 0
        /\ waiting' = FALSE /\ peer' = [NoPeer EXCEPT !.open = TRUE]
        /\ UNCHANGED <<HttpServerEnabled, HttpAwaitingResponse, HttpRequestIsHead, begun>>

\* Up to the loop.  Else http-accept returns nil and changes nothing.
fn_httpaccept ==
  /\ ~reading /\ HttpServerEnabled /\ ~HttpAwaitingResponse
  /\ \/ /\ HttpClientActive /\ age <= kClientTimeout
        /\ reading' = TRUE /\ UNCHANGED <<server, age, waiting, peer, begun>>
     \/ /\ HttpClientActive /\ age > kClientTimeout
        /\ close_active_client /\ UNCHANGED <<HttpServerEnabled, reading, waiting>>
     \/ /\ ~HttpClientActive /\ waiting
        /\ HttpClientActive' = TRUE /\ HttpRequestBuffer' = << >> /\ age' = 0
        /\ reading' = TRUE /\ waiting' = FALSE /\ peer' = [NoPeer EXCEPT !.open = TRUE]
        /\ UNCHANGED <<HttpServerEnabled, HttpAwaitingResponse, HttpRequestIsHead, begun>>

\* Mutant: the request counts as handed out before its headers were taken apart.
parse_request_to_lisp_Early(b, e) ==
  IF b[1] \notin {"GET", "HEAD"}
  THEN write_error_and_close
  ELSE /\ HttpRequestIsHead' = (b[1] = "HEAD") /\ HttpAwaitingResponse' = TRUE
       /\ HttpRequestBuffer' = TakenApart(b, Min(TooLong(b, e) \union {e}))
       /\ peer' = [peer EXCEPT !.came = Tail(@)]
       /\ UNCHANGED <<HttpClientActive, age, begun>>

\* A request that ends at e: returned, refused, or left by an error with the buffer
\* half taken apart and the connection as it was.
parse_request_to_lisp(b, e) ==
  IF b[1] \notin {"GET", "HEAD"}
  THEN write_error_and_close
  ELSE /\ HttpRequestIsHead' = (b[1] = "HEAD")
       /\ IF TooLong(b, e) = {}
          THEN HttpAwaitingResponse' = TRUE /\ HttpRequestBuffer' = TakenApart(b, e)
          ELSE /\ HttpAwaitingResponse' = FALSE
               /\ HttpRequestBuffer' = TakenApart(b, Min(TooLong(b, e)))
       /\ peer' = [peer EXCEPT !.came = Tail(@)]
       /\ UNCHANGED <<HttpClientActive, age, begun>>

\* One turn of the loop.
ReadByte ==
  /\ reading /\ peer.came # << >>
  /\ IF Len(HttpRequestBuffer) >= kRequestBufferSize
     THEN write_error_and_close /\ reading' = FALSE
     ELSE \E b \in {Append(HttpRequestBuffer, Head(peer.came))} :
            IF HeaderEnds(b) # {}
            THEN parse_request_to_lisp(b, find_header_end(b)) /\ reading' = FALSE
            ELSE /\ HttpRequestBuffer' = b
                 /\ peer' = [peer EXCEPT !.came = Tail(@)]
                 /\ UNCHANGED <<HttpClientActive, HttpAwaitingResponse,
                                HttpRequestIsHead, age, reading, begun>>
  /\ UNCHANGED <<HttpServerEnabled, waiting>>

\* Nothing more to read, or kParseBudgetMs are over.
AcceptReturns ==
  /\ reading /\ reading' = FALSE
  /\ IF ~peer.open /\ peer.came = << >>
     THEN close_active_client /\ UNCHANGED <<HttpServerEnabled, waiting>>
     ELSE UNCHANGED <<server, age, waiting, peer, begun>>

\* ok is whether the headers are pairs of strings: else the error comes when the
\* status is written.
fn_httprespond(ok) ==
  /\ ~reading /\ HttpClientActive /\ HttpAwaitingResponse
  /\ IF ok THEN close_active_client /\ UNCHANGED <<HttpServerEnabled, reading, waiting>>
     ELSE /\ begun' = TRUE
          /\ UNCHANGED <<server, age, reading, waiting, peer>>

-----------------------------------------------------------------------------
(* The peers and time (external).                                          *)

Connect ==
  /\ HttpServerEnabled /\ ~waiting /\ waiting' = TRUE
  /\ UNCHANGED <<server, age, reading, peer, begun>>

\* Only a request's first line is looked at as one; Window tokens wait unread.
Send(t) ==
  /\ peer.open /\ Len(peer.sent) < MaxSent /\ Len(peer.came) < Window
  /\ t \in {"GET", "HEAD"} => peer.sent = << >>
  /\ peer' = [peer EXCEPT !.came = Append(@, t), !.sent = Append(@, t)]
  /\ UNCHANGED <<server, age, reading, waiting, begun>>

Hangup ==
  /\ peer.open /\ peer' = [peer EXCEPT !.open = FALSE]
  /\ UNCHANGED <<server, age, reading, waiting, begun>>

Tick ==
  /\ HttpClientActive /\ age <= kClientTimeout /\ age' = age + 1
  /\ UNCHANGED <<server, reading, waiting, peer, begun>>

Next ==
  \/ fn_httpserverstart \/ fn_httpserverstop
  \/ fn_httpaccept \/ ReadByte \/ AcceptReturns
  \/ \E ok \in BOOLEAN : fn_httprespond(ok)
  \/ \E t \in Sent : Send(t)
  \/ Connect \/ Hangup \/ Tick

Spec == Init /\ [][Next]_vars

-----------------------------------------------------------------------------
(* Properties.                                                             *)

\* What http-accept hands out is a whole request of the connection it will answer:
\* as sent, header ended, no line too long, and HEAD remembered for what it is.  An
\* error that left the buffer half taken apart never turns into a request later.
HandsOutWholeRequests ==
  HttpAwaitingResponse =>
    LET b == [i \in DOMAIN HttpRequestBuffer |-> peer.sent[i]] IN
    /\ HeaderEnds(b) = {Len(b)} /\ TooLong(b, Len(b)) = {}
    /\ b[1] = IF HttpRequestIsHead THEN "HEAD" ELSE "GET"

\* The program polls, responds to what it gets sooner or later, and time goes on.
Fairness ==
  /\ WF_vars(fn_httpaccept) /\ WF_vars(ReadByte) /\ WF_vars(AcceptReturns)
  /\ WF_vars(Tick) /\ SF_vars(fn_httprespond(TRUE))
FairSpec == Spec /\ Fairness

\* No peer keeps the server: whatever it sends or does not send, and whatever error
\* its request raises, its connection ends and the next can be accepted.
ConnectionsEnd == HttpClientActive ~> ~HttpClientActive

\* What the documentation says of http-respond, and a response given up halfway is
\* not: one that is repeated writes a second status line to the same peer.
WritesOneResponse ==
  [][\A ok \in BOOLEAN : fn_httprespond(ok) => ~begun]_vars

-----------------------------------------------------------------------------
(* Why HandsOutWholeRequests holds: what the buffer can be before that.    *)

\* As it was sent, with no end of a header in it yet.
Clean ==
  /\ HeaderEnds(HttpRequestBuffer) = {}
  /\ \A i \in DOMAIN HttpRequestBuffer : HttpRequestBuffer[i] = peer.sent[i]

\* Taken apart by an error: what begins so is refused.
Cut == HttpRequestBuffer # << >> /\ HttpRequestBuffer[1] = "cut"

BufferIsPrefix ==
  /\ Len(peer.sent) = Len(HttpRequestBuffer) + Len(peer.came)
  /\ \A j \in DOMAIN peer.came : peer.came[j] = peer.sent[Len(HttpRequestBuffer) + j]

IInv ==
  /\ TypeOK /\ HandsOutWholeRequests /\ BufferIsPrefix
  /\ HttpAwaitingResponse => ~reading
  /\ ~HttpAwaitingResponse => Clean \/ Cut
=============================================================================
