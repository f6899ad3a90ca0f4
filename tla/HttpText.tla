----------------------------- MODULE HttpText -----------------------------
(***************************************************************************)
(* What the HTTP builtins do to text (src/ulisp_http.cpp): url-decode and   *)
(* html-escape of a string, over and over; the headers of a request, as a   *)
(* list to search; and the writing of a response in chunks.                 *)
(* Strings are those of Strings: cells of four characters.                  *)
(***************************************************************************)
EXTENDS Strings

CONSTANTS
  kWriteChunkSize,
  Lines  \* first lines of requests

HttpTextAssumption == kWriteChunkSize \in Nat \ {0} /\ Lines \subseteq Seq(1 .. 255)

VARIABLES
  wire,    \* the response: its length line, extra headers and chunks of the body,
           \* and whether it was finished
  headers, \* the list made of the last request, pairs of name and value
  request  \* what became of its first line

vars == <<cells, texts, wire, headers, request>>

NUL == 0
Space == 32
Ampersand == 38
Apostrophe == 39
Percent == 37
Plus == 43
Colon == 58
LessThan == 60
Greater == 62
Question == 63
Blank == {9, 32}

hex_value(ch) ==
  IF ch \in 48 .. 57 THEN ch - 48
  ELSE IF ch \in 97 .. 102 THEN ch - 87
  ELSE IF ch \in 65 .. 70 THEN ch - 55 ELSE -1

\* &amp; &lt; &gt; &quot; &#39;
Entity(ch) ==
  CASE ch = Ampersand  -> <<38, 97, 109, 112, 59>>
    [] ch = LessThan      -> <<38, 108, 116, 59>>
    [] ch = Greater    -> <<38, 103, 116, 59>>
    [] ch = Quote      -> <<38, 113, 117, 111, 116, 59>>
    [] ch = Apostrophe -> <<38, 35, 51, 57, 59>>
    [] OTHER           -> <<ch>>

\* Mutant: what a digit of an escape is was not looked at.
transform_string_AnyDigit(arg, html_escape) ==
  LET len == stringlength(arg)
      ch(i) == nthchar(arg, i)
      put(acc, i, chars) == [out |-> FoldLeft(buildstring, acc.out, chars), next |-> i]
      step(acc, n) ==
        LET i == n - 1
        IN IF i < acc.next THEN acc
           ELSE IF html_escape THEN put(acc, i + 1, Entity(ch(i)))
           ELSE IF ch(i) = Plus THEN put(acc, i + 1, <<Space>>)
           ELSE IF ch(i) = Percent /\ i + 2 < len
             THEN put(acc, i + 3, <<16 * Max({hex_value(ch(i + 1)), 0})
                                    + Max({hex_value(ch(i + 2)), 0})>>)
           ELSE put(acc, i + 1, <<ch(i)>>)
  IN FoldLeft(step, [out |-> << >>, next |-> 0], [n \in 1 .. len |-> n]).out

transform_string(arg, html_escape) ==
  LET len == stringlength(arg)
      ch(i) == nthchar(arg, i)
      hex(i) == hex_value(ch(i))
      put(acc, i, chars) == [out |-> FoldLeft(buildstring, acc.out, chars), next |-> i]
      step(acc, n) ==
        LET i == n - 1
        IN IF i < acc.next THEN acc
           ELSE IF html_escape THEN put(acc, i + 1, Entity(ch(i)))
           ELSE IF ch(i) = Plus THEN put(acc, i + 1, <<Space>>)
           ELSE IF ch(i) = Percent /\ i + 2 < len /\ hex(i + 1) >= 0 /\ hex(i + 2) >= 0
             THEN put(acc, i + 3, <<16 * hex(i + 1) + hex(i + 2)>>)
           ELSE put(acc, i + 1, <<ch(i)>>)
  IN FoldLeft(step, [out |-> << >>, next |-> 0], [n \in 1 .. len |-> n]).out

-----------------------------------------------------------------------------
(* A request's headers: text, no cells yet.                                *)

trim_in_place(s) ==
  LET solid == {i \in DOMAIN s : s[i] \notin Blank}
  IN IF solid = {} THEN << >> ELSE SubSeq(s, Min(solid), Max(solid))

lower_ascii(s) == [i \in DOMAIN s |-> IF s[i] \in 65 .. 90 THEN s[i] + 32 ELSE s[i]]

\* A line without a colon is passed over; each pair goes before those before it.
build_headers_alist(lines) ==
  LET step(alist, line) ==
        LET colons == {i \in DOMAIN line : line[i] = Colon}
            before == SubSeq(line, 1, Min(colons) - 1)
            after  == SubSeq(line, Min(colons) + 1, Len(line))
        IN IF colons = {} THEN alist
           ELSE <<<<lower_ascii(trim_in_place(before)), trim_in_place(after)>>>> \o alist
  IN FoldLeft(step, << >>, lines)

\* An empty line ends them.
Request ==
  /\ headers' = build_headers_alist(IF texts[1] = << >> THEN << >> ELSE texts)
  /\ UNCHANGED <<cells, texts, wire, request>>

NoRequest == [line |-> << >>, ok |-> FALSE, method |-> << >>, path |-> << >>, query |-> << >>,
              version |-> << >>]

\* Characters of the buffer from one on, up to a NUL that no backslash is before: that
\* one is passed over, and has no place in a string.
lispstring(buffer, start) ==
  LET step(acc, ch) ==
        IF acc.over THEN acc
        ELSE IF acc.escaped
          THEN [acc EXCEPT !.out = IF ch = NUL THEN @ ELSE Append(@, ch), !.escaped = FALSE]
        ELSE IF ch = NUL THEN [acc EXCEPT !.over = TRUE]
        ELSE IF ch = Backslash THEN [acc EXCEPT !.escaped = TRUE]
        ELSE [acc EXCEPT !.out = Append(@, ch)]
  IN FoldLeft(step, [out |-> << >>, escaped |-> FALSE, over |-> FALSE],
              SubSeq(buffer, start, Len(buffer))).out

\* The first place from one on that has a character, and the first that has another;
\* the end when there is none.
Next1(buffer, start, ch) ==
  Min({i \in start .. Len(buffer) : buffer[i] = ch} \union {Len(buffer)})
Past(buffer, start, ch) ==
  Min({i \in start .. Len(buffer) : buffer[i] # ch})

\* A method, a target and a version, with spaces between them; the buffer is cut at
\* the first space after each, and at the first ? of the target.
parse_request_to_lisp(line) ==
  LET buffer == line \o <<NUL, NUL>>
      end == Len(line) + 1
      space1 == Next1(SubSeq(buffer, 1, end), 1, Space)
      target == Past(buffer, Min({space1 + 1, end}), Space)
      space2 == Next1(SubSeq(buffer, 1, end), target, Space)
      version == Past(buffer, Min({space2 + 1, end}), Space)
      mark == Next1(SubSeq(buffer, 1, space2), target, Question)
      cut == [i \in DOMAIN buffer |-> IF i \in {space1, space2, mark} THEN NUL ELSE buffer[i]]
  IN IF space1 >= end \/ space2 >= end \/ space1 = 1 \/ version >= end THEN NoRequest
     ELSE [line |-> line, ok |-> TRUE, method |-> lispstring(cut, 1),
           path |-> lispstring(cut, target),
           query |-> IF mark < space2 THEN lispstring(cut, mark + 1) ELSE << >>,
           version |-> lispstring(cut, version)]

Parse ==
  /\ texts = <<<< >>, << >>>>
  /\ \E line \in Lines : request' = [parse_request_to_lisp(line) EXCEPT !.line = line]
  /\ UNCHANGED <<cells, texts, wire, headers>>

-----------------------------------------------------------------------------
(* A response.                                                             *)

reason_phrase(status) ==
  CASE status = 201 -> "Created" [] status = 204 -> "No Content"
    [] status = 301 -> "Moved Permanently" [] status = 302 -> "Found"
    [] status = 304 -> "Not Modified" [] status = 400 -> "Bad Request"
    [] status = 404 -> "Not Found" [] status = 405 -> "Method Not Allowed"
    [] status = 413 -> "Payload Too Large"
    [] status = 431 -> "Request Header Fields Too Large"
    [] status = 500 -> "Internal Server Error" [] status = 503 -> "Service Unavailable"
    [] OTHER -> "OK"

\* The characters, as many at a time as a chunk holds, and the rest of them.
write_lisp_string(string) ==
  LET chunk(acc, ch) ==
        IF acc # << >> /\ Len(Last(acc)) < kWriteChunkSize
        THEN ReplaceAt(acc, Len(acc), Append(Last(acc), ch))
        ELSE Append(acc, <<ch>>)
  IN FoldLeft(chunk, << >>, Characters(string))

\* One that is no pair of strings ends the response.
write_extra_headers(n) ==
  [k \in 1 .. n |-> <<write_lisp_string(cells[2]), write_lisp_string(cells[2])>>]

NoResponse == [reason |-> "", length |-> 0, extra |-> << >>, body |-> << >>, done |-> FALSE]

\* The first string is the body, the second names and is the value of each extra
\* header; one that is no pair of strings ends the response where it is.
fn_httprespond ==
  \E status \in {200, 404}, head \in BOOLEAN, good \in 0 .. 1, bad \in BOOLEAN :
    /\ wire' = [reason |-> reason_phrase(status),
                length |-> stringlength(cells[1]),
                extra |-> write_extra_headers(good),
                body |-> IF head \/ bad THEN << >> ELSE write_lisp_string(cells[1]),
                done |-> ~bad /\ ~head]
    /\ UNCHANGED <<cells, texts, headers, request>>

-----------------------------------------------------------------------------
(* The program: a string typed a character at a time, and transformed into  *)
(* the other, one way or the other, again and again.                        *)

HttpTextInit == Init /\ wire = NoResponse /\ headers = << >> /\ request = NoRequest

Type ==
  \E ch \in Char :
    /\ Len(texts[1]) < MaxLength
    /\ cells' = [cells EXCEPT ![1] = buildstring(@, ch)]
    /\ texts' = [texts EXCEPT ![1] = Append(@, ch)]
    /\ wire' = NoResponse /\ headers' = << >> /\ UNCHANGED request

\* What an escape stands for; a % is no digit, so none overlaps another.
Escapes(text) ==
  {i \in 1 .. Len(text) - 2 : text[i] = Percent
                              /\ hex_value(text[i + 1]) >= 0 /\ hex_value(text[i + 2]) >= 0}
Decoded(text) ==
  FlattenSeq([i \in DOMAIN text |->
    IF i \in Escapes(text) THEN <<16 * hex_value(text[i + 1]) + hex_value(text[i + 2])>>
    ELSE IF {i - 1, i - 2} \cap Escapes(text) # {} THEN << >>
    ELSE IF text[i] = Plus THEN <<Space>> ELSE <<text[i]>>])
Escaped(text) == FlattenSeq([i \in DOMAIN text |-> Entity(text[i])])

Transform(i, html_escape, meant) ==
  /\ Len(meant) <= 2 * MaxLength
  /\ cells' = [cells EXCEPT ![3 - i] = transform_string(cells[i], html_escape)]
  /\ texts' = [texts EXCEPT ![3 - i] = meant]
  /\ wire' = NoResponse /\ headers' = << >> /\ UNCHANGED request

fn_urldecode == \E i \in Which : Transform(i, FALSE, Decoded(texts[i]))
fn_htmlescape == \E i \in Which : Transform(i, TRUE, Escaped(texts[i]))

HttpTextNext ==
  /\ request = NoRequest
  /\ Type \/ fn_urldecode \/ fn_htmlescape \/ Request \/ Parse \/ fn_httprespond

-----------------------------------------------------------------------------
(* Properties.                                                             *)

\* The value found under a name, and what one line alone says.
Found(name) == SelectSeq(headers, LAMBDA pair : pair[1] = name)[1][2]
HeaderOf(i) == build_headers_alist(<<texts[i]>>)[1]

\* A request's line is its parts, with spaces between them, and one that has three
\* words is a request.
Words(line) == {i \in DOMAIN line : line[i] # Space /\ (i = 1 \/ line[i - 1] = Space)}
PartsMakeLine ==
  IF request.ok
  THEN /\ Space \notin ToSet(request.method \o request.path \o request.query)
       /\ Question \notin ToSet(request.path)
       /\ \E a, b \in 1 .. Len(request.line), mark \in {<< >>, <<Question>>} :
            /\ request.line = request.method \o [k \in 1 .. a |-> Space] \o request.path \o mark
                              \o request.query \o [k \in 1 .. b |-> Space] \o request.version
            /\ mark = << >> => request.query = << >>
  ELSE Cardinality(Words(request.line)) < 3 \/ request.line[1] = Space

\* It does not hold of a line with a backslash, which is dropped, and at the end of a
\* part takes the next one along.
BackslashesAreKept == PartsMakeLine

\* The strings are the text they were made to be; the parts of a request without a
\* backslash are those of its line; a response that was finished has
\* the body's characters, as many as it announced, in full chunks but the last; a
\* header's name has no blanks around it and no capitals, and the last one counts.
TextsAreKept ==
  /\ StoresText
  /\ Backslash \notin ToSet(request.line) => PartsMakeLine
  /\ wire.done =>
       /\ FlattenSeq(wire.body) = texts[1] /\ wire.length = Len(texts[1])
       /\ \A k \in DOMAIN wire.body :
            Len(wire.body[k]) = kWriteChunkSize \/ k = Len(wire.body)
       /\ \A k \in DOMAIN wire.extra : FlattenSeq(wire.extra[k][2]) = texts[2]
  /\ \A k \in DOMAIN headers :
       LET name == headers[k][1]
       IN /\ ToSet(name) \cap (65 .. 90) = {}
          /\ name = << >> \/ {name[1], Last(name)} \cap Blank = {}
  /\ headers # << >> =>
       \A i \in Which : Colon \in ToSet(texts[i]) =>
         \E j \in i .. 2 :
           /\ Colon \in ToSet(texts[j]) /\ HeaderOf(j)[1] = HeaderOf(i)[1]
           /\ Found(HeaderOf(i)[1]) = HeaderOf(j)[2]
           /\ \A k \in j + 1 .. 2 :
                Colon \in ToSet(texts[k]) => HeaderOf(k)[1] # HeaderOf(i)[1]
=============================================================================
