----------------------------- MODULE MCServices -----------------------------
(* Model-checking instance of the modules about the network, the devices and  *)
(* the display, and what is known of names and objects.  They share nothing,  *)
(* so each is checked alone: service says which one a behaviour is of, and    *)
(* the state space is the union of theirs, not the product.                   *)
EXTENDS Integers, Sequences

CONSTANTS
  kRequestBufferSize, kMaxHeaderLine, kClientTimeout, MaxSent, Window,
  MAX_DNS_MSG_SIZE, Header, MaxLabel, MaxName, Trailer, Answer, Byte,
  Network, NoNetwork, kWifiMaxScanResults, MaxMapping,
  Address, Unset, nil,
  Char, Quote, Backslash, MaxLength, kWriteChunkSize,
  Written, MaxWritten,
  Pin, Analog, Pwm, Low, High, INPUT, OUTPUT, INPUT_PULLUP, INPUT_PULLDOWN,
  Modulus, Longest, MaxPoll, Thousand, Bits, Register, Bit,
  Width, Height, Colour, COLOR_BLACK, COLOR_WHITE, Key, Modifier, MaxDrawn, MaxKeys,
  Word, MaxObjects, MaxArgs,
  PartLength, NameLength, MaxDepth, MaxGlobals

VARIABLES
  service,
  HttpServerEnabled, HttpClientActive, HttpAwaitingResponse, HttpRequestIsHead,
  HttpRequestBuffer, age, reading, waiting, peer, begun,
  at, query, question_ptr, reply,
  WifiScanResults, WifiScanCount, WifiScanEverStarted, active, maps, listing,
  link, ip, WifiTraceEnabled, call, answer,
  cells, texts, wire, headers, request,
  form, str, port, got, meant, went,
  using, chip, pins, said, tone, asked, millis, delaying, waited,
  drawing, screen, wanted, drawn, negative, told, text, file, keys, pressed, answered,
  objects, checked,
  library, GlobalEnv, GlobalStringIndex, stack, found

\* Left and right of the screen, inside it, and on its edge; notes below and above.
Coordinates == {-1, 0, 1, 2}
Notes == {-13, -1, 0, 1, 8, 11, 12, 13, 47}

\* An entry in both tables, one with any number of arguments, keywords with and
\* without a context.
Strings == {<< >>, <<1>>, <<2, 1>>}
Builtin(name, least, most) ==
  [string |-> name, keyword |-> FALSE, min |-> least, max |-> most, context |-> 0]
Keyword(name, context) ==
  [string |-> name, keyword |-> TRUE, min |-> 0, max |-> 0, context |-> context]
MainTable == <<Builtin("list", 0, 7), Builtin("cons", 2, 2), Builtin("char", 1, 2),
               Keyword(":test", 0), Keyword(":input", 1)>>
ExtensionTable == <<Builtin("cons", 3, 6), Builtin("now", 0, 1)>>

\* The empty library of the program; some in order and out of it, and one that needs a
\* name it lacks.
Definition(name, needs) ==
  [name |-> <<name>>, needs |-> [k \in DOMAIN needs |-> <<needs[k]>>]]
Libs == {
  << >>,
  <<Definition("a", << >>), Definition("b", <<"a">>), Definition("c", <<"a", "b">>)>>,
  <<Definition("a", <<"c">>), Definition("b", << >>), Definition("c", << >>)>>,
  <<Definition("a", <<"d">>), Definition("b", << >>), Definition("c", <<"b">>)>>}
Documented == <<[name |-> <<"x">>, doc |-> "x doc"], [name |-> <<"x", "y">>, doc |-> "xy doc"]>>
\* As parts and as names: one has no room as the former, one as either.
NameParts  == {<<"x">>, <<"a", "x", "y">>, <<"a", "x", "y", "x">>}

Http    == INSTANCE HttpServer
Dns     == INSTANCE DnsServer
Wifi    == INSTANCE WifiScan
Joining == INSTANCE Station
\* All lines of six characters, and those of seven that begin with a word.
LineChars == {71, 32, 63, 92}
Escaping == INSTANCE HttpText
  WITH Lines <- UNION {[1 .. n -> LineChars] : n \in 0 .. 6}
                \union {<<71, 32>> \o line : line \in [1 .. 5 -> LineChars]}
Devices == INSTANCE Devices WITH Byte <- Written, wire <- port
Pinning == INSTANCE Pins WITH Note <- Notes, Seconds <- {-1, 0, 1, 3, 4}
Drawing == INSTANCE Graphics
  WITH Coordinate <- Coordinates, using <- drawing, meant <- wanted
Telling == INSTANCE Objects
  WITH Text <- Strings, Main <- MainTable, Extension <- ExtensionTable,
       cells <- objects, asked <- checked
Library == INSTANCE Library
  WITH Libraries <- Libs, Builtins <- Documented, Parts <- NameParts, answer <- found

ASSUME ServicesAssumption ==
  /\ Http!SizeAssumption /\ Dns!DnsAssumption /\ Wifi!ScanAssumption
  /\ Joining!StationAssumption /\ Escaping!StringAssumption /\ Escaping!HttpTextAssumption
  /\ Devices!DevicesAssumption /\ Pinning!PinsAssumption /\ Drawing!GraphicsAssumption
  /\ Telling!ObjectsAssumption /\ Library!LibraryAssumption

http    == <<HttpServerEnabled, HttpClientActive, HttpAwaitingResponse, HttpRequestIsHead,
             HttpRequestBuffer, age, reading, waiting, peer, begun>>
dns     == <<at, query, question_ptr, reply>>
wifi    == <<WifiScanResults, WifiScanCount, WifiScanEverStarted, active, maps, listing>>
station == <<link, ip, WifiTraceEnabled, call, answer>>
escapes == <<cells, texts, wire, headers, request>>
devices == <<form, str, port, got, meant, went>>
pinned  == <<using, chip, pins, said, tone, asked, millis, delaying, waited>>
display == <<drawing, screen, wanted, drawn, negative, told, text, file, keys, pressed,
             answered>>
told_of == <<objects, checked>>
names   == <<library, GlobalEnv, GlobalStringIndex, stack, found>>
vars    == <<service, http, dns, wifi, station, escapes, devices, pinned, display, told_of,
             names>>

\* What has more than one initial state is only chosen where it is used.
IdlePins == /\ using = "idle" /\ chip = "idle" /\ pins = "idle" /\ said = "idle" /\ tone = "idle"
            /\ asked = "idle" /\ millis = "idle" /\ delaying = "idle" /\ waited = "idle"
IdleDisplay == /\ drawing = "idle" /\ screen = "idle" /\ wanted = "idle" /\ drawn = "idle"
               /\ negative = "idle" /\ told = "idle" /\ text = "idle" /\ file = "idle"
               /\ keys = "idle" /\ pressed = "idle" /\ answered = "idle"
IdleNames == /\ library = "idle" /\ GlobalEnv = "idle" /\ GlobalStringIndex = "idle"
             /\ stack = "idle" /\ found = "idle"

Init ==
  /\ service \in {"http", "dns", "wifi", "station", "escapes", "devices", "pins", "display",
                  "objects", "names"}
  /\ Http!Init /\ Dns!Init /\ Wifi!Init /\ Joining!Init /\ Escaping!HttpTextInit
  /\ Devices!Init /\ Telling!Init
  /\ IF service = "pins" THEN Pinning!Init ELSE IdlePins
  /\ IF service = "display" THEN Drawing!Init ELSE IdleDisplay
  /\ IF service = "names" THEN Library!Init ELSE IdleNames

Next ==
  \/ service = "http" /\ Http!Next
     /\ UNCHANGED <<service, dns, wifi, station, escapes, devices, pinned, display, told_of, names>>
  \/ service = "dns" /\ Dns!Next
     /\ UNCHANGED <<service, http, wifi, station, escapes, devices, pinned, display, told_of, names>>
  \/ service = "wifi" /\ Wifi!Next
     /\ UNCHANGED <<service, http, dns, station, escapes, devices, pinned, display, told_of, names>>
  \/ service = "station" /\ Joining!Next
     /\ UNCHANGED <<service, http, dns, wifi, escapes, devices, pinned, display, told_of, names>>
  \/ service = "escapes" /\ Escaping!HttpTextNext
     /\ UNCHANGED <<service, http, dns, wifi, station, devices, pinned, display, told_of, names>>
  \/ service = "devices" /\ Devices!Next
     /\ UNCHANGED <<service, http, dns, wifi, station, escapes, pinned, display, told_of, names>>
  \/ service = "pins" /\ Pinning!Next
     /\ UNCHANGED <<service, http, dns, wifi, station, escapes, devices, display, told_of, names>>
  \/ service = "display" /\ Drawing!Next
     /\ UNCHANGED <<service, http, dns, wifi, station, escapes, devices, pinned, told_of, names>>
  \/ service = "objects" /\ Telling!Next
     /\ UNCHANGED <<service, http, dns, wifi, station, escapes, devices, pinned, display, names>>
  \/ service = "names" /\ Library!Next
     /\ UNCHANGED <<service, http, dns, wifi, station, escapes, devices, pinned, display, told_of>>

\* What HttpServer asks for, of the behaviours that are its own.
Spec ==
  /\ Init /\ [][Next]_vars
  /\ WF_http(service = "http" /\ Http!fn_httpaccept)
  /\ WF_http(service = "http" /\ Http!ReadByte)
  /\ WF_http(service = "http" /\ Http!AcceptReturns)
  /\ WF_http(service = "http" /\ Http!Tick)
  /\ SF_http(service = "http" /\ Http!fn_httprespond(TRUE))

\* The properties, as the modules state them, those of a kind taken together, with
\* the type invariants.
HandsOutWholeRequests == service = "http" => Http!TypeOK /\ Http!HandsOutWholeRequests
ConnectionsEnd        == Http!ConnectionsEnd
NetworkAnswers        == /\ service = "dns" =>
                              Dns!TypeOK /\ Dns!AnswerFits /\ Dns!AnswersTheQuestion
                         /\ service = "wifi" => Wifi!TypeOK /\ Wifi!MapsWhatWasHeard
                         /\ service = "station" =>
                              Joining!TypeOK /\ Joining!AnswersAsItIs /\ Joining!TracingEnds
DevicesServe          == /\ service = "devices" => Devices!DevicesServe
                         /\ service = "pins" => Pinning!PinsServe
                         /\ service = "display" => Drawing!GraphicsServe
\* What is said of objects and names, and what texts become on their way.
NamesTell             == /\ service = "objects" => Telling!ObjectsTell
                         /\ service = "escapes" => Escaping!TextsAreKept
                         /\ service = "names" => Library!LibraryTells

\* What does not hold.
ConnectGivesAnAddress == Joining!ConnectGivesAnAddress
NoIpMeansNone         == Joining!NoIpMeansNone
TracedWhileConnecting == service = "station" => Joining!TracedWhileConnecting
SecondPortWorks       == Devices!SecondPortWorks
AllWrittenArrives     == Devices!AllWrittenArrives
NothingForTheConsole  == Devices!NothingForTheConsole
BackslashesAreKept    == service = "escapes" => Escaping!BackslashesAreKept
SleepsAsAsked         == service = "pins" => Pinning!SleepsAsAsked
MillisIsNatural       == service = "pins" => Pinning!MillisIsNatural
InsideScale           == service = "pins" => Pinning!InsideScale
ClipsAtTheEdge        == service = "display" => Drawing!ClipsAtTheEdge
AproposTells          == service = "names" => Library!AproposTells
EveryLoadEnds         == service = "names" => Library!EveryLoadEnds
=============================================================================
