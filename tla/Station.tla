----------------------------- MODULE Station -----------------------------
(***************************************************************************)
(* The station's side of the WiFi builtins (src/ulisp_builtins_system.cpp): *)
(* wifi-connect, which waits for the driver and then asks it again what     *)
(* became of it; wifi-status, wifi-local-ip and wifi-debug.  The driver's   *)
(* and lwIP's state changes between any two questions; both are external.   *)
(***************************************************************************)
EXTENDS Integers, Sequences

CONSTANTS
  Address,
  Unset,               \* 0.0.0.0
  nil

StationAssumption == Unset \notin Address /\ nil \notin Address \union {Unset}

VARIABLES
  link,                \* cyw43_wifi_link_status
  ip,                  \* the address of the station's netif
  WifiTraceEnabled,
  call,                \* [at: the point it has reached, read: the values read so far,
                       \*  steady: nothing changed since the driver answered, or the
                       \*  first value was read, and after the call since its answer]
  answer               \* what the last call answered, until another begins or the
                       \* radio changes: [of, error, value, and the alist of
                       \* wifi-debug as a record]

vars == <<link, ip, WifiTraceEnabled, call, answer>>

CYW43_LINK_DOWN == 0
CYW43_LINK_JOIN == 1
CYW43_LINK_NOIP == 2
CYW43_LINK_UP == 3
CYW43_LINK_FAIL == -1
CYW43_LINK_NONET == -2
CYW43_LINK_BADAUTH == -3
Links == {CYW43_LINK_DOWN, CYW43_LINK_JOIN, CYW43_LINK_FAIL, CYW43_LINK_NONET,
          CYW43_LINK_BADAUTH}

wifi_link_status_name(status) ==
  CASE status = CYW43_LINK_DOWN -> "down"     [] status = CYW43_LINK_JOIN -> "joined"
    [] status = CYW43_LINK_NOIP -> "no-ip"    [] status = CYW43_LINK_UP -> "up"
    [] status = CYW43_LINK_FAIL -> "fail"     [] status = CYW43_LINK_NONET -> "no-net"
    [] status = CYW43_LINK_BADAUTH -> "bad-auth"

wifi_dhcp_state_name(state) ==
  <<"none", "off", "requesting", "init", "rebooting", "rebinding", "renewing",
    "selecting", "informing", "checking", "bound", "backing-off">>[state + 2]

TcpipStatus ==
  IF link # CYW43_LINK_JOIN THEN link
  ELSE IF ip = Unset THEN CYW43_LINK_NOIP ELSE CYW43_LINK_UP

\* The client is bound with an address, selects when joined, and is off before.
DhcpState == IF ip # Unset THEN 9 ELSE IF link = CYW43_LINK_JOIN THEN 6 ELSE 0

Point == {"prompt", "connecting", "connected", "failed", "not joined", "not refused", "debug"}
AtPrompt == [at |-> "prompt", read |-> << >>, steady |-> TRUE]

Said(of, error, value) == [of |-> of, error |-> error, value |-> value, alist |-> nil]

NoAnswer == Said("nothing", "", nil)
Forgotten == IF call.at = "prompt" THEN NoAnswer ELSE answer

Init ==
  /\ link = CYW43_LINK_DOWN /\ ip = Unset
  /\ WifiTraceEnabled = FALSE /\ call = AtPrompt
  /\ answer = NoAnswer

\* The radio: a link that comes or goes, and an address that does.
LinkChanges ==
  /\ link' \in Links \ {link} /\ ip' \in {ip, Unset}
  /\ call' = [call EXCEPT !.steady = FALSE] /\ answer' = Forgotten
  /\ UNCHANGED WifiTraceEnabled

AddressChanges ==
  /\ link = CYW43_LINK_JOIN /\ ip' \in (Address \union {Unset}) \ {ip}
  /\ call' = [call EXCEPT !.steady = FALSE] /\ answer' = Forgotten
  /\ UNCHANGED <<link, WifiTraceEnabled>>

\* Read at one go.
Replies(of, value) ==
  /\ call.at = "prompt" /\ call' = AtPrompt
  /\ answer' = Said(of, "", value)
  /\ UNCHANGED <<link, ip, WifiTraceEnabled>>

fn_wifistatus == Replies("wifi-status", TcpipStatus)

fn_wifilocalip == Replies("wifi-local-ip", ip)

\* At the end of a call that took several steps.
Return(said) ==
  /\ call' = [AtPrompt EXCEPT !.steady = call.steady]
  /\ answer' = said
  /\ UNCHANGED <<link, ip, WifiTraceEnabled>>

Fail(error) == Return(Said("wifi-connect", error, nil))

\* With no arguments it leaves the network; the address may stay where it is.
Disconnect ==
  /\ call.at = "prompt"
  /\ link' = CYW43_LINK_DOWN /\ ip' \in {ip, Unset}
  /\ call' = AtPrompt /\ answer' = Said("disconnect", "", nil)
  /\ UNCHANGED WifiTraceEnabled

ArgumentErrors == {"not a string", "no room for string"}

\* The tracing is on before the password and the name are made C strings: an error
\* there leaves it on.
fn_wificonnect ==
  /\ call.at = "prompt"
  /\ WifiTraceEnabled' = TRUE
  /\ \/ call' = [AtPrompt EXCEPT !.at = "connecting"] /\ answer' = NoAnswer
     \/ \E error \in ArgumentErrors :
          call' = AtPrompt /\ answer' = Said("wifi-connect", error, nil)
  /\ UNCHANGED <<link, ip>>

\* The driver answers PICO_OK only when the link is up, and may give up at any time.
ConnectReturns ==
  /\ call.at = "connecting"
  /\ \E ok \in BOOLEAN :
       /\ ok => TcpipStatus = CYW43_LINK_UP
       /\ call' = [AtPrompt EXCEPT !.at = IF ok THEN "connected" ELSE "failed"]
  /\ WifiTraceEnabled' = FALSE
  /\ UNCHANGED <<link, ip, answer>>

Connected == call.at = "connected" /\ Return(Said("wifi-connect", "", ip))

Ask(at) == call' = [call EXCEPT !.at = at] /\ UNCHANGED <<link, ip, WifiTraceEnabled, answer>>

\* Mutant: it asks for the address's state where the link's is meant.
WhyWifi_Tcpip ==
  /\ call.at = "failed"
  /\ IF TcpipStatus = CYW43_LINK_JOIN
     THEN Fail("connected but no ip") ELSE Ask("not joined")

\* Why it failed is asked in three questions, the state of the link each time anew.
WhyWifi ==
  /\ call.at = "failed"
  /\ IF link = CYW43_LINK_JOIN
     THEN Fail("connected but no ip") ELSE Ask("not joined")

WhyAuth ==
  /\ call.at = "not joined"
  /\ IF TcpipStatus = CYW43_LINK_BADAUTH
     THEN Fail("bad authentication") ELSE Ask("not refused")

WhyNet ==
  /\ call.at = "not refused"
  /\ Fail(IF TcpipStatus = CYW43_LINK_NONET
          THEN "network not found" ELSE "unable to connect")

fn_wifidebug ==
  /\ call.at = "prompt"
  /\ call' = [AtPrompt EXCEPT !.at = "debug", !.read = <<link>>] /\ answer' = NoAnswer
  /\ UNCHANGED <<link, ip, WifiTraceEnabled>>

\* The statuses, the client's state and the address, in the order they are read.
\* Those that come between, of the same sources, are left out.
ReadValue ==
  /\ call.at = "debug" /\ Len(call.read) < 4
  /\ call' = [call EXCEPT !.read = Append(@, <<TcpipStatus, DhcpState, ip>>[Len(@)])]
  /\ UNCHANGED <<link, ip, WifiTraceEnabled, answer>>

DebugReturns ==
  /\ call.at = "debug" /\ Len(call.read) = 4
  /\ LET wifi == call.read[1]  tcpip == call.read[2]  dhcp == call.read[3]
     IN Return([Said("wifi-debug", "", call.read[4]) EXCEPT !.alist =
                  [wifi_status_code |-> wifi, wifi_status |-> wifi_link_status_name(wifi),
                   tcpip_status_code |-> tcpip,
                   tcpip_status |-> wifi_link_status_name(tcpip),
                   dhcp_state_code |-> dhcp, dhcp_state |-> wifi_dhcp_state_name(dhcp)]])

Next ==
  \/ LinkChanges \/ AddressChanges
  \/ fn_wifistatus \/ fn_wifilocalip \/ Disconnect
  \/ fn_wificonnect \/ ConnectReturns \/ Connected \/ WhyWifi \/ WhyAuth \/ WhyNet
  \/ fn_wifidebug \/ ReadValue \/ DebugReturns

Spec == Init /\ [][Next]_vars

-----------------------------------------------------------------------------
(* Properties.                                                             *)

\* What wifi-debug can read.
Readable == -3 .. 9 \union Address \union {Unset}

TypeOK ==
  /\ link \in Links /\ ip \in Address \union {Unset}
  /\ WifiTraceEnabled \in BOOLEAN
  /\ call \in [at : Point, read : Seq(Readable), steady : BOOLEAN]
  /\ Len(call.read) <= 4
  /\ answer.of # "wifi-debug" => answer.alist = nil

\* The errors and the states of the link they stand for.
Means(error) ==
  CASE error = "connected but no ip" -> {CYW43_LINK_JOIN}
    [] error = "bad authentication"  -> {CYW43_LINK_BADAUTH}
    [] error = "network not found"   -> {CYW43_LINK_NONET}
    [] error = "unable to connect"   -> {CYW43_LINK_DOWN, CYW43_LINK_FAIL}

\* While nothing has changed since it was asked, what was answered is how it is: the
\* error names the state of the link, wifi-connect's address is one, and the alist's
\* parts agree with one another.
AnswersAsItIs ==
  (call.at = "prompt" /\ call.steady) =>
    /\ answer.error \notin {""} \union ArgumentErrors => link \in Means(answer.error)
    /\ (answer.of = "wifi-connect" /\ answer.error = "") =>
         ip \in Address /\ answer.value = ip /\ TcpipStatus = CYW43_LINK_UP
    /\ answer.of = "wifi-status" => answer.value = TcpipStatus
    /\ answer.of = "wifi-debug" =>
         /\ answer.value = ip
         /\ answer.alist.wifi_status_code = link
         /\ (answer.alist.tcpip_status = "up") <=>
              (answer.alist.wifi_status = "joined" /\ answer.value # Unset)
         /\ (answer.alist.dhcp_state = "bound") <=> answer.value # Unset

\* The driver is traced while it is asked to connect, and no longer once it has
\* answered: it goes on only after a call whose arguments were refused, until one
\* that gets as far as the driver.
TracingEnds ==
  /\ call.at = "connecting" => WifiTraceEnabled
  /\ call.at \in {"connected", "failed", "not joined", "not refused"} => ~WifiTraceEnabled
  /\ (call.at = "prompt" /\ answer.of = "wifi-connect") =>
       (WifiTraceEnabled <=> answer.error \in ArgumentErrors)

\* Nothing is traced but a call.  It does not hold: a password that is too long is an
\* error which leaves the tracing on.
TracedWhileConnecting == WifiTraceEnabled => call.at = "connecting"

\* What wifi-connect answers without an error is an address.  It does not hold: the
\* address may go between the driver's answer and the reading of it.
ConnectGivesAnAddress ==
  (answer.of = "wifi-connect" /\ answer.error = "") => answer.value \in Address

\* Nobody is told there is no address who has one.  It does not hold: when the driver
\* gives up and the address comes then, the link is joined as it is without one.
NoIpMeansNone ==
  (call.at = "prompt" /\ call.steady /\ answer.error = "connected but no ip") => ip = Unset

-----------------------------------------------------------------------------
(* Why AnswersAsItIs holds: what a call has learned is still so.           *)

Learned ==
  call.steady =>
    /\ call.at = "connected" => TcpipStatus = CYW43_LINK_UP
    /\ call.at = "not joined" => link # CYW43_LINK_JOIN
    /\ call.at = "not refused" => link \notin {CYW43_LINK_JOIN, CYW43_LINK_BADAUTH}
    /\ call.at = "debug" => \A i \in DOMAIN call.read :
                              call.read[i] = <<link, TcpipStatus, DhcpState, ip>>[i]

IInv == TypeOK /\ AnswersAsItIs /\ TracingEnds /\ Learned /\ (call.at = "debug" => call.read # << >>)
=============================================================================
