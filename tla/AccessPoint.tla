---------------------------- MODULE AccessPoint ----------------------------
(***************************************************************************)
(* The access point: wifi-softap starts and stops it                       *)
(* (src/ulisp_builtins_system.cpp), and its DHCP server gives addresses to *)
(* the stations (src/dhcpserver.c).  The stations and the radio are        *)
(* external: messages are lost, late, out of order and repeated.           *)
(*                                                                         *)
(* A clock tick stands for a part of 2^16 ms: the millisecond clock has    *)
(* Clock values and a lease keeps the upper half of its expiry, counted in *)
(* units of Unit ticks.  Messages are records; of the options only the     *)
(* requested address matters.  A transaction id is modelled by its one     *)
(* use: whether the message is of the station's latest transaction.        *)
(***************************************************************************)
EXTENDS Integers, FiniteSets, TLC

CONSTANTS
  Station,      \* the hardware addresses of the stations
  Free,         \* the address of no station: six zero bytes
  MAX_IP,       \* DHCPS_MAX_IP, the addresses there are to give
  Clock,        \* the values of the millisecond clock, 2^32
  Unit,         \* what a lease drops of its expiry, 2^16
  LeaseTime,    \* DEFAULT_LEASE_TIME_S
  MaxInFlight,  \* messages in the air at a time (bound of the model)
  Faults        \* which of "repeat", "reboot", "release", "restart" may happen

ASSUME StationAssumption == Free \notin Station
ASSUME ClockAssumption ==
  /\ {MAX_IP, Clock, Unit, LeaseTime} \subseteq Nat \ {0}
  /\ Clock % (2 * Unit) = 0
  /\ LeaseTime + Unit <= Clock \div 2

Slot == 0 .. MAX_IP - 1
None  == -1        \* no requested address, or none of the server's
\* RELEASE, DECLINE and INFORM are ignored as a REQUEST for None is: they are that
\* message here.
Asked == Slot \union {None}

VARIABLES
  clock,        \* cyw43_hal_ticks_ms
  WifiApRunning,
  lease,        \* d->lease
  net,          \* the messages in the air
  station,      \* what each station believes
  outdated      \* stations whose address is from before the last start

vars == <<clock, WifiApRunning, lease, net, station, outdated>>

Message == [op : {"DISCOVER", "REQUEST"}, mac : Station, ip : Asked,
            current : BOOLEAN]
           \union [op : {"OFFER", "ACK"}, mac : Station, ip : Slot, current : {TRUE}]

NoLease == [i \in Slot |-> [mac |-> Free, expiry |-> 0]]
Idle    == [st |-> "init", ip |-> None, left |-> 0]

TypeOK ==
  /\ clock \in 0 .. Clock - 1 /\ WifiApRunning \in BOOLEAN
  /\ lease \in [Slot -> [mac : Station \union {Free},
                         expiry : 0 .. Clock \div Unit - 1]]
  /\ net \subseteq Message
  /\ station \in [Station -> [st : {"init", "selecting", "requesting", "bound"},
                              ip : Asked, left : 0 .. LeaseTime]]
  /\ outdated \subseteq Station

Init ==
  /\ clock = 0 /\ WifiApRunning = FALSE /\ lease = NoLease
  /\ net = {} /\ station = [c \in Station |-> Idle] /\ outdated = {}

-----------------------------------------------------------------------------
(* The server.                                                             *)

\* The expiry of a lease given now, without its lower half.
Expiry == ((clock + LeaseTime) % Clock) \div Unit

\* (int32_t)(expiry - now) < 0 for a clock of Clock values
Expired(l) == (l.expiry * Unit + Unit - 1 - clock) % Clock >= Clock \div 2

\* The first address that is free or has expired: the last of those the scan
\* stops looking after.
Candidate == {i \in Slot : lease[i].mac = Free \/ Expired(lease[i])}
First(S)  == CHOOSE i \in S : \A j \in S : i <= j

\* What DISCOVER offers: the station's own address if there is one, else the
\* first candidate.
Mine(c) == {i \in Slot : lease[i].mac = c}
Offer(c) == IF Mine(c) # {} THEN {First(Mine(c))}
            ELSE IF Candidate # {} THEN {First(Candidate)} ELSE {}

\* An expired candidate is freed as the scan passes it, even when the station
\* turns out to have an address further on.
Discovered(c) ==
  LET seen == IF Mine(c) = {} THEN Candidate
              ELSE {i \in Candidate : i < First(Mine(c))} IN
  IF seen = {} THEN lease ELSE [lease EXCEPT ![First(seen)].mac = Free]

\* Mutant: whoever asks gets the address.
Granted_Any(c, ip) == ip \in Slot

\* What REQUEST grants, if anything: expiry is not looked at, and nothing says no.
Granted(c, ip) == ip \in Slot /\ lease[ip].mac \in {c, Free}
Requested(c, ip) == [lease EXCEPT ![ip] = [mac |-> c, expiry |-> Expiry]]

Reply(op, m, ip) ==
  IF m.current THEN {[op |-> op, mac |-> m.mac, ip |-> ip, current |-> TRUE]} ELSE {}

dhcp_server_process(m) ==
  /\ m.op \in {"DISCOVER", "REQUEST"} /\ WifiApRunning
  /\ \E rest \in {net \ {m}} \union (IF "repeat" \in Faults THEN {net} ELSE {}) :
       CASE m.op = "DISCOVER" ->
              /\ lease' = Discovered(m.mac)
              /\ net' = rest \union UNION {Reply("OFFER", m, i) : i \in Offer(m.mac)}
         [] m.op = "REQUEST" /\ Granted(m.mac, m.ip) ->
              /\ lease' = Requested(m.mac, m.ip)
              /\ net' = rest \union Reply("ACK", m, m.ip)
         [] OTHER -> lease' = lease /\ net' = rest
  /\ UNCHANGED <<clock, WifiApRunning, station, outdated>>

-----------------------------------------------------------------------------
(* wifi-softap.                                                            *)

\* A station's address outlives the server that gave it.
HoldsAddress(c) == station[c].st = "bound"

\* wifi_stop_ap, then the network name and the password are read: an error there
\* leaves no access point.  The stations lose the radio, and what is in the air.
fn_wifisoftap(ok) ==
  /\ "restart" \in Faults \/ ~WifiApRunning
  /\ WifiApRunning' = ok
  /\ IF ok THEN lease' = NoLease ELSE lease' = lease
  /\ net' = {}
  /\ outdated' = {c \in Station : HoldsAddress(c)}
  /\ UNCHANGED <<clock, station>>

PowerCycle ==
  /\ "restart" \in Faults
  /\ WifiApRunning' = FALSE /\ clock' = 0 /\ lease' = NoLease /\ net' = {}
  /\ outdated' = {c \in Station : HoldsAddress(c)}
  /\ UNCHANGED station

-----------------------------------------------------------------------------
(* The stations and the radio (external).                                  *)

\* A new transaction of c: answers to the last one will not be taken any more.
Superseded(c) ==
  {m \in net : m.mac # c}
  \union {[m EXCEPT !.current = FALSE] : m \in
            {n \in net : n.mac = c /\ n.op \in {"DISCOVER", "REQUEST"}}}

Send(c, op, ip) ==
  /\ net' = Superseded(c) \union {[op |-> op, mac |-> c, ip |-> ip,
                            current |-> op = "DISCOVER" \/ ip # None]}
  /\ Cardinality(net') <= MaxInFlight
  /\ UNCHANGED <<clock, WifiApRunning, lease, outdated>>

Discover(c) ==
  /\ station[c].st \in {"init", "selecting"}
  /\ Send(c, "DISCOVER", None)
  /\ station' = [station EXCEPT ![c] = [Idle EXCEPT !.st = "selecting"]]

\* A station counts its lease from the moment it asks for it.
Ask(c, ip) ==
  /\ Send(c, "REQUEST", ip)
  /\ station' = [station EXCEPT ![c] =
                   [st |-> "requesting", ip |-> ip, left |-> LeaseTime]]

Accept(c) ==
  /\ station[c].st = "selecting"
  /\ \E m \in net : m.op = "OFFER" /\ m.mac = c /\ Ask(c, m.ip)

\* A station that comes back asks for the address it remembers.
Reboot(c) ==
  /\ "reboot" \in Faults /\ station[c].st = "init"
  /\ \E ip \in Slot : Ask(c, ip)

Bind(c) ==
  /\ station[c].st = "requesting"
  /\ \E m \in net :
       /\ m.op = "ACK" /\ m.mac = c /\ m.ip = station[c].ip
       /\ net' = net \ {m}
  /\ station' = [station EXCEPT ![c].st = "bound"]
  /\ outdated' = outdated \ {c}
  /\ UNCHANGED <<clock, WifiApRunning, lease>>

GiveUp(c) ==
  /\ station[c].st = "requesting"
  /\ station' = [station EXCEPT ![c] = Idle]
  /\ UNCHANGED <<clock, WifiApRunning, lease, net, outdated>>

\* A renewal is a request without the option: it is ignored.  So is a release, which
\* the station does not wait to see confirmed.
Renew(c, st) ==
  /\ "release" \in Faults /\ HoldsAddress(c)
  /\ Send(c, "REQUEST", None)
  /\ station' = [station EXCEPT ![c] = st]

Lose(m) ==
  /\ net' = net \ {m}
  /\ UNCHANGED <<clock, WifiApRunning, lease, station, outdated>>

Counted(s) == IF s.left = 0 THEN s
              ELSE IF s.left = 1 THEN Idle ELSE [s EXCEPT !.left = @ - 1]

Tick ==
  /\ clock' = (clock + 1) % Clock
  /\ station' = [c \in Station |-> Counted(station[c])]
  /\ outdated' = {c \in outdated : station'[c].st = "bound"}
  /\ UNCHANGED <<WifiApRunning, lease, net>>

StationStep(c) == \/ Discover(c) \/ Accept(c) \/ Reboot(c) \/ Bind(c)
                  \/ GiveUp(c) \/ Renew(c, station[c]) \/ Renew(c, Idle)

Next ==
  \/ \E ok \in BOOLEAN : fn_wifisoftap(ok)
  \/ PowerCycle \/ Tick
  \/ \E m \in net : dhcp_server_process(m) \/ Lose(m)
  \/ \E c \in Station : StationStep(c)

Spec == Init /\ [][Next]_vars

-----------------------------------------------------------------------------
(* Properties.                                                             *)

\* A station that believes in an address of this server's is the one the server
\* has it down for, and the server does not think its lease is over: whatever was
\* lost, late or repeated, and wherever the clock wraps.
LesseeRecorded ==
  \A c \in Station \ outdated :
    station[c].st = "bound" =>
      /\ lease[station[c].ip].mac = c
      /\ ~Expired(lease[station[c].ip])

\* No two stations use one address at a time.
NoTwoLessees ==
  \A c, d \in Station \ outdated :
    station[c].st = "bound" /\ station[d].st = "bound" /\ c # d
      => station[c].ip # station[d].ip

\* What this says of all stations is not so: wifi-softap forgets the leases, the
\* stations do not.
NoTwoLesseesEver ==
  \A c, d \in Station :
    station[c].st = "bound" /\ station[d].st = "bound" /\ c # d
      => station[c].ip # station[d].ip

\* Of the leases: their type, that who believes in an address has it, and that
\* nobody else does.
LeasesHold == TypeOK /\ LesseeRecorded /\ NoTwoLessees

-----------------------------------------------------------------------------
(* The inductive invariant.                                                *)

\* The ticks until the server takes a lease for expired: (int32_t)(expiry - now).
Remaining(l) == (l.expiry * Unit + Unit - 1 - clock) % Clock

\* The server has c down for the address it asked for, for as long as c counts.
Held(c) == LET l == lease[station[c].ip] IN
           l.mac = c /\ Remaining(l) >= station[c].left /\ ~Expired(l)

\* Only a station with an address it asked for has time left.
Counting == \A c \in Station : station[c].st \in {"requesting", "bound"} =>
              station[c].ip \in Slot /\ station[c].left >= 1

\* The address is held from the moment its ACK is sent, not from that it is read.
AckedHeld == \A c \in Station : station[c].st = "requesting" =>
               ((\E m \in net : m.op = "ACK" /\ m.mac = c /\ m.ip = station[c].ip) => Held(c))

BoundHeld == \A c \in Station \ outdated : station[c].st = "bound" => Held(c)

IInv == TypeOK /\ Counting /\ AckedHeld /\ BoundHeld

\* The stations are alike, for TLC.
StationSymmetry == Permutations(Station)
=============================================================================
