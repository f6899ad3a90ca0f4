-------------------------- MODULE AccessPointProofs --------------------------
(***************************************************************************)
(* Proofs about AccessPoint, for any stations, any number of addresses and *)
(* any width of the clock: whatever the network does to the messages, a    *)
(* station that believes in an address is the only one, and the server     *)
(* knows.                                                                  *)
(***************************************************************************)
EXTENDS AccessPoint, WellFoundedInduction, TLAPS

-----------------------------------------------------------------------------
(* Arithmetic of the clock.                                                *)

\* Division with remainder.
LEMMA DivMod ==
  ASSUME NEW a \in Int, NEW n \in Nat \ {0}
  PROVE  /\ a \div n \in Int /\ a % n \in 0 .. n - 1
         /\ a = n * (a \div n) + (a % n)
BY Z3

\* A remainder is known by what it is.
LEMMA ModUnique ==
  ASSUME NEW n \in Nat \ {0}, NEW q \in Int, NEW r \in 0 .. n - 1
  PROVE  (n * q + r) % n = r
<1> DEFINE a == n * q + r
           p == a \div n
           s == a % n
<1>1. p \in Int /\ s \in 0 .. n - 1 /\ a = n * p + s
  BY DivMod
<1>2. n * (q - p) = s - r
  BY <1>1
<1>3. CASE q - p >= 1
  BY <1>1, <1>2, <1>3
<1>4. CASE q - p <= -1
  BY <1>1, <1>2, <1>4
<1>5. CASE q = p
  BY <1>1, <1>2, <1>5
<1>6. QED
  BY <1>1, <1>3, <1>4, <1>5

\* What ClockAssumption says of each constant.
LEMMA Sizes ==
  /\ Clock \in Nat \ {0} /\ Unit \in Nat \ {0} /\ LeaseTime \in Nat \ {0}
  /\ MAX_IP \in Nat \ {0}
  /\ Clock % (2 * Unit) = 0 /\ LeaseTime + Unit <= Clock \div 2
BY ClockAssumption

\* A lease given now has all of LeaseTime left, and at most a unit more.
LEMMA FreshLease ==
  ASSUME clock \in 0 .. Clock - 1, NEW l, l.expiry = Expiry
  PROVE  Remaining(l) \in LeaseTime .. LeaseTime + Unit - 1
<1> DEFINE g == (clock + LeaseTime) % Clock
           p == (clock + LeaseTime) \div Clock
           e == g \div Unit
           r == g % Unit
           late == LeaseTime + Unit - 1 - r
<1> USE Sizes
<1>1. p \in Int /\ g \in 0 .. Clock - 1 /\ clock + LeaseTime = Clock * p + g
  <2>1. clock + LeaseTime \in Int
    OBVIOUS
  <2>2. QED
    BY <2>1, DivMod, Zenon
<1>2. e \in Int /\ r \in 0 .. Unit - 1 /\ g = Unit * e + r
  <2>1. g \in Int
    BY <1>1
  <2>2. QED
    BY <2>1, DivMod, Zenon
<1>3. l.expiry * Unit + Unit - 1 - clock = e * Unit + Unit - 1 - clock
  BY DEF Expiry
<1> HIDE DEF g, p, e, r
<1>4. late \in LeaseTime .. LeaseTime + Unit - 1 /\ late \in 0 .. Clock - 1
  BY <1>2
<1>5. e * Unit + Unit - 1 - clock = Clock * (-p) + late
  BY <1>1, <1>2
<1>6. (Clock * (-p) + late) % Clock = late
  <2>1. -p \in Int
    BY <1>1
  <2> HIDE DEF late
  <2>2. QED
    BY <2>1, <1>4, ModUnique, Zenon
<1>7. QED
  BY <1>3, <1>4, <1>5, <1>6 DEF Remaining

\* The expiry fits the word it is kept in.
LEMMA ExpiryType ==
  ASSUME clock \in 0 .. Clock - 1
  PROVE  Expiry \in 0 .. (Clock \div Unit) - 1
<1> DEFINE g == (clock + LeaseTime) % Clock
           e == g \div Unit
           u == 2 * Unit
           k == Clock \div u
           d == Clock \div Unit
<1> USE Sizes
<1>1. g \in 0 .. Clock - 1
  <2>1. clock + LeaseTime \in Int
    OBVIOUS
  <2>2. QED
    BY <2>1, DivMod, Zenon
<1>2. e \in Int /\ g % Unit \in 0 .. Unit - 1 /\ g = Unit * e + (g % Unit)
  <2>1. g \in Int
    BY <1>1
  <2>2. QED
    BY <2>1, DivMod, Zenon
<1>3. k \in Int /\ Clock = u * k + (Clock % u)
  <2>1. Clock \in Int /\ u \in Nat \ {0}
    OBVIOUS
  <2>2. QED
    BY <2>1, DivMod, Zenon
<1>4. d \in Int /\ Clock % Unit \in 0 .. Unit - 1 /\ Clock = Unit * d + (Clock % Unit)
  <2>1. Clock \in Int
    OBVIOUS
  <2>2. QED
    BY <2>1, DivMod, Zenon
<1>5. Clock = Unit * (2 * k)
  <2>1. Clock % u = 0
    OBVIOUS
  <2> HIDE DEF k
  <2>2. QED
    BY <1>3, <2>1
<1>6. (Unit * (2 * k) + 0) % Unit = 0
  <2>1. 2 * k \in Int /\ 0 \in 0 .. Unit - 1
    BY <1>3
  <2>2. QED
    BY <2>1, ModUnique, Zenon
<1>7. Clock % Unit = 0
  <2>1. Unit * (2 * k) + 0 = Clock
    BY <1>3, <1>5
  <2>2. QED
    BY <2>1, <1>6
<1>8. Expiry = e
  BY DEF Expiry
<1> HIDE DEF g, e, k, d
<1>9. e >= 0
  BY <1>1, <1>2
<1>10. e < d
  <2>1. Unit * e < Unit * d
    BY <1>1, <1>2, <1>4, <1>7
  <2>2. QED
    BY <1>2, <1>4, <2>1
<1>11. QED
  BY <1>2, <1>4, <1>8, <1>9, <1>10 DEF d

\* A tick takes one from what remains, until nothing does.
LEMMA TickRemaining ==
  ASSUME clock \in 0 .. Clock - 1, clock' = (clock + 1) % Clock,
         NEW l, l.expiry \in Nat, Remaining(l) >= 1
  PROVE  Remaining(l)' = Remaining(l) - 1
<1> DEFINE a == l.expiry * Unit + Unit - 1
           p == (a - clock) \div Clock
           r == (a - clock) % Clock
           t == (clock + 1) \div Clock
           n == (clock + 1) % Clock
<1> USE Sizes
<1>1. a \in Int
  OBVIOUS
<1>2. r = Remaining(l) /\ Remaining(l)' = (a - n) % Clock
  BY DEF Remaining
<1>3. p \in Int /\ r \in 0 .. Clock - 1 /\ a - clock = Clock * p + r
  <2>1. a - clock \in Int
    BY <1>1
  <2>2. QED
    BY <2>1, DivMod, Zenon
<1>4. t \in Int /\ n \in 0 .. Clock - 1 /\ clock + 1 = Clock * t + n
  <2>1. clock + 1 \in Int
    OBVIOUS
  <2>2. QED
    BY <2>1, DivMod, Zenon
<1> HIDE DEF a, p, r, t, n
<1>5. a - n = Clock * (p + t) + (r - 1)
  BY <1>1, <1>3, <1>4
<1>6. (Clock * (p + t) + (r - 1)) % Clock = r - 1
  <2>1. p + t \in Int /\ r - 1 \in 0 .. Clock - 1
    BY <1>2, <1>3, <1>4
  <2>2. QED
    BY <2>1, ModUnique, Zenon
<1>7. QED
  BY <1>2, <1>5, <1>6

-----------------------------------------------------------------------------
(* What a step leaves of the invariant.                                    *)

\* What is held stays held while the clock, the station and its lease stay.
LEMMA HeldKept ==
  ASSUME NEW c \in Station, Held(c), UNCHANGED clock, station'[c] = station[c],
         lease'[station[c].ip] = lease[station[c].ip]
  PROVE  Held(c)'
BY DEF Held, Remaining, Expired

\* A lease that is given now is held, for whoever asked for it.
LEMMA HeldGranted ==
  ASSUME TypeOK, NEW c \in Station, NEW ip \in Slot, station[c].ip = ip,
         lease' = Requested(c, ip), UNCHANGED <<clock, station>>
  PROVE  Held(c)'
<1> DEFINE l == [mac |-> c, expiry |-> Expiry]
<1>1. lease'[ip] = l
  BY DEF TypeOK, Requested
<1>2. Remaining(l) \in LeaseTime .. LeaseTime + Unit - 1
  BY FreshLease DEF TypeOK
<1>3. station[c].left <= LeaseTime /\ station[c].left \in Int
  BY Sizes DEF TypeOK
<1>4. LeaseTime + Unit - 1 < Clock \div 2
  BY Sizes
<1>5. ~Expired(l)
  BY <1>2, <1>4, Sizes DEF Expired, Remaining
<1>6. Remaining(l)' = Remaining(l) /\ Expired(l)' = Expired(l)
  BY DEF Remaining, Expired, Expiry
<1>7. l.mac = c /\ Remaining(l) >= station[c].left
  BY <1>2, <1>3, Sizes
<1> HIDE DEF l
<1>8. Remaining(l)' >= station'[c].left /\ ~Expired(l)'
  BY <1>5, <1>6, <1>7
<1>9. lease'[station'[c].ip] = l /\ l' = l
  BY <1>1 DEF l, Expiry
<1>10. QED
  BY <1>7, <1>8, <1>9 DEF Held, Remaining, Expired

\* A set of natural numbers has a least member.
LEMMA LeastMember ==
  ASSUME NEW T \in SUBSET Nat, T # {}
  PROVE  \E i \in T : \A j \in T : i <= j
<1> DEFINE Less == OpToRel(<, Nat)
<1>1. IsWellFoundedOn(Less, Nat)
  BY NatLessThanWellFounded
<1>2. \A x, y \in Nat : <<x, y>> \in Less <=> x < y
  BY DEF OpToRel
<1> HIDE DEF Less
<1>3. \E i \in T : \A j \in T : ~(<<j, i>> \in Less)
  BY <1>1, WFMin
<1>4. \A x, y \in Nat : ~(<<x, y>> \in Less) => y <= x
  BY <1>2
<1>5. QED
  BY <1>3, <1>4

\* The scan stops at a member of what it looks for.
LEMMA FirstIn ==
  ASSUME NEW S \in SUBSET Slot, S # {}
  PROVE  First(S) \in S
<1>1. S \subseteq Nat
  BY Sizes DEF Slot
<1>2. \E i \in S : \A j \in S : i <= j
  BY <1>1, LeastMember
<1>3. QED
  BY <1>2 DEF First

\* An answer leaves the leases of the others that are not over.
LEMMA DiscoverKeeps ==
  ASSUME TypeOK, NEW c \in Station, NEW d \in Station, NEW i \in Slot,
         lease[i].mac = d, ~Expired(lease[i])
  PROVE  Discovered(c)[i] = lease[i]
<1>1. i \notin Candidate
  BY StationAssumption DEF Candidate
<1> DEFINE seen == IF Mine(c) = {} THEN Candidate
                   ELSE {j \in Candidate : j < First(Mine(c))}
<1>2. CASE seen = {}
  BY <1>2 DEF Discovered
<1>3. CASE seen # {}
  <2>1. First(seen) \in seen
    BY <1>3, FirstIn DEF Candidate
  <2>2. First(seen) # i
    BY <1>1, <2>1
  <2>3. QED
    BY <1>3, <2>2 DEF Discovered, TypeOK
<1>4. QED
  BY <1>2, <1>3

-----------------------------------------------------------------------------
(* The steps of the stations and of the radio.                             *)

Believes == [st : {"init", "selecting", "requesting", "bound"}, ip : Asked, left : 0 .. LeaseTime]

\* One station goes on from what it believes to s; the server does nothing.  It
\* requests with no ACK for it in the air, and is bound to what is held for it.
LEMMA ClientStep ==
  ASSUME IInv, NEW c \in Station, NEW s \in Believes,
         UNCHANGED <<clock, WifiApRunning, lease>>,
         station' = [station EXCEPT ![c] = s],
         s.st \in {"requesting", "bound"} => s.ip \in Slot /\ s.left >= 1,
         net' \subseteq Message,
         \A m \in net' : m.op = "ACK" =>
           m \in net /\ (s.st = "requesting" => m.mac # c),
         outdated' \subseteq outdated, outdated \ {c} \subseteq outdated',
         s.st = "bound" /\ c \notin outdated' =>
           Held(c) /\ s.ip = station[c].ip /\ s.left = station[c].left
  PROVE  IInv'
<1>1. /\ station'[c] = s
      /\ \A d \in Station \ {c} : station'[d] = station[d]
      /\ station' \in [Station -> Believes]
  BY DEF IInv, TypeOK, Believes
<1>2. TypeOK'
  BY <1>1 DEF IInv, TypeOK, Believes
<1>3. Counting'
  BY <1>1 DEF IInv, Counting
<1>4. \A d \in Station \ {c} : Held(d) => Held(d)'
  BY <1>1, HeldKept
<1>5. AckedHeld'
  BY <1>1, <1>4 DEF IInv, AckedHeld
<1>6. s.st = "bound" /\ c \notin outdated' => Held(c)'
  BY <1>1 DEF Held, Remaining, Expired
<1>7. BoundHeld'
  BY <1>1, <1>4, <1>6 DEF IInv, BoundHeld
<1>8. QED
  BY <1>2, <1>3, <1>5, <1>7 DEF IInv

\* A new transaction of c leaves no ACK for it in the air.
LEMMA SendNet ==
  ASSUME TypeOK, NEW c \in Station, NEW op \in {"DISCOVER", "REQUEST"}, NEW ip \in Asked,
         Send(c, op, ip)
  PROVE  /\ net' \subseteq Message
         /\ \A m \in net' : m.op = "ACK" => m \in net /\ m.mac # c
         /\ UNCHANGED <<clock, WifiApRunning, lease, outdated>>
<1> DEFINE new == [op |-> op, mac |-> c, ip |-> ip, current |-> op = "DISCOVER" \/ ip # None]
           own == {n \in net : n.mac = c /\ n.op \in {"DISCOVER", "REQUEST"}}
           old == {[m EXCEPT !.current = FALSE] : m \in own}
<1>1. net' = {m \in net : m.mac # c} \union old \union {new}
  BY DEF Send, Superseded
<1>2. new \in Message /\ new.op # "ACK"
  BY DEF Message
<1>3. \A m \in own : [m EXCEPT !.current = FALSE] \in Message /\ m.op # "ACK"
  BY DEF TypeOK, Message
<1>4. \A m \in own : [m EXCEPT !.current = FALSE].op = m.op
  BY DEF TypeOK, Message
<1>5. \A m \in old : m \in Message /\ m.op # "ACK"
  BY <1>3, <1>4
<1>6. net \subseteq Message
  BY DEF TypeOK
<1> HIDE DEF new, old
<1>7. QED
  BY <1>1, <1>2, <1>5, <1>6 DEF Send

LEMMA AskStep ==
  ASSUME IInv, NEW c \in Station, NEW ip \in Slot, Ask(c, ip)
  PROVE  IInv'
<1> DEFINE s == [st |-> "requesting", ip |-> ip, left |-> LeaseTime]
<1>1. s \in Believes /\ s.ip \in Slot /\ s.left >= 1 /\ ip \in Asked
  BY Sizes DEF Believes, Asked
<1>2. station' = [station EXCEPT ![c] = s] /\ Send(c, "REQUEST", ip)
  BY DEF Ask
<1>3. QED
  BY <1>1, <1>2, SendNet, ClientStep DEF IInv

LEMMA StationStepIInv ==
  ASSUME IInv, NEW c \in Station, StationStep(c)
  PROVE  IInv'
<1>1. Idle \in Believes /\ None \in Asked /\ station[c] \in Believes /\ TypeOK
  BY Sizes DEF Idle, Believes, Asked, None, IInv, TypeOK
<1>2. CASE Discover(c)
  <2> DEFINE s == [Idle EXCEPT !.st = "selecting"]
  <2>1. s \in Believes /\ s.st = "selecting"
    BY <1>1 DEF Idle, Believes
  <2>2. station' = [station EXCEPT ![c] = s] /\ Send(c, "DISCOVER", None)
    BY <1>2 DEF Discover
  <2> HIDE DEF s
  <2>3. QED
    BY <1>1, <2>1, <2>2, SendNet, ClientStep
<1>3. CASE Accept(c)
  <2>1. PICK m \in net : m.op = "OFFER" /\ m.mac = c /\ Ask(c, m.ip)
    BY <1>3 DEF Accept
  <2>2. m.ip \in Slot
    BY <1>1, <2>1 DEF TypeOK, Message
  <2>3. QED
    BY <2>1, <2>2, AskStep
<1>4. CASE Reboot(c)
  BY <1>4, AskStep DEF Reboot
<1>5. CASE Bind(c)
  <2> DEFINE s == [station[c] EXCEPT !.st = "bound"]
  <2>1. PICK m \in net : /\ m.op = "ACK" /\ m.mac = c /\ m.ip = station[c].ip
                         /\ net' = net \ {m}
    BY <1>5 DEF Bind
  <2>2. /\ station[c].st = "requesting" /\ outdated' = outdated \ {c}
        /\ station' = [station EXCEPT ![c] = s]
        /\ UNCHANGED <<clock, WifiApRunning, lease>>
    BY <1>5 DEF Bind
  <2>3. Held(c) /\ station[c].ip \in Slot /\ station[c].left >= 1
    BY <2>1, <2>2 DEF IInv, AckedHeld, Counting
  <2>4. s \in Believes /\ s.st = "bound" /\ s.ip = station[c].ip /\ s.left = station[c].left
    BY <1>1 DEF Believes
  <2>5. net' \subseteq Message
    BY <1>1, <2>1 DEF TypeOK
  <2> HIDE DEF s
  <2>6. QED
    BY <2>1, <2>2, <2>3, <2>4, <2>5, ClientStep
<1>6. CASE GiveUp(c)
  <2>1. net \subseteq Message /\ Idle.st = "init"
    BY <1>1 DEF TypeOK, Idle
  <2>2. QED
    BY <1>1, <1>6, <2>1, ClientStep DEF GiveUp
<1>7. CASE Renew(c, station[c])
  <2>1. /\ station[c].st = "bound" /\ station' = [station EXCEPT ![c] = station[c]]
        /\ Send(c, "REQUEST", None)
    BY <1>7 DEF Renew, HoldsAddress
  <2>2. station[c].ip \in Slot /\ station[c].left >= 1 /\ (c \notin outdated => Held(c))
    BY <2>1 DEF IInv, Counting, BoundHeld
  <2>3. QED
    BY <1>1, <2>1, <2>2, SendNet, ClientStep
<1>8. CASE Renew(c, Idle)
  <2>1. Idle.st = "init" /\ station' = [station EXCEPT ![c] = Idle]
        /\ Send(c, "REQUEST", None)
    BY <1>8 DEF Renew, Idle
  <2>2. QED
    BY <1>1, <2>1, SendNet, ClientStep
<1>9. QED
  BY <1>2, <1>3, <1>4, <1>5, <1>6, <1>7, <1>8 DEF StationStep

LEMMA LoseStep ==
  ASSUME IInv, NEW m \in net, Lose(m)
  PROVE  IInv'
<1>1. net' \subseteq net /\ UNCHANGED <<clock, WifiApRunning, lease, station, outdated>>
  BY DEF Lose
<1>2. \A c \in Station : Held(c) => Held(c)'
  BY <1>1, HeldKept
<1>3. QED
  BY <1>1, <1>2 DEF IInv, TypeOK, Counting, AckedHeld, BoundHeld

\* A tick takes one from what is left to a station and from what its lease has left.
LEMMA TickStep ==
  ASSUME IInv, Tick
  PROVE  IInv'
<1> DEFINE s == [c \in Station |-> Counted(station[c])]
<1>1. /\ clock' = (clock + 1) % Clock /\ station' = s
      /\ outdated' = {c \in outdated : station'[c].st = "bound"}
      /\ UNCHANGED <<WifiApRunning, lease, net>>
  BY DEF Tick
<1>2. clock \in 0 .. Clock - 1 /\ clock' \in 0 .. Clock - 1
  <2>1. clock + 1 \in Int /\ clock \in 0 .. Clock - 1
    BY Sizes DEF IInv, TypeOK
  <2>2. QED
    BY <1>1, <2>1, Sizes, DivMod, Zenon
<1>3. ASSUME NEW c \in Station
      PROVE  /\ station'[c] \in Believes
             /\ station'[c].st \in {"requesting", "bound"} =>
                  /\ station[c].st = station'[c].st /\ station'[c].ip = station[c].ip
                  /\ station'[c].left = station[c].left - 1 /\ station'[c].left >= 1
                  /\ station[c].ip \in Slot
  <2>1. station[c] \in Believes /\ station'[c] = Counted(station[c])
    BY <1>1 DEF IInv, TypeOK, Believes
  <2>2. Idle \in Believes /\ Idle.st = "init"
    BY Sizes DEF Believes, Idle, Asked
  <2>3. CASE station[c].left = 0
    BY <2>1, <2>3 DEF IInv, Counting, Counted
  <2>4. CASE station[c].left = 1
    BY <2>1, <2>2, <2>4 DEF Counted
  <2>5. CASE station[c].left \notin {0, 1}
    <3>1. station[c].left \in 2 .. LeaseTime
      BY <2>1, <2>5, Sizes DEF Believes
    <3>2. station'[c] = [station[c] EXCEPT !.left = @ - 1]
      BY <2>1, <2>5 DEF Counted
    <3>3. QED
      BY <2>1, <3>1, <3>2, Sizes DEF Believes, IInv, Counting
  <2>6. QED
    BY <2>3, <2>4, <2>5
<1>4. ASSUME NEW c \in Station, station'[c].st \in {"requesting", "bound"}, Held(c)
      PROVE  Held(c)'
  <2> DEFINE l == lease[station[c].ip]
  <2>1. /\ station'[c].ip = station[c].ip /\ station[c].ip \in Slot
        /\ station'[c].left = station[c].left - 1 /\ station[c].left - 1 >= 1
        /\ station[c].left \in Int
    BY <1>3, <1>4 DEF IInv, TypeOK
  <2>2. l.expiry \in Nat
    BY <2>1 DEF IInv, TypeOK
  <2>3. l.mac = c /\ Remaining(l) >= station[c].left /\ ~(Remaining(l) >= Clock \div 2)
    BY <1>4 DEF Held, Expired, Remaining
  <2>4. Remaining(l) \in Int
    <3>1. l.expiry * Unit + Unit - 1 - clock \in Int
      BY <1>2, <2>2, Sizes
    <3>2. QED
      BY <3>1, Sizes, DivMod DEF Remaining
  <2>5. Remaining(l)' = Remaining(l) - 1
    <3>1. Remaining(l) >= 1
      BY <2>1, <2>3, <2>4
    <3>2. l' = l
      BY <1>1, <2>1
    <3>3. QED
      BY <1>1, <1>2, <2>2, <3>1, <3>2, TickRemaining DEF Remaining
  <2>6. Clock \div 2 \in Int
    BY Sizes
  <2>7. lease'[station'[c].ip] = l
    BY <1>1, <2>1
  <2>8. l.mac' = c /\ Remaining(l)' >= station'[c].left /\ ~(Remaining(l)' >= Clock \div 2)
    <3>1. l' = l
      BY <1>1, <2>1
    <3> HIDE DEF l
    <3>2. QED
      BY <2>1, <2>3, <2>4, <2>5, <2>6, <3>1
  <2>9. QED
    BY <1>1, <2>1, <2>8 DEF Held, Expired, Remaining
<1>5. TypeOK'
  <2>1. station' \in [Station -> Believes]
    BY <1>1, <1>3
  <2>2. QED
    BY <1>1, <1>2, <2>1 DEF IInv, TypeOK, Believes
<1>6. Counting'
  BY <1>3 DEF Counting
<1>7. AckedHeld'
  BY <1>1, <1>3, <1>4 DEF IInv, AckedHeld
<1>8. BoundHeld'
  <2> SUFFICES ASSUME NEW c \in Station, c \notin outdated', station'[c].st = "bound"
               PROVE  Held(c)'
    BY DEF BoundHeld
  <2>1. c \notin outdated /\ station[c].st = "bound"
    BY <1>1, <1>3
  <2>2. QED
    BY <2>1, <1>4 DEF IInv, BoundHeld
<1>9. QED
  BY <1>5, <1>6, <1>7, <1>8 DEF IInv

-----------------------------------------------------------------------------
(* The steps of the server and of wifi-softap.                             *)

\* No lease keeps more than its word, whatever it is given.
LEMMA LeaseType ==
  ASSUME TypeOK, NEW c \in Station
  PROVE  /\ \A ip \in Slot : Requested(c, ip) \in
              [Slot -> [mac : Station \union {Free}, expiry : 0 .. Clock \div Unit - 1]]
         /\ Discovered(c) \in
              [Slot -> [mac : Station \union {Free}, expiry : 0 .. Clock \div Unit - 1]]
<1> DEFINE Leases == [mac : Station \union {Free}, expiry : 0 .. Clock \div Unit - 1]
<1>1. lease \in [Slot -> Leases]
  BY DEF TypeOK
<1>2. Expiry \in 0 .. (Clock \div Unit) - 1
  BY ExpiryType DEF TypeOK
<1>3. ASSUME NEW ip \in Slot
      PROVE  Requested(c, ip) \in [Slot -> Leases]
  <2>1. [mac |-> c, expiry |-> Expiry] \in Leases
    BY <1>2
  <2> HIDE DEF Leases
  <2>2. QED
    BY <1>1, <2>1 DEF Requested
<1>4. \A j : [lease EXCEPT ![j].mac = Free] \in [Slot -> Leases]
  BY <1>1
<1>5. Discovered(c) \in [Slot -> Leases]
  BY <1>1, <1>4 DEF Discovered
<1>6. QED
  BY <1>3, <1>5

\* The server answers, or does not: the only ACK it sends is of a lease it has just
\* given, and what is held for the others it leaves alone.
LEMMA ServerStep ==
  ASSUME IInv, NEW m \in net, dhcp_server_process(m)
  PROVE  IInv'
<1> DEFINE held(d) == Held(d) /\ station[d].ip \in Slot
<1>1. /\ m \in Message /\ m.mac \in Station /\ m.ip \in Asked /\ net \subseteq Message
      /\ TypeOK
  <2>1. TypeOK /\ m \in Message /\ net \subseteq Message
    BY DEF IInv, TypeOK
  <2>2. m.mac \in Station /\ m.ip \in Asked
    BY <2>1 DEF Message, Asked
  <2>3. QED
    BY <2>1, <2>2
<1>2. UNCHANGED <<clock, WifiApRunning, station, outdated>>
  BY DEF dhcp_server_process
<1>3. CASE m.op = "DISCOVER"
  <2>1. /\ lease' = Discovered(m.mac)
        /\ \A n \in net' : n \in net \/
             \E ip \in Offer(m.mac) : n = [op |-> "OFFER", mac |-> m.mac, ip |-> ip,
                                         current |-> TRUE]
    BY <1>3 DEF dhcp_server_process, Reply
  <2>2. Offer(m.mac) \subseteq Slot
    <3>1. Mine(m.mac) \subseteq Slot /\ Candidate \subseteq Slot
      BY DEF Mine, Candidate
    <3>2. QED
      BY <3>1, FirstIn DEF Offer
  <2>3. net' \subseteq Message /\ \A n \in net' : n.op = "ACK" => n \in net
    <3>1. \A ip \in Slot : LET n == [op |-> "OFFER", mac |-> m.mac, ip |-> ip, current |-> TRUE]
                          IN  n \in Message /\ n.op # "ACK"
      BY <1>1 DEF Message
    <3>2. QED
      BY <1>1, <2>1, <2>2, <3>1
  <2>4. ASSUME NEW d \in Station, held(d)
        PROVE  Held(d)'
    <3>1. lease'[station[d].ip] = lease[station[d].ip]
      BY <1>1, <2>1, <2>4, DiscoverKeeps DEF Held
    <3>2. QED
      BY <1>2, <2>4, <3>1, HeldKept
  <2>5. TypeOK'
    BY <1>1, <1>2, <2>1, <2>3, LeaseType DEF TypeOK
  <2>6. QED
    BY <1>2, <2>3, <2>4, <2>5 DEF IInv, Counting, AckedHeld, BoundHeld
<1>4. CASE m.op = "REQUEST" /\ Granted(m.mac, m.ip)
  <2>1. /\ lease' = Requested(m.mac, m.ip)
        /\ \A n \in net' : n \in net \/
             n = [op |-> "ACK", mac |-> m.mac, ip |-> m.ip, current |-> TRUE]
    BY <1>4 DEF dhcp_server_process, Reply
  <2>2. m.ip \in Slot /\ lease[m.ip].mac \in {m.mac, Free}
    BY <1>4 DEF Granted
  <2>3. net' \subseteq Message
    <3>1. [op |-> "ACK", mac |-> m.mac, ip |-> m.ip, current |-> TRUE] \in Message
      BY <1>1, <2>2 DEF Message
    <3>2. QED
      BY <1>1, <2>1, <3>1
  <2>4. station[m.mac].ip = m.ip => Held(m.mac)'
    BY <1>1, <1>2, <2>1, <2>2, HeldGranted
  <2>5. ASSUME NEW d \in Station, held(d), d # m.mac \/ station[d].ip # m.ip
        PROVE  Held(d)'
    <3>1. station[d].ip # m.ip
      BY <2>2, <2>5, StationAssumption DEF Held
    <3>2. lease'[station[d].ip] = lease[station[d].ip]
      BY <1>1, <2>1, <2>5, <3>1 DEF Requested, TypeOK
    <3>3. QED
      BY <1>2, <2>5, <3>2, HeldKept
  <2>6. TypeOK'
    BY <1>1, <1>2, <2>1, <2>2, <2>3, LeaseType DEF TypeOK
  <2>7. AckedHeld'
    <3> SUFFICES ASSUME NEW d \in Station, station[d].st = "requesting", NEW n \in net',
                        n.op = "ACK", n.mac = d, n.ip = station[d].ip
                 PROVE  Held(d)'
      BY <1>2 DEF AckedHeld
    <3>1. CASE n \in net
      BY <3>1, <2>4, <2>5 DEF IInv, AckedHeld, Counting
    <3>2. CASE n \notin net
      BY <3>2, <2>1, <2>4
    <3>3. QED
      BY <3>1, <3>2
  <2>8. BoundHeld'
    BY <1>2, <2>4, <2>5 DEF IInv, BoundHeld, Counting
  <2>9. QED
    BY <1>2, <2>6, <2>7, <2>8 DEF IInv, Counting
<1>5. CASE ~(m.op = "DISCOVER") /\ ~(m.op = "REQUEST" /\ Granted(m.mac, m.ip))
  <2>1. lease' = lease /\ net' \subseteq net
    BY <1>5 DEF dhcp_server_process
  <2>2. \A c \in Station : Held(c) => Held(c)'
    BY <1>2, <2>1, HeldKept
  <2>3. QED
    BY <1>2, <2>1, <2>2 DEF IInv, TypeOK, Counting, AckedHeld, BoundHeld
<1>6. QED
  BY <1>3, <1>4, <1>5

\* A lease that was never given has an expiry that fits.
LEMMA LeaseZero == 0 \in 0 .. (Clock \div Unit) - 1
<1>1. Clock \div Unit \in Int /\ Clock % Unit \in 0 .. Unit - 1
      /\ Clock = Unit * (Clock \div Unit) + (Clock % Unit)
  <2>1. Clock \in Int
    BY Sizes
  <2>2. QED
    BY <2>1, Sizes, DivMod, Zenon
<1>2. Unit <= Clock
  BY Sizes
<1>3. Clock \div Unit >= 1
  BY <1>1, <1>2, Sizes
<1>4. QED
  BY <1>1, <1>3

\* A server that starts or stops, and a station that keeps its address all the same:
\* that address counts no more.
LEMMA RestartStep ==
  ASSUME IInv, (\E ok \in BOOLEAN : fn_wifisoftap(ok)) \/ PowerCycle
  PROVE  IInv'
<1>1. /\ net' = {} /\ UNCHANGED station /\ WifiApRunning' \in BOOLEAN
      /\ lease' \in {lease, NoLease} /\ clock' \in {clock, 0}
      /\ outdated' = {c \in Station : station[c].st = "bound"}
  BY DEF fn_wifisoftap, PowerCycle, HoldsAddress
<1>2. NoLease \in [Slot -> [mac : Station \union {Free}, expiry : 0 .. Clock \div Unit - 1]]
  BY LeaseZero DEF NoLease
<1>3. TypeOK'
  BY <1>1, <1>2, Sizes DEF IInv, TypeOK
<1>4. QED
  BY <1>1, <1>3 DEF IInv, Counting, AckedHeld, BoundHeld

-----------------------------------------------------------------------------
(* Theorems.                                                               *)

LEMMA InitIInv == Init => IInv
<1> SUFFICES ASSUME Init PROVE IInv
  OBVIOUS
<1>1. Idle.st = "init" /\ Idle \in Believes
  BY Sizes DEF Idle, Believes, Asked
<1>2. NoLease \in [Slot -> [mac : Station \union {Free}, expiry : 0 .. Clock \div Unit - 1]]
  BY LeaseZero DEF NoLease
<1>3. TypeOK
  <2>1. station \in [Station -> Believes] /\ lease = NoLease
    BY <1>1 DEF Init
  <2>2. 0 \in 0 .. Clock - 1
    BY Sizes
  <2>3. QED
    BY <1>2, <2>1, <2>2 DEF Init, TypeOK, Believes
<1>4. QED
  BY <1>1, <1>3 DEF Init, IInv, Counting, AckedHeld, BoundHeld

LEMMA NextIInv == IInv /\ [Next]_vars => IInv'
<1> SUFFICES ASSUME IInv, [Next]_vars PROVE IInv'
  OBVIOUS
<1>1. CASE (\E ok \in BOOLEAN : fn_wifisoftap(ok)) \/ PowerCycle
  BY <1>1, RestartStep
<1>2. CASE Tick
  BY <1>2, TickStep
<1>3. CASE \E m \in net : dhcp_server_process(m)
  BY <1>3, ServerStep
<1>4. CASE \E m \in net : Lose(m)
  BY <1>4, LoseStep
<1>5. CASE \E c \in Station : StationStep(c)
  BY <1>5, StationStepIInv
<1>6. CASE UNCHANGED vars
  BY <1>6 DEF vars, IInv, TypeOK, Counting, AckedHeld, BoundHeld, Held, Remaining, Expired
<1>7. QED
  BY <1>1, <1>2, <1>3, <1>4, <1>5, <1>6 DEF Next

\* The invariant holds with any number of stations and addresses, however the
\* messages fare and wherever the clock wraps.
THEOREM Invariance == Spec => []IInv
<1>1. QED
  BY InitIInv, NextIInv, PTL DEF Spec

\* The server has every station that believes in one of its addresses down for it,
\* its lease not over, and no two stations believe in the same.
THEOREM LeasesCorrect == Spec => []LeasesHold
<1>1. IInv => LeasesHold
  <2> SUFFICES ASSUME IInv PROVE LeasesHold
    OBVIOUS
  <2>1. LesseeRecorded
    BY DEF IInv, BoundHeld, Held, LesseeRecorded
  <2>2. NoTwoLessees
    BY <2>1 DEF LesseeRecorded, NoTwoLessees
  <2>3. QED
    BY <2>1, <2>2 DEF IInv, LeasesHold
<1>2. QED
  BY <1>1, Invariance, PTL
=============================================================================
