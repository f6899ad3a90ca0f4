----------------------------- MODULE WifiScan -----------------------------
(***************************************************************************)
(* Scanning for networks (src/ulisp_builtins_system.cpp): the driver calls *)
(* wifi_scan_callback whenever it hears of a network, between any two      *)
(* steps of the program, while the program starts scans, reads the results *)
(* and maps a function over them.  The radio is external.                  *)
(***************************************************************************)
EXTENDS Integers, Sequences

CONSTANTS
  Network,
  NoNetwork,           \* what the array holds at first
  kWifiMaxScanResults,
  MaxMapping           \* mappings and lists begun inside one another (bound of the model)

ScanAssumption ==
  {kWifiMaxScanResults, MaxMapping} \subseteq Nat \ {0} /\ NoNetwork \notin Network

VARIABLES
  WifiScanResults,     \* the array
  WifiScanCount,
  WifiScanEverStarted,
  active,              \* cyw43_wifi_scan_active
  maps,                \* the wifi-scan-map under way, the innermost first:
                       \* [n, done: what the function was given, heard: the results
                       \*  when it was called, kept: no scan was begun or cleared since]
  listing              \* the list that is being made: [st, n, list: its end]

vars == <<WifiScanResults, WifiScanCount, WifiScanEverStarted, active, maps, listing>>

NoListing == [st |-> "none", n |-> 0, list |-> << >>]
AtProgram == listing = NoListing

Results == SubSeq(WifiScanResults, 1, WifiScanCount)

TypeOK ==
  /\ WifiScanResults \in Seq(Network \union {NoNetwork})
  /\ Len(WifiScanResults) = kWifiMaxScanResults
  /\ WifiScanCount \in 0 .. kWifiMaxScanResults
  /\ {WifiScanEverStarted, active} \subseteq BOOLEAN
  /\ Len(maps) <= MaxMapping
  /\ \A k \in DOMAIN maps : Len(maps[k].done) <= maps[k].n

Init ==
  /\ WifiScanResults = [i \in 1 .. kWifiMaxScanResults |-> NoNetwork]
  /\ WifiScanCount = 0 /\ WifiScanEverStarted = FALSE
  /\ active = FALSE /\ maps = << >> /\ listing = NoListing

\* Mutant: what is heard when the array is full takes the place of what was first.
wifi_scan_callback_Over(x) ==
  /\ active
  /\ IF WifiScanCount < kWifiMaxScanResults
     THEN /\ WifiScanCount' = WifiScanCount + 1
          /\ WifiScanResults' = [WifiScanResults EXCEPT ![WifiScanCount + 1] = x]
     ELSE /\ WifiScanResults' = [WifiScanResults EXCEPT ![1] = x]
          /\ UNCHANGED WifiScanCount
  /\ UNCHANGED <<WifiScanEverStarted, active, maps, listing>>

\* What is heard after the last place is taken is dropped.
wifi_scan_callback(x) ==
  /\ active /\ WifiScanCount < kWifiMaxScanResults
  /\ WifiScanCount' = WifiScanCount + 1
  /\ WifiScanResults' = [WifiScanResults EXCEPT ![WifiScanCount + 1] = x]
  /\ UNCHANGED <<WifiScanEverStarted, active, maps, listing>>

ScanOver == active /\ active' = FALSE
            /\ UNCHANGED <<WifiScanResults, WifiScanCount, WifiScanEverStarted, maps, listing>>

Disturbed == [k \in DOMAIN maps |-> [maps[k] EXCEPT !.kept = FALSE]]

\* The scan of an earlier start goes on; ok is the driver's answer.
wifi_start_scan(clear_results, ok) ==
  /\ WifiScanCount' = IF clear_results THEN 0 ELSE WifiScanCount
  /\ maps' = IF clear_results THEN Disturbed ELSE maps
  /\ WifiScanEverStarted' = ok /\ active' = (active \/ ok)
  /\ UNCHANGED WifiScanResults

\* The first wifi-scan begins one; all return the list.
fn_wifiscan ==
  /\ AtProgram /\ Len(maps) < MaxMapping
  /\ listing' = [NoListing EXCEPT !.st = "asked"]
  /\ IF ~WifiScanEverStarted /\ WifiScanCount = 0
     THEN \E ok \in BOOLEAN : wifi_start_scan(TRUE, ok)
     ELSE UNCHANGED <<WifiScanResults, WifiScanCount, WifiScanEverStarted, active, maps>>

fn_wifiscanresults ==
  /\ AtProgram /\ Len(maps) < MaxMapping
  /\ listing' = [NoListing EXCEPT !.st = "asked"]
  /\ UNCHANGED <<WifiScanResults, WifiScanCount, WifiScanEverStarted, active, maps>>

\* The number is read once, and the list made from its end.
wifi_results_list ==
  /\ listing.st = "asked"
  /\ listing' = [st |-> "reading", n |-> WifiScanCount, list |-> << >>]
  /\ UNCHANGED <<WifiScanResults, WifiScanCount, WifiScanEverStarted, active, maps>>

wifi_scan_entry ==
  /\ listing.st = "reading" /\ Len(listing.list) < listing.n
  /\ listing' = [listing EXCEPT !.list = <<WifiScanResults[listing.n - Len(@)]>> \o @]
  /\ UNCHANGED <<WifiScanResults, WifiScanCount, WifiScanEverStarted, active, maps>>

ListReturns ==
  /\ listing.st = "reading" /\ Len(listing.list) = listing.n
  /\ listing' = NoListing
  /\ UNCHANGED <<WifiScanResults, WifiScanCount, WifiScanEverStarted, active, maps>>

fn_wifiscanstart ==
  /\ AtProgram /\ \E clear, ok \in BOOLEAN : wifi_start_scan(clear, ok)
  /\ UNCHANGED listing

fn_wifiscanclear ==
  /\ AtProgram
  /\ WifiScanCount' = 0 /\ WifiScanEverStarted' = FALSE /\ maps' = Disturbed
  /\ UNCHANGED <<WifiScanResults, active, listing>>

\* The number of results is read once, each result when its turn comes.
fn_wifiscanmap ==
  /\ AtProgram /\ Len(maps) < MaxMapping
  /\ maps' = <<[n |-> WifiScanCount, done |-> << >>, heard |-> Results,
                kept |-> TRUE]>> \o maps
  /\ UNCHANGED <<WifiScanResults, WifiScanCount, WifiScanEverStarted, active, listing>>

Apply ==
  /\ AtProgram /\ maps # << >> /\ Len(Head(maps).done) < Head(maps).n
  /\ maps' = [maps EXCEPT ![1].done = Append(@, WifiScanResults[Len(@) + 1])]
  /\ UNCHANGED <<WifiScanResults, WifiScanCount, WifiScanEverStarted, active, listing>>

\* All were mapped, or the function left with an error.
MapReturns ==
  /\ AtProgram /\ maps # << >> /\ maps' = Tail(maps)
  /\ UNCHANGED <<WifiScanResults, WifiScanCount, WifiScanEverStarted, active, listing>>

Next ==
  \/ \E x \in Network : wifi_scan_callback(x)
  \/ ScanOver \/ fn_wifiscan \/ fn_wifiscanresults \/ wifi_results_list
  \/ wifi_scan_entry \/ ListReturns \/ fn_wifiscanstart \/ fn_wifiscanclear
  \/ fn_wifiscanmap \/ Apply \/ MapReturns

Spec == Init /\ [][Next]_vars

-----------------------------------------------------------------------------
(* Properties.                                                             *)

\* A list is of what had been heard when it was begun, in the order it was heard, and a function
\* that does not itself restart or clear the scan is given what had been heard when the
\* mapping began, however much is heard meanwhile.
MapsWhatWasHeard ==
  /\ listing.list = SubSeq(Results, listing.n - Len(listing.list) + 1, listing.n)
  /\ \A k \in DOMAIN maps :
       maps[k].kept => maps[k].done = SubSeq(maps[k].heard, 1, Len(maps[k].done))

-----------------------------------------------------------------------------
(* Why MapsWhatWasHeard holds: results that are read stay where they are.  *)

\* A list that is being made has its last places so far.
Listed ==
  /\ listing.st # "reading" => listing.n = 0 /\ listing.list = << >>
  /\ listing.n <= WifiScanCount /\ Len(listing.list) <= listing.n
  /\ \A j \in 1 .. Len(listing.list) :
       listing.list[j] = WifiScanResults[listing.n - Len(listing.list) + j]

\* What a mapping was begun with is still there.
StillThere ==
  \A k \in DOMAIN maps :
    /\ Len(maps[k].heard) = maps[k].n /\ Len(maps[k].done) <= maps[k].n
    /\ maps[k].kept =>
         /\ maps[k].n <= WifiScanCount
         /\ \A j \in 1 .. maps[k].n : maps[k].heard[j] = WifiScanResults[j]
         /\ \A j \in 1 .. Len(maps[k].done) : maps[k].done[j] = maps[k].heard[j]

\* No number read exceeds the array, even if the results it counted are gone.
Mapping == [n : 0 .. kWifiMaxScanResults, done : Seq(Network \union {NoNetwork}),
            heard : Seq(Network \union {NoNetwork}), kept : BOOLEAN]

IInv == /\ TypeOK /\ maps \in Seq(Mapping)
        /\ listing \in [st : {"none", "asked", "reading"}, n : Nat,
                        list : Seq(Network \union {NoNetwork})]
        /\ Listed /\ StillThere
=============================================================================
