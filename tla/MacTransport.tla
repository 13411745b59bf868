---------------------------- MODULE MacTransport ----------------------------
(***************************************************************************)
(* Scan, AdvertisedName and Connect of the macOS Transport                 *)
(* (macos/transport_darwin.go), called by several goroutines.  Every       *)
(* blocking operation of the Bluetooth adapter runs in a goroutine of its  *)
(* own while the caller selects on its answer and on its context:          *)
(* whoever gives up leaves that goroutine behind, and the adapter may      *)
(* begin what it was asked for after the caller has gone.                  *)
(***************************************************************************)
EXTENDS FiniteSets

CONSTANTS
    Call,    \* calls of the transport, each made once
    NoCall,  \* the adapter is not scanning
    Device,  \* the peripherals in range
    NoDevice \* the device of a call that has not been made, or that asks for none

ASSUME TransportConstants ==
    /\ NoCall \notin Call
    /\ NoDevice \notin Device

VARIABLES
    stage,      \* where each call is
    op,         \* "scan", "name" (AdvertisedName) or "connect"
    target,     \* the device that a name or connect call asks for
    ctxDone,    \* is its context done?
    enabled,    \* t.enabled
    scanning,   \* t.scanning
    discovered, \* t.discovered
    scanner,    \* the goroutine that calls adapter.Scan for a call
    adapter,    \* the call for whose handler the adapter scans, or NoCall
    found,      \* has the handler of the call met its device?
    link        \* the goroutine that calls adapter.Connect, and what became of the device

callState     == <<stage, op, target, ctxDone>>
transport     == <<enabled, scanning, discovered>>
adapterState  == <<scanner, adapter, found, link>>
transportVars == <<callState, transport, adapterState>>

Ended    == {"returned", "failed"}
Scanning == {"scanning", "stopping"}
Active   == {"enabling", "claiming", "dialling", "connecting", "discovering", "closing"} \cup Scanning
Stage    == {"idle"} \cup Active \cup Ended

\* adapter.Scan: not asked, asked, running, and what it has returned.
Scanner == {"none", "asked", "running", "stopped", "refused"}

\* adapter.Connect: not asked, asked, connected, failed, and Disconnect called.
Link == {"none", "asked", "up", "failed", "released"}

TransportInit ==
    /\ stage = [c \in Call |-> "idle"]
    /\ op = [c \in Call |-> "scan"]
    /\ target = [c \in Call |-> NoDevice]
    /\ ctxDone = [c \in Call |-> FALSE]
    /\ enabled = FALSE /\ scanning = FALSE /\ discovered = {}
    /\ scanner = [c \in Call |-> "none"]
    /\ adapter = NoCall
    /\ found = [c \in Call |-> FALSE]
    /\ link = [c \in Call |-> "none"]

Goto(c, place) == stage' = [stage EXCEPT ![c] = place]

----------------------------------------------------------------------------
(***************************************************************************)
(* A call begins, and enables the adapter if nobody has.  Connect looks    *)
(* its device up and scans only if it is not known.                        *)
(***************************************************************************)
\* Mutant of NextAfterEnable: the device is not looked up.
DialAtOnce(o, d) == "dialling"

NextAfterEnable(o, d) == IF o = "connect" /\ d \in discovered THEN "dialling" ELSE "claiming"

Begin(c, o, d) ==
    /\ stage[c] = "idle"
    /\ op' = [op EXCEPT ![c] = o]
    /\ target' = [target EXCEPT ![c] = d]
    /\ Goto(c, IF enabled THEN NextAfterEnable(o, d) ELSE "enabling")
    /\ UNCHANGED <<ctxDone, transport, adapterState>>

ContextEnds(c) ==
    /\ stage[c] \in Active
    /\ ~ctxDone[c]
    /\ ctxDone' = [ctxDone EXCEPT ![c] = TRUE]
    /\ UNCHANGED <<stage, op, target, transport, adapterState>>

EnableSucceeds(c) ==
    /\ stage[c] = "enabling"
    /\ enabled' = TRUE
    /\ Goto(c, NextAfterEnable(op[c], target[c]))
    /\ UNCHANGED <<op, target, ctxDone, scanning, discovered, adapterState>>

\* The adapter refuses, or the context ends first; AdvertisedName falls back on what it knows.
EnableFails(c) ==
    /\ stage[c] = "enabling"
    /\ Goto(c, "failed")
    /\ UNCHANGED <<op, target, ctxDone, transport, adapterState>>

----------------------------------------------------------------------------
(***************************************************************************)
(* scan: t.scanning admits one call at a time.                             *)
(***************************************************************************)
ClaimScan(c) ==
    /\ stage[c] = "claiming"
    /\ ~scanning
    /\ scanning' = TRUE
    /\ scanner' = [scanner EXCEPT ![c] = "asked"]
    /\ Goto(c, "scanning")
    /\ UNCHANGED <<op, target, ctxDone, enabled, discovered, adapter, found, link>>

ScanRefused(c) ==
    /\ stage[c] = "claiming"
    /\ scanning
    /\ Goto(c, "failed")
    /\ UNCHANGED <<op, target, ctxDone, transport, adapterState>>

(***************************************************************************)
(* The scan is over, with an error or without.  A Connect goes on if its   *)
(* device was found.                                                       *)
(***************************************************************************)
LeaveScan(c, ok) ==
    /\ scanning' = FALSE
    /\ Goto(c, IF ~ok THEN "failed"
               ELSE IF op[c] # "connect" THEN "returned"
               ELSE IF found[c] THEN "dialling" ELSE "failed")
    /\ UNCHANGED <<op, target, ctxDone, enabled, discovered, found, link>>

\* Mutant of ScanAnswers: the flag is left set when adapter.Scan fails.
ScanAnswersKeeping(c) ==
    /\ stage[c] \in Scanning
    /\ scanner[c] \in {"stopped", "refused"}
    /\ scanning' = (scanner[c] = "refused")
    /\ Goto(c, IF op[c] = "connect" /\ found[c] THEN "dialling" ELSE "failed")
    /\ UNCHANGED <<op, target, ctxDone, enabled, discovered, adapterState>>

ScanAnswers(c) ==
    /\ stage[c] \in Scanning
    /\ scanner[c] \in {"stopped", "refused"}
    /\ LeaveScan(c, scanner[c] = "stopped")
    /\ UNCHANGED <<scanner, adapter>>

(***************************************************************************)
(* The context ends first: adapter.StopScan stops whatever scan runs, and  *)
(* fails when none does; only after it has succeeded does the caller wait  *)
(* for its own goroutine.                                                  *)
(***************************************************************************)
StopAdapter ==
    /\ adapter # NoCall
    /\ adapter' = NoCall
    /\ scanner' = [scanner EXCEPT ![adapter] = "stopped"]

\* Mutant of StopScan: the caller returns without asking the adapter to stop.
StopScanLater(c) ==
    /\ stage[c] = "scanning"
    /\ ctxDone[c]
    /\ adapter # NoCall
    /\ Goto(c, "stopping")
    /\ UNCHANGED <<op, target, ctxDone, transport, adapterState>>

StopScan(c) ==
    /\ stage[c] = "scanning"
    /\ ctxDone[c]
    /\ StopAdapter
    /\ Goto(c, "stopping")
    /\ UNCHANGED <<op, target, ctxDone, transport, found, link>>

\* Mutant of StopScanFails: the caller gives up although its context goes on.
StopScanFailsUnasked(c) ==
    /\ stage[c] = "scanning"
    /\ adapter = NoCall
    /\ LeaveScan(c, FALSE)
    /\ UNCHANGED <<scanner, adapter>>

StopScanFails(c) ==
    /\ stage[c] = "scanning"
    /\ ctxDone[c]
    /\ adapter = NoCall
    /\ LeaveScan(c, FALSE)
    /\ UNCHANGED <<scanner, adapter>>

----------------------------------------------------------------------------
(***************************************************************************)
(* The adapter.  It begins the scan some time after it was asked; it calls *)
(* the handler for every advertisement; it refuses a second scan and may   *)
(* fail one.  Handlers of AdvertisedName and Connect stop the scan when    *)
(* they meet their device, AdvertisedName if the advertisement has a name. *)
(***************************************************************************)
AdapterScans(c) ==
    /\ scanner[c] = "asked"
    /\ adapter = NoCall
    /\ adapter' = c
    /\ scanner' = [scanner EXCEPT ![c] = "running"]
    /\ UNCHANGED <<callState, transport, found, link>>

AdapterRefuses(c) ==
    /\ scanner[c] \in {"asked", "running"}
    /\ adapter' = IF adapter = c THEN NoCall ELSE adapter
    /\ scanner' = [scanner EXCEPT ![c] = "refused"]
    /\ UNCHANGED <<callState, transport, found, link>>

Remember(d) == discovered' = discovered \cup {d}

Advertises(d) ==
    /\ adapter # NoCall
    /\ Remember(d)
    /\ UNCHANGED <<callState, enabled, scanning, adapterState>>

Matches(d) ==
    /\ adapter # NoCall
    /\ op[adapter] # "scan"
    /\ target[adapter] = d
    /\ Remember(d)
    /\ found' = [found EXCEPT ![adapter] = TRUE]
    /\ StopAdapter
    /\ UNCHANGED <<callState, enabled, scanning, link>>

----------------------------------------------------------------------------
(***************************************************************************)
(* Connect, once the device is known.                                      *)
(***************************************************************************)
Dial(c) ==
    /\ stage[c] = "dialling"
    /\ Remember(target[c])
    /\ link' = [link EXCEPT ![c] = "asked"]
    /\ Goto(c, "connecting")
    /\ UNCHANGED <<op, target, ctxDone, enabled, scanning, scanner, adapter, found>>

\* The deadline has passed already.
DialLate(c) ==
    /\ stage[c] = "dialling"
    /\ ctxDone[c]
    /\ Remember(target[c])
    /\ Goto(c, "failed")
    /\ UNCHANGED <<op, target, ctxDone, enabled, scanning, adapterState>>

AdapterConnects(c) ==
    /\ link[c] = "asked"
    /\ \E result \in {"up", "failed"} : link' = [link EXCEPT ![c] = result]
    /\ UNCHANGED <<callState, transport, scanner, adapter, found>>

Connected(c) ==
    /\ stage[c] = "connecting"
    /\ link[c] = "up"
    /\ Goto(c, "discovering")
    /\ UNCHANGED <<op, target, ctxDone, transport, adapterState>>

ConnectFails(c) ==
    /\ stage[c] = "connecting"
    /\ link[c] = "failed" \/ ctxDone[c]
    /\ Goto(c, "failed")
    /\ UNCHANGED <<op, target, ctxDone, transport, adapterState>>

Discovered(c) ==
    /\ stage[c] = "discovering"
    /\ Goto(c, "returned")
    /\ UNCHANGED <<op, target, ctxDone, transport, adapterState>>

\* Mutant of DiscoveryFails: the connection is not closed.
DiscoveryFailsOpen(c) ==
    /\ stage[c] = "discovering"
    /\ Goto(c, "failed")
    /\ UNCHANGED <<op, target, ctxDone, transport, adapterState>>

\* A characteristic is missing, or the context ends.
DiscoveryFails(c) ==
    /\ stage[c] = "discovering"
    /\ Goto(c, "closing")
    /\ UNCHANGED <<op, target, ctxDone, transport, adapterState>>

\* conn.Close with a context that never ends: Connect waits until device.Disconnect has returned.
Release(c) ==
    /\ stage[c] = "closing"
    /\ link' = [link EXCEPT ![c] = "released"]
    /\ Goto(c, "failed")
    /\ UNCHANGED <<op, target, ctxDone, transport, scanner, adapter, found>>

----------------------------------------------------------------------------
Calling(c) ==
    \/ Begin(c, "scan", NoDevice)
    \/ \E d \in Device, o \in {"name", "connect"} : Begin(c, o, d)

Enabling(c) == EnableSucceeds(c) \/ EnableFails(c)

ScanStep(c) ==
    \/ ClaimScan(c) \/ ScanRefused(c)
    \/ ScanAnswers(c) \/ StopScan(c) \/ StopScanFails(c)

Connecting(c) ==
    \/ Dial(c) \/ DialLate(c)
    \/ Connected(c) \/ ConnectFails(c)
    \/ Discovered(c) \/ DiscoveryFails(c) \/ Release(c)

Adapter ==
    \/ \E c \in Call : AdapterScans(c) \/ AdapterRefuses(c) \/ AdapterConnects(c)
    \/ \E d \in Device : Advertises(d) \/ Matches(d)

TransportNext ==
    \/ \E c \in Call : Calling(c) \/ ContextEnds(c) \/ Enabling(c) \/ ScanStep(c) \/ Connecting(c)
    \/ Adapter

TransportSpec == TransportInit /\ [][TransportNext]_transportVars

(***************************************************************************)
(* Goroutines run.  No device need advertise, no scan need begin or fail,  *)
(* no link need come up, no discovery need end, and no Disconnect need     *)
(* return: Release is not fair.  Of the adapter this asks only that        *)
(* StopScan, which is called without a goroutine, returns and that a scan  *)
(* it has stopped does.                                                    *)
(***************************************************************************)
LocalStep(c) ==
    \/ ctxDone[c] /\ (EnableFails(c) \/ DiscoveryFails(c))
    \/ ScanStep(c)
    \/ Dial(c) \/ ConnectFails(c)

TransportFairness == \A c \in Call : WF_transportVars(LocalStep(c))

TransportFairSpec == TransportSpec /\ TransportFairness

----------------------------------------------------------------------------
TransportTypeOK ==
    /\ stage \in [Call -> Stage]
    /\ op \in [Call -> {"scan", "name", "connect"}]
    /\ target \in [Call -> Device \cup {NoDevice}]
    /\ ctxDone \in [Call -> BOOLEAN]
    /\ enabled \in BOOLEAN /\ scanning \in BOOLEAN
    /\ discovered \subseteq Device
    /\ scanner \in [Call -> Scanner]
    /\ adapter \in Call \cup {NoCall}
    /\ found \in [Call -> BOOLEAN]
    /\ link \in [Call -> Link]

(***************************************************************************)
(* t.scanning is set exactly while one call is in scan, whichever way that *)
(* call leaves it: a flag left set would refuse every later scan.          *)
(***************************************************************************)
ScanFlagMatches ==
    /\ scanning <=> \E c \in Call : stage[c] \in Scanning
    /\ \A c, x \in Call : stage[c] \in Scanning /\ stage[x] \in Scanning => c = x

(***************************************************************************)
(* A Connect that fails leaves no device connected, unless its context     *)
(* ended: only then may the goroutine in adapter.Connect outlive it.       *)
(***************************************************************************)
FailedConnectReleases ==
    \A c \in Call : stage[c] = "failed" /\ link[c] \in {"asked", "up"} => ctxDone[c]

(***************************************************************************)
(* The scan of a call that has returned, which the adapter still performs  *)
(* or is about to begin.                                                   *)
(***************************************************************************)
Outlived(c) == stage[c] \notin Scanning /\ scanner[c] \in {"asked", "running"}

(***************************************************************************)
(* A call whose context ends comes to its end, whatever the adapter leaves *)
(* unanswered: unless some scan outlives its call, and a later StopScan    *)
(* stops that one and leaves the caller waiting for its own.  A Connect    *)
(* that was discovering comes as far as closing its connection, which      *)
(* waits for device.Disconnect without a deadline.                         *)
(***************************************************************************)
CallsReturn ==
    [](\A x \in Call : ~Outlived(x)) =>
        \A c \in Call : stage[c] \in Active /\ ctxDone[c] ~> stage[c] \in Ended \cup {"closing"}

(***************************************************************************)
(* A scan outlives its call only if the context of the call has ended: a   *)
(* match, a refusal or an error of the adapter leaves no scan behind.      *)
(***************************************************************************)
ScanOutlivesOnlyCancelled == \A c \in Call : Outlived(c) => ctxDone[c]

(***************************************************************************)
(* A call that ends before its context leaves nothing behind in the        *)
(* adapter, neither a link nor a scan.                                     *)
(***************************************************************************)
NothingLeftBehind == FailedConnectReleases /\ ScanOutlivesOnlyCancelled

(***************************************************************************)
(* The adapter does not scan for a call that has returned.  Violated: its  *)
(* goroutine may reach the adapter after StopScan had nothing to stop.     *)
(***************************************************************************)
NoScanAfterReturn == \A c \in Call : stage[c] \in Ended => adapter # c
=============================================================================
