------------------------- MODULE MacTransport_proof -------------------------
(***************************************************************************)
(* The safety properties of MacTransport, for any number of calls and      *)
(* devices.                                                                *)
(***************************************************************************)
EXTENDS MacTransport, TLAPS

(***************************************************************************)
(* A call asks the adapter to connect only when it has passed every place  *)
(* where it can fail without looking at the answer; from there on it fails *)
(* on the answer, on its context, or through conn.Close.                   *)
(***************************************************************************)
BeforeConnect == {"idle", "enabling", "claiming", "scanning", "stopping", "dialling"}

LinkFollows ==
    \A c \in Call :
        /\ stage[c] \in BeforeConnect => link[c] = "none"
        /\ stage[c] = "discovering" => link[c] = "up"

\* Only connect calls dial, and they have a device.
DialsDevice ==
    \A c \in Call :
        /\ op[c] = "connect" => target[c] \in Device
        /\ stage[c] = "dialling" => op[c] = "connect"

Inv == TransportTypeOK /\ ScanFlagMatches /\ LinkFollows /\ DialsDevice /\ FailedConnectReleases /\ ScanOutlivesOnlyCancelled

LEMMA InitInv == TransportInit => Inv
<1> SUFFICES ASSUME TransportInit PROVE Inv
  OBVIOUS
<1>1. TransportTypeOK
  BY DEF TransportInit, TransportTypeOK, Stage, Active, Scanning, Ended, Scanner, Link
<1>2. \A c \in Call : stage[c] = "idle" /\ op[c] = "scan" /\ link[c] = "none" /\ scanner[c] = "none"
  BY DEF TransportInit
<1>3. ScanFlagMatches
  BY <1>2 DEF TransportInit, ScanFlagMatches, Scanning
<1>4. LinkFollows /\ DialsDevice
  BY <1>2 DEF LinkFollows, DialsDevice, BeforeConnect
<1>5. FailedConnectReleases
  BY <1>2 DEF FailedConnectReleases
<1>6. ScanOutlivesOnlyCancelled
  BY <1>2 DEF ScanOutlivesOnlyCancelled, Outlived
<1> QED
  BY <1>1, <1>3, <1>4, <1>5, <1>6 DEF Inv

LEMMA BeginKeepsInv ==
    ASSUME Inv, NEW c \in Call, Calling(c)
    PROVE  Inv'
<1>1. PICK o \in {"scan", "name", "connect"}, d \in Device \cup {NoDevice} :
          Begin(c, o, d) /\ (o = "connect" => d \in Device)
  BY DEF Calling
<1>2. NextAfterEnable(o, d) \in {"dialling", "claiming"} /\ (NextAfterEnable(o, d) = "dialling" => o = "connect")
  BY DEF NextAfterEnable
<1>3. PICK place \in {"enabling", "dialling", "claiming"} :
          stage' = [stage EXCEPT ![c] = place] /\ (place = "dialling" => o = "connect")
  BY <1>1, <1>2 DEF Begin, Goto
<1> QED
  BY <1>1, <1>3 DEF Begin, Inv, TransportTypeOK, ScanFlagMatches, LinkFollows, DialsDevice,
     FailedConnectReleases, ScanOutlivesOnlyCancelled, Outlived, Stage, Active, Scanning, Ended,
     BeforeConnect, transport, adapterState

(***************************************************************************)
(* Steps of a call that leave the scan and the adapter's connect alone: it *)
(* suffices that the call stays out of the places these facts speak of.    *)
(***************************************************************************)
LEMMA MoveKeepsInv ==
    ASSUME Inv, NEW c \in Call, NEW place \in Stage, Goto(c, place),
           stage[c] \notin Scanning, place \notin Scanning,
           place \in BeforeConnect => link[c] = "none",
           place = "dialling" => op[c] = "connect",
           place = "discovering" => link[c] = "up",
           place = "failed" /\ link[c] \in {"asked", "up"} => ctxDone[c],
           enabled' \in BOOLEAN,
           UNCHANGED <<op, target, ctxDone, scanning, discovered, adapterState>>
    PROVE  Inv'
BY DEF Goto, Inv, TransportTypeOK, ScanFlagMatches, LinkFollows, DialsDevice, FailedConnectReleases,
   ScanOutlivesOnlyCancelled, Outlived, Scanning, adapterState

LEMMA EnableKeepsInv ==
    ASSUME Inv, NEW c \in Call, Enabling(c)
    PROVE  Inv'
<1>1. stage[c] = "enabling" /\ link[c] = "none"
  BY DEF Enabling, EnableSucceeds, EnableFails, Inv, LinkFollows, BeforeConnect
<1>2. /\ NextAfterEnable(op[c], target[c]) \in {"dialling", "claiming"}
      /\ NextAfterEnable(op[c], target[c]) = "dialling" => op[c] = "connect"
  BY DEF NextAfterEnable
<1>3. PICK place \in {"dialling", "claiming", "failed"} :
          Goto(c, place) /\ (place = "dialling" => op[c] = "connect")
  BY <1>2 DEF Enabling, EnableSucceeds, EnableFails
<1>4. enabled' \in BOOLEAN /\ UNCHANGED <<op, target, ctxDone, scanning, discovered, adapterState>>
  BY DEF Enabling, EnableSucceeds, EnableFails, transport, Inv, TransportTypeOK
<1> QED
  BY <1>1, <1>3, <1>4, MoveKeepsInv DEF Stage, Active, Scanning, Ended

\* A call that leaves scan was the only one in it, so the flag that it clears was its own.
LEMMA LeaveKeepsInv ==
    ASSUME Inv, NEW c \in Call, stage[c] \in Scanning, NEW ok \in BOOLEAN, LeaveScan(c, ok),
           UNCHANGED <<scanner, adapter>>, scanner[c] \in {"stopped", "refused"} \/ ctxDone[c]
    PROVE  Inv'
<1>1. link[c] = "none"
  BY DEF Inv, LinkFollows, BeforeConnect, Scanning
<1>2. PICK place \in {"failed", "returned", "dialling"} :
          stage' = [stage EXCEPT ![c] = place] /\ (place = "dialling" => op[c] = "connect")
  BY DEF LeaveScan, Goto
<1>3. \A x \in Call : x # c => stage[x] \notin Scanning
  BY DEF Inv, ScanFlagMatches
<1>4. ScanOutlivesOnlyCancelled'
  BY <1>2 DEF LeaveScan, Inv, TransportTypeOK, ScanOutlivesOnlyCancelled, Outlived
<1>5. TransportTypeOK'
  BY <1>2 DEF LeaveScan, Inv, TransportTypeOK, Stage, Active, Ended
<1>6. ScanFlagMatches'
  BY <1>2, <1>3 DEF LeaveScan, Inv, TransportTypeOK, ScanFlagMatches, Scanning
<1>7. LinkFollows' /\ DialsDevice' /\ FailedConnectReleases'
  BY <1>1, <1>2 DEF LeaveScan, Inv, TransportTypeOK, LinkFollows, DialsDevice, FailedConnectReleases,
     BeforeConnect
<1> QED
  BY <1>4, <1>5, <1>6, <1>7 DEF Inv

LEMMA ScanKeepsInv ==
    ASSUME Inv, NEW c \in Call, ScanStep(c)
    PROVE  Inv'
<1>1. CASE ClaimScan(c)
  BY <1>1 DEF ClaimScan, Goto, Inv, TransportTypeOK, ScanFlagMatches, LinkFollows, DialsDevice,
     FailedConnectReleases, ScanOutlivesOnlyCancelled, Outlived, Stage, Active, Scanning, Ended,
     BeforeConnect, Scanner
<1>2. CASE ScanRefused(c)
  <2>1. link[c] = "none"
    BY <1>2 DEF ScanRefused, Inv, LinkFollows, BeforeConnect
  <2> QED
    BY <1>2, <2>1, MoveKeepsInv DEF ScanRefused, transport, Stage, Ended, Scanning, BeforeConnect, Inv,
       TransportTypeOK
<1>3. CASE ScanAnswers(c)
  BY <1>3, LeaveKeepsInv DEF ScanAnswers, Inv, TransportTypeOK
<1>4. CASE StopScanFails(c)
  BY <1>4, LeaveKeepsInv DEF StopScanFails, Scanning, Inv, TransportTypeOK
<1>5. CASE StopScan(c)
  BY <1>5 DEF StopScan, StopAdapter, Goto, transport, Inv, TransportTypeOK, ScanFlagMatches, LinkFollows,
     DialsDevice, FailedConnectReleases, ScanOutlivesOnlyCancelled, Outlived, Stage, Active, Scanning,
     Ended, BeforeConnect, Scanner
<1> QED
  BY <1>1, <1>2, <1>3, <1>4, <1>5 DEF ScanStep

LEMMA ConnectKeepsInv ==
    ASSUME Inv, NEW c \in Call, Connecting(c)
    PROVE  Inv'
<1>1. CASE Dial(c)
  <2>1. discovered' \subseteq Device
    BY <1>1 DEF Dial, Remember, Inv, TransportTypeOK, DialsDevice
  <2> QED
    BY <1>1, <2>1 DEF Dial, Goto, Inv, TransportTypeOK, ScanFlagMatches, LinkFollows, DialsDevice,
       FailedConnectReleases, ScanOutlivesOnlyCancelled, Outlived, Stage, Active, Scanning, Ended,
       BeforeConnect, Link
<1>2. CASE DialLate(c)
  <2>1. discovered' \subseteq Device
    BY <1>2 DEF DialLate, Remember, Inv, TransportTypeOK, DialsDevice
  <2> QED
    BY <1>2, <2>1 DEF DialLate, Goto, adapterState, Inv, TransportTypeOK, ScanFlagMatches, LinkFollows, DialsDevice,
       FailedConnectReleases, ScanOutlivesOnlyCancelled, Outlived, Stage, Active, Scanning, Ended,
       BeforeConnect
<1>3. CASE Connected(c)
  BY <1>3, MoveKeepsInv DEF Connected, transport, Stage, Active, Scanning, BeforeConnect, Inv, TransportTypeOK
<1>4. CASE ConnectFails(c)
  BY <1>4, MoveKeepsInv DEF ConnectFails, transport, Stage, Ended, Scanning, BeforeConnect, Inv, TransportTypeOK
<1>5. CASE Discovered(c)
  BY <1>5, MoveKeepsInv DEF Discovered, transport, Stage, Ended, Scanning, BeforeConnect, Inv, TransportTypeOK
<1>6. CASE DiscoveryFails(c)
  BY <1>6, MoveKeepsInv DEF DiscoveryFails, transport, Stage, Active, Scanning, BeforeConnect, Inv, TransportTypeOK
<1>7. CASE Release(c)
  BY <1>7 DEF Release, Goto, transport, Inv, TransportTypeOK, ScanFlagMatches, LinkFollows, DialsDevice,
     FailedConnectReleases, ScanOutlivesOnlyCancelled, Outlived, Stage, Active, Scanning, Ended,
     BeforeConnect, Link
<1> QED
  BY <1>1, <1>2, <1>3, <1>4, <1>5, <1>6, <1>7 DEF Connecting

LEMMA AdapterKeepsInv ==
    ASSUME Inv, Adapter
    PROVE  Inv'
<1> USE DEF Inv, TransportTypeOK, ScanFlagMatches, LinkFollows, DialsDevice, FailedConnectReleases,
       ScanOutlivesOnlyCancelled, Outlived, Scanner, Link,
            BeforeConnect, callState, transport
<1>1. ASSUME NEW c \in Call, AdapterScans(c) PROVE Inv'
  BY <1>1 DEF AdapterScans
<1>2. ASSUME NEW c \in Call, AdapterRefuses(c) PROVE Inv'
  BY <1>2 DEF AdapterRefuses
<1>3. ASSUME NEW c \in Call, AdapterConnects(c) PROVE Inv'
  BY <1>3 DEF AdapterConnects
<1>4. ASSUME NEW d \in Device, Advertises(d) PROVE Inv'
  BY <1>4 DEF Advertises, Remember, adapterState
<1>5. ASSUME NEW d \in Device, Matches(d) PROVE Inv'
  BY <1>5 DEF Matches, Remember, StopAdapter
<1> QED
  BY <1>1, <1>2, <1>3, <1>4, <1>5 DEF Adapter

LEMMA StepKeepsInv == Inv /\ [TransportNext]_transportVars => Inv'
<1> SUFFICES ASSUME Inv, [TransportNext]_transportVars PROVE Inv'
  OBVIOUS
<1>1. ASSUME NEW c \in Call, ContextEnds(c) PROVE Inv'
  BY <1>1 DEF ContextEnds, transport, adapterState, Inv, TransportTypeOK, ScanFlagMatches, LinkFollows, DialsDevice,
     FailedConnectReleases, ScanOutlivesOnlyCancelled, Outlived
<1>2. CASE UNCHANGED transportVars
  BY <1>2 DEF transportVars, callState, transport, adapterState, Inv, TransportTypeOK, ScanFlagMatches, LinkFollows, DialsDevice,
     FailedConnectReleases, ScanOutlivesOnlyCancelled, Outlived
<1> QED
  BY <1>1, <1>2, BeginKeepsInv, EnableKeepsInv, ScanKeepsInv, ConnectKeepsInv, AdapterKeepsInv DEF
     TransportNext

(***************************************************************************)
(* t.scanning is set exactly while one call is in scan, whatever order     *)
(* contexts, adapter answers and matches come in.                          *)
(***************************************************************************)
THEOREM ScanFlag == TransportSpec => []ScanFlagMatches
<1>1. Inv => ScanFlagMatches
  BY DEF Inv
<1> QED
  BY <1>1, InitInv, StepKeepsInv, PTL DEF TransportSpec

(***************************************************************************)
(* A Connect that fails before its context ends leaves no connection       *)
(* behind, and none on its way.                                            *)
(***************************************************************************)
THEOREM FailedConnects == TransportSpec => []FailedConnectReleases
<1>1. Inv => FailedConnectReleases
  BY DEF Inv
<1> QED
  BY <1>1, InitInv, StepKeepsInv, PTL DEF TransportSpec

(***************************************************************************)
(* A scan outlives its call only when the context of the call has ended.   *)
(***************************************************************************)
THEOREM ScansLeftBehind == TransportSpec => []ScanOutlivesOnlyCancelled
<1>1. Inv => ScanOutlivesOnlyCancelled
  BY DEF Inv
<1> QED
  BY <1>1, InitInv, StepKeepsInv, PTL DEF TransportSpec

(***************************************************************************)
(* Both together: of a call that ended before its context nothing is left  *)
(* in the adapter, however many other calls come and go.                   *)
(***************************************************************************)
THEOREM CallsCleanUp == TransportSpec => []NothingLeftBehind
<1>1. Inv => NothingLeftBehind
  BY DEF Inv, NothingLeftBehind
<1> QED
  BY <1>1, InitInv, StepKeepsInv, PTL DEF TransportSpec

(***************************************************************************)
(* Every reachable state is well typed; in particular the adapter scans    *)
(* for a call or for none, and only devices in range are remembered.       *)
(***************************************************************************)
THEOREM TypeCorrectness == TransportSpec => []TransportTypeOK
<1>1. Inv => TransportTypeOK
  BY DEF Inv
<1> QED
  BY <1>1, InitInv, StepKeepsInv, PTL DEF TransportSpec
=============================================================================
