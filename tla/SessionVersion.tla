--------------------------- MODULE SessionVersion ---------------------------
(***************************************************************************)
(* The protocol version of a session (s.protocol, session.go).  The reads  *)
(* infer it when it was left open, and every call whose form depends on it *)
(* looks at it, none under a lock: the goroutine of AccelerometerSamples   *)
(* alone makes the accesses concurrent.  A version is a Go string of two   *)
(* words, its length and its bytes, and the empty one has none; a load     *)
(* beside the store of the first version may see one word of each.         *)
(***************************************************************************)
EXTENDS Naturals, FiniteSets

CONSTANTS
    Proc,     \* goroutines that use the session
    MaxCalls  \* bound: calls each of them makes

ASSUME ConstantsAssumption == MaxCalls \in Nat

VARIABLES
    device,     \* what it is and what its firmware revision tells, see Device
    configured, \* the version the session was created with
    version,    \* s.protocol
    pc,         \* each goroutine: see Place
    inferred,   \* each goroutine: the version its payloads tell
    calls,      \* each goroutine: the calls it has made
    names       \* history: the names given to SetName and what came of them

const == <<device, configured>>
vars  == <<const, version, pc, inferred, calls, names>>

Family  == {"v3", "v4"}
Version == Family \cup {"auto"}

(***************************************************************************)
(* A firmware revision names the family of its device, or inferProtocol-   *)
(* Version makes nothing of it.                                            *)
(***************************************************************************)
Device == {d \in [family : Family, firmware : Version] : d.firmware \in {d.family, "auto"}}

Operation == {"info", "state", "accelerometer", "name", "history"}
Place == Operation \cup {"idle", "infoReads", "infoNames", "vectorReads", "checks", "storing",
                         "historyV4", "historyFailed", "panicked"}

\* Mutant of Init: the version the client was created with is not handed to the session.
InitOpen ==
    /\ device \in Device
    /\ configured \in Version
    /\ version = "auto"
    /\ pc = [g \in Proc |-> "idle"]
    /\ inferred = [g \in Proc |-> "auto"]
    /\ calls = [g \in Proc |-> 0]
    /\ names = {}

Init ==
    /\ device \in Device
    /\ configured \in Version
    /\ version = configured
    /\ pc = [g \in Proc |-> "idle"]
    /\ inferred = [g \in Proc |-> "auto"]
    /\ calls = [g \in Proc |-> 0]
    /\ names = {}

----------------------------------------------------------------------------
(***************************************************************************)
(* A load beside a store sees the old version or the new one, or, where    *)
(* the old one is empty, the new length with no bytes: "torn".  Comparing  *)
(* that with a version looks for the bytes and panics; a comparison with   *)
(* ProtocolAuto looks at the length alone.                                 *)
(***************************************************************************)
Storing == {g \in Proc : pc[g] = "storing"}
Seen ==
    {version} \cup {inferred[g] : g \in Storing}
              \cup {torn \in {"torn"} : version = "auto" /\ Storing # {}}

Is(v, yes, no) ==
    [seen \in Version \cup {"torn"} |-> IF seen = "torn" THEN "panicked" ELSE IF seen = v THEN yes ELSE no]
IsAuto(yes, no) == [seen \in Version \cup {"torn"} |-> IF seen = "auto" THEN yes ELSE no]

Load(g, from, next) ==
    /\ pc[g] = from
    /\ \E seen \in Seen : pc' = [pc EXCEPT ![g] = next[seen]]
    /\ UNCHANGED <<const, version, inferred, calls, names>>

Call(g) ==
    /\ pc[g] = "idle"
    /\ calls[g] < MaxCalls
    /\ calls' = [calls EXCEPT ![g] = @ + 1]
    /\ \E op \in Operation : pc' = [pc EXCEPT ![g] = op]
    /\ UNCHANGED <<const, version, inferred, names>>

(***************************************************************************)
(* ReadDeviceInfo: the version chooses the characteristics to read; the    *)
(* firmware revision may be missing from them, and any read may fail.      *)
(* Later it says where the name comes from, and is stored if still open.   *)
(***************************************************************************)
InfoChooses(g) == Load(g, "info", Is("v3", "infoReads", "infoReads"))

InfoReads(g) ==
    /\ pc[g] = "infoReads"
    /\ \/ /\ pc' = [pc EXCEPT ![g] = "idle"]
          /\ UNCHANGED inferred
       \/ /\ pc' = [pc EXCEPT ![g] = "infoNames"]
          /\ \E told \in {device.firmware, "auto"} : inferred' = [inferred EXCEPT ![g] = told]
    /\ UNCHANGED <<const, version, calls, names>>

InfoNames(g) ==
    LET next == IF inferred[g] = "auto" THEN "idle" ELSE "checks"
    IN  Load(g, "infoNames", Is("v3", next, next))

\* Mutant of Checks: what a read tells replaces the version, open or not.
ChecksNothing(g) == Load(g, "checks", [seen \in Version \cup {"torn"} |-> "storing"])

Checks(g) == Load(g, "checks", IsAuto("storing", "idle"))

Stores(g) ==
    /\ pc[g] = "storing"
    /\ version' = inferred[g]
    /\ pc' = [pc EXCEPT ![g] = "idle"]
    /\ UNCHANGED <<const, inferred, calls, names>>

(***************************************************************************)
(* ReadSystemState is refused on v3, ReadAccelerometer on v4.  A read of   *)
(* the characteristic yields a vector of six bytes on a v3 device, or an   *)
(* event text; on a v4 device a text, which has other lengths.             *)
(***************************************************************************)
StateChooses(g) == Load(g, "state", Is("v3", "idle", "idle"))
VectorChooses(g) == Load(g, "accelerometer", Is("v4", "idle", "vectorReads"))

\* Mutant of VectorReads: the payload is not decoded before its family is inferred.
VectorReadsAnything(g) ==
    /\ pc[g] = "vectorReads"
    /\ inferred' = [inferred EXCEPT ![g] = "v3"]
    /\ pc' = [pc EXCEPT ![g] = "checks"]
    /\ UNCHANGED <<const, version, calls, names>>

VectorReads(g) ==
    /\ pc[g] = "vectorReads"
    /\ \/ /\ pc' = [pc EXCEPT ![g] = "idle"]
          /\ UNCHANGED inferred
       \/ /\ device.family = "v3"
          /\ inferred' = [inferred EXCEPT ![g] = "v3"]
          /\ pc' = [pc EXCEPT ![g] = "checks"]
    /\ UNCHANGED <<const, version, calls, names>>

(***************************************************************************)
(* SetName lets 19 bytes pass on v3 and 18 otherwise, and puts a byte with *)
(* their number before them; encodeCommand takes payloads of up to 19      *)
(* bytes, and what it refuses is not written.                              *)
(***************************************************************************)
NameLength == 18..20
MaxPayload == 19

NameLimit(seen) == IF seen = "v3" THEN 19 ELSE 18

Fate(seen, length) ==
    CASE length > NameLimit(seen)                             -> "tooLong"
      [] length <= NameLimit(seen) /\ length + 1 > MaxPayload -> "notEncoded"
      [] length <= NameLimit(seen) /\ length + 1 <= MaxPayload -> "sent"

SetName(g) ==
    /\ pc[g] = "name"
    /\ \E seen \in Seen, length \in NameLength :
          \/ /\ seen = "torn"
             /\ pc' = [pc EXCEPT ![g] = "panicked"]
             /\ UNCHANGED names
          \/ /\ seen # "torn"
             /\ pc' = [pc EXCEPT ![g] = "idle"]
             /\ names' = names \cup {[session |-> seen, length |-> length, fate |-> Fate(seen, length)]}
    /\ UNCHANGED <<const, version, inferred, calls>>

(***************************************************************************)
(* ReadHistory chooses its path, and looks again when the v4 path failed.  *)
(***************************************************************************)
HistoryChooses(g) == Load(g, "history", Is("v3", "idle", "historyV4"))
HistoryV4(g) ==
    /\ pc[g] = "historyV4"
    /\ \E next \in {"idle", "historyFailed"} : pc' = [pc EXCEPT ![g] = next]
    /\ UNCHANGED <<const, version, inferred, calls, names>>
HistoryFallsBack(g) == Load(g, "historyFailed", Is("v4", "idle", "idle"))

----------------------------------------------------------------------------
Step(g) ==
    \/ Call(g)
    \/ InfoChooses(g) \/ InfoReads(g) \/ InfoNames(g) \/ Checks(g) \/ Stores(g)
    \/ StateChooses(g) \/ VectorChooses(g) \/ VectorReads(g)
    \/ SetName(g)
    \/ HistoryChooses(g) \/ HistoryV4(g) \/ HistoryFallsBack(g)

\* A panic ends the program.
Next == (\A g \in Proc : pc[g] # "panicked") /\ \E g \in Proc : Step(g)

Spec == Init /\ [][Next]_vars

----------------------------------------------------------------------------
TypeOK ==
    /\ device \in Device
    /\ configured \in Version
    /\ version \in Version
    /\ pc \in [Proc -> Place]
    /\ inferred \in [Proc -> Version]
    /\ calls \in [Proc -> 0..MaxCalls]
    /\ names \subseteq [session : Version, length : NameLength, fate : {"tooLong", "notEncoded", "sent"}]

(***************************************************************************)
(* A session created with an open version is never taken for the family    *)
(* its device is not of, whichever reads race to say so.                   *)
(***************************************************************************)
VersionIsTrue == configured = "auto" => version \in {"auto", device.family}

(***************************************************************************)
(* Once known, and a configured one is, the version does not change under  *)
(* the calls that are in progress.                                         *)
(***************************************************************************)
VersionIsStable == [][version # "auto" => version' = version]_vars

(***************************************************************************)
(* The hardware document of v3 allows names of up to 19 symbols: SetName   *)
(* sends them in a session it knows to be v3.  The code refuses the        *)
(* longest, for its length byte makes the payload one byte too long.       *)
(***************************************************************************)
V3NamesAreSent ==
    \A n \in names : device.family = "v3" /\ n.session = "v3" /\ n.length <= 19 => n.fate = "sent"

(***************************************************************************)
(* Reading the version of a session whose version was configured never     *)
(* panics.  In a session of open version, a call that compares the version *)
(* while another one stores the first does.                                *)
(***************************************************************************)
ConfiguredNeverPanics == configured # "auto" => \A g \in Proc : pc[g] # "panicked"

\* The version of a session is true, and a configured one is read without a panic.
VersionIsSound == VersionIsTrue /\ ConfiguredNeverPanics

=============================================================================
