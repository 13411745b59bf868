---------------------------- MODULE DeviceNames ----------------------------
(***************************************************************************)
(* The name of a device on its way from an advertisement to the user.  The *)
(* macOS transport keeps the last advertisement of every device; the demo  *)
(* (app.go) keeps the names it has listed, and one more for the selected   *)
(* device; a session is given the name known when it was connected and a   *)
(* reader that looks for a newer one (client.go); ReadDeviceInfo           *)
(* (session.go) chooses among them and the name the device itself tells.   *)
(* A device may be renamed at any time; an advertisement may carry no      *)
(* name.  The demo's commands come one after the other.                    *)
(***************************************************************************)
EXTENDS Naturals, FiniteSets

CONSTANTS
    Tracker,    \* the devices in range
    NoTracker,  \* no device is selected; the device of an empty name
    Tracing,   \* does the tracing transport of the demo wrap the macOS transport?
    MaxNames   \* bound: names a device has had

ASSUME NamesAssumption ==
    /\ NoTracker \notin Tracker
    /\ Tracing \in BOOLEAN
    /\ MaxNames \in Nat \ {0}

VARIABLES
    naming,     \* the number of each device's present name: its names are numbered from 1
    discovered, \* Transport.discovered: the name in the last advertisement of each device
    known,      \* DemoState.KnownDeviceNames
    selected,   \* DemoState.SelectedDeviceID
    selectedName,
    session,    \* the device of the session, and Session.advertisedName
    shown,      \* the name the last ReadDeviceInfo returned
    latest      \* history: the names it had to be as recent as

namesVars == <<naming, discovered, known, selected, selectedName, session, shown, latest>>

Name == [device : Tracker, n : 1..MaxNames]
NoName == [device |-> NoTracker, n |-> 0]

NamesInit ==
    /\ naming = [d \in Tracker |-> 1]
    /\ discovered = [d \in Tracker |-> NoName]
    /\ known = [d \in Tracker |-> NoName]
    /\ selected = NoTracker /\ selectedName = NoName
    /\ session = [device |-> NoTracker, advertised |-> NoName]
    /\ shown = NoName /\ latest = {}

Rename(d) ==
    /\ naming[d] < MaxNames
    /\ naming' = [naming EXCEPT ![d] = @ + 1]
    /\ UNCHANGED <<discovered, known, selected, selectedName, session, shown, latest>>

----------------------------------------------------------------------------
(***************************************************************************)
(* A scan hears some of the devices, with their name or without; the       *)
(* transport remembers the advertisements, whatever becomes of the scan.   *)
(***************************************************************************)
Heard == [Tracker -> {"silent", "unnamed", "named"}]
Current(d) == [device |-> d, n |-> naming[d]]
NameIn(heard, d) == IF heard[d] = "named" THEN Current(d) ELSE NoName
Remembers(heard) == [d \in Tracker |-> IF heard[d] = "silent" THEN discovered[d] ELSE NameIn(heard, d)]

\* Mutant of DeviceName: the name of the selection is taken for any device.
DeviceNameOfSelection(d) == IF selectedName # NoName THEN selectedName ELSE known[d]

DeviceName(d) == IF selected = d /\ selectedName # NoName THEN selectedName ELSE known[d]

SetSelectedDevice(d, names) ==
    /\ selected' = d
    /\ selectedName' = names[d]

(***************************************************************************)
(* The commands list, select (pair selects in the same way) and connect,   *)
(* which closes the session before.  A user who has selected nothing is    *)
(* asked to select the only device listed.                                 *)
(***************************************************************************)
RememberDevices(heard) ==
    [d \in Tracker |-> IF heard[d] = "named" THEN Current(d) ELSE known[d]]

ListsDevices(heard) ==
    /\ known' = RememberDevices(heard)
    /\ \/ /\ selectedName' = IF selected # NoTracker /\ heard[selected] = "named"
                             THEN Current(selected) ELSE selectedName
          /\ UNCHANGED selected
       \/ /\ selected = NoTracker
          /\ \E d \in Tracker :
                /\ {x \in Tracker : heard[x] # "silent"} = {d}
                /\ SetSelectedDevice(d, known')

List ==
    /\ \E heard \in Heard :
          /\ discovered' = Remembers(heard)
          /\ ListsDevices(heard) \/ UNCHANGED <<known, selected, selectedName>>
    /\ UNCHANGED <<naming, session, shown, latest>>

Select(d) ==
    /\ SetSelectedDevice(d, known)
    /\ UNCHANGED <<naming, discovered, known, session, shown, latest>>

Connect(d) ==
    /\ session' = [device |-> d, advertised |-> DeviceName(d)]
    /\ SetSelectedDevice(d, known)
    /\ \E heard \in Heard : discovered' = IF discovered[d] = NoName THEN Remembers(heard) ELSE discovered
    /\ shown' = NoName /\ latest' = {}
    /\ UNCHANGED <<naming, known>>

----------------------------------------------------------------------------
(***************************************************************************)
(* advertisedNameReader: AdvertisedName, which scans and falls back on the *)
(* advertisement it had; without an answer a Scan; and if that does not    *)
(* tell a name either, the one the session was given.  The tracing         *)
(* transport has no AdvertisedName.                                        *)
(***************************************************************************)
AdvertisedName(heard, d) ==
    IF Tracing THEN NoName ELSE IF heard[d] = "named" THEN Current(d) ELSE discovered[d]

\* Mutant of ReadAdvertisedName: the given name comes before the Scan and the fallback of AdvertisedName.
ReadAdvertisedNameGiven(heard, d) ==
    IF heard[d] = "named" /\ ~Tracing THEN Current(d)
    ELSE IF session.advertised # NoName THEN session.advertised ELSE NameIn(heard, d)

ReadAdvertisedName(heard, d) ==
    IF AdvertisedName(heard, d) # NoName THEN AdvertisedName(heard, d)
    ELSE IF heard[d] = "named" THEN Current(d) ELSE session.advertised

\* The name the device tells itself is enough, unless it is a v3 device or tells none.
ReadDeviceInfo ==
    /\ session.device # NoTracker
    /\ latest' = {session.advertised} \cup (IF Tracing THEN {} ELSE {discovered[session.device]})
    /\ \/ /\ shown' = Current(session.device)
          /\ UNCHANGED discovered
       \/ \E heard \in Heard, told \in {NoName, Current(session.device)} :
             /\ LET name == ReadAdvertisedName(heard, session.device)
                IN  shown' = IF name # NoName THEN name ELSE told
             /\ discovered' = Remembers(heard)
    /\ UNCHANGED <<naming, known, selected, selectedName, session>>

NamesNext ==
    \/ List
    \/ \E d \in Tracker : Rename(d) \/ Select(d) \/ Connect(d)
    \/ ReadDeviceInfo

NamesSpec == NamesInit /\ [][NamesNext]_namesVars

----------------------------------------------------------------------------
NamesTypeOK ==
    /\ naming \in [Tracker -> 1..MaxNames]
    /\ discovered \in [Tracker -> Name \cup {NoName}]
    /\ known \in [Tracker -> Name \cup {NoName}]
    /\ selected \in Tracker \cup {NoTracker}
    /\ selectedName \in Name \cup {NoName}
    /\ session.device \in Tracker \cup {NoTracker} /\ session.advertised \in Name \cup {NoName}
    /\ shown \in Name \cup {NoName}
    /\ latest \subseteq Name \cup {NoName}

(***************************************************************************)
(* No device is shown under the name of another one, whichever of the      *)
(* caches the name comes from and however devices are listed, selected and *)
(* connected in turn; and the two caches of the demo agree.                *)
(***************************************************************************)
NamesAreOwn ==
    /\ shown.device \in {session.device, NoTracker}
    /\ session.advertised.device \in {session.device, NoTracker}
    /\ selected # NoTracker => selectedName = known[selected]

(***************************************************************************)
(* ReadDeviceInfo never goes back to a name older than the one the session *)
(* was given or, when the transport is not wrapped, than the one the       *)
(* transport has heard last; and it shows a name if there is one.          *)
(***************************************************************************)
ShownIsRecent == \A name \in latest : shown.n >= name.n

\* A name that is shown is the device's own, and none older than one known before.
NamesAreRight == NamesAreOwn /\ ShownIsRecent

=============================================================================
