------------------------- MODULE SessionCalls_proof -------------------------
(***************************************************************************)
(* What three models of a session's calls guarantee: SessionVersion and    *)
(* CompoundCalls, for any number of goroutines, and HistoryRead, for any   *)
(* history, size of packages and number of calls.                          *)
(*                                                                         *)
(* SessionVersion.  The invariant follows an inferred version from the     *)
(* payload that tells it to its store: it is the family of the device, and *)
(* is stored only in a session whose version was left open.                *)
(***************************************************************************)
EXTENDS SessionVersion, CompoundCalls, HistoryRead, SequenceTheorems, FiniteSetTheorems, TLAPS

Carries(p, i) ==
    /\ p \in {"checks", "storing"} => i = device.family
    /\ p = "infoNames" => i \in {device.family, "auto"}
    /\ p \in {"storing", "panicked"} => configured = "auto"

OnItsWay == \A g \in Proc : Carries(pc[g], inferred[g])
ConfiguredStays == configured # "auto" => version = configured

VersionInv == TypeOK /\ VersionIsTrue /\ ConfiguredStays /\ OnItsWay

(***************************************************************************)
(* What a load can see but a torn value: the configured version, or an     *)
(* open one and what the device is.                                        *)
(***************************************************************************)
LEMMA SeenIsTrue ==
    ASSUME VersionInv, NEW seen \in Seen, seen # "torn"
    PROVE  /\ seen \in Version
           /\ seen \in {configured, device.family}
           /\ seen = "auto" => configured = "auto"
           /\ configured # "auto" => seen = configured
BY DEF VersionInv, TypeOK, VersionIsTrue, ConfiguredStays, OnItsWay, Carries, Seen, Storing, Device, Version, Family

(***************************************************************************)
(* A step of one goroutine that changes its place and what it has inferred *)
(* keeps the invariant, if it carries on what it claims to.                *)
(***************************************************************************)
LEMMA MoveKeepsInv ==
    ASSUME VersionInv, NEW g \in Proc, NEW p \in Place, NEW i \in Version,
           pc' = [pc EXCEPT ![g] = p], inferred' = [inferred EXCEPT ![g] = i],
           Carries(p, i),
           calls' \in [Proc -> 0..MaxCalls], UNCHANGED <<const, version, names>>
    PROVE  VersionInv'
<1>1. TypeOK'
  BY DEF VersionInv, TypeOK, const
<1>2. VersionIsTrue' /\ ConfiguredStays'
  BY DEF VersionInv, VersionIsTrue, ConfiguredStays, const
<1>3. OnItsWay'
  <2> SUFFICES ASSUME NEW h \in Proc PROVE Carries(pc[h], inferred[h])'
    BY DEF OnItsWay
  <2>1. CASE h = g
    BY <2>1 DEF Carries, VersionInv, TypeOK, const
  <2>2. CASE h # g
    BY <2>2 DEF Carries, OnItsWay, VersionInv, TypeOK, const
  <2> QED
    BY <2>1, <2>2
<1> QED
  BY <1>1, <1>2, <1>3 DEF VersionInv

(***************************************************************************)
(* A load keeps the invariant, if every branch carries on what it claims.  *)
(***************************************************************************)
LEMMA LoadKeepsInv ==
    ASSUME VersionInv, NEW g \in Proc, NEW from, NEW next, Load(g, from, next),
           \A seen \in Seen : next[seen] \in Place /\ Carries(next[seen], inferred[g])
    PROVE  VersionInv'
<1>1. PICK seen \in Seen : pc' = [pc EXCEPT ![g] = next[seen]]
  BY DEF Load
<1>2. inferred' = [inferred EXCEPT ![g] = inferred[g]] /\ inferred[g] \in Version
  BY DEF Load, VersionInv, TypeOK
<1>3. calls' \in [Proc -> 0..MaxCalls] /\ UNCHANGED <<const, version, names>>
  BY DEF Load, VersionInv, TypeOK
<1> QED
  BY <1>1, <1>2, <1>3, MoveKeepsInv

LEMMA InitVersionInv == Init => VersionInv
BY ConstantsAssumption
DEF Init, VersionInv, TypeOK, VersionIsTrue, ConfiguredStays, OnItsWay, Carries, Version, Family, Place, Operation

(***************************************************************************)
(* A value that is loaded is a version, or torn, and only the first store  *)
(* into an open version tears it.                                          *)
(***************************************************************************)
LEMMA SeenDomain == VersionInv => Seen \subseteq Version \cup {"torn"} /\ ("torn" \in Seen => configured = "auto")
<1>1. VersionInv => Seen \subseteq Version \cup {"torn"}
  BY SeenIsTrue
<1>2. ASSUME VersionInv, "torn" \in Seen PROVE configured = "auto"
  BY <1>2 DEF VersionInv, TypeOK, ConfiguredStays, Seen, Storing, Version, Family
<1> QED
  BY <1>1, <1>2

LEMMA StepKeepsVersionInv ==
    ASSUME VersionInv, NEW g \in Proc, Step(g)
    PROVE  VersionInv'
<1> DEFINE i == inferred[g]
<1>0. /\ i \in Version
      /\ inferred = [inferred EXCEPT ![g] = i]
      /\ calls \in [Proc -> 0..MaxCalls]
      /\ Seen \subseteq Version \cup {"torn"}
      /\ "torn" \in Seen => configured = "auto"
  BY SeenDomain DEF VersionInv, TypeOK
<1> USE DEF Place, Operation, Is, IsAuto
<1>1. CASE Call(g)
  <2>1. PICK op \in Operation : pc' = [pc EXCEPT ![g] = op]
    BY <1>1 DEF Call
  <2>2. calls' \in [Proc -> 0..MaxCalls]
    BY <1>1, ConstantsAssumption DEF Call, VersionInv, TypeOK
  <2>3. op \in Place /\ Carries(op, i)
    BY <2>1 DEF Carries
  <2> QED
    BY <1>0, <1>1, <2>1, <2>2, <2>3, MoveKeepsInv DEF Call
<1>2. CASE InfoChooses(g)
  BY <1>0, <1>2, LoadKeepsInv DEF InfoChooses, Carries
<1>3. CASE InfoReads(g)
  <2>1. PICK p \in {"idle", "infoNames"}, j \in {i, device.firmware, "auto"} :
            /\ pc' = [pc EXCEPT ![g] = p] /\ inferred' = [inferred EXCEPT ![g] = j]
            /\ p = "infoNames" => j \in {device.firmware, "auto"}
    BY <1>0, <1>3 DEF InfoReads
  <2>2. j \in Version /\ Carries(p, j)
    BY <1>0, <2>1 DEF Carries, VersionInv, TypeOK, Device, Version
  <2> QED
    BY <1>0, <1>3, <2>1, <2>2, MoveKeepsInv DEF InfoReads
<1>4. CASE InfoNames(g)
  <2>1. pc[g] = "infoNames" /\ i \in {device.family, "auto"}
    BY <1>4 DEF InfoNames, Load, VersionInv, OnItsWay, Carries
  <2>2. \A seen \in Seen : LET next == IF i = "auto" THEN "idle" ELSE "checks"
                           IN  Is("v3", next, next)[seen] \in Place /\ Carries(Is("v3", next, next)[seen], i)
    BY <1>0, <2>1 DEF Carries
  <2> QED
    BY <1>4, <2>2, LoadKeepsInv DEF InfoNames
<1>5. CASE Checks(g)
  <2>1. i = device.family
    BY <1>5 DEF Checks, Load, VersionInv, OnItsWay, Carries
  <2>2. \A seen \in Seen : IsAuto("storing", "idle")[seen] \in Place /\ Carries(IsAuto("storing", "idle")[seen], i)
    BY <1>0, <2>1, SeenIsTrue DEF Carries
  <2> QED
    BY <1>5, <2>2, LoadKeepsInv DEF Checks
<1>6. CASE Stores(g)
  <2>1. i = device.family /\ configured = "auto"
    BY <1>6 DEF Stores, VersionInv, OnItsWay, Carries
  <2>2. TypeOK'
    BY <1>0, <1>6 DEF Stores, VersionInv, TypeOK, const
  <2>3. VersionIsTrue' /\ ConfiguredStays'
    BY <1>6, <2>1 DEF Stores, VersionIsTrue, ConfiguredStays, const
  <2>4. OnItsWay'
    <3> SUFFICES ASSUME NEW h \in Proc PROVE Carries(pc[h], inferred[h])'
      BY DEF OnItsWay
    <3> QED
      BY <1>6 DEF Stores, VersionInv, TypeOK, OnItsWay, Carries, const
  <2> QED
    BY <2>2, <2>3, <2>4 DEF VersionInv
<1>7. CASE StateChooses(g)
  BY <1>0, <1>7, LoadKeepsInv DEF StateChooses, Carries
<1>8. CASE VectorChooses(g)
  BY <1>0, <1>8, LoadKeepsInv DEF VectorChooses, Carries
<1>9. CASE VectorReads(g)
  <2>1. CASE pc' = [pc EXCEPT ![g] = "idle"] /\ UNCHANGED inferred
    BY <1>0, <1>9, <2>1, MoveKeepsInv DEF VectorReads, Carries
  <2>2. CASE /\ device.family = "v3"
             /\ inferred' = [inferred EXCEPT ![g] = "v3"]
             /\ pc' = [pc EXCEPT ![g] = "checks"]
    BY <1>0, <1>9, <2>2, MoveKeepsInv DEF VectorReads, Carries, Version, Family
  <2> QED
    BY <1>9, <2>1, <2>2 DEF VectorReads
<1>10. CASE SetName(g)
  <2>1. PICK p \in {"idle", "panicked"}, n \in [session : Version, length : NameLength,
                                               fate : {"tooLong", "notEncoded", "sent"}] :
            /\ pc' = [pc EXCEPT ![g] = p]
            /\ p = "panicked" => configured = "auto"
            /\ names' \subseteq names \cup {n}
    <3>1. PICK seen \in Seen, length \in NameLength :
              \/ seen = "torn" /\ pc' = [pc EXCEPT ![g] = "panicked"] /\ UNCHANGED names
              \/ /\ seen # "torn" /\ pc' = [pc EXCEPT ![g] = "idle"]
                 /\ names' = names \cup {[session |-> seen, length |-> length, fate |-> Fate(seen, length)]}
      BY <1>10 DEF SetName
    <3>2. CASE seen = "torn"
      <4>1. [session |-> "v3", length |-> 18, fate |-> "sent"] \in
                [session : Version, length : NameLength, fate : {"tooLong", "notEncoded", "sent"}]
        BY DEF Version, Family, NameLength
      <4> QED
        BY <1>0, <3>1, <3>2, <4>1
    <3>3. CASE seen # "torn"
      <4>1. Fate(seen, length) \in {"tooLong", "notEncoded", "sent"} /\ seen \in Version
        BY <1>0, <3>3 DEF Fate, NameLimit, NameLength, MaxPayload
      <4> QED
        BY <3>1, <3>3, <4>1
    <3> QED
      BY <3>2, <3>3
  <2>2. UNCHANGED <<const, version, inferred, calls>>
    BY <1>10 DEF SetName
  <2>3. TypeOK'
    BY <2>1, <2>2 DEF VersionInv, TypeOK, const
  <2>4. OnItsWay'
    BY <2>1, <2>2 DEF VersionInv, TypeOK, OnItsWay, Carries, const
  <2>5. VersionIsTrue' /\ ConfiguredStays'
    BY <2>2 DEF VersionInv, VersionIsTrue, ConfiguredStays, const
  <2> QED
    BY <2>3, <2>4, <2>5 DEF VersionInv
<1>11. CASE HistoryChooses(g)
  BY <1>0, <1>11, LoadKeepsInv DEF HistoryChooses, Carries
<1>12. CASE HistoryV4(g)
  BY <1>0, <1>12, MoveKeepsInv DEF HistoryV4, Carries
<1>13. CASE HistoryFallsBack(g)
  BY <1>0, <1>13, LoadKeepsInv DEF HistoryFallsBack, Carries
<1> QED
  BY <1>1, <1>2, <1>3, <1>4, <1>5, <1>6, <1>7, <1>8, <1>9, <1>10, <1>11, <1>12, <1>13 DEF Step

LEMMA NextKeepsVersionInv == VersionInv /\ [Next]_vars => VersionInv'
<1>1. ASSUME VersionInv, UNCHANGED vars PROVE VersionInv'
  BY <1>1 DEF vars, const, VersionInv, TypeOK, VersionIsTrue, ConfiguredStays, OnItsWay, Carries
<1> QED
  BY <1>1, StepKeepsVersionInv DEF Next

LEMMA VersionInvariance == Spec => []VersionInv
BY InitVersionInv, NextKeepsVersionInv, PTL DEF Spec

(***************************************************************************)
(* Every reachable state is well typed; no torn value is ever stored.      *)
(***************************************************************************)
THEOREM TypeCorrectness == Spec => []TypeOK
BY VersionInvariance, PTL DEF VersionInv

(***************************************************************************)
(* A session whose version was left open is never taken for the wrong      *)
(* family, however many goroutines infer it at once.                       *)
(***************************************************************************)
THEOREM TrueVersion == Spec => []VersionIsTrue
BY VersionInvariance, PTL DEF VersionInv

(***************************************************************************)
(* A version that is known stays what it is.                               *)
(***************************************************************************)
THEOREM StableVersion == Spec => VersionIsStable
<1>1. ASSUME VersionInv, [Next]_vars, version # "auto" PROVE version' = version
  <2>1. ASSUME NEW g \in Proc, Step(g) PROVE version' = version
    <3>1. CASE Stores(g)
      BY <1>1, <3>1 DEF Stores, VersionInv, VersionIsTrue, OnItsWay, Carries
    <3>2. CASE ~Stores(g)
      BY <2>1, <3>2 DEF Step, Call, InfoChooses, InfoReads, InfoNames, Checks, StateChooses, VectorChooses,
             VectorReads, SetName, HistoryChooses, HistoryV4, HistoryFallsBack, Load
    <3> QED
      BY <3>1, <3>2
  <2> QED
    BY <1>1, <2>1 DEF Next, vars
<1>2. VersionInv /\ [Next]_vars => [version # "auto" => version' = version]_vars
  BY <1>1
<1> QED
  BY <1>2, VersionInvariance, PTL DEF Spec, VersionIsStable

(***************************************************************************)
(* A session whose version was configured never compares a torn one.       *)
(***************************************************************************)
THEOREM ConfiguredIsSafe == Spec => []ConfiguredNeverPanics
<1>1. VersionInv => ConfiguredNeverPanics
  BY DEF VersionInv, ConfiguredNeverPanics, OnItsWay, Carries
<1> QED
  BY <1>1, VersionInvariance, PTL

(***************************************************************************)
(* Both together: what the reads of session.go infer of an open version is *)
(* true, and a configured one is compared without a panic, for any number  *)
(* of goroutines.                                                          *)
(***************************************************************************)
THEOREM SoundVersion == Spec => []VersionIsSound
<1>1. VersionIsTrue /\ ConfiguredNeverPanics => VersionIsSound
  BY DEF VersionIsSound
<1> QED
  BY <1>1, TrueVersion, ConfiguredIsSafe, PTL

----------------------------------------------------------------------------
(***************************************************************************)
(* CompoundCalls.  The invariant says, for each step of a call, what the   *)
(* device has of its settings and what the call has read so far; a call    *)
(* beside which no other SetLED runs is the only one that sets anything.   *)
(***************************************************************************)
PhaseOfStep ==
    /\ phase \in [Caller -> {"idle", "called", "executed"}]
    /\ \A p \in Caller :
          /\ phase[p] # "idle" => callPc[p] \in {"brightness", "blink", "status"}
          /\ phase[p] = "called" \/ callPc[p] = "none" => ~obeyed[p]

\* What the device has of a call's settings, by the step the call is at.
SettingsOfStep ==
    /\ led.blink \in Caller => led.blink \in bright /\ callPc[led.blink] \in {"blink", "ok", "error"}
    /\ \A p \in Caller :
          callPc[p] = "blink" \/ (callPc[p] = "brightness" /\ obeyed[p]) => p \in bright

\* A SetLED that no other one runs beside, or has run after.
QuietHasBoth ==
    \A p \in quiet :
        /\ callPc[p] \in {"brightness", "blink", "ok", "error"}
        /\ SettingLED \subseteq {p}
        /\ led.blink = p => led.brightness = p
        /\ callPc[p] = "blink" \/ (callPc[p] = "brightness" /\ obeyed[p]) => led.brightness = p
        /\ callPc[p] = "blink" /\ phase[p] = "executed" /\ obeyed[p] => led.blink = p
        /\ callPc[p] = "ok" => led.blink = p

\* A status call knows the pause state from its beginning, and the facet since its status was read.
KnowsSince ==
    \A p \in Caller :
        /\ callPc[p] = "none" => status[p].paused = {}
        /\ callPc[p] # "ok" => status[p].facet = {}
        /\ callPc[p] = "status" => paused \in since[p].paused
        /\ callPc[p] = "facet" \/ (callPc[p] = "status" /\ obeyed[p]) => facet \in since[p].facet
        /\ status[p].paused \subseteq since[p].paused
        /\ status[p].facet \subseteq since[p].facet

CallsInv == CallsTypeOK /\ PhaseOfStep /\ SettingsOfStep /\ QuietHasBoth /\ KnowsSince

LEMMA InitCallsInv == CallsInit => CallsInv
<1> SUFFICES ASSUME CallsInit PROVE CallsInv
  OBVIOUS
<1>1. CallsTypeOK
  BY DEF CallsInit, CallsTypeOK, CallStep, NoStatus
<1> QED
  BY <1>1, NoCallerAssumption DEF CallsInit, CallsInv, PhaseOfStep, SettingsOfStep, QuietHasBoth, KnowsSince,
     Service!Init, NoStatus

LEMMA SetLEDKeepsCallsInv ==
    ASSUME CallsInv, NEW p \in Caller, SetLED(p)
    PROVE  CallsInv'
<1> USE DEF CallsInv, service, ledPauseFacet
<1>1. /\ callPc \in [Caller -> CallStep \cup {"none", "ok", "error"}] /\ callPc[p] = "none"
      /\ UNCHANGED <<phase, obeyed, led, paused, facet, status, bright, since>>
      /\ \A q \in Caller \ {p} : callPc'[q] = callPc[q]
      /\ callPc'[p] \in {"error", "brightness"}
  BY DEF SetLED, Goto, CallsTypeOK
<1>2. CallsTypeOK'
  BY <1>1 DEF SetLED, Goto, CallsTypeOK, CallStep
<1>3. PhaseOfStep'
  BY <1>1 DEF PhaseOfStep
<1>4. SettingsOfStep'
  BY <1>1 DEF SettingsOfStep, PhaseOfStep
<1>5. KnowsSince'
  BY <1>1 DEF KnowsSince
<1>6. QuietHasBoth'
  <2>1. CASE callPc' = [callPc EXCEPT ![p] = "error"] /\ UNCHANGED quiet
    <3>1. SettingLED' \subseteq SettingLED /\ p \notin quiet /\ quiet \subseteq Caller
      BY <1>1, <2>1 DEF SettingLED, QuietHasBoth, CallsTypeOK
    <3> QED
      BY <1>1, <2>1, <3>1 DEF QuietHasBoth
  <2>2. CASE /\ callPc' = [callPc EXCEPT ![p] = "brightness"]
             /\ quiet' = IF SettingLED = {} THEN {p} ELSE {}
    <3>1. SettingLED = {} => SettingLED' \subseteq {p}
      BY <1>1, <2>2 DEF SettingLED
    <3>2. led.blink # p /\ ~obeyed[p]
      BY <1>1 DEF SettingsOfStep, PhaseOfStep
    <3> QED
      BY <1>1, <2>2, <3>1, <3>2 DEF QuietHasBoth
  <2> QED
    BY <2>1, <2>2 DEF SetLED, Goto
<1> QED
  BY <1>2, <1>3, <1>4, <1>5, <1>6

LEMMA ReadTrackerStatusKeepsCallsInv ==
    ASSUME CallsInv, NEW p \in Caller, ReadTrackerStatus(p)
    PROVE  CallsInv'
<1> USE DEF CallsInv, service, ledPauseFacet
<1>1. /\ callPc \in [Caller -> CallStep \cup {"none", "ok", "error"}] /\ callPc[p] = "none"
      /\ UNCHANGED <<phase, obeyed, led, paused, facet, status, bright, quiet>>
      /\ callPc' = [callPc EXCEPT ![p] = "status"]
      /\ since' = [since EXCEPT ![p] = [paused |-> {paused}, facet |-> {}]]
      /\ since \in [Caller -> [paused : SUBSET BOOLEAN, facet : SUBSET Face]]
      /\ paused \in BOOLEAN
  BY DEF ReadTrackerStatus, Goto, CallsTypeOK
<1>2. CallsTypeOK'
  BY <1>1 DEF CallsTypeOK, CallStep
<1>3. PhaseOfStep'
  BY <1>1 DEF PhaseOfStep
<1>4. SettingsOfStep'
  BY <1>1 DEF SettingsOfStep, PhaseOfStep
<1>5. KnowsSince'
  <2> SUFFICES ASSUME NEW q \in Caller
               PROVE  /\ callPc'[q] = "none" => status[q].paused = {}
                      /\ callPc'[q] # "ok" => status[q].facet = {}
                      /\ callPc'[q] = "status" => paused \in since'[q].paused
                      /\ callPc'[q] = "facet" \/ (callPc'[q] = "status" /\ obeyed[q]) => facet \in since'[q].facet
                      /\ status[q].paused \subseteq since'[q].paused
                      /\ status[q].facet \subseteq since'[q].facet
    BY <1>1 DEF KnowsSince
  <2>1. CASE q = p
    <3>1. callPc'[q] = "status" /\ since'[q] = [paused |-> {paused}, facet |-> {}] /\ ~obeyed[q]
      BY <1>1, <2>1 DEF PhaseOfStep
    <3>2. status[q].paused = {} /\ status[q].facet = {}
      BY <1>1, <2>1 DEF KnowsSince
    <3> QED
      BY <3>1, <3>2
  <2>2. CASE q # p
    BY <1>1, <2>2 DEF KnowsSince
  <2> QED
    BY <2>1, <2>2
<1>6. QuietHasBoth'
  <2>1. SettingLED' \subseteq SettingLED /\ p \notin quiet /\ quiet \subseteq Caller
    BY <1>1 DEF SettingLED, QuietHasBoth, CallsTypeOK
  <2> QED
    BY <1>1, <2>1 DEF QuietHasBoth
<1> QED
  BY <1>2, <1>3, <1>4, <1>5, <1>6

LEMMA SendKeepsCallsInv ==
    ASSUME CallsInv, NEW p \in Caller, Send(p)
    PROVE  CallsInv'
<1> USE DEF CallsInv, ledPauseFacet, callPast
<1>1. /\ callPc[p] \in {"brightness", "blink", "status"} /\ phase' = [phase EXCEPT ![p] = "called"]
      /\ obeyed' = [obeyed EXCEPT ![p] = FALSE]
      /\ UNCHANGED <<callPc, led, paused, facet, status, quiet, bright, since>>
  BY DEF Send, Service!Call
<1>2. CallsTypeOK'
  BY <1>1 DEF CallsTypeOK
<1>3. PhaseOfStep'
  BY <1>1 DEF PhaseOfStep, CallsTypeOK
<1>4. SettingsOfStep' /\ KnowsSince'
  BY <1>1 DEF SettingsOfStep, KnowsSince, CallsTypeOK
<1>5. QuietHasBoth'
  BY <1>1 DEF QuietHasBoth, SettingLED, CallsTypeOK, PhaseOfStep
<1> QED
  BY <1>2, <1>3, <1>4, <1>5

LEMMA RefuseKeepsCallsInv ==
    ASSUME CallsInv, NEW p \in Caller, Refuse(p)
    PROVE  CallsInv'
<1> USE DEF CallsInv, ledPauseFacet, callPast
<1>1. /\ phase[p] = "called" /\ phase' = [phase EXCEPT ![p] = "executed"] /\ ~obeyed[p]
      /\ UNCHANGED <<callPc, obeyed, led, paused, facet, status, quiet, bright, since>>
  BY DEF Refuse, Service!Execute, PhaseOfStep
<1>2. CallsTypeOK' /\ SettingsOfStep' /\ KnowsSince'
  BY <1>1 DEF CallsTypeOK, SettingsOfStep, KnowsSince
<1>3. PhaseOfStep'
  BY <1>1 DEF PhaseOfStep
<1>4. QuietHasBoth'
  BY <1>1 DEF QuietHasBoth, SettingLED, PhaseOfStep, CallsTypeOK
<1> QED
  BY <1>2, <1>3, <1>4

LEMMA ObeyKeepsCallsInv ==
    ASSUME CallsInv, NEW p \in Caller, Obey(p)
    PROVE  CallsInv'
<1> USE DEF CallsInv
<1>1. /\ phase[p] = "called" /\ phase' = [phase EXCEPT ![p] = "executed"]
      /\ obeyed' = [obeyed EXCEPT ![p] = TRUE] /\ ~obeyed[p]
      /\ UNCHANGED <<callPc, paused, facet, quiet>>
  BY DEF Obey, Service!Execute, PhaseOfStep
<1>2. PhaseOfStep'
  BY <1>1 DEF PhaseOfStep, CallsTypeOK
<1>3. CASE ObeyBrightness(p)
  <2>1. /\ callPc[p] = "brightness" /\ led' = [led EXCEPT !.brightness = p] /\ bright' = bright \cup {p}
        /\ UNCHANGED <<status, since>>
    BY <1>3 DEF ObeyBrightness
  <2>2. led'.brightness = p /\ led'.blink = led.blink
    BY <2>1 DEF CallsTypeOK
  <2>3. CallsTypeOK'
    BY <1>1, <2>1 DEF CallsTypeOK
  <2>4. SettingsOfStep'
    BY <1>1, <2>1, <2>2 DEF SettingsOfStep, CallsTypeOK
  <2>5. KnowsSince'
    BY <1>1, <2>1 DEF KnowsSince, CallsTypeOK
  <2>6. p \in SettingLED /\ SettingLED' = SettingLED
    BY <1>1, <2>1 DEF SettingLED
  <2>7. QuietHasBoth'
    <3> SUFFICES ASSUME NEW q \in quiet
                 PROVE  /\ callPc[q] \in {"brightness", "blink", "ok", "error"}
                        /\ SettingLED \subseteq {q}
                        /\ led'.brightness = q
                        /\ callPc[q] = "brightness"
      BY <1>1, <2>6 DEF QuietHasBoth
    <3> QED
      BY <2>1, <2>2, <2>6 DEF QuietHasBoth
  <2> QED
    BY <1>2, <2>3, <2>4, <2>5, <2>7
<1>4. CASE ObeyBlink(p)
  <2>1. /\ callPc[p] = "blink" /\ led' = [led EXCEPT !.blink = p]
        /\ UNCHANGED <<status, bright, since>>
    BY <1>4 DEF ObeyBlink
  <2>2. led'.blink = p /\ led'.brightness = led.brightness
    BY <2>1 DEF CallsTypeOK
  <2>3. CallsTypeOK'
    BY <1>1, <2>1 DEF CallsTypeOK
  <2>4. SettingsOfStep'
    BY <1>1, <2>1, <2>2 DEF SettingsOfStep, CallsTypeOK
  <2>5. KnowsSince'
    BY <1>1, <2>1 DEF KnowsSince, CallsTypeOK
  <2>6. p \in SettingLED /\ SettingLED' = SettingLED
    BY <1>1, <2>1 DEF SettingLED
  <2>7. QuietHasBoth'
    <3> SUFFICES ASSUME NEW q \in quiet
                 PROVE  /\ callPc[q] = "blink" /\ q = p
                        /\ SettingLED \subseteq {q}
                        /\ led.brightness = q
      BY <1>1, <2>2, <2>6 DEF QuietHasBoth
    <3> QED
      BY <2>1, <2>2, <2>6 DEF QuietHasBoth
  <2> QED
    BY <1>2, <2>3, <2>4, <2>5, <2>7
<1>5. CASE ObeyStatus(p)
  <2>1. /\ callPc[p] = "status" /\ status' = [status EXCEPT ![p].paused = {paused}]
        /\ since' = [since EXCEPT ![p].facet = {facet}]
        /\ UNCHANGED <<led, bright>>
    BY <1>5 DEF ObeyStatus
  <2>2. /\ status \in [Caller -> [paused : SUBSET BOOLEAN, facet : SUBSET Face]]
        /\ since \in [Caller -> [paused : SUBSET BOOLEAN, facet : SUBSET Face]]
        /\ paused \in BOOLEAN /\ facet \in Face
    BY DEF CallsTypeOK
  <2>3. /\ status'[p].paused = {paused} /\ status'[p].facet = status[p].facet
        /\ since'[p].paused = since[p].paused /\ since'[p].facet = {facet}
        /\ \A q \in Caller \ {p} : status'[q] = status[q] /\ since'[q] = since[q]
    BY <2>1, <2>2
  <2>4. CallsTypeOK'
    BY <1>1, <2>1, <2>2 DEF CallsTypeOK
  <2>5. SettingsOfStep'
    BY <1>1, <2>1 DEF SettingsOfStep, CallsTypeOK
  <2>6. KnowsSince'
    <3> SUFFICES ASSUME NEW q \in Caller
                 PROVE  /\ callPc[q] = "none" => status'[q].paused = {}
                        /\ callPc[q] # "ok" => status'[q].facet = {}
                        /\ callPc[q] = "status" => paused \in since'[q].paused
                        /\ callPc[q] = "facet" \/ (callPc[q] = "status" /\ obeyed'[q]) => facet \in since'[q].facet
                        /\ status'[q].paused \subseteq since'[q].paused
                        /\ status'[q].facet \subseteq since'[q].facet
      BY <1>1 DEF KnowsSince
    <3>1. CASE q = p
      BY <2>1, <2>3, <3>1 DEF KnowsSince
    <3>2. CASE q # p
      <4>1. obeyed'[q] = obeyed[q] /\ status'[q] = status[q] /\ since'[q] = since[q]
        BY <1>1, <2>3, <3>2
      <4> QED
        BY <4>1 DEF KnowsSince
    <3> QED
      BY <3>1, <3>2
  <2>7. SettingLED' = SettingLED /\ p \notin quiet /\ quiet \subseteq Caller
    BY <1>1, <2>1 DEF SettingLED, QuietHasBoth, CallsTypeOK
  <2>8. QuietHasBoth'
    BY <1>1, <2>1, <2>7 DEF QuietHasBoth
  <2> QED
    BY <1>2, <2>4, <2>5, <2>6, <2>8
<1> QED
  BY <1>3, <1>4, <1>5 DEF Obey

LEMMA AnsweredKeepsCallsInv ==
    ASSUME CallsInv, NEW p \in Caller, Answered(p)
    PROVE  CallsInv'
<1> USE DEF CallsInv, ledPauseFacet, callPast
<1>1. /\ phase[p] = "executed" /\ phase' = [phase EXCEPT ![p] = "idle"]
      /\ callPc' = [callPc EXCEPT ![p] = AfterAnswer(p)]
      /\ callPc[p] \in {"brightness", "blink", "status"}
      /\ UNCHANGED <<obeyed, led, paused, facet, status, quiet, bright, since>>
  BY DEF Answered, Goto, Service!Answer, PhaseOfStep
<1>2. /\ ~obeyed[p] => AfterAnswer(p) = "error"
      /\ obeyed[p] /\ callPc[p] = "brightness" => AfterAnswer(p) = "blink"
      /\ obeyed[p] /\ callPc[p] = "blink" => AfterAnswer(p) = "ok"
      /\ obeyed[p] /\ callPc[p] = "status" => AfterAnswer(p) = "facet"
  BY DEF AfterAnswer
<1>3. callPc'[p] = AfterAnswer(p) /\ \A q \in Caller \ {p} : callPc'[q] = callPc[q]
  BY <1>1 DEF CallsTypeOK
<1>4. CallsTypeOK'
  <2>1. AfterAnswer(p) \in CallStep \cup {"none", "ok", "error"}
    BY <1>1, <1>2 DEF CallStep
  <2> QED
    BY <1>1, <2>1 DEF CallsTypeOK
<1>5. PhaseOfStep'
  BY <1>1, <1>2, <1>3 DEF PhaseOfStep
<1>6. SettingsOfStep'
  BY <1>1, <1>2, <1>3 DEF SettingsOfStep
<1>7. KnowsSince'
  BY <1>1, <1>2, <1>3 DEF KnowsSince
<1>8. SettingLED' \subseteq SettingLED
  BY <1>1, <1>2, <1>3 DEF SettingLED
<1>9. QuietHasBoth'
  <2> SUFFICES ASSUME NEW q \in quiet
               PROVE  /\ callPc'[q] \in {"brightness", "blink", "ok", "error"}
                      /\ led.blink = q => led.brightness = q
                      /\ callPc'[q] = "blink" \/ (callPc'[q] = "brightness" /\ obeyed[q]) => led.brightness = q
                      /\ callPc'[q] = "blink" /\ phase'[q] = "executed" /\ obeyed[q] => led.blink = q
                      /\ callPc'[q] = "ok" => led.blink = q
    BY <1>1, <1>8 DEF QuietHasBoth
  <2>1. q \in Caller
    BY DEF CallsTypeOK
  <2>2. CASE q = p
    BY <1>1, <1>2, <1>3, <2>2 DEF QuietHasBoth, PhaseOfStep
  <2>3. CASE q # p
    <3>1. callPc'[q] = callPc[q] /\ phase'[q] = phase[q]
      BY <1>1, <1>3, <2>1, <2>3 DEF PhaseOfStep
    <3> QED
      BY <3>1 DEF QuietHasBoth
  <2> QED
    BY <2>2, <2>3
<1> QED
  BY <1>4, <1>5, <1>6, <1>7, <1>9

LEMMA CommandFailsKeepsCallsInv ==
    ASSUME CallsInv, NEW p \in Caller, CommandFails(p)
    PROVE  CallsInv'
<1> USE DEF CallsInv, ledPauseFacet, callPast
<1>1. /\ phase[p] # "idle" /\ phase' = [phase EXCEPT ![p] = "idle"]
      /\ callPc' = [callPc EXCEPT ![p] = "error"]
      /\ UNCHANGED <<obeyed, led, paused, facet, status, quiet, bright, since>>
  BY DEF CommandFails, Goto, Service!Fail
<1>2. /\ callPc'[p] = "error" /\ callPc[p] # "none" /\ callPc[p] # "ok"
      /\ \A q \in Caller \ {p} : callPc'[q] = callPc[q]
  BY <1>1 DEF CallsTypeOK, PhaseOfStep
<1>3. CallsTypeOK'
  BY <1>1 DEF CallsTypeOK
<1>4. PhaseOfStep'
  BY <1>1, <1>2 DEF PhaseOfStep
<1>5. SettingsOfStep'
  BY <1>1, <1>2 DEF SettingsOfStep
<1>6. KnowsSince'
  BY <1>1, <1>2 DEF KnowsSince
<1>7. SettingLED' \subseteq SettingLED /\ quiet \subseteq Caller
  BY <1>1, <1>2 DEF SettingLED, CallsTypeOK
<1>8. QuietHasBoth'
  BY <1>1, <1>2, <1>7 DEF QuietHasBoth, PhaseOfStep
<1> QED
  BY <1>3, <1>4, <1>5, <1>6, <1>8

LEMMA ReadFacetKeepsCallsInv ==
    ASSUME CallsInv, NEW p \in Caller, ReadFacet(p)
    PROVE  CallsInv'
<1> USE DEF CallsInv, service, ledPauseFacet, callPast
<1>1. /\ callPc[p] = "facet" /\ callPc' = [callPc EXCEPT ![p] = "ok"]
      /\ UNCHANGED <<phase, obeyed, led, paused, facet, quiet, bright, since>>
  BY DEF ReadFacet, Goto
<1>2. PICK read \in {{}, {facet}} : status' = [status EXCEPT ![p].facet = read]
  BY DEF ReadFacet
<1>3. /\ status'[p].paused = status[p].paused /\ status'[p].facet \subseteq {facet}
      /\ \A q \in Caller \ {p} : status'[q] = status[q] /\ callPc'[q] = callPc[q]
      /\ callPc'[p] = "ok"
  BY <1>1, <1>2 DEF CallsTypeOK
<1>4. CallsTypeOK'
  BY <1>1, <1>2 DEF CallsTypeOK
<1>5. PhaseOfStep' /\ SettingsOfStep'
  BY <1>1, <1>3 DEF PhaseOfStep, SettingsOfStep
<1>6. KnowsSince'
  <2> SUFFICES ASSUME NEW q \in Caller
               PROVE  /\ callPc'[q] = "none" => status'[q].paused = {}
                      /\ callPc'[q] # "ok" => status'[q].facet = {}
                      /\ callPc'[q] = "status" => paused \in since[q].paused
                      /\ callPc'[q] = "facet" \/ (callPc'[q] = "status" /\ obeyed[q]) => facet \in since[q].facet
                      /\ status'[q].paused \subseteq since[q].paused
                      /\ status'[q].facet \subseteq since[q].facet
    BY <1>1 DEF KnowsSince
  <2>1. CASE q = p
    BY <1>1, <1>3, <2>1 DEF KnowsSince
  <2>2. CASE q # p
    BY <1>3, <2>2 DEF KnowsSince
  <2> QED
    BY <2>1, <2>2
<1>7. SettingLED' \subseteq SettingLED /\ p \notin quiet /\ quiet \subseteq Caller
  BY <1>1 DEF SettingLED, QuietHasBoth, CallsTypeOK
<1>8. QuietHasBoth'
  BY <1>1, <1>3, <1>7 DEF QuietHasBoth
<1> QED
  BY <1>4, <1>5, <1>6, <1>8

LEMMA UserKeepsCallsInv ==
    ASSUME CallsInv, Tap \/ Turn
    PROVE  CallsInv'
<1> USE DEF CallsInv, service
<1>1. UNCHANGED <<phase, callPc, obeyed, led, status, quiet, bright>>
  BY DEF Tap, Turn
<1>2. PhaseOfStep' /\ SettingsOfStep' /\ QuietHasBoth'
  BY <1>1 DEF PhaseOfStep, SettingsOfStep, QuietHasBoth, SettingLED
<1>3. since \in [Caller -> [paused : SUBSET BOOLEAN, facet : SUBSET Face]] /\ paused \in BOOLEAN
  BY DEF CallsTypeOK
<1>4. CASE Tap
  <2>1. \A q \in Caller :
          /\ since'[q] \in [paused : SUBSET BOOLEAN, facet : SUBSET Face]
          /\ since'[q].facet = since[q].facet
          /\ since[q].paused \subseteq since'[q].paused
          /\ callPc[q] = "status" => {~paused} \subseteq since'[q].paused
    <3> SUFFICES ASSUME NEW q \in Caller
                 PROVE  /\ since'[q] \in [paused : SUBSET BOOLEAN, facet : SUBSET Face]
                        /\ since'[q].facet = since[q].facet
                        /\ since[q].paused \subseteq since'[q].paused
                        /\ callPc[q] = "status" => {~paused} \subseteq since'[q].paused
      OBVIOUS
    <3> DEFINE more == since[q].paused \cup {~paused}
    <3>1. more \subseteq BOOLEAN /\ since[q].paused \subseteq more /\ {~paused} \subseteq more
      <4>1. {~paused} \subseteq BOOLEAN /\ since[q].paused \subseteq BOOLEAN
        BY <1>3
      <4> QED
        BY <4>1
    <3>2. since'[q] = IF callPc[q] = "status" THEN [since[q] EXCEPT !.paused = more] ELSE since[q]
      BY <1>4 DEF Tap
    <3> HIDE DEF more
    <3> QED
      BY <1>3, <3>1, <3>2
  <2>2. paused' = ~paused /\ facet' = facet /\ since' \in [Caller -> [paused : SUBSET BOOLEAN, facet : SUBSET Face]]
    BY <1>4, <2>1 DEF Tap
  <2>3. CallsTypeOK'
    BY <1>1, <1>3, <2>2 DEF CallsTypeOK
  <2>4. KnowsSince'
    BY <1>1, <2>1, <2>2 DEF KnowsSince
  <2> QED
    BY <1>2, <2>3, <2>4
<1>5. CASE Turn
  <2>1. \A q \in Caller :
          /\ since'[q] \in [paused : SUBSET BOOLEAN, facet : SUBSET Face]
          /\ since'[q].paused = since[q].paused
          /\ since[q].facet \subseteq since'[q].facet
          /\ since[q].facet # {} /\ callPc[q] \in CallStep => facet' \in since'[q].facet
    BY <1>3, <1>5 DEF Turn
  <2>2. paused' = paused /\ facet' \in Face /\ since' \in [Caller -> [paused : SUBSET BOOLEAN, facet : SUBSET Face]]
    BY <1>5, <2>1 DEF Turn
  <2>3. CallsTypeOK'
    BY <1>1, <1>3, <2>2 DEF CallsTypeOK
  <2>4. KnowsSince'
    BY <1>1, <2>1, <2>2 DEF KnowsSince, CallStep
  <2> QED
    BY <1>2, <2>3, <2>4
<1> QED
  BY <1>4, <1>5

LEMMA NextKeepsCallsInv == CallsInv /\ [CallsNext]_callsVars => CallsInv'
<1>1. ASSUME CallsInv, UNCHANGED callsVars PROVE CallsInv'
  BY <1>1 DEF callsVars, service, ledPauseFacet, callPast, CallsInv, CallsTypeOK, PhaseOfStep, SettingsOfStep,
     QuietHasBoth, KnowsSince, SettingLED
<1> QED
  BY <1>1, SetLEDKeepsCallsInv, ReadTrackerStatusKeepsCallsInv, SendKeepsCallsInv, RefuseKeepsCallsInv,
     ObeyKeepsCallsInv, AnsweredKeepsCallsInv, CommandFailsKeepsCallsInv, ReadFacetKeepsCallsInv,
     UserKeepsCallsInv DEF CallsNext

LEMMA CallsInvariance == CallsSpec => []CallsInv
BY InitCallsInv, NextKeepsCallsInv, PTL DEF CallsSpec

(***************************************************************************)
(* Every reachable state of the compound calls is well typed.              *)
(***************************************************************************)
THEOREM CallsTypeCorrectness == CallsSpec => []CallsTypeOK
BY CallsInvariance, PTL DEF CallsInv

(***************************************************************************)
(* For any number of callers: a SetLED of session.go that fails half-way   *)
(* has set the brightness and not the blink period, one that nothing ran   *)
(* beside has set both when it returns without an error, and a tracker     *)
(* status tells a pause state of its call and a facet that came after it.  *)
(***************************************************************************)
THEOREM CompoundCallsAreSound == CallsSpec => []CompoundCallsHold
<1>1. CallsInv => HalfSetOneWay
  <2> SUFFICES ASSUME CallsInv PROVE HalfSetOneWay
    OBVIOUS
  <2>1. led \in [brightness : Caller \cup {NoCaller}, blink : Caller \cup {NoCaller}]
    BY DEF CallsInv, CallsTypeOK
  <2> QED
    BY <2>1 DEF CallsInv, SettingsOfStep, QuietHasBoth, HalfSetOneWay
<1>2. CallsInv => StatusIsOfItsTime
  BY DEF CallsInv, KnowsSince, StatusIsOfItsTime
<1>3. CallsInv => CompoundCallsHold
  BY <1>1, <1>2 DEF CompoundCallsHold
<1> QED
  BY <1>3, CallsInvariance, PTL

(***************************************************************************)
(* The calls of session.go that are made of several commands ask of the    *)
(* command path no more than a caller may ask of a CommandService, and get *)
(* no more than it promises: what SessionRefinement shows of prompt        *)
(* sessions is all that CompoundCalls assumes of them.                     *)
(***************************************************************************)
THEOREM CallsUseService == CallsSpec => Service!Spec
<1>1. CallsInit => Service!Init
  BY DEF CallsInit
<1>2. [CallsNext]_callsVars => [Service!Next]_(Service!vars)
  <2> SUFFICES ASSUME [CallsNext]_callsVars PROVE [Service!Next]_(Service!vars)
    OBVIOUS
  <2>1. ASSUME NEW p \in Caller, Send(p) \/ Refuse(p) \/ Obey(p) \/ Answered(p) \/ CommandFails(p)
        PROVE  Service!Next
    BY <2>1 DEF Service!Next, Send, Refuse, Obey, Answered, CommandFails
  <2>2. ASSUME NEW p \in Caller, SetLED(p) \/ ReadTrackerStatus(p) \/ ReadFacet(p)
        PROVE  UNCHANGED Service!vars
    BY <2>2 DEF Service!vars, SetLED, ReadTrackerStatus, ReadFacet, service
  <2>3. ASSUME Tap \/ Turn \/ UNCHANGED callsVars
        PROVE  UNCHANGED Service!vars
    BY <2>3 DEF Service!vars, Tap, Turn, callsVars, service
  <2> QED
    BY <2>1, <2>2, <2>3 DEF CallsNext
<1> QED
  BY <1>1, <1>2, PTL DEF CallsSpec, Service!Spec

-----------------------------------------------------------------------------
(***************************************************************************)
(* A set of places has a first one, and a finite one has a last.           *)
(***************************************************************************)
LEMMA FirstPlace ==
    ASSUME NEW T \in SUBSET Nat, T # {}
    PROVE  \E i \in T : \A j \in T : i <= j
<1>1. PICK i \in T : \A j \in T : ~(<<j, i>> \in OpToRel(<, Nat))
  BY NatLessThanWellFounded, WFMin, Zenon
<1>2. \A j \in T : ~(j < i)
  BY <1>1 DEF OpToRel
<1> QED
  BY <1>2

LEMMA LastPlace ==
    ASSUME NEW n \in Nat, NEW T \in SUBSET 1..n, T # {}
    PROVE  \E i \in T : \A j \in T : i >= j
<1> DEFINE Back == {n - i : i \in T}
<1>1. Back \in SUBSET Nat
  OBVIOUS
<1>2. Back # {}
  <2>1. PICK i \in T : TRUE
    OBVIOUS
  <2>2. n - i \in Back
    BY <2>1
  <2> QED
    BY <2>2
<1>3. PICK b \in Back : \A c \in Back : b <= c
  BY <1>1, <1>2, FirstPlace
<1>4. PICK i \in T : b = n - i
  OBVIOUS
<1>5. ASSUME NEW j \in T PROVE i >= j
  <2>1. n - j \in Back
    OBVIOUS
  <2> QED
    BY <1>3, <1>4, <2>1
<1> QED
  BY <1>4, <1>5

(***************************************************************************)
(* The n-th place of a package that is not blank exists, for every n up to *)
(* their number, so what is decoded is of blocks; and a package made of    *)
(* blocks and blanks behind them is decoded to the blocks.                 *)
(***************************************************************************)
LEMMA UpToIsFinite ==
    ASSUME NEW package \in Package
    PROVE  /\ Full(package) \subseteq 1..PackageBlocks /\ IsFiniteSet(Full(package))
           /\ Cardinality(Full(package)) \in Nat
           /\ \A i : /\ IsFiniteSet(UpTo(package, i)) /\ Cardinality(UpTo(package, i)) \in Nat
                     /\ UpTo(package, i) \subseteq Full(package)
<1>1. Full(package) \subseteq 1..PackageBlocks
  BY DEF Full
<1>2. IsFiniteSet(1..PackageBlocks)
  BY HistoryAssumption, FS_Interval
<1>3. IsFiniteSet(Full(package))
  BY <1>1, <1>2, FS_Subset
<1>4. \A i : UpTo(package, i) \subseteq Full(package)
  BY DEF UpTo
<1> QED
  BY <1>1, <1>3, <1>4, FS_Subset, FS_CardinalityType

LEMMA NthExists ==
    ASSUME NEW package \in Package, NEW n \in 1..Cardinality(Full(package))
    PROVE  \E i \in Full(package) : Cardinality(UpTo(package, i)) = n
<1> DEFINE T == {i \in Full(package) : Cardinality(UpTo(package, i)) >= n}
<1>1. /\ Full(package) \subseteq 1..PackageBlocks /\ IsFiniteSet(Full(package))
      /\ Cardinality(Full(package)) \in Nat /\ PackageBlocks \in Nat
      /\ \A i : IsFiniteSet(UpTo(package, i)) /\ Cardinality(UpTo(package, i)) \in Nat
  BY UpToIsFinite, HistoryAssumption
<1>2. Full(package) # {}
  BY <1>1, FS_EmptySet
<1>3. PICK final \in Full(package) : \A j \in Full(package) : final >= j
  BY <1>1, <1>2, LastPlace
<1>4. UpTo(package, final) = Full(package)
  BY <1>1, <1>3 DEF UpTo
<1>5. final \in T
  BY <1>1, <1>4
<1>6. T \in SUBSET Nat /\ T # {}
  BY <1>1, <1>5
<1>7. PICK i \in T : \A j \in T : i <= j
  BY <1>6, FirstPlace
<1>8. SUFFICES ASSUME Cardinality(UpTo(package, i)) > n PROVE FALSE
  BY <1>1, <1>7
<1> DEFINE Under == UpTo(package, i) \ {i}
<1>9. i \in UpTo(package, i) /\ i \in 1..PackageBlocks
  BY <1>1 DEF UpTo
<1>10. Under \subseteq 1..PackageBlocks /\ Cardinality(Under) = Cardinality(UpTo(package, i)) - 1
  <2>1. Cardinality(Under) = Cardinality(UpTo(package, i)) - 1
    BY <1>1, <1>9, FS_RemoveElement
  <2> QED
    BY <1>1, <2>1 DEF UpTo
<1>11. Under # {}
  BY <1>1, <1>8, <1>10, FS_EmptySet
<1>12. PICK j \in Under : \A k \in Under : j >= k
  BY <1>1, <1>10, <1>11, LastPlace
<1>13. UpTo(package, j) = Under
  BY <1>1, <1>9, <1>12 DEF UpTo
<1>14. j \in T /\ j < i
  <2>1. j \in Full(package) /\ j < i
    BY <1>1, <1>9, <1>12 DEF UpTo
  <2> QED
    BY <1>1, <1>8, <1>10, <1>13, <2>1
<1> QED
  BY <1>7, <1>9, <1>10, <1>12, <1>14

LEMMA DecodesBlocks ==
    ASSUME NEW package \in Package
    PROVE  DecodeV3(package) \in Seq(AnyBlock \ {Blank})
<1>1. ASSUME NEW n \in 1..Cardinality(Full(package))
      PROVE  package[Nth(package, n)] \in AnyBlock \ {Blank}
  <2>1. Nth(package, n) \in Full(package)
    BY NthExists DEF Nth
  <2> QED
    BY <2>1 DEF Full, Package
<1>2. Cardinality(Full(package)) \in Nat
  BY UpToIsFinite
<1> QED
  BY <1>1, <1>2 DEF DecodeV3

LEMMA PaddedIsPackage ==
    ASSUME NEW blocks \in Seq(AnyBlock)
    PROVE  Padded(blocks) \in Package
BY HistoryAssumption DEF Padded, Package, AnyBlock, Blank

LEMMA IntervalSize == ASSUME NEW n \in Nat PROVE Cardinality(1..n) = n
BY FS_Interval

LEMMA DecodesPadded ==
    ASSUME NEW blocks \in Seq(AnyBlock \ {Blank}), Len(blocks) <= PackageBlocks
    PROVE  DecodeV3(Padded(blocks)) = blocks
<1> DEFINE package == Padded(blocks)
<1>1. Len(blocks) \in Nat /\ PackageBlocks \in Nat
  BY HistoryAssumption
<1>2. Full(package) = 1..Len(blocks)
  BY <1>1 DEF Full, Padded
<1>3. Cardinality(Full(package)) = Len(blocks)
  <2>1. Cardinality(1..Len(blocks)) = Len(blocks)
    BY <1>1, IntervalSize
  <2> QED
    BY <1>2, <2>1
<1>4. ASSUME NEW i \in 1..Len(blocks)
      PROVE  Cardinality(UpTo(package, i)) = i
  <2>1. UpTo(package, i) = 1..i
    BY <1>1, <1>2 DEF UpTo
  <2>2. i \in Nat
    BY <1>1
  <2>3. Cardinality(1..i) = i
    BY <2>2, IntervalSize
  <2> QED
    BY <2>1, <2>3
<1>5. ASSUME NEW n \in 1..Len(blocks)
      PROVE  package[Nth(package, n)] = blocks[n]
  <2>1. Nth(package, n) = n
    BY <1>2, <1>4 DEF Nth
  <2> QED
    BY <1>1, <2>1 DEF Padded
<1>6. DecodeV3(package) = [n \in 1..Len(blocks) |-> blocks[n]]
  BY <1>3, <1>5 DEF DecodeV3
<1> QED
  BY <1>6

(***************************************************************************)
(* Reads of the history.  The device answers no call that has not been     *)
(* made, and a call that has not asked has no answer yet.                  *)
(***************************************************************************)
AnswersAreOfThePast ==
    /\ output.call <= sending.call /\ sending.call <= count
    /\ due.call <= count /\ record.call <= count
    /\ output.call # sending.call => sending.packages # <<>>
    /\ historyPc \in {"writeV4", "readV4", "writeV3"} => sending.call < count
    /\ historyPc = "writeV4" => due.call < count /\ record.call < count
    /\ historyPc \in {"writeV4", "readV4", "writeV3"} => heard = {} /\ entries = <<>> /\ last = <<>> /\ packets = 0

\* The record on the characteristic is of the call only if it is the one the call has asked for.
Answer == IF start \in DOMAIN asked THEN <<asked[start]>> ELSE <<Blank>>

WhileReadingV4 ==
    historyPc = "readV4" =>
        /\ due = [call |-> count, payload |-> Answer]
        /\ record.call = count => record = due

\* The packages with blocks, and how many blocks are in the first n packages.
Count(blocks) == (Len(blocks) + PackageBlocks - 1) \div PackageBlocks
Before(blocks, n) == IF n * PackageBlocks < Len(blocks) THEN n * PackageBlocks ELSE Len(blocks)

(***************************************************************************)
(* While a v3 call has read nothing but its own packages, it has read all  *)
(* of those shown but the one on the characteristic, and the others wait.  *)
(***************************************************************************)
NothingShown ==
    /\ sending.call = count => sending.packages = Packages(asked)
    /\ heard = {} /\ packets = 0 /\ entries = <<>> /\ last = <<>>

Shown ==
    /\ packets <= Count(asked) + 1
    /\ output.payload = Packages(asked)[packets + 1]
    /\ sending.packages = SubSeq(Packages(asked), packets + 2, Count(asked) + 2)

Collected ==
    /\ packets <= Count(asked) => entries = SubSeq(asked, 1, Before(asked, packets))
    /\ packets = 0 => last = <<>>
    /\ packets = Count(asked) + 1 =>
          /\ asked # <<>> /\ entries = Append(asked, Len(asked))
          /\ last = Padded(<<Len(asked)>>)

WhileReadingV3 ==
    historyPc = "readV3" /\ heard \subseteq {count} =>
        IF output.call = count THEN Shown /\ Collected ELSE NothingShown

HistoryInv ==
    /\ HistoryTypeOK /\ AnswersAreOfThePast
    /\ WhileReadingV4 /\ WhileReadingV3
    /\ HistoryIsTrue

(***************************************************************************)
(* The packages of an answer: those with blocks, each with what follows    *)
(* the blocks of the one before, then the count, then zeros.               *)
(***************************************************************************)
LEMMA Products ==
    ASSUME NEW m \in Nat, NEW n \in Nat, m <= n, NEW p \in Nat
    PROVE  m * p \in Nat /\ n * p \in Nat /\ m * p <= n * p /\ (m + 1) * p = m * p + p
OBVIOUS

LEMMA CountCovers ==
    ASSUME NEW blocks \in Seq(Block)
    PROVE  /\ Count(blocks) \in Nat /\ Len(blocks) <= Count(blocks) * PackageBlocks
           /\ \A n \in 1..Count(blocks) : (n - 1) * PackageBlocks < Len(blocks)
<1> DEFINE P == PackageBlocks
           L == Len(blocks)
           N == (L + P - 1) \div P
<1>1. P \in Nat \ {0} /\ L \in Nat
  BY HistoryAssumption
<1> HIDE DEF P, L
<1>2. N \in Nat /\ N * P <= L + P - 1 /\ L + P - 1 < (N + 1) * P
  BY <1>1
<1> HIDE DEF N
<1>3. (N + 1) * P = N * P + P /\ N * P \in Nat
  BY <1>1, <1>2, Products
<1>4. L <= N * P
  BY <1>1, <1>2, <1>3
<1>5. ASSUME NEW n \in 1..N PROVE (n - 1) * P < L
  <2>1. n * P <= N * P /\ n * P = (n - 1) * P + P /\ (n - 1) * P \in Nat /\ n * P \in Nat
    <3>1. n \in Nat /\ n - 1 \in Nat /\ n <= N /\ (n - 1) + 1 = n
      BY <1>2
    <3> QED
      BY <1>1, <1>2, <3>1, Products
  <2> QED
    BY <1>1, <1>2, <1>3, <2>1
<1> QED
  BY <1>2, <1>4, <1>5 DEF Count, N, P, L

LEMMA BeforeGrows ==
    ASSUME NEW blocks \in Seq(Block)
    PROVE  /\ Before(blocks, 0) = 0 /\ Before(blocks, Count(blocks)) = Len(blocks)
           /\ \A n \in 0..Count(blocks) : Before(blocks, n) \in 0..Len(blocks)
           /\ \A n \in 1..Count(blocks) : /\ Before(blocks, n - 1) = (n - 1) * PackageBlocks
                                          /\ Before(blocks, n - 1) < Before(blocks, n)
                                          /\ Before(blocks, n) - Before(blocks, n - 1) <= PackageBlocks
<1> DEFINE P == PackageBlocks
           L == Len(blocks)
           N == Count(blocks)
<1>1. P \in Nat \ {0} /\ L \in Nat /\ N \in Nat /\ L <= N * P
  BY HistoryAssumption, CountCovers
<1>2. \A n \in 1..N : (n - 1) * P < L
  BY CountCovers
<1> HIDE DEF P, L, N
<1>3. \A n : Before(blocks, n) = IF n * P < L THEN n * P ELSE L
  BY DEF Before, P, L
<1>4. 0 * P = 0 /\ Before(blocks, 0) = 0
  BY <1>1, <1>3
<1>5. N * P \in Nat /\ Before(blocks, N) = L
  BY <1>1, <1>3
<1>6. ASSUME NEW n \in 0..N PROVE n * P \in Nat /\ Before(blocks, n) \in 0..L
  <2>1. n * P \in Nat
    BY <1>1
  <2> QED
    BY <1>1, <1>3, <2>1
<1>7. ASSUME NEW n \in 1..N
      PROVE  /\ Before(blocks, n - 1) = (n - 1) * P
             /\ Before(blocks, n - 1) < Before(blocks, n)
             /\ Before(blocks, n) - Before(blocks, n - 1) <= P
  <2>1. n - 1 \in Nat /\ n \in Nat /\ (n - 1) + 1 = n /\ n - 1 <= n
    BY <1>1
  <2>2. n * P = (n - 1) * P + P /\ (n - 1) * P \in Nat /\ n * P \in Nat
    BY <1>1, <2>1, Products
  <2>3. (n - 1) * P < L
    BY <1>2
  <2>4. Before(blocks, n - 1) = (n - 1) * P
    BY <1>3, <2>3
  <2>5. Before(blocks, n) = IF n * P < L THEN n * P ELSE L
    BY <1>3
  <2> QED
    BY <1>1, <2>2, <2>3, <2>4, <2>5
<1> QED
  BY <1>4, <1>5, <1>6, <1>7 DEF P, L, N

Chunk(blocks, n) == SubSeq(blocks, Before(blocks, n - 1) + 1, Before(blocks, n))

LEMMA ChunkIsPart ==
    ASSUME NEW blocks \in Seq(Block), NEW n \in 1..Count(blocks)
    PROVE  /\ Chunk(blocks, n) \in Seq(Block)
           /\ Len(Chunk(blocks, n)) \in 1..PackageBlocks
           /\ SubSeq(blocks, 1, Before(blocks, n - 1)) \o Chunk(blocks, n) = SubSeq(blocks, 1, Before(blocks, n))
<1> DEFINE a == Before(blocks, n - 1)
           b == Before(blocks, n)
           L == Len(blocks)
<1>1. L \in Nat /\ PackageBlocks \in Nat /\ Count(blocks) \in Nat
  BY HistoryAssumption, CountCovers
<1>2. a \in 0..L /\ b \in 0..L /\ a < b /\ b - a <= PackageBlocks
  BY <1>1, BeforeGrows
<1> HIDE DEF a, b
<1>3. SubSeq(blocks, a + 1, b) \in Seq(Block) /\ Len(SubSeq(blocks, a + 1, b)) = b - a
  BY <1>1, <1>2, SubSeqProperties
<1>4. SubSeq(blocks, 1, a) \o SubSeq(blocks, a + 1, b) = SubSeq(blocks, 1, b)
  <2> DEFINE s == SubSeq(blocks, 1, a)
             t == SubSeq(blocks, a + 1, b)
             u == SubSeq(blocks, 1, b)
  <2>1. s \in Seq(Block) /\ Len(s) = a /\ \A i \in 1..a : s[i] = blocks[i]
    BY <1>1, <1>2, SubSeqProperties
  <2>2. u \in Seq(Block) /\ Len(u) = b /\ \A i \in 1..b : u[i] = blocks[i]
    BY <1>1, <1>2, SubSeqProperties
  <2>3. \A i \in 1..b - a : t[i] = blocks[a + i]
    BY <1>1, <1>2, SubSeqProperties
  <2> HIDE DEF s, t, u
  <2>4. t \in Seq(Block) /\ Len(t) = b - a
    BY <1>3 DEF t
  <2>5. s \o t \in Seq(Block) /\ Len(s \o t) = b
    <3>1. s \o t \in Seq(Block) /\ Len(s \o t) = Len(s) + Len(t)
      BY <2>1, <2>4, ConcatProperties
    <3>2. a + (b - a) = b
      BY <1>1, <1>2
    <3> QED
      BY <2>1, <2>4, <3>1, <3>2
  <2>6. ASSUME NEW i \in 1..b PROVE (s \o t)[i] = u[i]
    <3>1. CASE i <= a
      BY <1>1, <1>2, <2>1, <2>2, <2>4, <3>1
    <3>2. CASE i > a
      <4>1. i - a \in 1..b - a /\ (s \o t)[i] = t[i - a]
        BY <1>1, <1>2, <2>1, <2>4, <3>2
      <4> QED
        BY <1>1, <1>2, <2>2, <2>3, <3>2, <4>1
    <3>3. i <= a \/ i > a
      BY <1>1, <1>2
    <3> QED
      BY <3>1, <3>2, <3>3
  <2>7. s \o t = u
    BY <2>2, <2>5, <2>6, SeqEqual
  <2> QED
    BY <2>7 DEF s, t, u
<1>5. b - a \in 1..PackageBlocks
  BY <1>1, <1>2
<1> QED
  BY <1>3, <1>4, <1>5 DEF Chunk, a, b

LEMMA PackagesAre ==
    ASSUME NEW blocks \in Seq(Block), Len(blocks) <= MaxLog
    PROVE  /\ Packages(blocks) \in Seq(Package) /\ Len(Packages(blocks)) = Count(blocks) + 2
           /\ \A n \in 1..Count(blocks) : Packages(blocks)[n] = Padded(Chunk(blocks, n))
           /\ Packages(blocks)[Count(blocks) + 1] = Padded(<<Len(blocks)>>)
           /\ Packages(blocks)[Count(blocks) + 2] = ZeroPackage
<1> DEFINE N == Count(blocks)
           end == <<Padded(<<Len(blocks)>>), ZeroPackage>>
<1>1. N \in Nat /\ Len(blocks) \in Nat /\ Len(blocks) \in AnyBlock
  BY CountCovers DEF AnyBlock
<1>2. ASSUME NEW n \in 1..N
      PROVE  DataPackages(blocks)[n] = Padded(Chunk(blocks, n)) /\ Padded(Chunk(blocks, n)) \in Package
  <2>1. DataPackages(blocks)[n] = Padded(Chunk(blocks, n))
    BY BeforeGrows DEF DataPackages, Chunk, Before, Count
  <2>2. Chunk(blocks, n) \in Seq(AnyBlock)
    BY ChunkIsPart DEF AnyBlock
  <2> QED
    BY <2>1, <2>2, PaddedIsPackage
<1>3. DOMAIN DataPackages(blocks) = 1..N
  BY DEF DataPackages, Count
<1>4. DataPackages(blocks) \in Seq(Package) /\ Len(DataPackages(blocks)) = N
  <2>1. DataPackages(blocks) = [n \in 1..N |-> Padded(Chunk(blocks, n))]
    BY <1>2, <1>3 DEF DataPackages, Count
  <2> HIDE DEF N
  <2> QED
    BY <1>1, <1>2, <2>1
<1>5. end \in Seq(Package) /\ Len(end) = 2 /\ end[1] = Padded(<<Len(blocks)>>) /\ end[2] = ZeroPackage
  <2>1. <<Len(blocks)>> \in Seq(AnyBlock) /\ <<>> \in Seq(AnyBlock)
    BY <1>1
  <2>2. Padded(<<Len(blocks)>>) \in Package /\ ZeroPackage \in Package
    BY <2>1, PaddedIsPackage DEF ZeroPackage
  <2> QED
    BY <2>2
<1>6. Packages(blocks) = DataPackages(blocks) \o end
  BY DEF Packages
<1> HIDE DEF N, end
<1> DEFINE s == DataPackages(blocks)
<1> HIDE DEF s
<1>0. s \in Seq(Package) /\ Len(s) = N
  BY <1>4 DEF s
<1>7. /\ s \o end \in Seq(Package) /\ Len(s \o end) = N + 2
      /\ \A i \in 1..N + 2 : (s \o end)[i] = IF i <= N THEN s[i] ELSE end[i - N]
  <2>1. /\ s \o end \in Seq(Package) /\ Len(s \o end) = Len(s) + Len(end)
        /\ \A i \in 1..Len(s) + Len(end) : (s \o end)[i] = IF i <= Len(s) THEN s[i] ELSE end[i - Len(s)]
    BY <1>0, <1>5, ConcatProperties
  <2> QED
    BY <1>0, <1>5, <2>1
<1>8. ASSUME NEW n \in 1..N PROVE (s \o end)[n] = s[n]
  BY <1>1, <1>7
<1>9. (s \o end)[N + 1] = end[1] /\ (s \o end)[N + 2] = end[2]
  <2>1. /\ N + 1 \in 1..N + 2 /\ N + 2 \in 1..N + 2 /\ ~(N + 1 <= N) /\ ~(N + 2 <= N)
        /\ (N + 1) - N = 1 /\ (N + 2) - N = 2
    BY <1>1
  <2> QED
    BY <1>7, <2>1
<1> QED
  BY <1>2, <1>5, <1>6, <1>7, <1>8, <1>9 DEF N, s

LEMMA ChunkIsNotZeros ==
    ASSUME NEW blocks \in Seq(Block), NEW n \in 1..Count(blocks)
    PROVE  Padded(Chunk(blocks, n)) # ZeroPackage
<1>1. Chunk(blocks, n)[1] \in Block /\ 1 \in 1..PackageBlocks /\ Len(Chunk(blocks, n)) >= 1
  BY ChunkIsPart, HistoryAssumption
<1>2. Padded(Chunk(blocks, n))[1] = Chunk(blocks, n)[1]
  BY <1>1 DEF Padded
<1>3. ZeroPackage[1] = Blank
  BY <1>1 DEF ZeroPackage, Padded
<1>4. Blank \notin Block
  BY HistoryAssumption DEF Blank
<1> QED
  BY <1>1, <1>2, <1>3, <1>4

LEMMA InitHistoryInv == HistoryInit => HistoryInv
<1> SUFFICES ASSUME HistoryInit PROVE HistoryInv
  OBVIOUS
<1>1. HistoryTypeOK
  BY HistoryAssumption DEF HistoryInit, HistoryTypeOK
<1> QED
  BY <1>1 DEF HistoryInit, HistoryInv, AnswersAreOfThePast, WhileReadingV4, WhileReadingV3,
              HistoryIsTrue, HistoryIsLog, RecordIsOfEvent

(***************************************************************************)
(* What the device does on its own.                                        *)
(***************************************************************************)
LEMMA StoreKeepsInv ==
    ASSUME HistoryInv, Store \/ UNCHANGED historyVars
    PROVE  HistoryInv'
<1>1. /\ UNCHANGED <<historyVersion, family, historyPc, count, start, sending, output, due, record>>
      /\ UNCHANGED <<entries, last, packets, outcome, asked, heard>>
  BY DEF Store, historyVars, deviceState, wire, ours, readPast
<1>2. log' \in Seq(Block) /\ Len(log') <= MaxLog
  <2>1. log \in Seq(Block) /\ Len(log) \in Nat /\ Len(log) <= MaxLog /\ MaxLog \in Nat
    BY HistoryAssumption DEF HistoryInv, HistoryTypeOK
  <2> QED
    BY <2>1 DEF Store, historyVars, deviceState
<1>3. HistoryTypeOK'
  BY <1>1, <1>2 DEF HistoryInv, HistoryTypeOK
<1>4. AnswersAreOfThePast'
  BY <1>1 DEF HistoryInv, AnswersAreOfThePast
<1>5. WhileReadingV4' /\ WhileReadingV3'
  BY <1>1 DEF HistoryInv, WhileReadingV4, Answer, WhileReadingV3, Shown, Collected, NothingShown
<1>6. HistoryIsTrue'
  BY <1>1 DEF HistoryInv, HistoryIsTrue, HistoryIsLog, RecordIsOfEvent
<1> QED
  BY <1>3, <1>4, <1>5, <1>6 DEF HistoryInv

LEMMA PublishRecordKeepsInv ==
    ASSUME HistoryInv, PublishRecord
    PROVE  HistoryInv'
<1>1. /\ UNCHANGED <<historyVersion, family, log, historyPc, count, start, sending, output, due>>
      /\ UNCHANGED <<entries, last, packets, outcome, asked, heard>> /\ record' = due
  BY DEF PublishRecord, deviceState, ours, readPast
<1>2. HistoryTypeOK'
  BY <1>1 DEF HistoryInv, HistoryTypeOK
<1>3. AnswersAreOfThePast'
  BY <1>1 DEF HistoryInv, AnswersAreOfThePast
<1>4. WhileReadingV4' /\ WhileReadingV3'
  BY <1>1 DEF HistoryInv, WhileReadingV4, Answer, WhileReadingV3, Shown, Collected, NothingShown
<1>5. HistoryIsTrue'
  BY <1>1 DEF HistoryInv, HistoryIsTrue, HistoryIsLog, RecordIsOfEvent
<1> QED
  BY <1>2, <1>3, <1>4, <1>5 DEF HistoryInv

(***************************************************************************)
(* The next package is shown: of the packages of an answer, the next one.  *)
(***************************************************************************)
LEMMA ShowingIsTyped ==
    ASSUME HistoryInv, ShowPackage, sending.packages # <<>>
    PROVE  /\ sending' \in [call : 0..MaxReads, packages : Seq(Package)]
           /\ output' \in [call : 0..MaxReads, payload : Package \cup {Other}]
           /\ sending'.call = sending.call /\ output'.call = sending.call
           /\ sending'.packages = Tail(sending.packages) /\ output'.payload = Head(sending.packages)
<1>1. sending \in [call : 0..MaxReads, packages : Seq(Package)]
  BY DEF HistoryInv, HistoryTypeOK
<1>2. Head(sending.packages) \in Package /\ Tail(sending.packages) \in Seq(Package)
  BY <1>1, HeadTailProperties
<1> QED
  BY <1>1, <1>2 DEF ShowPackage

LEMMA RestShown ==
    ASSUME NEW s \in Seq(Package), NEW n \in 1..Len(s), NEW rest, rest = SubSeq(s, n, Len(s))
    PROVE  rest # <<>> /\ Head(rest) = s[n] /\ Tail(rest) = SubSeq(s, n + 1, Len(s))
<1>1. Len(s) \in Nat
  OBVIOUS
<1>2. rest \in Seq(Package) /\ Len(rest) = Len(s) - n + 1 /\ \A i \in 1..Len(s) - n + 1 : rest[i] = s[n + i - 1]
  BY <1>1, SubSeqProperties
<1>3. rest # <<>> /\ Head(rest) = s[n]
  <2>1. 1 \in 1..Len(s) - n + 1 /\ n + 1 - 1 = n /\ Len(s) - n + 1 # 0
    BY <1>1
  <2>2. rest[1] = s[n] /\ rest # <<>>
    BY <1>2, <2>1
  <2> QED
    BY <1>2, <2>2
<1> DEFINE t == Tail(rest)
           u == SubSeq(s, n + 1, Len(s))
<1>4. t \in Seq(Package) /\ Len(t) = Len(s) - n /\ \A i \in 1..Len(s) - n : t[i] = rest[i + 1]
  BY <1>1, <1>2, <1>3, HeadTailProperties
<1>5. u \in Seq(Package) /\ Len(u) = Len(s) - n /\ \A i \in 1..Len(s) - n : u[i] = s[n + i]
  BY <1>1, SubSeqProperties
<1> HIDE DEF t, u
<1>6. ASSUME NEW i \in 1..Len(s) - n PROVE t[i] = u[i]
  <2>1. i + 1 \in 1..Len(s) - n + 1 /\ n + (i + 1) - 1 = n + i
    BY <1>1
  <2>2. t[i] = rest[i + 1] /\ u[i] = s[n + i]
    BY <1>4, <1>5
  <2>3. rest[i + 1] = s[n + (i + 1) - 1]
    BY <1>2, <2>1
  <2> QED
    BY <2>1, <2>2, <2>3
<1>7. t = u
  BY <1>4, <1>5, <1>6, SeqEqual
<1> QED
  BY <1>3, <1>7 DEF t, u

LEMMA TakenFromTheFront ==
    ASSUME NEW blocks \in Seq(Block)
    PROVE  SubSeq(blocks, 1, 0) = <<>> /\ SubSeq(blocks, 1, Len(blocks)) = blocks
BY SubSeqProperties

LEMMA PublishPackageKeepsInv ==
    ASSUME HistoryInv, PublishPackage
    PROVE  HistoryInv'
<1>1. /\ UNCHANGED <<historyVersion, family, log, historyPc, count, start, due, record>>
      /\ UNCHANGED <<entries, last, packets, outcome, asked, heard>>
      /\ output.call # sending.call /\ ShowPackage
  BY DEF PublishPackage, deviceState, ours, readPast
<1>2. sending.packages # <<>>
  BY <1>1 DEF HistoryInv, AnswersAreOfThePast
<1>3. /\ sending' \in [call : 0..MaxReads, packages : Seq(Package)]
      /\ output' \in [call : 0..MaxReads, payload : Package \cup {Other}]
      /\ sending'.call = sending.call /\ output'.call = sending.call
      /\ sending'.packages = Tail(sending.packages) /\ output'.payload = Head(sending.packages)
  BY <1>1, <1>2, ShowingIsTyped
<1>4. HistoryTypeOK'
  BY <1>1, <1>3 DEF HistoryInv, HistoryTypeOK
<1>5. AnswersAreOfThePast'
  BY <1>1, <1>3, <1>4 DEF HistoryInv, HistoryTypeOK, AnswersAreOfThePast
<1>6. WhileReadingV4'
  BY <1>1 DEF HistoryInv, WhileReadingV4, Answer
<1>7. HistoryIsTrue'
  BY <1>1 DEF HistoryInv, HistoryIsTrue, HistoryIsLog, RecordIsOfEvent
<1>8. WhileReadingV3'
  <2> SUFFICES ASSUME historyPc = "readV3", heard \subseteq {count}
               PROVE  IF sending.call = count THEN (Shown /\ Collected)' ELSE NothingShown'
    BY <1>1, <1>3 DEF WhileReadingV3
  <2>1. output.call # count
    BY <1>1 DEF HistoryInv, HistoryTypeOK, AnswersAreOfThePast
  <2>2. NothingShown
    BY <2>1 DEF HistoryInv, WhileReadingV3
  <2>3. CASE sending.call # count
    BY <1>1, <1>3, <2>2, <2>3 DEF NothingShown
  <2>4. CASE sending.call = count
    <3> DEFINE All == Packages(asked)
               N == Count(asked)
    <3>1. asked \in Seq(Block) /\ Len(asked) <= MaxLog
      BY DEF HistoryInv, HistoryTypeOK
    <3>2. All \in Seq(Package) /\ Len(All) = N + 2 /\ N \in Nat
      BY <3>1, PackagesAre, CountCovers
    <3>3. sending.packages = All /\ packets = 0 /\ entries = <<>> /\ last = <<>>
      BY <2>2, <2>4 DEF NothingShown
    <3> HIDE DEF All, N
    <3>4. All = SubSeq(All, 1, N + 2)
      BY <3>2, SubSeqProperties
    <3>5. Head(All) = All[1] /\ Tail(All) = SubSeq(All, 2, N + 2)
      <4>1. 1 \in 1..Len(All)
        BY <3>2
      <4> QED
        BY <3>2, <3>4, <4>1, RestShown
    <3>6. Shown'
      BY <1>1, <1>3, <3>2, <3>3, <3>5 DEF Shown, All, N
    <3>7. Collected'
      BY <1>1, <3>1, <3>2, <3>3, BeforeGrows, TakenFromTheFront DEF Collected, N
    <3> QED
      BY <2>4, <3>6, <3>7
  <2> QED
    BY <2>3, <2>4
<1> QED
  BY <1>4, <1>5, <1>6, <1>7, <1>8 DEF HistoryInv

(***************************************************************************)
(* A call begins, fails, or asks.                                          *)
(***************************************************************************)
LEMMA CallKeepsInv ==
    ASSUME HistoryInv, ReadHistory
    PROVE  HistoryInv'
<1>1. UNCHANGED <<historyVersion, family, log, sending, output, due, record, asked>>
  BY DEF ReadHistory, deviceState, wire
<1>2. HistoryTypeOK'
  BY <1>1, HistoryAssumption DEF HistoryInv, HistoryTypeOK, ReadHistory
<1>3. AnswersAreOfThePast'
  BY <1>1, <1>2 DEF HistoryInv, HistoryTypeOK, AnswersAreOfThePast, ReadHistory
<1> QED
  BY <1>2, <1>3 DEF HistoryInv, WhileReadingV4, WhileReadingV3, HistoryIsTrue, HistoryIsLog, RecordIsOfEvent, ReadHistory

LEMMA FailuresKeepInv ==
    ASSUME HistoryInv, StepFailsV4 \/ MalformedV4 \/ StepFailsV3
    PROVE  HistoryInv'
<1>1. UNCHANGED <<historyVersion, family, log, count, start, sending, output, due, record, last, packets, asked, heard>>
  BY DEF StepFailsV4, MalformedV4, StepFailsV3, deviceState, wire, readPast
<1>2. \/ historyPc' = "writeV3" /\ UNCHANGED <<outcome, entries>> /\ historyPc \in {"writeV4", "readV4"}
      \/ historyPc' = "idle" /\ outcome' = [status |-> "failed", path |-> "none"] /\ entries' = <<>>
  BY DEF StepFailsV4, MalformedV4, StepFailsV3, FailV4, Fail, Return
<1>3. HistoryTypeOK'
  <2>1. /\ historyPc' \in {"idle", "writeV4", "readV4", "writeV3", "readV3"}
        /\ outcome' \in [status : {"none", "ok", "failed"}, path : {"none", "v3", "v4"}]
        /\ entries' \in Seq(AnyBlock \ {Blank})
    <3>1. /\ outcome \in [status : {"none", "ok", "failed"}, path : {"none", "v3", "v4"}]
          /\ entries \in Seq(AnyBlock \ {Blank})
      BY DEF HistoryInv, HistoryTypeOK
    <3>2. [status |-> "failed", path |-> "none"] \in [status : {"none", "ok", "failed"}, path : {"none", "v3", "v4"}]
      OBVIOUS
    <3>3. <<>> \in Seq(AnyBlock \ {Blank})
      OBVIOUS
    <3> QED
      BY <1>2, <3>1, <3>2, <3>3
  <2> QED
    BY <1>1, <2>1 DEF HistoryInv, HistoryTypeOK
<1>4. AnswersAreOfThePast'
  BY <1>1, <1>2 DEF HistoryInv, AnswersAreOfThePast
<1> QED
  BY <1>2, <1>3, <1>4 DEF HistoryInv, WhileReadingV4, WhileReadingV3, HistoryIsTrue, HistoryIsLog, RecordIsOfEvent

LEMMA WriteV4KeepsInv ==
    ASSUME HistoryInv, WriteV4
    PROVE  HistoryInv'
<1>1. /\ UNCHANGED <<historyVersion, family, log, count, start, sending, output, record>>
      /\ UNCHANGED <<entries, last, packets, outcome, heard>>
      /\ historyPc = "writeV4" /\ historyPc' = "readV4" /\ asked' = log
      /\ due' = [call |-> count, payload |-> RecordOf(start)]
  BY DEF WriteV4, deviceState, ours
<1>2. RecordOf(start) \in {<<b>> : b \in AnyBlock}
  BY HistoryAssumption DEF RecordOf, HistoryInv, HistoryTypeOK, AnyBlock, Blank
<1>3. HistoryTypeOK'
  BY <1>1, <1>2 DEF HistoryInv, HistoryTypeOK
<1>4. AnswersAreOfThePast'
  BY <1>1, <1>3 DEF HistoryInv, HistoryTypeOK, AnswersAreOfThePast
<1>5. WhileReadingV4'
  BY <1>1 DEF HistoryInv, HistoryTypeOK, AnswersAreOfThePast, WhileReadingV4, Answer, RecordOf
<1> QED
  BY <1>1, <1>3, <1>4, <1>5 DEF HistoryInv, WhileReadingV3, HistoryIsTrue, HistoryIsLog, RecordIsOfEvent

LEMMA WriteV3KeepsInv ==
    ASSUME HistoryInv, WriteV3
    PROVE  HistoryInv'
<1>1. /\ UNCHANGED <<historyVersion, family, log, count, start, output, due, record>>
      /\ UNCHANGED <<entries, last, packets, outcome, heard>>
      /\ historyPc = "writeV3" /\ historyPc' = "readV3"
  BY DEF WriteV3, deviceState, ours
<1>2. HistoryTypeOK /\ AnswersAreOfThePast
  BY DEF HistoryInv
<1>3. CASE family = "v3"
  <2>1. sending' = [call |-> count, packages |-> Packages(log)] /\ asked' = log
    BY <1>3 DEF WriteV3
  <2>2. Packages(log) \in Seq(Package) /\ Len(Packages(log)) = Count(log) + 2 /\ Count(log) \in Nat
    BY <1>2, PackagesAre, CountCovers DEF HistoryTypeOK
  <2>3. HistoryTypeOK'
    BY <1>1, <1>2, <2>1, <2>2 DEF HistoryTypeOK
  <2>4. Packages(log) # <<>>
    BY <2>2
  <2>5. AnswersAreOfThePast'
    BY <1>1, <1>2, <2>1, <2>4, <2>3 DEF HistoryTypeOK, AnswersAreOfThePast
  <2>6. output'.call # count'
    BY <1>1, <1>2 DEF HistoryTypeOK, AnswersAreOfThePast
  <2>7. NothingShown'
    BY <1>1, <1>2, <2>1 DEF NothingShown, AnswersAreOfThePast
  <2> QED
    BY <1>1, <2>3, <2>5, <2>6, <2>7 DEF HistoryInv, WhileReadingV4, WhileReadingV3, HistoryIsTrue, HistoryIsLog, RecordIsOfEvent
<1>4. CASE family # "v3"
  <2>1. UNCHANGED <<sending, asked>>
    BY <1>4 DEF WriteV3
  <2>2. HistoryTypeOK'
    BY <1>1, <1>2, <2>1 DEF HistoryTypeOK
  <2>3. AnswersAreOfThePast'
    BY <1>1, <1>2, <2>1 DEF AnswersAreOfThePast
  <2>4. output'.call # count' /\ sending'.call # count'
    BY <1>1, <1>2, <2>1 DEF HistoryTypeOK, AnswersAreOfThePast
  <2>5. NothingShown'
    BY <1>1, <1>2, <2>1, <2>4 DEF NothingShown, AnswersAreOfThePast
  <2> QED
    BY <1>1, <2>2, <2>3, <2>4, <2>5 DEF HistoryInv, WhileReadingV4, WhileReadingV3, HistoryIsTrue, HistoryIsLog, RecordIsOfEvent
<1> QED
  BY <1>3, <1>4

LEMMA ReadV4KeepsInv ==
    ASSUME HistoryInv, ReadV4
    PROVE  HistoryInv'
<1>1. /\ UNCHANGED <<historyVersion, family, log, count, start, sending, output, due, record, last, packets, asked>>
      /\ historyPc = "readV4" /\ record.payload # Other /\ historyPc' = "idle"
      /\ outcome' = [status |-> "ok", path |-> "v4"] /\ entries' = DecodeV4(record.payload)
      /\ heard' = heard \cup {record.call}
  BY DEF ReadV4, Return, deviceState, wire
<1>2. HistoryTypeOK /\ AnswersAreOfThePast
  BY DEF HistoryInv
<1>3. PICK b \in AnyBlock : record.payload = <<b>>
  BY <1>1, <1>2 DEF HistoryTypeOK
<1>4. entries' = IF b = Blank THEN <<>> ELSE <<b>>
  BY <1>1, <1>3 DEF DecodeV4
<1>5. HistoryTypeOK'
  <2>1. outcome' \in [status : {"none", "ok", "failed"}, path : {"none", "v3", "v4"}]
    BY <1>1
  <2>2. entries' \in Seq(AnyBlock \ {Blank})
    <3>1. CASE b = Blank
      BY <1>4, <3>1
    <3>2. CASE b # Blank
      <4>1. b \in AnyBlock \ {Blank}
        BY <3>2
      <4>2. <<b>> \in Seq(AnyBlock \ {Blank})
        BY <4>1
      <4> QED
        BY <1>4, <3>2, <4>2
    <3> QED
      BY <3>1, <3>2
  <2>3. heard' \subseteq 0..MaxReads
    BY <1>1, <1>2 DEF HistoryTypeOK
  <2> QED
    BY <1>1, <1>2, <2>1, <2>2, <2>3 DEF HistoryTypeOK
<1>6. AnswersAreOfThePast'
  BY <1>1, <1>2 DEF AnswersAreOfThePast
<1>7. ASSUME heard' = {count}
      PROVE  entries' = IF start \in DOMAIN asked THEN <<asked[start]>> ELSE <<>>
  <2>1. record.call = count
    BY <1>1, <1>7
  <2>2. record.payload = Answer
    BY <1>1, <2>1 DEF HistoryInv, WhileReadingV4
  <2>3. start \in DOMAIN asked => asked[start] \in Block /\ asked[start] # Blank
    <3>1. asked \in Seq(Block)
      BY <1>2 DEF HistoryTypeOK
    <3>2. Blank \notin Block
      BY HistoryAssumption DEF Blank
    <3> QED
      BY <3>1, <3>2
  <2> QED
    BY <1>3, <1>4, <2>2, <2>3 DEF Answer
<1> QED
  BY <1>1, <1>5, <1>6, <1>7 DEF HistoryInv, WhileReadingV4, WhileReadingV3, HistoryIsTrue, HistoryIsLog, RecordIsOfEvent

(***************************************************************************)
(* One Read of a v3 answer.  What a call that has read nothing but its own *)
(* packages reads next is its own only if it is the next one.              *)
(***************************************************************************)
LEMMA ReadingMoves ==
    ASSUME HistoryInv, Reading
    PROVE  /\ sending' \in [call : 0..MaxReads, packages : Seq(Package)]
           /\ output' \in [call : 0..MaxReads, payload : Package \cup {Other}]
           /\ sending'.call = sending.call /\ output'.call = output.call
           /\ output'.call # sending'.call => sending'.packages # <<>>
           /\ heard' = heard \cup {output.call} /\ heard' \subseteq 0..MaxReads
           /\ historyPc = "readV3"
<1>1. HistoryTypeOK /\ AnswersAreOfThePast
  BY DEF HistoryInv
<1>2. historyPc = "readV3" /\ heard' = heard \cup {output.call} /\ heard' \subseteq 0..MaxReads
  BY <1>1 DEF Reading, HistoryTypeOK
<1>3. CASE output.call = sending.call /\ sending.packages # <<>>
  BY <1>2, <1>3, ShowingIsTyped DEF Reading
<1>4. CASE ~(output.call = sending.call /\ sending.packages # <<>>)
  BY <1>1, <1>2, <1>4 DEF Reading, HistoryTypeOK, AnswersAreOfThePast
<1> QED
  BY <1>3, <1>4

LEMMA OwnIsShown ==
    ASSUME HistoryInv, Reading, heard' \subseteq {count}
    PROVE  output.call = count /\ sending.call = count /\ Shown /\ Collected
<1>1. output.call = count /\ heard \subseteq {count} /\ historyPc = "readV3"
  BY ReadingMoves
<1>2. sending.call = count
  BY <1>1 DEF HistoryInv, HistoryTypeOK, AnswersAreOfThePast
<1> QED
  BY <1>1, <1>2 DEF HistoryInv, WhileReadingV3

\* The end of the call: with a failure it says nothing.
LEMMA EndKeepsInv ==
    ASSUME HistoryInv, Reading, historyPc' = "idle",
           UNCHANGED <<historyVersion, family, log, count, start, due, record, asked>>,
           packets' \in 0..MaxPackets, last' \in Package \cup {<<>>}, entries' \in Seq(AnyBlock \ {Blank}),
           \/ outcome' = [status |-> "failed", path |-> "none"]
           \/ /\ outcome' = [status |-> "ok", path |-> "v3"]
              /\ heard' = {count} => entries' = asked
    PROVE  HistoryInv'
<1>1. HistoryTypeOK'
  <2>1. outcome' \in [status : {"none", "ok", "failed"}, path : {"none", "v3", "v4"}]
    OBVIOUS
  <2> QED
    BY <2>1, ReadingMoves DEF HistoryInv, HistoryTypeOK
<1>2. AnswersAreOfThePast'
  BY ReadingMoves DEF HistoryInv, AnswersAreOfThePast
<1>3. HistoryIsTrue'
  BY DEF HistoryIsTrue, HistoryIsLog, RecordIsOfEvent
<1> QED
  BY <1>1, <1>2, <1>3 DEF HistoryInv, WhileReadingV4, WhileReadingV3

LEMMA BrokenOffKeepsInv ==
    ASSUME HistoryInv, BudgetSpent \/ MalformedV3
    PROVE  HistoryInv'
<1>0. UNCHANGED <<historyVersion, family, log, count, start, due, record, asked>>
  BY DEF BudgetSpent, MalformedV3, deviceState
<1>1. /\ Reading /\ historyPc' = "idle" /\ entries' = <<>>
      /\ outcome' = [status |-> "failed", path |-> "none"]
  BY DEF BudgetSpent, MalformedV3, Fail, Return, deviceState
<1>2. packets' \in 0..MaxPackets
  BY HistoryAssumption DEF BudgetSpent, MalformedV3, HistoryInv, HistoryTypeOK
<1>3. last' \in Package \cup {<<>>}
  BY DEF BudgetSpent, MalformedV3, HistoryInv, HistoryTypeOK, Other
<1>4. entries' \in Seq(AnyBlock \ {Blank})
  BY <1>1
<1> QED
  BY <1>0, <1>1, <1>2, <1>3, <1>4, EndKeepsInv

(***************************************************************************)
(* A package that is not the end is decoded behind those before it.        *)
(***************************************************************************)
LEMMA CollectDecodes ==
    ASSUME HistoryInv, Collect, heard' \subseteq {count}
    PROVE  (Shown /\ Collected)'
<1> DEFINE All == Packages(asked)
           N == Count(asked)
<1>1. /\ Reading /\ asked' = asked /\ count' = count
      /\ packets' = packets + 1 /\ last' = output.payload
      /\ entries' = entries \o DecodeV3(output.payload)
      /\ output.payload # ZeroPackage
  BY DEF Collect
<1>2. output.call = count /\ sending.call = count /\ Shown /\ Collected
  BY <1>1, OwnIsShown
<1>3. asked \in Seq(Block) /\ Len(asked) \in Nat /\ Len(asked) <= MaxLog /\ packets \in Nat
  BY DEF HistoryInv, HistoryTypeOK
<1>4. /\ All \in Seq(Package) /\ Len(All) = N + 2 /\ N \in Nat
      /\ \A n \in 1..N : All[n] = Padded(Chunk(asked, n))
      /\ All[N + 1] = Padded(<<Len(asked)>>) /\ All[N + 2] = ZeroPackage
  BY <1>3, PackagesAre, CountCovers
<1>5. packets <= N + 1 /\ output.payload = All[packets + 1] /\ sending.packages = SubSeq(All, packets + 2, N + 2)
  BY <1>2 DEF Shown
<1> HIDE DEF All, N
<1>6. packets <= N
  BY <1>1, <1>3, <1>4, <1>5
<1>7. Shown'
  <2>1. packets + 2 \in 1..Len(All) /\ (packets + 2) + 1 = packets + 3 /\ (packets + 1) + 2 = packets + 3
    BY <1>3, <1>4, <1>6
  <2>2. /\ sending.packages # <<>> /\ Head(sending.packages) = All[packets + 2]
        /\ Tail(sending.packages) = SubSeq(All, packets + 3, N + 2)
    <3>1. sending.packages = SubSeq(All, packets + 2, Len(All))
      BY <1>4, <1>5
    <3>2. Tail(sending.packages) = SubSeq(All, (packets + 2) + 1, Len(All))
      BY <1>4, <2>1, <3>1, RestShown
    <3> QED
      BY <1>4, <2>1, <3>1, <3>2, RestShown
  <2>3. ShowPackage
    BY <1>1, <1>2, <2>2 DEF Reading
  <2>4. output'.payload = Head(sending.packages) /\ sending'.packages = Tail(sending.packages)
    BY <2>2, <2>3, ShowingIsTyped
  <2>5. /\ packets' <= N + 1 /\ output'.payload = All[packets' + 1]
        /\ sending'.packages = SubSeq(All, packets' + 2, N + 2)
    BY <1>1, <1>3, <1>4, <1>6, <2>1, <2>2, <2>4
  <2> QED
    BY <1>1, <2>5 DEF Shown, All, N
<1>8. CASE packets < N
  <2> DEFINE n == packets + 1
  <2>1. n \in 1..N /\ n - 1 = packets
    BY <1>3, <1>4, <1>8
  <2>2. Chunk(asked, n) \in Seq(AnyBlock \ {Blank}) /\ Len(Chunk(asked, n)) <= PackageBlocks
    <3>1. Chunk(asked, n) \in Seq(Block) /\ Len(Chunk(asked, n)) \in 1..PackageBlocks
      BY <1>3, <2>1, ChunkIsPart DEF N
    <3>2. Block \subseteq AnyBlock \ {Blank}
      BY HistoryAssumption DEF AnyBlock, Blank
    <3> HIDE DEF n
    <3> QED
      BY <3>1, <3>2, HistoryAssumption
  <2>3. DecodeV3(output.payload) = Chunk(asked, n)
    BY <1>4, <1>5, <2>1, <2>2, DecodesPadded
  <2>4. entries = SubSeq(asked, 1, Before(asked, n - 1))
    BY <1>2, <1>6, <2>1 DEF Collected, N
  <2>5. entries' = SubSeq(asked, 1, Before(asked, n))
    BY <1>1, <1>3, <2>1, <2>3, <2>4, ChunkIsPart DEF N
  <2>6. packets' = n /\ n # 0 /\ n # N + 1
    BY <1>1, <1>3, <1>4, <1>8
  <2> HIDE DEF n
  <2> QED
    BY <1>1, <1>7, <2>5, <2>6 DEF Collected, N
<1>9. CASE packets = N
  <2>1. output.payload = Padded(<<Len(asked)>>)
    BY <1>4, <1>5, <1>9
  <2>2. asked # <<>>
    <3>1. ASSUME asked = <<>> PROVE Padded(<<Len(asked)>>) = ZeroPackage
      <4>1. Len(asked) = Blank /\ Len(<<Len(asked)>>) = 1 /\ <<Len(asked)>>[1] = Blank /\ Len(<<>>) = 0
        BY <3>1 DEF Blank
      <4> QED
        BY <4>1, HistoryAssumption DEF Padded, ZeroPackage
    <3> QED
      BY <1>1, <2>1, <3>1
  <2>3. <<Len(asked)>> \in Seq(AnyBlock \ {Blank}) /\ Len(<<Len(asked)>>) <= PackageBlocks
    <3>1. Len(asked) \in AnyBlock \ {Blank}
      BY <1>3, <2>2, HistoryAssumption DEF AnyBlock, Blank
    <3> QED
      BY <3>1, HistoryAssumption
  <2>4. DecodeV3(output.payload) = <<Len(asked)>>
    BY <2>1, <2>3, DecodesPadded
  <2>5. entries = asked
    BY <1>2, <1>3, <1>4, <1>9, BeforeGrows, TakenFromTheFront DEF Collected, N
  <2>6. entries' = Append(asked, Len(asked))
    <3>1. asked \o <<Len(asked)>> = Append(asked, Len(asked))
      BY <1>3, AppendIsConcat
    <3> QED
      BY <1>1, <2>4, <2>5, <3>1
  <2>7. packets' = N + 1 /\ N + 1 # 0 /\ ~(N + 1 <= N)
    BY <1>1, <1>4, <1>9
  <2> QED
    BY <1>1, <1>7, <2>1, <2>2, <2>6, <2>7 DEF Collected, N
<1> QED
  BY <1>3, <1>4, <1>6, <1>8, <1>9

LEMMA CollectKeepsInv ==
    ASSUME HistoryInv, Collect
    PROVE  HistoryInv'
<1>1. /\ UNCHANGED <<historyVersion, family, log, historyPc, count, start, due, record, outcome, asked>>
      /\ Reading /\ packets' = packets + 1 /\ packets + 1 < MaxPackets /\ last' = output.payload
      /\ output.payload \notin {ZeroPackage, Other} /\ entries' = entries \o DecodeV3(output.payload)
  BY DEF Collect, deviceState
<1>2. HistoryTypeOK /\ AnswersAreOfThePast
  BY DEF HistoryInv
<1>3. output.payload \in Package
  BY <1>1, <1>2 DEF HistoryTypeOK
<1>4. entries' \in Seq(AnyBlock \ {Blank})
  BY <1>1, <1>2, <1>3, DecodesBlocks DEF HistoryTypeOK
<1>5. packets' \in 0..MaxPackets
  BY <1>1, <1>2, HistoryAssumption DEF HistoryTypeOK
<1>6. HistoryTypeOK'
  BY <1>1, <1>2, <1>3, <1>4, <1>5, ReadingMoves DEF HistoryTypeOK
<1>7. AnswersAreOfThePast'
  BY <1>1, <1>2, ReadingMoves DEF AnswersAreOfThePast
<1>8. WhileReadingV3'
  BY <1>1, CollectDecodes, OwnIsShown, ReadingMoves DEF WhileReadingV3
<1> QED
  BY <1>1, <1>6, <1>7, <1>8, ReadingMoves DEF HistoryInv, WhileReadingV4, HistoryIsTrue, HistoryIsLog, RecordIsOfEvent

(***************************************************************************)
(* The package of zeros ends the call, and the count cuts itself off.      *)
(***************************************************************************)
LEMMA CountIsNatural ==
    ASSUME NEW package \in Package
    PROVE  CountIn(package) \in Nat
<1>1. package[1] \in AnyBlock
  BY HistoryAssumption DEF Package
<1> QED
  BY <1>1, HistoryAssumption DEF CountIn, AnyBlock

LEMMA CountedIsPart ==
    ASSUME HistoryTypeOK
    PROVE  Counted(entries) \in Seq(AnyBlock \ {Blank})
<1>1. entries \in Seq(AnyBlock \ {Blank}) /\ Len(entries) \in Nat
  BY DEF HistoryTypeOK
<1>2. last # <<>> => CountIn(last) \in Nat
  BY CountIsNatural DEF HistoryTypeOK
<1> DEFINE n == IF last = <<>> THEN 0 ELSE CountIn(last)
<1>3. n \in Nat
  BY <1>2
<1>4. Counted(entries) = IF n > 0 /\ n < Len(entries) THEN SubSeq(entries, 1, n) ELSE entries
  BY DEF Counted
<1> HIDE DEF n
<1>5. CASE n > 0 /\ n < Len(entries)
  BY <1>1, <1>3, <1>4, <1>5, SubSeqProperties
<1>6. CASE ~(n > 0 /\ n < Len(entries))
  BY <1>1, <1>4, <1>6
<1> QED
  BY <1>5, <1>6

LEMMA CompleteIsLog ==
    ASSUME HistoryInv, Complete, heard' \subseteq {count}
    PROVE  Counted(entries) = asked
<1> DEFINE All == Packages(asked)
           N == Count(asked)
<1>1. Reading /\ output.payload = ZeroPackage
  BY DEF Complete
<1>2. Shown /\ Collected
  BY <1>1, OwnIsShown
<1>3. asked \in Seq(Block) /\ Len(asked) \in Nat /\ Len(asked) <= MaxLog /\ packets \in Nat
  BY DEF HistoryInv, HistoryTypeOK
<1>4. /\ N \in Nat /\ \A n \in 1..N : All[n] = Padded(Chunk(asked, n))
      /\ All[N + 1] = Padded(<<Len(asked)>>)
  BY <1>3, PackagesAre, CountCovers
<1>5. packets <= N + 1 /\ All[packets + 1] = ZeroPackage
  BY <1>1, <1>2 DEF Shown
<1>6. ~(packets < N)
  <2>1. ASSUME packets < N PROVE FALSE
    <3>1. packets + 1 \in 1..N
      BY <1>3, <1>4, <2>1
    <3> QED
      BY <1>3, <1>4, <1>5, <3>1, ChunkIsNotZeros
  <2> QED
    BY <2>1
<1> HIDE DEF All, N
<1>7. 1 \in 1..PackageBlocks /\ Len(<<Len(asked)>>) = 1 /\ <<Len(asked)>>[1] = Len(asked)
  BY HistoryAssumption
<1>8. Padded(<<Len(asked)>>)[1] = Len(asked) /\ ZeroPackage[1] = Blank
  BY <1>7 DEF Padded, ZeroPackage
<1>9. CASE packets = N
  <2>1. Len(asked) = 0
    BY <1>4, <1>5, <1>8, <1>9 DEF Blank
  <2>2. asked = <<>>
    BY <1>3, <2>1
  <2>3. N = 0
    <3>1. N # 0 => 1 \in 1..N
      BY <1>4
    <3>2. 1 \in 1..N => Before(asked, 1 - 1) < Before(asked, 1) /\ Before(asked, 1 - 1) = 0 /\ Before(asked, 1) \in 0..Len(asked)
      BY <1>3, <1>4, BeforeGrows DEF N
    <3> QED
      BY <2>1, <3>1, <3>2
  <2>4. last = <<>> /\ entries = <<>>
    <3>1. packets = 0 /\ packets <= N
      BY <1>9, <2>3
    <3>2. SubSeq(asked, 1, Before(asked, packets)) = <<>>
      BY <1>3, <3>1, BeforeGrows, TakenFromTheFront
    <3> QED
      BY <1>2, <3>1, <3>2 DEF Collected, N
  <2> QED
    BY <2>2, <2>4 DEF Counted
<1>10. CASE packets = N + 1
  <2>1. asked # <<>> /\ entries = Append(asked, Len(asked)) /\ last = Padded(<<Len(asked)>>)
    BY <1>2, <1>10 DEF Collected, N
  <2>2. Len(asked) > 0 /\ Len(asked) \notin Block
    BY <1>3, <2>1, HistoryAssumption
  <2>3. CountIn(last) = Len(asked)
    BY <1>8, <2>1, <2>2 DEF CountIn
  <2>4. last # <<>>
    <3>1. DOMAIN last = 1..PackageBlocks
      BY <2>1 DEF Padded
    <3>2. DOMAIN <<>> = {}
      OBVIOUS
    <3> QED
      BY <1>7, <3>1, <3>2
  <2>5. Len(entries) = Len(asked) + 1
    BY <1>3, <2>1
  <2>6. Counted(entries) = SubSeq(entries, 1, Len(asked))
    BY <1>3, <2>2, <2>3, <2>4, <2>5 DEF Counted
  <2>7. SubSeq(Append(asked, Len(asked)), 1, Len(asked)) = asked
    <3> DEFINE a == Append(asked, Len(asked))
               u == SubSeq(a, 1, Len(asked))
    <3>1. asked \in Seq(AnyBlock)
      BY <1>3 DEF AnyBlock
    <3>2. a \in Seq(AnyBlock) /\ Len(a) = Len(asked) + 1 /\ \A i \in 1..Len(asked) : a[i] = asked[i]
      BY <1>3, <3>1 DEF AnyBlock
    <3> HIDE DEF a
    <3>3. u \in Seq(AnyBlock) /\ Len(u) = Len(asked) /\ \A i \in 1..Len(asked) : u[i] = a[i]
      BY <1>3, <3>2, SubSeqProperties
    <3> HIDE DEF u
    <3>4. u = asked
      BY <3>1, <3>2, <3>3, SeqEqual
    <3> QED
      BY <3>4 DEF a, u
  <2> QED
    BY <2>1, <2>6, <2>7
<1> QED
  BY <1>3, <1>4, <1>5, <1>6, <1>9, <1>10

LEMMA CompleteKeepsInv ==
    ASSUME HistoryInv, Complete
    PROVE  HistoryInv'
<1>1. /\ UNCHANGED <<historyVersion, family, log, count, start, due, record, last, packets, asked>>
      /\ Reading /\ historyPc' = "idle" /\ entries' = Counted(entries)
      /\ outcome' = [status |-> "ok", path |-> "v3"]
  BY DEF Complete, Return, deviceState
<1>2. packets' \in 0..MaxPackets /\ last' \in Package \cup {<<>>}
  BY <1>1 DEF HistoryInv, HistoryTypeOK
<1>3. entries' \in Seq(AnyBlock \ {Blank})
  BY <1>1, CountedIsPart DEF HistoryInv
<1>4. heard' = {count} => entries' = asked
  BY <1>1, CompleteIsLog
<1> QED
  BY <1>1, <1>2, <1>3, <1>4, EndKeepsInv

LEMMA HistoryInvAlways == HistorySpec => []HistoryInv
<1>1. HistoryInv /\ [HistoryNext]_historyVars => HistoryInv'
  BY StoreKeepsInv, PublishRecordKeepsInv, PublishPackageKeepsInv, CallKeepsInv, FailuresKeepInv,
     WriteV4KeepsInv, WriteV3KeepsInv, ReadV4KeepsInv, BrokenOffKeepsInv, CollectKeepsInv, CompleteKeepsInv
     DEF HistoryNext, DeviceActs, ReadingV4, ReadingV3
<1> QED
  BY <1>1, InitHistoryInv, PTL DEF HistorySpec

THEOREM HistoryTypeCorrectness == HistorySpec => []HistoryTypeOK
<1>1. HistoryInv => HistoryTypeOK
  BY DEF HistoryInv
<1> QED
  BY <1>1, HistoryInvAlways, PTL

(***************************************************************************)
(* A v3 history that is returned is the device's, whole and in order, for  *)
(* any size of packages and any history; and a v4 record is of the event   *)
(* asked for: provided that the call has read nothing but its own answer.  *)
(***************************************************************************)
THEOREM HistoryReadIsTrue == HistorySpec => []HistoryIsTrue
<1>1. HistoryInv => HistoryIsTrue
  BY DEF HistoryInv
<1> QED
  BY <1>1, HistoryInvAlways, PTL

=============================================================================
