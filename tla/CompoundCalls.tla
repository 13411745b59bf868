--------------------------- MODULE CompoundCalls ---------------------------
(***************************************************************************)
(* The calls of a session (session.go) that are made of several steps,     *)
(* each of which takes opMu for itself or not at all: SetLED sends two     *)
(* commands, ReadTrackerStatus sends one and then reads the facet.  Other  *)
(* calls and the user, who turns and taps the device, come in between.     *)
(* Commands are those of CommandService, which module SessionRefinement    *)
(* shows the sessions of a prompt transport to implement.                  *)
(***************************************************************************)
EXTENDS Naturals, FiniteSets

CONSTANTS
    Caller,   \* goroutines that share the session, each of which makes one call
    NoCaller, \* no command is being served; a setting that no call has made
    Face   \* facets of the device

ASSUME NoCallerAssumption == NoCaller \notin Caller

VARIABLES
    phase, serving, got, \* see CommandService
    callPc,   \* each call: "none", the step it is at, "ok" or "error"
    obeyed,   \* has the device obeyed the command it executed for this call?
    led,      \* the calls whose brightness and blink period the device has
    paused,   \* is the device paused?
    facet,    \* the facet that is up
    status,   \* what each ReadTrackerStatus has read so far
    quiet,    \* history: calls beside and after which no other SetLED has run
    bright,   \* history: the calls whose brightness the device has had
    since     \* history: pauses since each call began, facets since its status was read

service       == <<phase, serving, got>>
ledPauseFacet == <<led, paused, facet>>
callPast      == <<quiet, bright, since>>
callsVars     == <<service, callPc, obeyed, ledPauseFacet, status, callPast>>

Service == INSTANCE CommandService WITH Proc <- Caller, NoProc <- NoCaller

CallStep == {"brightness", "blink", "status", "facet"}
NoStatus == [paused |-> {}, facet |-> {}]

CallsInit ==
    /\ Service!Init
    /\ callPc = [p \in Caller |-> "none"]
    /\ obeyed = [p \in Caller |-> FALSE]
    /\ led = [brightness |-> NoCaller, blink |-> NoCaller]
    /\ paused \in BOOLEAN /\ facet \in Face
    /\ status = [p \in Caller |-> NoStatus]
    /\ quiet = {} /\ bright = {}
    /\ since = [p \in Caller |-> [paused |-> {}, facet |-> {}]]

Goto(p, place) == callPc' = [callPc EXCEPT ![p] = place]

----------------------------------------------------------------------------
(***************************************************************************)
(* A call begins.  SetLED refuses values out of range at once.             *)
(***************************************************************************)
SettingLED == {p \in Caller : callPc[p] \in {"brightness", "blink"}}

SetLED(p) ==
    /\ callPc[p] = "none"
    /\ \/ /\ Goto(p, "error")
          /\ UNCHANGED quiet
       \/ /\ Goto(p, "brightness")
          /\ quiet' = IF SettingLED = {} THEN {p} ELSE {}
    /\ UNCHANGED <<service, obeyed, ledPauseFacet, status, bright, since>>

ReadTrackerStatus(p) ==
    /\ callPc[p] = "none"
    /\ Goto(p, "status")
    /\ since' = [since EXCEPT ![p] = [paused |-> {paused}, facet |-> {}]]
    /\ UNCHANGED <<service, obeyed, ledPauseFacet, status, quiet, bright>>

----------------------------------------------------------------------------
(***************************************************************************)
(* A command of a call: it is sent, the device obeys it or refuses it, and *)
(* the caller gets the answer or an error, also after an execution.        *)
(***************************************************************************)
Send(p) ==
    /\ callPc[p] \in {"brightness", "blink", "status"}
    /\ Service!Call(p)
    /\ obeyed' = [obeyed EXCEPT ![p] = FALSE]
    /\ UNCHANGED <<callPc, ledPauseFacet, status, callPast>>

Refuse(p) ==
    /\ Service!Execute(p)
    /\ UNCHANGED <<callPc, obeyed, ledPauseFacet, status, callPast>>

ObeyBrightness(p) ==
    /\ callPc[p] = "brightness"
    /\ led' = [led EXCEPT !.brightness = p]
    /\ bright' = bright \cup {p}
    /\ UNCHANGED <<status, since>>

ObeyBlink(p) ==
    /\ callPc[p] = "blink"
    /\ led' = [led EXCEPT !.blink = p]
    /\ UNCHANGED <<status, bright, since>>

ObeyStatus(p) ==
    /\ callPc[p] = "status"
    /\ status' = [status EXCEPT ![p].paused = {paused}]
    /\ since' = [since EXCEPT ![p].facet = {facet}]
    /\ UNCHANGED <<led, bright>>

Obey(p) ==
    /\ Service!Execute(p)
    /\ obeyed' = [obeyed EXCEPT ![p] = TRUE]
    /\ ObeyBrightness(p) \/ ObeyBlink(p) \/ ObeyStatus(p)
    /\ UNCHANGED <<callPc, paused, facet, quiet>>

\* Mutant of AfterAnswer: the first command is taken for the whole call.
AfterFirstAnswer(p) ==
    IF ~obeyed[p] THEN "error" ELSE IF callPc[p] = "status" THEN "facet" ELSE "ok"

AfterAnswer(p) ==
    IF ~obeyed[p] THEN "error"
    ELSE CASE callPc[p] = "brightness" -> "blink"
           [] callPc[p] = "blink"      -> "ok"
           [] callPc[p] = "status"     -> "facet"

Answered(p) ==
    /\ Service!Answer(p)
    /\ Goto(p, AfterAnswer(p))
    /\ UNCHANGED <<obeyed, ledPauseFacet, status, callPast>>

CommandFails(p) ==
    /\ Service!Fail(p)
    /\ Goto(p, "error")
    /\ UNCHANGED <<obeyed, ledPauseFacet, status, callPast>>

(***************************************************************************)
(* The facet is read without opMu; when that fails the status is returned  *)
(* without it.                                                             *)
(***************************************************************************)
\* Mutant of ReadFacet: the facet is read before the command is sent.
ReadFacetFirst(p) ==
    \/ /\ callPc[p] = "status" /\ phase[p] = "idle"
       /\ status' = [status EXCEPT ![p].facet = {facet}]
       /\ UNCHANGED <<service, callPc, obeyed, ledPauseFacet, callPast>>
    \/ /\ callPc[p] = "facet"
       /\ Goto(p, "ok")
       /\ UNCHANGED <<service, obeyed, ledPauseFacet, status, callPast>>

ReadFacet(p) ==
    /\ callPc[p] = "facet"
    /\ \E read \in {{}, {facet}} : status' = [status EXCEPT ![p].facet = read]
    /\ Goto(p, "ok")
    /\ UNCHANGED <<service, obeyed, ledPauseFacet, callPast>>

----------------------------------------------------------------------------
(***************************************************************************)
(* The user taps the device or turns it.                                   *)
(***************************************************************************)
Tap ==
    /\ paused' = ~paused
    /\ since' = [p \in Caller |-> IF callPc[p] = "status"
                                  THEN [since[p] EXCEPT !.paused = @ \cup {~paused}] ELSE since[p]]
    /\ UNCHANGED <<service, callPc, obeyed, led, facet, status, quiet, bright>>

Turn ==
    /\ facet' \in Face \ {facet}
    /\ since' = [p \in Caller |-> IF since[p].facet # {} /\ callPc[p] \in CallStep
                               THEN [since[p] EXCEPT !.facet = @ \cup {facet'}] ELSE since[p]]
    /\ UNCHANGED <<service, callPc, obeyed, led, paused, status, quiet, bright>>

CallsNext ==
    \/ \E p \in Caller :
          \/ SetLED(p) \/ ReadTrackerStatus(p)
          \/ Send(p) \/ Refuse(p) \/ Obey(p) \/ Answered(p) \/ CommandFails(p)
          \/ ReadFacet(p)
    \/ Tap \/ Turn

CallsSpec == CallsInit /\ [][CallsNext]_callsVars

----------------------------------------------------------------------------
CallsTypeOK ==
    /\ callPc \in [Caller -> CallStep \cup {"none", "ok", "error"}]
    /\ obeyed \in [Caller -> BOOLEAN]
    /\ led \in [brightness : Caller \cup {NoCaller}, blink : Caller \cup {NoCaller}]
    /\ paused \in BOOLEAN /\ facet \in Face
    /\ status \in [Caller -> [paused : SUBSET BOOLEAN, facet : SUBSET Face]]
    /\ quiet \subseteq Caller /\ bright \subseteq Caller
    /\ since \in [Caller -> [paused : SUBSET BOOLEAN, facet : SUBSET Face]]

(***************************************************************************)
(* A SetLED that failed half-way has left the new brightness with the old  *)
(* blink period, never the other way round; and one that returned without  *)
(* an error has left both, unless another SetLED ran beside it or after    *)
(* it.  (Beside each other, two that succeed may leave one setting each.)  *)
(***************************************************************************)
HalfSetOneWay ==
    /\ led.blink \in Caller => led.blink \in bright
    /\ \A p \in quiet :
          /\ led.blink = p => led.brightness = p
          /\ callPc[p] = "ok" => led = [brightness |-> p, blink |-> p]

(***************************************************************************)
(* A tracker status tells a pause state that the device had during the     *)
(* call and a facet that was up after that state was read; the two need    *)
(* never have been true at the same time.                                  *)
(***************************************************************************)
StatusIsOfItsTime ==
    \A p \in Caller : callPc[p] = "ok" =>
        /\ status[p].paused \subseteq since[p].paused
        /\ status[p].facet \subseteq since[p].facet

\* A call made of several steps leaves and tells no more than the steps allow.
CompoundCallsHold == HalfSetOneWay /\ StatusIsOfItsTime

=============================================================================
