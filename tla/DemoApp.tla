------------------------------ MODULE DemoApp ------------------------------
(***************************************************************************)
(* The process state of the demo CLI (cmd/timeflip-demo/app.go and         *)
(* commands.go): the selected device, the active session, its              *)
(* authorization flag and the cancel function of the active stream.        *)
(* Commands run one after the other on the main goroutine; every stream    *)
(* has a goroutine that clears the stream state when it ends, whenever     *)
(* that is.  The sessions and their event streams are modelled by what the *)
(* demo sees of them: event channels close only after their context is     *)
(* done (module EventStream).                                              *)
(***************************************************************************)
CONSTANTS
    Device,     \* device identifiers
    Session,    \* the sessions that Client.Connect hands out, in turn
    DemoStream, \* the event streams that Session.Events hands out, in turn
    NoDevice,   \* no device selected; also the device of a session not handed out
    NoSession,  \* ActiveSession is nil
    NoStream,   \* ActiveStreamCancel is nil
    Patient     \* does the user wait for a stopped stream to end before starting another?

ASSUME DemoConstants ==
    /\ NoDevice \notin Device
    /\ NoSession \notin Session
    /\ NoStream \notin DemoStream
    /\ Patient \in BOOLEAN

VARIABLES
    main,       \* the main goroutine: at the "prompt", "connecting", "unpairing", "subscribing" or "exited"
    target,     \* the device that the command in progress is about
    selected,   \* state.SelectedDeviceID
    active,     \* state.ActiveSession
    authorized, \* state.Authorized
    canceler,   \* the stream that state.ActiveStreamCancel cancels
    session,    \* each session: its device, whether it is "unused", "open" or "closed", and whether it was authorized
    demoStream  \* each stream: its session, whether its context was cancelled, and its goroutine:
                \* "unused", "running", "leaving" (its deferred clearStream is to come) or "ended"

state    == <<selected, active, authorized, canceler>>
demoVars == <<main, target, state, session, demoStream>>

DemoInit ==
    /\ main = "prompt"
    /\ target = NoDevice
    /\ selected = NoDevice
    /\ active = NoSession
    /\ authorized = FALSE
    /\ canceler = NoStream
    /\ session = [s \in Session |-> [device |-> NoDevice, phase |-> "unused", authorized |-> FALSE]]
    /\ demoStream = [t \in DemoStream |-> [session |-> NoSession, cancelled |-> FALSE, pc |-> "unused"]]

----------------------------------------------------------------------------
(***************************************************************************)
(* The helpers of the state.                                               *)
(***************************************************************************)
\* Mutant of SelectedDevice: an empty answer is not refused.
SelectedDeviceUnchecked == Device \cup {selected}

\* The device a command is about: typed, selected before, or asked for.
SelectedDevice == Device

SetSession(s) == active' = s /\ authorized' = FALSE

\* Mutant of ClearSession: the authorization outlives the session.
ClearSessionOnly == active' = NoSession /\ authorized' = authorized

ClearSession == active' = NoSession /\ authorized' = FALSE

\* Mutant of StopStream: the cancel function is dropped and not called.
DropStream == canceler' = NoStream /\ demoStream' = demoStream

StopStream ==
    /\ canceler' = NoStream
    /\ demoStream' = IF canceler = NoStream THEN demoStream ELSE [demoStream EXCEPT ![canceler].cancelled = TRUE]

CloseActive ==
    session' = IF active = NoSession THEN session ELSE [session EXCEPT ![active].phase = "closed"]

\* Mutant of Cleanup: the stream is not stopped.
CleanupWithoutStop == CloseActive /\ ClearSession /\ UNCHANGED <<canceler, demoStream>>

\* Mutant of Cleanup: the session is forgotten and left open.
ForgetSession == StopStream /\ ClearSession /\ session' = session

Cleanup == StopStream /\ CloseActive /\ ClearSession

----------------------------------------------------------------------------
(***************************************************************************)
(* The commands.  One that the user abandons at a question, or that fails  *)
(* before it has changed anything, is a stutter.                           *)
(***************************************************************************)
\* A listing that finds one supported device, and none selected, offers to select it.
List(d) ==
    /\ main = "prompt"
    /\ selected = NoDevice
    /\ selected' = d
    /\ UNCHANGED <<main, target, active, authorized, canceler, session, demoStream>>

Select(d) ==
    /\ main = "prompt"
    /\ selected' = d
    /\ UNCHANGED <<main, target, active, authorized, canceler, session, demoStream>>

\* Pair works on a connection of its own and leaves the device selected, whatever comes of it.
Pair(d) ==
    /\ main = "prompt"
    /\ d \in SelectedDevice
    /\ selected' = d
    /\ UNCHANGED <<main, target, active, authorized, canceler, session, demoStream>>

\* With the user's consent a session is closed first; an error of its Close ends the command.
Connect(d) ==
    /\ main = "prompt"
    /\ d \in SelectedDevice
    /\ target' = d
    /\ main' \in {"connecting"} \cup (IF active = NoSession THEN {} ELSE {"prompt"})
    /\ IF active = NoSession THEN UNCHANGED <<state, session, demoStream>> ELSE Cleanup /\ UNCHANGED selected

ConnectReturns(s) ==
    /\ main = "connecting"
    /\ session[s].phase = "unused"
    /\ session' = [session EXCEPT ![s] = [device |-> target, phase |-> "open", authorized |-> FALSE]]
    /\ selected' = target
    /\ SetSession(s)
    /\ main' = "prompt"
    /\ UNCHANGED <<target, canceler, demoStream>>

ConnectFails ==
    /\ main = "connecting"
    /\ main' = "prompt"
    /\ UNCHANGED <<target, state, session, demoStream>>

\* A failed attempt leaves the flag as it was.
Authorize ==
    /\ main = "prompt"
    /\ active # NoSession
    /\ session' = [session EXCEPT ![active].authorized = TRUE]
    /\ authorized' = TRUE
    /\ UNCHANGED <<main, target, selected, active, canceler, demoStream>>

Close ==
    /\ main = "prompt"
    /\ Cleanup
    /\ UNCHANGED <<main, target, selected>>

\* Client.Unpair works on a connection of its own.
Unpair(d) ==
    /\ main = "prompt"
    /\ d \in SelectedDevice
    /\ target' = d
    /\ main' = "unpairing"
    /\ UNCHANGED <<state, session, demoStream>>

\* Whatever it returned, the session is cleaned up if its device is the selected one.
UnpairReturns ==
    /\ main = "unpairing"
    /\ main' = "prompt"
    /\ IF active # NoSession /\ selected = target
       THEN Cleanup /\ UNCHANGED selected
       ELSE UNCHANGED <<state, session, demoStream>>
    /\ UNCHANGED target

\* A patient user has seen every stopped stream end.
Waited == Patient => \A t \in DemoStream : demoStream[t].cancelled => demoStream[t].pc = "ended"

\* Mutant of StreamCommand: streamActive is not asked.
StreamCommandAgain ==
    /\ main = "prompt"
    /\ active # NoSession
    /\ Waited
    /\ main' = "subscribing"
    /\ UNCHANGED <<target, state, session, demoStream>>

StreamCommand ==
    /\ main = "prompt"
    /\ active # NoSession
    /\ canceler = NoStream
    /\ Waited
    /\ main' = "subscribing"
    /\ UNCHANGED <<target, state, session, demoStream>>

\* Events returns; setStreamCancel, then the goroutine is started.
EventsReturn(t) ==
    /\ main = "subscribing"
    /\ demoStream[t].pc = "unused"
    /\ demoStream' = [demoStream EXCEPT ![t] = [session |-> active, cancelled |-> FALSE, pc |-> "running"]]
    /\ canceler' = t
    /\ main' = "prompt"
    /\ UNCHANGED <<target, selected, active, authorized, session>>

EventsFail ==
    /\ main = "subscribing"
    /\ main' = "prompt"
    /\ UNCHANGED <<target, state, session, demoStream>>

Stop ==
    /\ main = "prompt"
    /\ canceler # NoStream
    /\ StopStream
    /\ UNCHANGED <<main, target, selected, active, authorized, session>>

\* exit, end of input, or an input error.
Exit ==
    /\ main = "prompt"
    /\ Cleanup
    /\ main' = "exited"
    /\ UNCHANGED <<target, selected>>

----------------------------------------------------------------------------
(***************************************************************************)
(* The goroutine of a stream prints events until its context is done, or   *)
(* until both channels are closed, which happens only after that; then     *)
(* its deferred clearStream runs.                                          *)
(***************************************************************************)
StreamLeaves(t) ==
    /\ demoStream[t].pc = "running"
    /\ demoStream[t].cancelled
    /\ demoStream' = [demoStream EXCEPT ![t].pc = "leaving"]
    /\ UNCHANGED <<main, target, state, session>>

ClearStream(t) ==
    /\ demoStream[t].pc = "leaving"
    /\ demoStream' = [demoStream EXCEPT ![t].pc = "ended"]
    /\ canceler' = NoStream
    /\ UNCHANGED <<main, target, selected, active, authorized, session>>

----------------------------------------------------------------------------
Command ==
    \/ \E d \in Device \cup {NoDevice} : Pair(d) \/ Connect(d) \/ Unpair(d)
    \/ \E d \in Device : List(d) \/ Select(d)
    \/ Authorize \/ Close \/ StreamCommand \/ Stop \/ Exit

Returns ==
    \/ \E s \in Session : ConnectReturns(s)
    \/ ConnectFails
    \/ UnpairReturns
    \/ \E t \in DemoStream : EventsReturn(t)
    \/ EventsFail

Streaming(t) == StreamLeaves(t) \/ ClearStream(t)

DemoNext ==
    \/ Command
    \/ Returns
    \/ \E t \in DemoStream : Streaming(t)

DemoSpec == DemoInit /\ [][DemoNext]_demoVars

\* Goroutines run and library calls return; the user may do nothing for ever.
DemoFairness ==
    /\ WF_demoVars(Returns)
    /\ \A t \in DemoStream : WF_demoVars(Streaming(t))

DemoFairSpec == DemoSpec /\ DemoFairness

----------------------------------------------------------------------------
DemoTypeOK ==
    /\ main \in {"prompt", "connecting", "unpairing", "subscribing", "exited"}
    /\ target \in Device \cup {NoDevice}
    /\ selected \in Device \cup {NoDevice}
    /\ active \in Session \cup {NoSession}
    /\ authorized \in BOOLEAN
    /\ canceler \in DemoStream \cup {NoStream}
    /\ session \in [Session -> [device : Device, phase : {"open", "closed"}, authorized : BOOLEAN]
                               \cup [device : {NoDevice}, phase : {"unused"}, authorized : {FALSE}]]
    /\ demoStream \in [DemoStream -> [session : Session \cup {NoSession}, cancelled : BOOLEAN,
                              pc : {"unused", "running", "leaving", "ended"}]]

(***************************************************************************)
(* No session is leaked: the only session that may be open is the active   *)
(* one, and the active one is open, whatever was connected, unpaired or    *)
(* replaced before.  After exit none is.                                   *)
(***************************************************************************)
OnlyActiveSessionOpen ==
    /\ \A s \in Session : session[s].phase = "open" <=> s = active
    /\ main = "exited" => active = NoSession

(***************************************************************************)
(* The flag shown to the user speaks of the session in use, never of one   *)
(* that was closed or replaced.                                            *)
(***************************************************************************)
AuthorizedIsOfActiveSession == authorized => active # NoSession /\ session[active].authorized

(***************************************************************************)
(* A stream that runs can be stopped: ActiveStreamCancel is its cancel     *)
(* function until it has been called.                                      *)
(***************************************************************************)
StreamIsCancellable ==
    \A t \in DemoStream : demoStream[t].pc = "running" /\ ~demoStream[t].cancelled => canceler = t

(***************************************************************************)
(* A stream that was not cancelled belongs to the active session: streams  *)
(* are stopped before their session is closed or replaced.                 *)
(***************************************************************************)
StreamsStopWithSession ==
    \A t \in DemoStream : demoStream[t].pc = "running" /\ ~demoStream[t].cancelled => demoStream[t].session = active

(***************************************************************************)
(* No stream goroutine is left running after exit.                         *)
(***************************************************************************)
ExitEndsStreams ==
    main = "exited" ~> \A t \in DemoStream : demoStream[t].pc \in {"unused", "ended"}

=============================================================================
