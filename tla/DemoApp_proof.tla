--------------------------- MODULE DemoApp_proof ---------------------------
(***************************************************************************)
(* The demo: the safety properties of DemoApp, for any number of devices,  *)
(* sessions and streams.  Those of the sessions hold for every user; those *)
(* of the streams for one who waits for a stopped stream to end.           *)
(***************************************************************************)
EXTENDS DemoApp, TLAPS

SessionType ==
    [device : Device, phase : {"open", "closed"}, authorized : BOOLEAN]
        \cup [device : {NoDevice}, phase : {"unused"}, authorized : {FALSE}]

StreamType ==
    [session : Session \cup {NoSession}, cancelled : BOOLEAN,
     pc : {"unused", "running", "leaving", "ended"}]

ScalarsOK ==
    /\ main \in {"prompt", "connecting", "unpairing", "subscribing", "exited"}
    /\ target \in Device \cup {NoDevice}
    /\ selected \in Device \cup {NoDevice}
    /\ active \in Session \cup {NoSession}
    /\ authorized \in BOOLEAN
    /\ canceler \in DemoStream \cup {NoStream}

LEMMA TypeParts ==
    DemoTypeOK <=> ScalarsOK /\ session \in [Session -> SessionType] /\ demoStream \in [DemoStream -> StreamType]
BY DEF DemoTypeOK, ScalarsOK, SessionType, StreamType

(***************************************************************************)
(* Connect replaces the active session by assignment, so it must find none *)
(* when the library returns: the session there was is closed before it is  *)
(* called, and no other command runs in between.                           *)
(***************************************************************************)
ConnectingAlone == main = "connecting" => active = NoSession /\ target \in Device

SessionInv ==
    /\ ScalarsOK
    /\ session \in [Session -> SessionType]
    /\ demoStream \in [DemoStream -> StreamType]
    /\ OnlyActiveSessionOpen
    /\ AuthorizedIsOfActiveSession
    /\ ConnectingAlone

\* What cleanup leaves behind, of the sessions.
LEMMA CleanupSessions ==
    ASSUME SessionInv, Cleanup
    PROVE  /\ active' = NoSession /\ authorized' = FALSE /\ canceler' = NoStream
           /\ session' \in [Session -> SessionType]
           /\ demoStream' \in [DemoStream -> StreamType]
           /\ \A s \in Session : session'[s].phase # "open"
<1>1. active' = NoSession /\ authorized' = FALSE /\ canceler' = NoStream
  BY DEF Cleanup, ClearSession, StopStream
<1>2. session' \in [Session -> SessionType] /\ \A s \in Session : session'[s].phase # "open"
  <2>1. CASE active = NoSession
    BY <2>1, DemoConstants DEF Cleanup, CloseActive, SessionInv, OnlyActiveSessionOpen
  <2>2. CASE active # NoSession
    <3>1. active \in Session /\ session[active].phase = "open"
      BY <2>2 DEF SessionInv, ScalarsOK, OnlyActiveSessionOpen
    <3>2. [session[active] EXCEPT !.phase = "closed"] \in SessionType
      BY <3>1 DEF SessionInv, SessionType
    <3>3. session' = [session EXCEPT ![active] = [session[active] EXCEPT !.phase = "closed"]]
      BY <2>2 DEF Cleanup, CloseActive
    <3>4. session'[active].phase = "closed"
      BY <3>1, <3>3 DEF SessionInv, SessionType
    <3> QED
      BY <3>1, <3>2, <3>3, <3>4 DEF SessionInv, OnlyActiveSessionOpen
  <2> QED
    BY <2>1, <2>2
<1>3. demoStream' \in [DemoStream -> StreamType]
  <2>1. CASE canceler = NoStream
    BY <2>1 DEF Cleanup, StopStream, SessionInv
  <2>2. CASE canceler # NoStream
    <3>1. [demoStream[canceler] EXCEPT !.cancelled = TRUE] \in StreamType
      BY <2>2 DEF SessionInv, ScalarsOK, StreamType
    <3> QED
      BY <2>2, <3>1 DEF Cleanup, StopStream, SessionInv
  <2> QED
    BY <2>1, <2>2
<1> QED
  BY <1>1, <1>2, <1>3

\* Every command that cleans up goes to a state without an open session.
LEMMA CleanupKeepsSessionInv ==
    ASSUME SessionInv, Cleanup,
           main' \in {"prompt", "connecting", "exited"},
           main' = "connecting" => target' \in Device,
           target' \in Device \cup {NoDevice}, selected' \in Device \cup {NoDevice}
    PROVE  SessionInv'
BY CleanupSessions, DemoConstants
   DEF SessionInv, ScalarsOK, OnlyActiveSessionOpen, AuthorizedIsOfActiveSession, ConnectingAlone

LEMMA InitSessionInv == DemoInit => SessionInv
<1> SUFFICES ASSUME DemoInit PROVE SessionInv
  OBVIOUS
<1>1. session \in [Session -> SessionType]
  BY DEF DemoInit, SessionType
<1>2. demoStream \in [DemoStream -> StreamType]
  BY DEF DemoInit, StreamType
<1>3. \A s \in Session : session[s].phase = "unused"
  BY DEF DemoInit
<1> QED
  BY <1>1, <1>2, <1>3, DemoConstants
     DEF DemoInit, SessionInv, ScalarsOK, OnlyActiveSessionOpen, AuthorizedIsOfActiveSession, ConnectingAlone

LEMMA CommandKeepsSessionInv ==
    ASSUME SessionInv, Command
    PROVE  SessionInv'
<1> DEFINE Plain == UNCHANGED <<active, authorized, session, demoStream>>
<1>1. ASSUME Plain, ScalarsOK', main' \notin {"connecting", "exited"}
      PROVE  SessionInv'
  BY <1>1 DEF SessionInv, OnlyActiveSessionOpen, AuthorizedIsOfActiveSession, ConnectingAlone
<1>2. ASSUME NEW d \in Device \cup {NoDevice}, Pair(d) PROVE SessionInv'
  BY <1>1, <1>2 DEF Pair, SelectedDevice, SessionInv, ScalarsOK
<1>3. ASSUME NEW d \in Device \cup {NoDevice}, Connect(d) PROVE SessionInv'
  <2>1. CASE active = NoSession
    BY <1>3, <2>1 DEF Connect, SelectedDevice, SessionInv, ScalarsOK, OnlyActiveSessionOpen,
       AuthorizedIsOfActiveSession, ConnectingAlone, state
  <2>2. CASE active # NoSession
    BY <1>3, <2>2, CleanupKeepsSessionInv DEF Connect, SelectedDevice, SessionInv, ScalarsOK
  <2> QED
    BY <2>1, <2>2
<1>4. ASSUME NEW d \in Device \cup {NoDevice}, Unpair(d) PROVE SessionInv'
  BY <1>1, <1>4 DEF Unpair, SelectedDevice, SessionInv, ScalarsOK, state
<1>5. ASSUME NEW d \in Device, List(d) \/ Select(d) PROVE SessionInv'
  BY <1>1, <1>5 DEF List, Select, SessionInv, ScalarsOK
<1>6. CASE Authorize
  <2>1. active \in Session /\ session[active].phase = "open"
    BY <1>6 DEF Authorize, SessionInv, ScalarsOK, OnlyActiveSessionOpen
  <2>2. [session[active] EXCEPT !.authorized = TRUE] \in SessionType
    BY <2>1 DEF SessionInv, SessionType
  <2>3. session' = [session EXCEPT ![active] = [session[active] EXCEPT !.authorized = TRUE]]
    BY <1>6 DEF Authorize
  <2>4. session'[active].authorized /\ session'[active].phase = "open"
    BY <2>1, <2>3 DEF SessionInv, SessionType
  <2> QED
    BY <1>6, <2>1, <2>2, <2>3, <2>4 DEF Authorize, SessionInv, ScalarsOK, OnlyActiveSessionOpen,
       AuthorizedIsOfActiveSession, ConnectingAlone
<1>7. CASE Close
  BY <1>7, CleanupKeepsSessionInv DEF Close, SessionInv, ScalarsOK
<1>8. CASE StreamCommand
  BY <1>1, <1>8 DEF StreamCommand, SessionInv, ScalarsOK, state
<1>9. CASE Stop
  <2>1. [demoStream[canceler] EXCEPT !.cancelled = TRUE] \in StreamType
    BY <1>9 DEF Stop, SessionInv, ScalarsOK, StreamType
  <2>2. demoStream' \in [DemoStream -> StreamType] /\ canceler' = NoStream
    BY <1>9, <2>1 DEF Stop, StopStream, SessionInv
  <2> QED
    BY <1>9, <2>2 DEF Stop, SessionInv, ScalarsOK, OnlyActiveSessionOpen,
       AuthorizedIsOfActiveSession, ConnectingAlone
<1>10. CASE Exit
  BY <1>10, CleanupKeepsSessionInv DEF Exit, SessionInv, ScalarsOK
<1> QED
  BY <1>2, <1>3, <1>4, <1>5, <1>6, <1>7, <1>8, <1>9, <1>10 DEF Command

LEMMA ReturnKeepsSessionInv ==
    ASSUME SessionInv, Returns
    PROVE  SessionInv'
<1>1. ASSUME NEW s \in Session, ConnectReturns(s) PROVE SessionInv'
  <2> DEFINE new == [device |-> target, phase |-> "open", authorized |-> FALSE]
  <2>1. active = NoSession /\ target \in Device
    BY <1>1 DEF ConnectReturns, SessionInv, ConnectingAlone
  <2>2. new \in SessionType /\ new.phase = "open"
    BY <2>1 DEF SessionType
  <2>3. \A x \in Session : session[x].phase # "open"
    BY <2>1, DemoConstants DEF SessionInv, OnlyActiveSessionOpen
  <2>4. session' = [session EXCEPT ![s] = new]
    BY <1>1 DEF ConnectReturns
  <2>5. active' = s /\ authorized' = FALSE
    BY <1>1 DEF ConnectReturns, SetSession
  <2> HIDE DEF new
  <2> QED
    BY <1>1, <2>1, <2>2, <2>3, <2>4, <2>5 DEF ConnectReturns, SessionInv, ScalarsOK,
       OnlyActiveSessionOpen, AuthorizedIsOfActiveSession, ConnectingAlone
<1>2. CASE ConnectFails
  BY <1>2 DEF ConnectFails, SessionInv, ScalarsOK, OnlyActiveSessionOpen,
     AuthorizedIsOfActiveSession, ConnectingAlone, state
<1>3. CASE UnpairReturns
  <2>1. CASE active # NoSession /\ selected = target
    BY <1>3, <2>1, CleanupKeepsSessionInv DEF UnpairReturns, SessionInv, ScalarsOK
  <2>2. CASE ~(active # NoSession /\ selected = target)
    BY <1>3, <2>2 DEF UnpairReturns, SessionInv, ScalarsOK, OnlyActiveSessionOpen,
       AuthorizedIsOfActiveSession, ConnectingAlone, state
  <2> QED
    BY <2>1, <2>2
<1>4. ASSUME NEW t \in DemoStream, EventsReturn(t) PROVE SessionInv'
  <2>1. [session |-> active, cancelled |-> FALSE, pc |-> "running"] \in StreamType
    BY DEF SessionInv, ScalarsOK, StreamType
  <2>2. demoStream' \in [DemoStream -> StreamType]
    BY <1>4, <2>1 DEF EventsReturn, SessionInv
  <2> QED
    BY <1>4, <2>2 DEF EventsReturn, SessionInv, ScalarsOK, OnlyActiveSessionOpen,
       AuthorizedIsOfActiveSession, ConnectingAlone
<1>5. CASE EventsFail
  BY <1>5 DEF EventsFail, SessionInv, ScalarsOK, OnlyActiveSessionOpen,
     AuthorizedIsOfActiveSession, ConnectingAlone, state
<1> QED
  BY <1>1, <1>2, <1>3, <1>4, <1>5 DEF Returns

LEMMA StreamKeepsSessionInv ==
    ASSUME SessionInv, NEW t \in DemoStream, Streaming(t)
    PROVE  SessionInv'
<1>1. \A place \in {"leaving", "ended"} : [demoStream[t] EXCEPT !.pc = place] \in StreamType
  BY DEF SessionInv, StreamType
<1>2. demoStream' \in [DemoStream -> StreamType]
  BY <1>1 DEF Streaming, StreamLeaves, ClearStream, SessionInv
<1> QED
  BY <1>2 DEF Streaming, StreamLeaves, ClearStream, SessionInv, ScalarsOK, OnlyActiveSessionOpen,
     AuthorizedIsOfActiveSession, ConnectingAlone, state

LEMMA StepKeepsSessionInv == SessionInv /\ [DemoNext]_demoVars => SessionInv'
<1> SUFFICES ASSUME SessionInv, [DemoNext]_demoVars PROVE SessionInv'
  OBVIOUS
<1>1. CASE UNCHANGED demoVars
  BY <1>1 DEF demoVars, state, SessionInv, ScalarsOK, OnlyActiveSessionOpen,
     AuthorizedIsOfActiveSession, ConnectingAlone
<1> QED
  BY <1>1, CommandKeepsSessionInv, ReturnKeepsSessionInv, StreamKeepsSessionInv DEF DemoNext

(***************************************************************************)
(* The state of the demo is well typed in every reachable state.           *)
(***************************************************************************)
THEOREM TypeCorrectness == DemoSpec => []DemoTypeOK
<1>1. SessionInv => DemoTypeOK
  BY TypeParts DEF SessionInv
<1> QED
  BY <1>1, InitSessionInv, StepKeepsSessionInv, PTL DEF DemoSpec

(***************************************************************************)
(* No command sequence leaks a session: an open session is the active one, *)
(* and after exit there is none.                                           *)
(***************************************************************************)
THEOREM NoSessionLeak == DemoSpec => []OnlyActiveSessionOpen
<1>1. SessionInv => OnlyActiveSessionOpen
  BY DEF SessionInv
<1> QED
  BY <1>1, InitSessionInv, StepKeepsSessionInv, PTL DEF DemoSpec

(***************************************************************************)
(* The authorization that the demo shows is that of the session in use.    *)
(***************************************************************************)
THEOREM AuthorizationIsCurrent == DemoSpec => []AuthorizedIsOfActiveSession
<1>1. SessionInv => AuthorizedIsOfActiveSession
  BY DEF SessionInv
<1> QED
  BY <1>1, InitSessionInv, StepKeepsSessionInv, PTL DEF DemoSpec

----------------------------------------------------------------------------
(***************************************************************************)
(* The streams.  For a user who waits, the cancel function that is stored  *)
(* is that of the one stream that was not cancelled, and there is none     *)
(* while a cancelled stream has its clearStream still to run: the deferred *)
(* call can only clear what is cleared already.                            *)
(***************************************************************************)
Live(t) == demoStream[t].pc = "running" /\ ~demoStream[t].cancelled

StoredIsLive ==
    /\ StreamIsCancellable
    /\ StreamsStopWithSession
    /\ canceler # NoStream => active # NoSession

ClearedWhileEnding ==
    \A t \in DemoStream :
        /\ demoStream[t].pc = "leaving" => demoStream[t].cancelled
        /\ demoStream[t].cancelled /\ demoStream[t].pc # "ended" => canceler = NoStream

SubscribingAlone ==
    main = "subscribing" =>
        /\ active # NoSession /\ canceler = NoStream
        /\ \A t \in DemoStream : demoStream[t].cancelled => demoStream[t].pc = "ended"

StreamInv ==
    /\ demoStream \in [DemoStream -> StreamType]
    /\ canceler \in DemoStream \cup {NoStream}
    /\ StoredIsLive
    /\ ClearedWhileEnding
    /\ SubscribingAlone
    /\ main = "connecting" => canceler = NoStream

\* After stopStream no stream is live.
LEMMA StopStreamEndsAll ==
    ASSUME StreamInv, StopStream
    PROVE  /\ canceler' = NoStream
           /\ demoStream' \in [DemoStream -> StreamType]
           /\ \A t \in DemoStream : ~Live(t)'
           /\ \A t \in DemoStream : demoStream'[t].pc = "leaving" => demoStream'[t].cancelled
<1>1. CASE canceler = NoStream
  BY <1>1, DemoConstants DEF StopStream, StreamInv, StoredIsLive, StreamIsCancellable, ClearedWhileEnding, Live
<1>2. CASE canceler # NoStream
  <2> DEFINE stopped == [demoStream[canceler] EXCEPT !.cancelled = TRUE]
  <2>1. canceler \in DemoStream
    BY <1>2 DEF StreamInv
  <2>2. stopped \in StreamType /\ stopped.cancelled
    BY <2>1 DEF StreamInv, StreamType
  <2>3. demoStream' = [demoStream EXCEPT ![canceler] = stopped] /\ canceler' = NoStream
    BY <1>2 DEF StopStream
  <2> HIDE DEF stopped
  <2> QED
    BY <2>1, <2>2, <2>3 DEF StreamInv, StoredIsLive, StreamIsCancellable, ClearedWhileEnding, Live
<1> QED
  BY <1>1, <1>2

LEMMA StopKeepsStreamInv ==
    ASSUME StreamInv, StopStream, main' # "subscribing"
    PROVE  StreamInv'
BY StopStreamEndsAll DEF StreamInv, StoredIsLive, StreamIsCancellable, StreamsStopWithSession,
   ClearedWhileEnding, SubscribingAlone, Live

LEMMA InitStreamInv == DemoInit => StreamInv
<1> SUFFICES ASSUME DemoInit PROVE StreamInv
  OBVIOUS
<1>1. demoStream \in [DemoStream -> StreamType]
  BY DEF DemoInit, StreamType
<1>2. \A t \in DemoStream : demoStream[t].pc = "unused"
  BY DEF DemoInit
<1> QED
  BY <1>1, <1>2 DEF DemoInit, StreamInv, StoredIsLive, StreamIsCancellable, StreamsStopWithSession,
     ClearedWhileEnding, SubscribingAlone

LEMMA CommandKeepsStreamInv ==
    ASSUME Patient, StreamInv, Command
    PROVE  StreamInv'
<1>1. ASSUME UNCHANGED <<active, canceler, demoStream>>, main' \notin {"connecting", "subscribing"}
      PROVE  StreamInv'
  BY <1>1 DEF StreamInv, StoredIsLive, StreamIsCancellable, StreamsStopWithSession,
     ClearedWhileEnding, SubscribingAlone
<1>2. ASSUME NEW d \in Device \cup {NoDevice}, Pair(d) \/ Unpair(d) PROVE StreamInv'
  BY <1>1, <1>2 DEF Pair, Unpair, state
<1>3. ASSUME NEW d \in Device \cup {NoDevice}, Connect(d) PROVE StreamInv'
  <2>1. CASE active = NoSession
    BY <1>3, <2>1 DEF Connect, state, StreamInv, StoredIsLive, StreamIsCancellable,
       StreamsStopWithSession, ClearedWhileEnding, SubscribingAlone
  <2>2. CASE active # NoSession
    BY <1>3, <2>2, StopKeepsStreamInv DEF Connect, Cleanup
  <2> QED
    BY <2>1, <2>2
<1>4. CASE (\E d \in Device : List(d) \/ Select(d)) \/ Authorize
  BY <1>1, <1>4 DEF List, Select, Authorize
<1>5. CASE Close \/ Exit
  BY <1>5, StopKeepsStreamInv DEF Close, Exit, Cleanup
<1>6. CASE StreamCommand
  BY <1>6 DEF StreamCommand, Waited, state, StreamInv, StoredIsLive, StreamIsCancellable,
     StreamsStopWithSession, ClearedWhileEnding, SubscribingAlone
<1>7. CASE Stop
  BY <1>7, StopKeepsStreamInv DEF Stop
<1> QED
  BY <1>2, <1>3, <1>4, <1>5, <1>6, <1>7 DEF Command

LEMMA ReturnKeepsStreamInv ==
    ASSUME StreamInv, active \in Session \cup {NoSession}, Returns
    PROVE  StreamInv'
<1>1. ASSUME NEW s \in Session, ConnectReturns(s) PROVE StreamInv'
  BY <1>1, DemoConstants DEF ConnectReturns, SetSession, StreamInv, StoredIsLive,
     StreamIsCancellable, StreamsStopWithSession, ClearedWhileEnding, SubscribingAlone
<1>2. CASE ConnectFails \/ EventsFail
  BY <1>2 DEF ConnectFails, EventsFail, state, StreamInv, StoredIsLive, StreamIsCancellable,
     StreamsStopWithSession, ClearedWhileEnding, SubscribingAlone
<1>3. CASE UnpairReturns
  <2>1. CASE active # NoSession /\ selected = target
    BY <1>3, <2>1, StopKeepsStreamInv DEF UnpairReturns, Cleanup
  <2>2. CASE ~(active # NoSession /\ selected = target)
    BY <1>3, <2>2 DEF UnpairReturns, state, StreamInv, StoredIsLive, StreamIsCancellable,
       StreamsStopWithSession, ClearedWhileEnding, SubscribingAlone
  <2> QED
    BY <2>1, <2>2
<1>4. ASSUME NEW t \in DemoStream, EventsReturn(t) PROVE StreamInv'
  <2> DEFINE new == [session |-> active, cancelled |-> FALSE, pc |-> "running"]
  <2>1. new \in StreamType /\ new.session = active /\ ~new.cancelled /\ new.pc = "running"
    BY DEF StreamType
  <2>2. demoStream' = [demoStream EXCEPT ![t] = new]
    BY <1>4 DEF EventsReturn
  <2> HIDE DEF new
  <2>3. /\ canceler = NoStream /\ active # NoSession
        /\ \A x \in DemoStream : demoStream[x].cancelled => demoStream[x].pc = "ended"
    BY <1>4 DEF EventsReturn, StreamInv, SubscribingAlone
  <2>4. \A x \in DemoStream : ~Live(x)
    BY <2>3, DemoConstants DEF StreamInv, StoredIsLive, StreamIsCancellable, Live
  <2> QED
    BY <1>4, <2>1, <2>2, <2>3, <2>4 DEF EventsReturn, StreamInv, StoredIsLive, StreamIsCancellable,
       StreamsStopWithSession, ClearedWhileEnding, SubscribingAlone, Live
<1> QED
  BY <1>1, <1>2, <1>3, <1>4 DEF Returns

\* A stream that leaves was cancelled, so no cancel function is stored that it could clear.
LEMMA StreamingKeepsStreamInv ==
    ASSUME StreamInv, NEW t \in DemoStream, Streaming(t)
    PROVE  StreamInv'
<1>1. demoStream[t].cancelled /\ demoStream[t].pc # "ended" /\ canceler = NoStream
  BY DEF Streaming, StreamLeaves, ClearStream, StreamInv, ClearedWhileEnding
<1>2. canceler' = NoStream
  BY <1>1 DEF Streaming, StreamLeaves, ClearStream, state
<1>3. PICK place \in {"leaving", "ended"} : demoStream' = [demoStream EXCEPT ![t] = [demoStream[t] EXCEPT !.pc = place]]
  BY DEF Streaming, StreamLeaves, ClearStream
<1> DEFINE new == [demoStream[t] EXCEPT !.pc = place]
<1>4. new \in StreamType /\ new.cancelled /\ new.pc = place
  BY <1>1 DEF StreamInv, StreamType
<1>5. main' = main /\ active' = active
  BY DEF Streaming, StreamLeaves, ClearStream, state
<1>6. main # "subscribing"
  BY <1>1 DEF StreamInv, SubscribingAlone
<1>7. demoStream' = [demoStream EXCEPT ![t] = new]
  BY <1>3
<1> HIDE DEF new
<1> QED
  BY <1>1, <1>2, <1>4, <1>5, <1>6, <1>7 DEF StreamInv, StoredIsLive, StreamIsCancellable,
     StreamsStopWithSession, ClearedWhileEnding, SubscribingAlone

LEMMA StepKeepsStreamInv ==
    ASSUME Patient
    PROVE  SessionInv /\ StreamInv /\ [DemoNext]_demoVars => StreamInv'
<1> SUFFICES ASSUME SessionInv, StreamInv, [DemoNext]_demoVars PROVE StreamInv'
  OBVIOUS
<1>1. active \in Session \cup {NoSession}
  BY DEF SessionInv, ScalarsOK
<1>2. CASE UNCHANGED demoVars
  BY <1>2 DEF demoVars, state, StreamInv, StoredIsLive, StreamIsCancellable, StreamsStopWithSession,
     ClearedWhileEnding, SubscribingAlone
<1> QED
  BY <1>1, <1>2, CommandKeepsStreamInv, ReturnKeepsStreamInv, StreamingKeepsStreamInv DEF DemoNext

(***************************************************************************)
(* For a user who waits for a stopped stream to end before starting        *)
(* another, ActiveStreamCancel is the cancel function of the stream that   *)
(* runs: it can always be stopped.                                         *)
(***************************************************************************)
THEOREM PatientUserCanStop == ASSUME Patient PROVE DemoSpec => []StreamIsCancellable
<1>1. StreamInv => StreamIsCancellable
  BY DEF StreamInv, StoredIsLive
<1>2. SessionInv /\ StreamInv /\ [DemoNext]_demoVars => StreamInv'
  BY StepKeepsStreamInv
<1> QED
  BY <1>1, <1>2, InitSessionInv, StepKeepsSessionInv, InitStreamInv, PTL DEF DemoSpec

(***************************************************************************)
(* For that user, a stream ends before its session is closed or replaced.  *)
(***************************************************************************)
THEOREM PatientStreamsStopWithSession == ASSUME Patient PROVE DemoSpec => []StreamsStopWithSession
<1>1. StreamInv => StreamsStopWithSession
  BY DEF StreamInv, StoredIsLive
<1>2. SessionInv /\ StreamInv /\ [DemoNext]_demoVars => StreamInv'
  BY StepKeepsStreamInv
<1> QED
  BY <1>1, <1>2, InitSessionInv, StepKeepsSessionInv, InitStreamInv, PTL DEF DemoSpec
=============================================================================
