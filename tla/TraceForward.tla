---------------------------- MODULE TraceForward ----------------------------
(***************************************************************************)
(* One subscription made through the tracing connection of the demo        *)
(* (cmd/timeflip-demo/trace.go): a goroutine logs every notification of    *)
(* the inner subscription and forwards it on a channel without buffer.     *)
(* Its reader is a worker of the event stream, which leaves when its       *)
(* context or the session ends; the inner channel is closed by the         *)
(* connection below, at the latest when the context has ended.             *)
(***************************************************************************)
EXTENDS Naturals, Sequences

CONSTANTS
    InnerBuffer,      \* capacity of the notification channel of the inner connection
    MaxNotifications  \* bound: notifications the inner subscription delivers

ASSUME TraceAssumption == InnerBuffer \in Nat /\ MaxNotifications \in Nat

VARIABLES
    delivered,    \* notifications put into the inner channel
    inner,        \* the inner channel
    innerClosed,
    forwarder,    \* "receiving", "sending" or "exited"
    held,         \* the notification it sends
    outClosed,
    reader,       \* "receiving", "busy" or "left"
    ctxDone, sessionDone,
    logged,       \* history: the notifications in the trace
    received      \* history: the notifications the reader has received

source == <<delivered, inner, innerClosed>>
ends   == <<ctxDone, sessionDone>>
traceVars   == <<source, forwarder, held, outClosed, reader, ends, logged, received>>

TraceInit ==
    /\ delivered = 0 /\ inner = <<>> /\ innerClosed = FALSE
    /\ forwarder = "receiving" /\ held = 0 /\ outClosed = FALSE
    /\ reader = "receiving"
    /\ ctxDone = FALSE /\ sessionDone = FALSE
    /\ logged = <<>> /\ received = <<>>

----------------------------------------------------------------------------
(***************************************************************************)
(* Around the forwarder.  A notification that finds the inner channel full *)
(* is dropped there and never counted.  The reader handles what it has     *)
(* received before it receives again.                                      *)
(***************************************************************************)
Deliver ==
    /\ ~innerClosed
    /\ Len(inner) < InnerBuffer
    /\ delivered < MaxNotifications
    /\ delivered' = delivered + 1
    /\ inner' = Append(inner, delivered + 1)
    /\ UNCHANGED <<innerClosed, forwarder, held, outClosed, reader, ends, logged, received>>

InnerCloses ==
    /\ ~innerClosed
    /\ innerClosed' = TRUE
    /\ UNCHANGED <<delivered, inner, forwarder, held, outClosed, reader, ends, logged, received>>

CancelContext ==
    /\ ~ctxDone
    /\ ctxDone' = TRUE
    /\ UNCHANGED <<source, forwarder, held, outClosed, reader, sessionDone, logged, received>>

CloseSession ==
    /\ ~sessionDone
    /\ sessionDone' = TRUE
    /\ UNCHANGED <<source, forwarder, held, outClosed, reader, ctxDone, logged, received>>

ReaderGoesOn ==
    /\ reader = "busy"
    /\ reader' = "receiving"
    /\ UNCHANGED <<source, forwarder, held, outClosed, ends, logged, received>>

ReaderLeaves ==
    /\ reader # "left"
    /\ ctxDone \/ sessionDone \/ outClosed
    /\ reader' = "left"
    /\ UNCHANGED <<source, forwarder, held, outClosed, ends, logged, received>>

----------------------------------------------------------------------------
(***************************************************************************)
(* The forwarder.                                                          *)
(***************************************************************************)
\* Mutant of Logs: the next notification is taken while one is being sent.
LogsAhead ==
    /\ forwarder # "exited"
    /\ inner # <<>>
    /\ held' = Head(inner) /\ inner' = Tail(inner)
    /\ logged' = Append(logged, Head(inner))
    /\ forwarder' = "sending"
    /\ UNCHANGED <<delivered, innerClosed, outClosed, reader, ends, received>>

Logs ==
    /\ forwarder = "receiving"
    /\ inner # <<>>
    /\ held' = Head(inner) /\ inner' = Tail(inner)
    /\ logged' = Append(logged, Head(inner))
    /\ forwarder' = "sending"
    /\ UNCHANGED <<delivered, innerClosed, outClosed, reader, ends, received>>

\* Mutant of Forwards: a reader that is busy is not waited for.
ForwardsOrDrops ==
    /\ forwarder = "sending"
    /\ IF reader = "receiving"
       THEN received' = Append(received, held) /\ reader' = "busy"
       ELSE UNCHANGED <<received, reader>>
    /\ forwarder' = "receiving" /\ held' = 0
    /\ UNCHANGED <<source, outClosed, ends, logged>>

Forwards ==
    /\ forwarder = "sending"
    /\ reader = "receiving"
    /\ received' = Append(received, held)
    /\ reader' = "busy"
    /\ forwarder' = "receiving" /\ held' = 0
    /\ UNCHANGED <<source, outClosed, ends, logged>>

\* Mutant of Cancelled: a notification that is being sent waits for its reader alone.
CancelledIdle ==
    /\ forwarder = "receiving"
    /\ ctxDone
    /\ forwarder' = "exited" /\ held' = 0 /\ outClosed' = TRUE
    /\ UNCHANGED <<source, reader, ends, logged, received>>

Cancelled ==
    /\ forwarder = "sending"
    /\ ctxDone
    /\ forwarder' = "exited" /\ held' = 0 /\ outClosed' = TRUE
    /\ UNCHANGED <<source, reader, ends, logged, received>>

\* Mutant of SeesInnerClosed: what the closed channel still holds is not looked at.
SeesInnerClosedAtOnce ==
    /\ forwarder = "receiving"
    /\ innerClosed
    /\ forwarder' = "exited" /\ outClosed' = TRUE
    /\ UNCHANGED <<source, held, reader, ends, logged, received>>

SeesInnerClosed ==
    /\ forwarder = "receiving"
    /\ innerClosed /\ inner = <<>>
    /\ forwarder' = "exited" /\ outClosed' = TRUE
    /\ UNCHANGED <<source, held, reader, ends, logged, received>>

----------------------------------------------------------------------------
Forwarder == Logs \/ Forwards \/ Cancelled \/ SeesInnerClosed
TraceNext ==
    \/ Deliver \/ InnerCloses \/ CancelContext \/ CloseSession
    \/ ReaderGoesOn \/ ReaderLeaves
    \/ Forwarder

TraceSpec == TraceInit /\ [][TraceNext]_traceVars

(***************************************************************************)
(* The forwarder runs, and its select does not pass the context over for   *)
(* ever; a cancelled subscription is closed by the connection below.  The  *)
(* reader may be busy for ever: its consumer owes it nothing.              *)
(***************************************************************************)
TraceFairness ==
    /\ WF_traceVars(Logs) /\ WF_traceVars(SeesInnerClosed)
    /\ SF_traceVars(Cancelled)
    /\ WF_traceVars(ctxDone /\ InnerCloses)

TraceFairSpec == TraceSpec /\ TraceFairness

----------------------------------------------------------------------------
TraceTypeOK ==
    /\ delivered \in 0..MaxNotifications
    /\ inner \in Seq(1..MaxNotifications) /\ Len(inner) <= InnerBuffer
    /\ innerClosed \in BOOLEAN /\ outClosed \in BOOLEAN
    /\ forwarder \in {"receiving", "sending", "exited"}
    /\ held \in 0..MaxNotifications
    /\ reader \in {"receiving", "busy", "left"}
    /\ ctxDone \in BOOLEAN /\ sessionDone \in BOOLEAN
    /\ logged \in Seq(1..MaxNotifications)
    /\ received \in Seq(1..MaxNotifications)

(***************************************************************************)
(* Tracing does not reorder, repeat or drop what the inner subscription    *)
(* delivers; at most InnerBuffer notifications and one are under way.      *)
(***************************************************************************)
UnderWay ==
    IF forwarder = "exited" THEN <<>>
    ELSE (IF forwarder = "sending" THEN <<held>> ELSE <<>>) \o inner
Ordered == INSTANCE OrderedStream WITH Capacity <- InnerBuffer + 1, queue <- UnderWay,
                                       taken <- received, ended <- forwarder = "exited"
CarriesNotifications == Ordered!Spec

(***************************************************************************)
(* The trace is what happened: it tells every notification that reached    *)
(* the application, and at the most one that did not, for which the        *)
(* forwarder still waits or was cancelled.                                 *)
(***************************************************************************)
TraceIsTrue ==
    /\ SubSeq(logged, 1, Len(received)) = received
    /\ Len(logged) <= Len(received) + 1
    /\ Len(logged) > Len(received) => forwarder = "sending" \/ ctxDone

(***************************************************************************)
(* Nothing is lost unless the context ended: a subscription closed by the  *)
(* connection is forwarded to its last notification first.                 *)
(***************************************************************************)
CloseDrains == forwarder = "exited" /\ ~ctxDone => Len(received) = delivered

\* What tracing adds to a subscription is a true trace, and nothing it adds loses a notification.
TracingIsHarmless == TraceIsTrue /\ CloseDrains

(***************************************************************************)
(* Cancelling the context closes the channel, whatever the reader does;    *)
(* this is how stop, close and exit of the demo end the forwarder.         *)
(***************************************************************************)
EndsOnCancel == ctxDone ~> outClosed

=============================================================================
