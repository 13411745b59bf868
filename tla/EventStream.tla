---------------------------- MODULE EventStream ----------------------------
(***************************************************************************)
(* One call of Session.Events (session.go) and the goroutines it leaves    *)
(* running: a worker per subscribed characteristic that decodes its        *)
(* notifications and sends them on the shared events channel, and a closer *)
(* that joins the workers and closes both channels.  The consumer reads    *)
(* the channels when it likes; the caller's context, Session.Close and the *)
(* transport can end the stream at any moment.                             *)
(***************************************************************************)
EXTENDS Naturals, Sequences

CONSTANTS
    Streams,         \* how many characteristics eventSubscriptionCharacteristics lists
    Buffer,          \* EventOptions.Buffer, the capacity of the events channel
    StreamBuffer,    \* capacity of a notification channel of the transport
    MaxNotifications \* bound: notifications the device sends on one characteristic

ASSUME ConstantsAssumption ==
    /\ Streams \in Nat \ {0}
    /\ Buffer \in Nat
    /\ StreamBuffer \in Nat \ {0}
    /\ MaxNotifications \in Nat

VARIABLES
    setup,         \* the Events call: "subscribing", "running" or "failed"
    subscribed,    \* how many of the streams it has subscribed to so far
    sent,          \* notifications the device has sent on each stream
    stream,        \* the notification channel of each stream
    streamClosed,  \* has the transport closed that channel?
    worker,        \* each worker: "none", "select", "sending" or "exited"
    held,          \* the event a sending worker holds
    events,        \* the events channel
    eventsClosed,
    errs,          \* errors in the errs channel, whose capacity is 1
    errsClosed,
    closer,        \* the closer: "none", "waiting", "joining" or "exited"
    ctxDone,       \* is the caller's context done?
    sessionDone,   \* has Session.Close closed s.done?
    received,      \* history: the events the consumer has received
    lost           \* history: events that ended with the worker that held them

subs  == <<setup, subscribed>>
src   == <<sent, stream, streamClosed>>
chans == <<events, eventsClosed, errs, errsClosed>>
ends  == <<ctxDone, sessionDone>>
past  == <<received, lost>>
vars  == <<subs, src, worker, held, chans, closer, ends, past>>

Stream == 1..Streams

(***************************************************************************)
(* A notification is the n-th of its stream; the payload matters only in   *)
(* that decodeNotification accepts it or not.                              *)
(***************************************************************************)
Notification == [stream : Stream, n : 1..MaxNotifications, decodes : BOOLEAN]
NoEvent == [stream |-> 0, n |-> 0, decodes |-> FALSE]

Init ==
    /\ setup = "subscribing" /\ subscribed = 0
    /\ sent = [s \in Stream |-> 0]
    /\ stream = [s \in Stream |-> <<>>]
    /\ streamClosed = [s \in Stream |-> FALSE]
    /\ worker = [s \in Stream |-> "none"]
    /\ held = [s \in Stream |-> NoEvent]
    /\ events = <<>> /\ eventsClosed = FALSE
    /\ errs = 0 /\ errsClosed = FALSE
    /\ closer = "none"
    /\ ctxDone = FALSE /\ sessionDone = FALSE
    /\ received = <<>> /\ lost = {}

----------------------------------------------------------------------------
(***************************************************************************)
(* The Events call subscribes to one characteristic after the other under  *)
(* opMu.  An error returns at once; with the last subscription the workers *)
(* and the closer are started.                                             *)
(***************************************************************************)
\* Mutant of Subscribe: the worker of a stream is started as soon as it is subscribed to.
SubscribeAndStart ==
    /\ setup = "subscribing"
    /\ subscribed < Streams
    /\ subscribed' = subscribed + 1
    /\ worker' = [worker EXCEPT ![subscribed + 1] = "select"]
    /\ UNCHANGED <<setup, src, held, chans, closer, ends, past>>

Subscribe ==
    /\ setup = "subscribing"
    /\ subscribed < Streams
    /\ subscribed' = subscribed + 1
    /\ UNCHANGED <<setup, src, worker, held, chans, closer, ends, past>>

SubscribeFails ==
    /\ setup = "subscribing"
    /\ subscribed < Streams
    /\ setup' = "failed"
    /\ UNCHANGED <<subscribed, src, worker, held, chans, closer, ends, past>>

StartWorkers ==
    /\ setup = "subscribing"
    /\ subscribed = Streams
    /\ setup' = "running"
    /\ worker' = [s \in Stream |-> "select"]
    /\ closer' = "waiting"
    /\ UNCHANGED <<subscribed, src, held, chans, ends, past>>

----------------------------------------------------------------------------
(***************************************************************************)
(* The transport and the device.  A notification that finds its channel    *)
(* full is dropped (subscription.deliver).  The transport may close a      *)
(* channel it handed out at any time.                                      *)
(***************************************************************************)
Notify(s) ==
    /\ s <= subscribed
    /\ ~streamClosed[s]
    /\ sent[s] < MaxNotifications
    /\ sent' = [sent EXCEPT ![s] = @ + 1]
    /\ \E decodes \in BOOLEAN :
          stream' = IF Len(stream[s]) < StreamBuffer
                    THEN [stream EXCEPT ![s] = Append(@, [stream |-> s, n |-> sent[s] + 1, decodes |-> decodes])]
                    ELSE stream
    /\ UNCHANGED <<subs, streamClosed, worker, held, chans, closer, ends, past>>

StreamCloses(s) ==
    /\ s <= subscribed
    /\ ~streamClosed[s]
    /\ streamClosed' = [streamClosed EXCEPT ![s] = TRUE]
    /\ UNCHANGED <<subs, sent, stream, worker, held, chans, closer, ends, past>>

CancelContext ==
    /\ ~ctxDone
    /\ ctxDone' = TRUE
    /\ UNCHANGED <<subs, src, worker, held, chans, closer, sessionDone, past>>

CloseSession ==
    /\ ~sessionDone
    /\ sessionDone' = TRUE
    /\ UNCHANGED <<subs, src, worker, held, chans, closer, ctxDone, past>>

----------------------------------------------------------------------------
(***************************************************************************)
(* A worker.  Its two selects both listen to the context and to the        *)
(* session; a select with several ready cases takes any of them.           *)
(***************************************************************************)
\* Mutant of WorkerStops: the send on events does not listen to the context and the session.
WorkerStopsOnlyInSelect(s) ==
    /\ worker[s] = "select"
    /\ ctxDone \/ sessionDone
    /\ worker' = [worker EXCEPT ![s] = "exited"]
    /\ UNCHANGED <<subs, src, held, chans, closer, ends, past>>

\* Mutant of WorkerStops: the selects do not listen to s.done.
WorkerStopsOnContext(s) ==
    /\ worker[s] \in {"select", "sending"}
    /\ ctxDone
    /\ worker' = [worker EXCEPT ![s] = "exited"]
    /\ held' = [held EXCEPT ![s] = NoEvent]
    /\ lost' = IF worker[s] = "sending" THEN lost \cup {held[s]} ELSE lost
    /\ UNCHANGED <<subs, src, chans, closer, ends, received>>

WorkerStops(s) ==
    /\ worker[s] \in {"select", "sending"}
    /\ ctxDone \/ sessionDone
    /\ worker' = [worker EXCEPT ![s] = "exited"]
    /\ held' = [held EXCEPT ![s] = NoEvent]
    /\ lost' = IF worker[s] = "sending" THEN lost \cup {held[s]} ELSE lost
    /\ UNCHANGED <<subs, src, chans, closer, ends, received>>

WorkerSeesClosedStream(s) ==
    /\ worker[s] = "select"
    /\ streamClosed[s] /\ stream[s] = <<>>
    /\ worker' = [worker EXCEPT ![s] = "exited"]
    /\ UNCHANGED <<subs, src, held, chans, closer, ends, past>>

\* Mutant of WorkerDecodes: a notification is looked at and left in its channel.
WorkerDecodesTwice(s) ==
    /\ worker[s] = "select"
    /\ stream[s] # <<>>
    /\ Head(stream[s]).decodes
    /\ held' = [held EXCEPT ![s] = Head(stream[s])]
    /\ worker' = [worker EXCEPT ![s] = "sending"]
    /\ UNCHANGED <<subs, src, chans, closer, ends, past>>

WorkerDecodes(s) ==
    /\ worker[s] = "select"
    /\ stream[s] # <<>>
    /\ Head(stream[s]).decodes
    /\ held' = [held EXCEPT ![s] = Head(stream[s])]
    /\ worker' = [worker EXCEPT ![s] = "sending"]
    /\ stream' = [stream EXCEPT ![s] = Tail(@)]
    /\ UNCHANGED <<subs, sent, streamClosed, chans, closer, ends, past>>

\* The error is sent only if errs has room, and the worker goes on.
WorkerFailsToDecode(s) ==
    /\ worker[s] = "select"
    /\ stream[s] # <<>>
    /\ ~Head(stream[s]).decodes
    /\ errs' = 1
    /\ stream' = [stream EXCEPT ![s] = Tail(@)]
    /\ UNCHANGED <<subs, sent, streamClosed, worker, held, events, eventsClosed, errsClosed, closer, ends, past>>

(***************************************************************************)
(* The send on events: into the buffer, or straight to a consumer that     *)
(* waits on an empty channel.                                              *)
(***************************************************************************)
SentAway(s) ==
    /\ worker' = [worker EXCEPT ![s] = "select"]
    /\ held' = [held EXCEPT ![s] = NoEvent]
    /\ UNCHANGED <<subs, src, eventsClosed, errs, errsClosed, closer, ends, lost>>

\* Mutant of WorkerSends: the channel takes one event more than its capacity.
WorkerSendsBeyond(s) ==
    /\ worker[s] = "sending"
    /\ Len(events) <= Buffer
    /\ events' = Append(events, held[s])
    /\ SentAway(s)
    /\ UNCHANGED received

\* Mutant of WorkerSends: the send has a default case, as the one on errs has.
WorkerSendsOrDrops(s) ==
    /\ worker[s] = "sending"
    /\ events' = IF Len(events) < Buffer THEN Append(events, held[s]) ELSE events
    /\ lost' = IF Len(events) < Buffer THEN lost ELSE lost \cup {held[s]}
    /\ worker' = [worker EXCEPT ![s] = "select"]
    /\ held' = [held EXCEPT ![s] = NoEvent]
    /\ UNCHANGED <<subs, src, eventsClosed, errs, errsClosed, closer, ends, received>>

WorkerSends(s) ==
    /\ worker[s] = "sending"
    /\ Len(events) < Buffer
    /\ events' = Append(events, held[s])
    /\ SentAway(s)
    /\ UNCHANGED received

WorkerHandsOver(s) ==
    /\ worker[s] = "sending"
    /\ events = <<>>
    /\ received' = Append(received, held[s])
    /\ SentAway(s)
    /\ UNCHANGED events

Receive ==
    /\ events # <<>>
    /\ received' = Append(received, Head(events))
    /\ events' = Tail(events)
    /\ UNCHANGED <<subs, src, worker, held, eventsClosed, errs, errsClosed, closer, ends, lost>>

ReceiveError ==
    /\ errs = 1
    /\ errs' = 0
    /\ UNCHANGED <<subs, src, worker, held, events, eventsClosed, errsClosed, closer, ends, past>>

----------------------------------------------------------------------------
(***************************************************************************)
(* The closer waits for the context only, then for the workers, and closes *)
(* events before errs.                                                     *)
(***************************************************************************)
CloserWakes ==
    /\ closer = "waiting"
    /\ ctxDone
    /\ closer' = "joining"
    /\ UNCHANGED <<subs, src, worker, held, chans, ends, past>>

\* Mutant of CloseEvents: the closer does not wait for the workers.
CloseEventsAtOnce ==
    /\ closer = "joining"
    /\ ~eventsClosed
    /\ eventsClosed' = TRUE
    /\ UNCHANGED <<subs, src, worker, held, events, errs, errsClosed, closer, ends, past>>

CloseEvents ==
    /\ closer = "joining"
    /\ \A s \in Stream : worker[s] = "exited"
    /\ ~eventsClosed
    /\ eventsClosed' = TRUE
    /\ UNCHANGED <<subs, src, worker, held, events, errs, errsClosed, closer, ends, past>>

CloseErrs ==
    /\ closer = "joining"
    /\ eventsClosed
    /\ errsClosed' = TRUE
    /\ closer' = "exited"
    /\ UNCHANGED <<subs, src, worker, held, events, eventsClosed, errs, ends, past>>

----------------------------------------------------------------------------
Worker(s) ==
    \/ WorkerStops(s) \/ WorkerSeesClosedStream(s)
    \/ WorkerDecodes(s) \/ WorkerFailsToDecode(s)
    \/ WorkerSends(s) \/ WorkerHandsOver(s)

Closer == CloserWakes \/ CloseEvents \/ CloseErrs

Environment ==
    \/ \E s \in Stream : Notify(s) \/ StreamCloses(s)
    \/ CancelContext \/ CloseSession
    \/ Receive \/ ReceiveError

Next ==
    \/ Subscribe \/ SubscribeFails \/ StartWorkers
    \/ \E s \in Stream : Worker(s)
    \/ Closer
    \/ Environment

Spec == Init /\ [][Next]_vars

(***************************************************************************)
(* Goroutines that can run do run, and a select with several ready cases   *)
(* does not pass one over for ever.  The device, the transport, the caller *)
(* and the consumer owe nothing: a consumer may stop reading for good.     *)
(***************************************************************************)
Fairness ==
    /\ \A s \in Stream : WF_vars(WorkerStops(s)) /\ WF_vars(WorkerSeesClosedStream(s))
    /\ WF_vars(Closer)

FairSpec == Spec /\ Fairness

----------------------------------------------------------------------------
TypeOK ==
    /\ setup \in {"subscribing", "running", "failed"}
    /\ subscribed \in 0..Streams
    /\ sent \in [Stream -> 0..MaxNotifications]
    /\ stream \in [Stream -> Seq(Notification)]
    /\ streamClosed \in [Stream -> BOOLEAN]
    /\ worker \in [Stream -> {"none", "select", "sending", "exited"}]
    /\ held \in [Stream -> Notification \cup {NoEvent}]
    /\ events \in Seq(Notification) /\ Len(events) <= Buffer
    /\ eventsClosed \in BOOLEAN
    /\ errs \in {0, 1}
    /\ errsClosed \in BOOLEAN
    /\ closer \in {"none", "waiting", "joining", "exited"}
    /\ ctxDone \in BOOLEAN /\ sessionDone \in BOOLEAN
    /\ received \in Seq(Notification)
    /\ lost \subseteq Notification

(***************************************************************************)
(* Nobody sends on a closed channel, which would panic: when the closer    *)
(* closes events and errs, every worker has returned.                      *)
(***************************************************************************)
NoSendOnClosedChannel ==
    eventsClosed \/ errsClosed => \A s \in Stream : worker[s] = "exited"

(***************************************************************************)
(* Events leaves no goroutine behind when it fails, however many of its    *)
(* characteristics it has subscribed to by then, and every worker that     *)
(* runs has a closer that waits for it and for the caller's context.       *)
(***************************************************************************)
WorkersAreAwaited ==
    /\ \A s \in Stream : worker[s] # "none" => setup = "running" /\ closer # "none"
    /\ closer \in {"joining", "exited"} \/ eventsClosed => ctxDone

\* What a call of Events starts is joined before its channels are closed, and it starts all or nothing.
WorkersAreJoined == NoSendOnClosedChannel /\ WorkersAreAwaited

(***************************************************************************)
(* Everything that is, or was, on its way to the consumer when it left its *)
(* worker, and what is still to come of one stream, oldest first.          *)
(***************************************************************************)
Seen == received \o events
Coming(s) == IF worker[s] = "sending" THEN <<held[s]>> \o stream[s] ELSE stream[s]
Path(s) == Seen \o Coming(s)

Before(d, e) == d.stream = e.stream => d.n < e.n
Ordered(queue) == \A i, j \in 1..Len(queue) : i < j => Before(queue[i], queue[j])

(***************************************************************************)
(* The events of one characteristic reach the consumer in the order of the *)
(* notifications, none twice, although the workers share the channel.      *)
(***************************************************************************)
PerStreamOrder == \A s \in Stream : Ordered(Path(s))

(***************************************************************************)
(* An event is given up only when the stream ends, and nothing of its      *)
(* characteristic follows it: however slow the consumer is, what it sees   *)
(* has no gap that a worker made.                                          *)
(***************************************************************************)
LossOnlyAtEnd ==
    \A e \in lost :
        /\ ctxDone \/ sessionDone
        /\ \A i \in 1..Len(Seen) : Before(Seen[i], e)

\* What the consumer sees of a characteristic is in order and has no gap before its end.
InOrderToTheEnd == PerStreamOrder /\ LossOnlyAtEnd

(***************************************************************************)
(* Cancelling the context ends the stream: both channels are closed, also  *)
(* when the consumer has stopped reading and the transport keeps its       *)
(* channels open.                                                          *)
(***************************************************************************)
ClosesOnCancel == setup = "running" /\ ctxDone ~> eventsClosed /\ errsClosed

(***************************************************************************)
(* Closing the session ends every worker, so that none is left reading     *)
(* from a connection that is gone.                                         *)
(***************************************************************************)
WorkersExitOnSessionClose ==
    setup = "running" /\ sessionDone ~> \A s \in Stream : worker[s] = "exited"

\* Each of the two ends of a stream does its part, whatever the consumer does.
EndsTakeEffect == ClosesOnCancel /\ WorkersExitOnSessionClose

=============================================================================
