------------------------- MODULE EventStream_proof -------------------------
(***************************************************************************)
(* Proofs about the event stream, for any number of characteristics and    *)
(* any channel capacities, and about what its workers decode and the other *)
(* reads of a session do, for any bytes.                                   *)
(***************************************************************************)
EXTENDS EventStream, Codec, SequenceTheorems, WellFoundedInduction, TLAPS

(***************************************************************************)
(* WorkersAreJoined is inductive together with two facts: a channel        *)
(* is closed only by a closer that has been woken, and workers and closer  *)
(* are started once, by the step that ends the setup.                      *)
(***************************************************************************)
WorkerType == worker \in [Stream -> {"none", "select", "sending", "exited"}]

ClosedByCloser ==
    /\ eventsClosed \/ errsClosed => closer # "none"
    /\ errsClosed => eventsClosed
    /\ closer # "none" => setup = "running"

ClosingInv == WorkerType /\ ClosedByCloser /\ NoSendOnClosedChannel /\ WorkersAreAwaited

LEMMA InitClosingInv == Init => ClosingInv
BY DEF Init, ClosingInv, WorkerType, ClosedByCloser, NoSendOnClosedChannel, WorkersAreAwaited

LEMMA WorkerKeepsClosingInv ==
    ASSUME ClosingInv, NEW s \in Stream, Worker(s)
    PROVE  ClosingInv'
<1> USE DEF ClosingInv, WorkerType, ClosedByCloser, NoSendOnClosedChannel, WorkersAreAwaited, chans, subs, ends
<1>1. CASE WorkerStops(s)
  BY <1>1 DEF WorkerStops
<1>2. CASE WorkerSeesClosedStream(s)
  BY <1>2 DEF WorkerSeesClosedStream
<1>3. CASE WorkerDecodes(s)
  BY <1>3 DEF WorkerDecodes
<1>4. CASE WorkerFailsToDecode(s)
  BY <1>4 DEF WorkerFailsToDecode
<1>5. CASE WorkerSends(s)
  BY <1>5 DEF WorkerSends, SentAway
<1>6. CASE WorkerHandsOver(s)
  BY <1>6 DEF WorkerHandsOver, SentAway
<1> QED
  BY <1>1, <1>2, <1>3, <1>4, <1>5, <1>6 DEF Worker

LEMMA StepKeepsClosingInv == ClosingInv /\ [Next]_vars => ClosingInv'
<1> SUFFICES ASSUME ClosingInv, [Next]_vars PROVE ClosingInv'
  OBVIOUS
<1> USE DEF ClosingInv, WorkerType, ClosedByCloser, NoSendOnClosedChannel, WorkersAreAwaited, ends
<1>1. CASE Subscribe \/ SubscribeFails
  BY <1>1 DEF Subscribe, SubscribeFails, chans
<1>2. CASE StartWorkers
  BY <1>2 DEF StartWorkers, chans
<1>3. ASSUME NEW s \in Stream, Worker(s) PROVE ClosingInv'
  BY <1>3, WorkerKeepsClosingInv
<1>4. CASE CloserWakes
  BY <1>4 DEF CloserWakes, chans, subs
<1>5. CASE CloseEvents
  BY <1>5 DEF CloseEvents, subs
<1>6. CASE CloseErrs
  BY <1>6 DEF CloseErrs, subs
<1>7. CASE Environment
  BY <1>7 DEF Environment, Notify, StreamCloses, CancelContext, CloseSession, Receive, ReceiveError,
      chans, subs
<1>8. CASE UNCHANGED vars
  BY <1>8 DEF vars, chans, subs
<1> QED
  BY <1>1, <1>2, <1>3, <1>4, <1>5, <1>6, <1>7, <1>8 DEF Next, Closer

(***************************************************************************)
(* No worker sends on events or errs once the closer has closed them: the  *)
(* program does not panic, whatever the order of cancellation, session     *)
(* close and notifications.  A call of Events that fails half-way has      *)
(* started none, and every worker is joined by a closer that acts only     *)
(* when the caller's context is done.                                      *)
(***************************************************************************)
THEOREM NoPanic == Spec => []WorkersAreJoined
<1>1. ClosingInv => WorkersAreJoined
  BY DEF ClosingInv, WorkersAreJoined
<1> QED
  BY <1>1, InitClosingInv, StepKeepsClosingInv, PTL DEF Spec

----------------------------------------------------------------------------
(***************************************************************************)
(* Types.  A worker that is sending holds a notification, which it has     *)
(* taken off its stream.                                                   *)
(***************************************************************************)
HoldsWhenSending == \A s \in Stream : worker[s] = "sending" => held[s] \in Notification

Types == TypeOK /\ HoldsWhenSending

LEMMA InitTypes == Init => Types
<1> SUFFICES ASSUME Init PROVE Types
  OBVIOUS
<1>1. held \in [Stream -> Notification \cup {NoEvent}]
  BY DEF Init
<1>2. events \in Seq(Notification) /\ Len(events) <= Buffer /\ received \in Seq(Notification)
  BY ConstantsAssumption DEF Init
<1>3. stream \in [Stream -> Seq(Notification)] /\ sent \in [Stream -> 0..MaxNotifications]
  BY ConstantsAssumption DEF Init
<1>4. subscribed \in 0..Streams /\ lost \subseteq Notification
  BY ConstantsAssumption DEF Init
<1>5. streamClosed \in [Stream -> BOOLEAN] /\ worker \in [Stream -> {"none", "select", "sending", "exited"}]
  BY DEF Init
<1>6. HoldsWhenSending
  BY DEF Init, HoldsWhenSending
<1> QED
  BY <1>1, <1>2, <1>3, <1>4, <1>5, <1>6 DEF Init, Types, TypeOK

\* The first notification of a stream, and what follows it.
LEMMA HeadOfStream ==
    ASSUME Types, NEW s \in Stream, stream[s] # <<>>
    PROVE  Head(stream[s]) \in Notification /\ Tail(stream[s]) \in Seq(Notification)
<1>1. stream[s] \in Seq(Notification)
  BY DEF Types, TypeOK
<1> QED
  BY <1>1

LEMMA NotifyKeepsTypes ==
    ASSUME Types, NEW s \in Stream, Notify(s)
    PROVE  Types'
<1>1. PICK decodes \in BOOLEAN :
          stream' = IF Len(stream[s]) < StreamBuffer
                    THEN [stream EXCEPT ![s] = Append(@, [stream |-> s, n |-> sent[s] + 1, decodes |-> decodes])]
                    ELSE stream
  BY DEF Notify
<1>2. sent[s] + 1 \in 1..MaxNotifications
  BY ConstantsAssumption DEF Notify, Types, TypeOK
<1>3. [stream |-> s, n |-> sent[s] + 1, decodes |-> decodes] \in Notification
  BY <1>2 DEF Notification
<1>4. stream' \in [Stream -> Seq(Notification)]
  BY <1>1, <1>3 DEF Types, TypeOK
<1>5. sent' \in [Stream -> 0..MaxNotifications]
  BY <1>2 DEF Notify, Types, TypeOK
<1> QED
  BY <1>4, <1>5 DEF Notify, subs, chans, ends, past, Types, TypeOK, HoldsWhenSending

LEMMA WorkerKeepsTypes ==
    ASSUME Types, NEW s \in Stream, Worker(s)
    PROVE  Types'
<1> USE DEF subs, src, chans, ends, past
<1>1. CASE WorkerStops(s)
  BY <1>1 DEF WorkerStops, Types, TypeOK, HoldsWhenSending
<1>2. CASE WorkerSeesClosedStream(s)
  BY <1>2 DEF WorkerSeesClosedStream, Types, TypeOK, HoldsWhenSending
<1>3. CASE WorkerDecodes(s)
  BY <1>3, HeadOfStream DEF WorkerDecodes, Types, TypeOK, HoldsWhenSending
<1>4. CASE WorkerFailsToDecode(s)
  BY <1>4, HeadOfStream DEF WorkerFailsToDecode, Types, TypeOK, HoldsWhenSending
<1>5. CASE WorkerSends(s)
  <2>1. events' \in Seq(Notification) /\ Len(events') <= Buffer
    BY <1>5, ConstantsAssumption DEF WorkerSends, Types, TypeOK, HoldsWhenSending
  <2> QED
    BY <1>5, <2>1 DEF WorkerSends, SentAway, Types, TypeOK, HoldsWhenSending
<1>6. CASE WorkerHandsOver(s)
  <2>1. received' \in Seq(Notification)
    BY <1>6 DEF WorkerHandsOver, Types, TypeOK, HoldsWhenSending
  <2> QED
    BY <1>6, <2>1 DEF WorkerHandsOver, SentAway, Types, TypeOK, HoldsWhenSending
<1> QED
  BY <1>1, <1>2, <1>3, <1>4, <1>5, <1>6 DEF Worker

LEMMA StepKeepsTypes == Types /\ [Next]_vars => Types'
<1> SUFFICES ASSUME Types, [Next]_vars PROVE Types'
  OBVIOUS
<1> USE DEF subs, src, chans, ends, past
<1>1. CASE Subscribe \/ SubscribeFails
  BY <1>1, ConstantsAssumption DEF Subscribe, SubscribeFails, Types, TypeOK, HoldsWhenSending
<1>2. CASE StartWorkers
  BY <1>2 DEF StartWorkers, Types, TypeOK, HoldsWhenSending
<1>3. ASSUME NEW s \in Stream, Worker(s) PROVE Types'
  BY <1>3, WorkerKeepsTypes
<1>4. CASE Closer
  BY <1>4 DEF Closer, CloserWakes, CloseEvents, CloseErrs, Types, TypeOK, HoldsWhenSending
<1>5. ASSUME NEW s \in Stream, Notify(s) PROVE Types'
  BY <1>5, NotifyKeepsTypes
<1>6. ASSUME NEW s \in Stream, StreamCloses(s) PROVE Types'
  BY <1>6 DEF StreamCloses, Types, TypeOK, HoldsWhenSending
<1>7. CASE CancelContext \/ CloseSession \/ ReceiveError
  BY <1>7 DEF CancelContext, CloseSession, ReceiveError, Types, TypeOK, HoldsWhenSending
<1>8. CASE Receive
  <2>1. /\ Head(events) \in Notification /\ Tail(events) \in Seq(Notification)
        /\ Len(Tail(events)) <= Buffer
    BY <1>8, ConstantsAssumption DEF Receive, Types, TypeOK
  <2> QED
    BY <1>8, <2>1 DEF Receive, Types, TypeOK, HoldsWhenSending
<1>9. CASE UNCHANGED vars
  BY <1>9 DEF vars, Types, TypeOK, HoldsWhenSending
<1> QED
  BY <1>1, <1>2, <1>3, <1>4, <1>5, <1>6, <1>7, <1>8, <1>9 DEF Next, Environment

(***************************************************************************)
(* Every reachable state is well typed: the events channel never holds     *)
(* more than its capacity, and what is sent on it is a notification of the *)
(* device.                                                                 *)
(***************************************************************************)
THEOREM TypeCorrectness == Spec => []TypeOK
<1>1. Types => TypeOK
  BY DEF Types
<1> QED
  BY <1>1, InitTypes, StepKeepsTypes, PTL DEF Spec

----------------------------------------------------------------------------
(***************************************************************************)
(* Order and loss.  The argument is about two queues for each stream, what *)
(* has been seen and what is still to come: every step leaves both, drops  *)
(* the head of what is to come, moves it to the end of what has been seen, *)
(* or adds a newer notification to what is to come.  A worker that gives   *)
(* up an event has exited, and what is to come of its stream stays there.  *)
(***************************************************************************)
Precedes(p, q) == \A i \in 1..Len(p), j \in 1..Len(q) : Before(p[i], q[j])

LEMMA OrderedConcat ==
    ASSUME NEW p \in Seq(Notification), NEW q \in Seq(Notification)
    PROVE  Ordered(p \o q) <=> Ordered(p) /\ Ordered(q) /\ Precedes(p, q)
<1> DEFINE pq == p \o q
<1>1. /\ Len(p) \in Nat /\ Len(q) \in Nat /\ Len(pq) = Len(p) + Len(q)
      /\ \A i \in 1..Len(p) : pq[i] = p[i]
      /\ \A i \in 1..Len(q) : pq[Len(p) + i] = q[i]
  BY ConcatProperties
<1>2. ASSUME Ordered(pq) PROVE Ordered(p) /\ Ordered(q) /\ Precedes(p, q)
  <2> HIDE DEF pq
  <2>1. Ordered(p)
    BY <1>1, <1>2 DEF Ordered
  <2>2. Ordered(q)
    <3> SUFFICES ASSUME NEW i \in 1..Len(q), NEW j \in 1..Len(q), i < j PROVE Before(q[i], q[j])
      BY DEF Ordered
    <3>1. Len(p) + i \in 1..Len(pq) /\ Len(p) + j \in 1..Len(pq) /\ Len(p) + i < Len(p) + j
      BY <1>1
    <3>2. Before(pq[Len(p) + i], pq[Len(p) + j])
      BY <1>2, <3>1 DEF Ordered
    <3> QED
      BY <1>1, <3>2
  <2>3. Precedes(p, q)
    <3> SUFFICES ASSUME NEW i \in 1..Len(p), NEW j \in 1..Len(q) PROVE Before(p[i], q[j])
      BY DEF Precedes
    <3>1. i \in 1..Len(pq) /\ Len(p) + j \in 1..Len(pq) /\ i < Len(p) + j
      BY <1>1
    <3>2. Before(pq[i], pq[Len(p) + j])
      BY <1>2, <3>1 DEF Ordered
    <3> QED
      BY <1>1, <3>2
  <2> QED
    BY <2>1, <2>2, <2>3
<1>3. ASSUME Ordered(p), Ordered(q), Precedes(p, q) PROVE Ordered(pq)
  <2> HIDE DEF pq
  <2> SUFFICES ASSUME NEW i \in 1..Len(pq), NEW j \in 1..Len(pq), i < j PROVE Before(pq[i], pq[j])
    BY DEF Ordered
  <2>1. CASE j <= Len(p)
    BY <1>1, <1>3, <2>1 DEF Ordered
  <2>2. CASE i <= Len(p) /\ j > Len(p)
    <3>1. j - Len(p) \in 1..Len(q) /\ Len(p) + (j - Len(p)) = j /\ i \in 1..Len(p)
      BY <1>1, <2>2
    <3>2. pq[j] = q[j - Len(p)] /\ pq[i] = p[i]
      BY <1>1, <3>1
    <3> QED
      BY <1>3, <3>1, <3>2 DEF Precedes
  <2>3. CASE i > Len(p)
    <3>1. /\ j - Len(p) \in 1..Len(q) /\ Len(p) + (j - Len(p)) = j
          /\ i - Len(p) \in 1..Len(q) /\ Len(p) + (i - Len(p)) = i
          /\ i - Len(p) < j - Len(p)
      BY <1>1, <2>3
    <3>2. pq[j] = q[j - Len(p)] /\ pq[i] = q[i - Len(p)]
      BY <1>1, <3>1
    <3> QED
      BY <1>3, <3>1, <3>2 DEF Ordered
  <2> QED
    BY <1>1, <2>1, <2>2, <2>3
<1> QED
  BY <1>2, <1>3

Numbered == \A i \in 1..Len(Seen) : Seen[i].n <= sent[Seen[i].stream]

ComingOf(s) == \A i \in 1..Len(Coming(s)) : Coming(s)[i].stream = s /\ Coming(s)[i].n <= sent[s]

QueueInv ==
    /\ Ordered(Seen) /\ Numbered
    /\ \A s \in Stream : ComingOf(s) /\ Ordered(Coming(s)) /\ Precedes(Seen, Coming(s))

LossInv ==
    /\ setup = "subscribing" => lost = {} /\ \A s \in Stream : worker[s] = "none"
    /\ \A e \in lost : worker[e.stream] = "exited"
    /\ LossOnlyAtEnd

OrderInv == Types /\ QueueInv /\ LossInv

QueueTypes == Seen \in Seq(Notification) /\ \A s \in Stream : Coming(s) \in Seq(Notification)

LEMMA QueuesOfNotifications == Types => QueueTypes
<1> SUFFICES ASSUME Types PROVE QueueTypes
  OBVIOUS
<1>1. Seen \in Seq(Notification)
  BY ConcatProperties DEF Seen, Types, TypeOK
<1>2. ASSUME NEW s \in Stream PROVE Coming(s) \in Seq(Notification)
  <2>1. stream[s] \in Seq(Notification)
    BY DEF Types, TypeOK
  <2>2. CASE worker[s] = "sending"
    <3>1. <<held[s]>> \in Seq(Notification)
      BY <2>2 DEF Types, HoldsWhenSending
    <3> QED
      BY <2>1, <2>2, <3>1, ConcatProperties DEF Coming
  <2> QED
    BY <2>1, <2>2 DEF Coming
<1> QED
  BY <1>1, <1>2 DEF QueueTypes

LEMMA Prepended ==
    ASSUME NEW e \in Notification, NEW q \in Seq(Notification)
    PROVE  /\ Len(<<e>> \o q) = Len(q) + 1
           /\ (<<e>> \o q)[1] = e
           /\ \A i \in 1..Len(q) : i + 1 \in 1..Len(<<e>> \o q) /\ (<<e>> \o q)[i + 1] = q[i]
<1>1. <<e>> \in Seq(Notification) /\ Len(<<e>>) = 1 /\ <<e>>[1] = e /\ Len(q) \in Nat
  OBVIOUS
<1>2. /\ Len(<<e>> \o q) = Len(<<e>>) + Len(q)
      /\ \A i \in 1..Len(<<e>>) + Len(q) :
            (<<e>> \o q)[i] = IF i <= Len(<<e>>) THEN <<e>>[i] ELSE q[i - Len(<<e>>)]
  BY <1>1, ConcatProperties
<1> QED
  BY <1>1, <1>2

\* The queues do not change.
LEMMA QueuesStay ==
    ASSUME QueueInv, Seen' = Seen, \A s \in Stream : Coming(s)' = Coming(s), sent' = sent
    PROVE  QueueInv'
BY DEF QueueInv, Numbered, ComingOf, Ordered, Precedes

\* The oldest notification that is still to come goes: it cannot be decoded or is given up.
LEMMA HeadGone ==
    ASSUME Types, Types', QueueInv, NEW s \in Stream, NEW e \in Notification,
           Coming(s) = <<e>> \o Coming(s)', \A t \in Stream \ {s} : Coming(t)' = Coming(t),
           Seen' = Seen, sent' = sent
    PROVE  QueueInv'
<1> DEFINE old == Coming(s)
           new == Coming(s)'
<1>0. QueueTypes'
  BY QueuesOfNotifications, PTL
<1>1. Len(old) \in Nat /\ Len(new) \in Nat /\ new \in Seq(Notification)
  BY <1>0, QueuesOfNotifications DEF QueueTypes
<1>2. \A i \in 1..Len(new) : i + 1 \in 1..Len(old) /\ old[i + 1] = new[i]
  BY <1>1, Prepended
<1>3. ComingOf(s) /\ Ordered(old) /\ Precedes(Seen, old)
  BY DEF QueueInv
<1>4. (ComingOf(s))' /\ Ordered(new) /\ Precedes(Seen, new)
  <2> HIDE DEF old, new
  <2>1. \A i \in 1..Len(new) : new[i].stream = s /\ new[i].n <= sent[s]
    BY <1>2, <1>3 DEF ComingOf, old
  <2>2. Ordered(new)
    BY <1>1, <1>2, <1>3 DEF Ordered
  <2>3. Precedes(Seen, new)
    BY <1>2, <1>3 DEF Precedes
  <2> QED
    BY <2>1, <2>2, <2>3 DEF ComingOf, new
<1>5. ASSUME NEW t \in Stream \ {s} PROVE (ComingOf(t) /\ Ordered(Coming(t)) /\ Precedes(Seen, Coming(t)))'
  BY <1>5 DEF QueueInv, ComingOf, Ordered, Precedes
<1>6. (Ordered(Seen) /\ Numbered)'
  BY DEF QueueInv, Ordered, Numbered
<1>7. (Ordered(Coming(s)) /\ Precedes(Seen, Coming(s)))'
  BY <1>4 DEF Ordered, Precedes
<1> QED
  BY <1>4, <1>5, <1>6, <1>7 DEF QueueInv

LEMMA ElementOfNotifications ==
    ASSUME NEW q \in Seq(Notification), NEW i \in 1..Len(q)
    PROVE  q[i].stream \in Stream /\ q[i].n \in Int
<1>1. q[i] \in Notification
  OBVIOUS
<1> QED
  BY <1>1 DEF Notification

\* The oldest notification that is still to come becomes the newest that has been seen.
LEMMA HeadSeen ==
    ASSUME Types, Types', QueueInv, NEW s \in Stream, NEW e \in Notification,
           Coming(s) = <<e>> \o Coming(s)', \A t \in Stream \ {s} : Coming(t)' = Coming(t),
           Seen' = Append(Seen, e), sent' = sent
    PROVE  QueueInv'
<1> DEFINE old == Coming(s)
           new == Coming(s)'
           seen == Seen'
<1>0. QueueTypes'
  BY QueuesOfNotifications, PTL
<1>1. Len(old) \in Nat /\ Len(new) \in Nat /\ Len(Seen) \in Nat /\ new \in Seq(Notification)
  BY <1>0, QueuesOfNotifications DEF QueueTypes
<1>2. /\ \A i \in 1..Len(new) : i + 1 \in 1..Len(old) /\ old[i + 1] = new[i]
      /\ 1 \in 1..Len(old) /\ old[1] = e
  BY <1>1, Prepended
<1>3. /\ Len(seen) = Len(Seen) + 1 /\ seen[Len(Seen) + 1] = e
      /\ \A i \in 1..Len(Seen) : seen[i] = Seen[i]
  BY QueuesOfNotifications, AppendProperties DEF QueueTypes
<1>4. \A i \in 1..Len(seen) : i \in 1..Len(Seen) \/ i = Len(Seen) + 1
  BY <1>1, <1>3
<1>5. ComingOf(s) /\ Ordered(old) /\ Precedes(Seen, old) /\ Ordered(Seen) /\ Numbered
  BY DEF QueueInv
<1>6. e.stream = s /\ e.n <= sent[s] /\ \A i \in 1..Len(Seen) : Before(Seen[i], e)
  BY <1>2, <1>5 DEF ComingOf, Precedes
<1> HIDE DEF old, new, seen
<1>7. \A i \in 1..Len(new) : new[i].stream = s /\ new[i].n <= sent[s]
  BY <1>2, <1>5 DEF ComingOf, old
<1>8. Ordered(new)
  <2> SUFFICES ASSUME NEW i \in 1..Len(new), NEW j \in 1..Len(new), i < j PROVE Before(new[i], new[j])
    BY DEF Ordered
  <2>1. i + 1 \in 1..Len(old) /\ j + 1 \in 1..Len(old) /\ i + 1 < j + 1
    BY <1>1, <1>2
  <2> QED
    BY <1>2, <1>5, <2>1 DEF Ordered
<1>9. Precedes(seen, new)
  <2> SUFFICES ASSUME NEW i \in 1..Len(seen), NEW j \in 1..Len(new) PROVE Before(seen[i], new[j])
    BY DEF Precedes
  <2>1. CASE i \in 1..Len(Seen)
    BY <1>2, <1>3, <1>5, <2>1 DEF Precedes
  <2>2. CASE i = Len(Seen) + 1
    <3>1. Before(old[1], old[j + 1])
      <4>1. j + 1 \in 1..Len(old) /\ 1 \in 1..Len(old) /\ 1 < j + 1
        BY <1>1, <1>2
      <4> QED
        BY <1>5, <4>1 DEF Ordered
    <3> QED
      BY <1>2, <1>3, <2>2, <3>1
  <2> QED
    BY <1>4, <2>1, <2>2
<1>10. Ordered(seen)
  <2> SUFFICES ASSUME NEW i \in 1..Len(seen), NEW j \in 1..Len(seen), i < j PROVE Before(seen[i], seen[j])
    BY DEF Ordered
  <2>1. CASE j \in 1..Len(Seen)
    <3>1. i \in 1..Len(Seen)
      BY <1>1, <2>1
    <3> QED
      BY <1>3, <1>5, <2>1, <3>1 DEF Ordered
  <2>2. CASE j = Len(Seen) + 1
    <3>1. i \in 1..Len(Seen)
      BY <1>1, <2>2
    <3> QED
      BY <1>3, <1>6, <2>2, <3>1
  <2> QED
    BY <1>4, <2>1, <2>2
<1>11. \A i \in 1..Len(seen) : seen[i].n <= sent[seen[i].stream]
  BY <1>3, <1>4, <1>5, <1>6 DEF Numbered
<1>12. ASSUME NEW t \in Stream \ {s}
       PROVE  (ComingOf(t))' /\ Ordered(Coming(t)') /\ Precedes(seen, Coming(t)')
  <2>1. ComingOf(t) /\ Ordered(Coming(t)) /\ Precedes(Seen, Coming(t))
    BY <1>12 DEF QueueInv
  <2>2. \A j \in 1..Len(Coming(t)) : Before(e, Coming(t)[j])
    BY <1>6, <1>12, <2>1 DEF ComingOf, Before
  <2>3. Precedes(seen, Coming(t))
    BY <1>3, <1>4, <2>1, <2>2 DEF Precedes
  <2>4. (ComingOf(t))'
    BY <1>12, <2>1 DEF ComingOf
  <2> QED
    BY <1>12, <2>1, <2>3, <2>4
<1>13. (ComingOf(s))'
  BY <1>7 DEF ComingOf, new
<1>14. Numbered'
  BY <1>11 DEF Numbered, seen
<1>15. Ordered(Seen)'
  BY <1>10 DEF Ordered, seen
<1>16. \A t \in Stream : (Ordered(Coming(t)) /\ Precedes(Seen, Coming(t)))'
  BY <1>8, <1>9, <1>12 DEF Ordered, Precedes, seen, new
<1> QED
  BY <1>12, <1>13, <1>14, <1>15, <1>16 DEF QueueInv

\* A notification of the device, newer than all before it, joins what is to come or is dropped.
LEMMA NewerComes ==
    ASSUME Types, Types', QueueInv, NEW s \in Stream, NEW e \in Notification,
           e.stream = s, e.n = sent[s] + 1, sent' = [sent EXCEPT ![s] = @ + 1],
           Coming(s)' = Append(Coming(s), e) \/ Coming(s)' = Coming(s),
           \A t \in Stream \ {s} : Coming(t)' = Coming(t), Seen' = Seen
    PROVE  QueueInv'
<1> DEFINE old == Coming(s)
           new == Coming(s)'
<1>1. Len(old) \in Nat /\ Len(Seen) \in Nat /\ old \in Seq(Notification)
  BY QueuesOfNotifications DEF QueueTypes
<1>2. ComingOf(s) /\ Ordered(old) /\ Precedes(Seen, old) /\ Ordered(Seen) /\ Numbered
  BY DEF QueueInv
<1>3. sent \in [Stream -> Int] /\ Seen \in Seq(Notification)
  BY QueuesOfNotifications DEF QueueTypes, Types, TypeOK
<1>4. \A t \in Stream : sent[t] <= sent'[t]
  BY <1>3
<1>5. \A i \in 1..Len(Seen) : Seen[i].stream \in Stream /\ Seen[i].n \in Int
  BY <1>3, ElementOfNotifications
<1>6. Numbered' /\ Ordered(Seen)'
  BY <1>2, <1>3, <1>4, <1>5 DEF Numbered, Ordered
<1>7. ASSUME NEW t \in Stream, Coming(t)' = Coming(t)
      PROVE  (ComingOf(t) /\ Ordered(Coming(t)) /\ Precedes(Seen, Coming(t)))'
  <2>1. ComingOf(t) /\ Ordered(Coming(t)) /\ Precedes(Seen, Coming(t))
    BY <1>7 DEF QueueInv
  <2>2. Coming(t) \in Seq(Notification)
    BY QueuesOfNotifications DEF QueueTypes
  <2>3. \A i \in 1..Len(Coming(t)) : Coming(t)[i].n \in Int
    BY <2>2, ElementOfNotifications
  <2>4. (ComingOf(t))'
    BY <1>3, <1>4, <1>7, <2>1, <2>3 DEF ComingOf
  <2> QED
    BY <1>7, <2>1, <2>4 DEF Ordered, Precedes
<1>8. CASE Coming(s)' = Append(Coming(s), e)
  <2>1. /\ Len(new) = Len(old) + 1 /\ new[Len(old) + 1] = e
        /\ \A i \in 1..Len(old) : new[i] = old[i]
    BY <1>1, <1>8, AppendProperties
  <2>2. \A i \in 1..Len(new) : i \in 1..Len(old) \/ i = Len(old) + 1
    BY <1>1, <2>1
  <2>3. \A i \in 1..Len(old) : Before(old[i], e) /\ old[i].n \in Int
    <3> SUFFICES ASSUME NEW i \in 1..Len(old) PROVE Before(old[i], e) /\ old[i].n \in Int
      OBVIOUS
    <3>1. old[i].stream = s /\ old[i].n <= sent[s] /\ old[i].n \in Int
      BY <1>1, <1>2, ElementOfNotifications DEF ComingOf
    <3> QED
      BY <1>3, <3>1 DEF Before
  <2>4. \A i \in 1..Len(Seen) : Before(Seen[i], e)
    BY <1>2, <1>3, <1>5 DEF Numbered, Before
  <2> HIDE DEF old, new
  <2>5. \A i \in 1..Len(new) : new[i].stream = s /\ new[i].n <= sent'[s]
    BY <1>2, <1>3, <1>4, <2>1, <2>2, <2>3 DEF ComingOf, old
  <2>6. Ordered(new)
    <3> SUFFICES ASSUME NEW i \in 1..Len(new), NEW j \in 1..Len(new), i < j PROVE Before(new[i], new[j])
      BY DEF Ordered
    <3>1. i \in 1..Len(old)
      BY <1>1, <2>1, <2>2
    <3> QED
      BY <1>2, <2>1, <2>2, <2>3, <3>1 DEF Ordered
  <2>7. Precedes(Seen, new)
    BY <1>2, <2>1, <2>2, <2>4 DEF Precedes
  <2>8. (ComingOf(s) /\ Ordered(Coming(s)) /\ Precedes(Seen, Coming(s)))'
    BY <2>5, <2>6, <2>7 DEF ComingOf, Ordered, Precedes, new
  <2> QED
    BY <1>6, <1>7, <2>8 DEF QueueInv
<1>9. CASE Coming(s)' = Coming(s)
  BY <1>6, <1>7, <1>9 DEF QueueInv
<1> QED
  BY <1>8, <1>9

LEMMA HeadAndTail ==
    ASSUME NEW q \in Seq(Notification), q # <<>>
    PROVE  /\ q = <<Head(q)>> \o Tail(q)
           /\ Head(q) \in Notification /\ Tail(q) \in Seq(Notification)
<1>1. Head(q) \in Notification /\ Tail(q) \in Seq(Notification) /\ <<Head(q)>> \in Seq(Notification)
  BY HeadTailProperties
<1>2. /\ Len(q) = Len(<<Head(q)>> \o Tail(q))
      /\ \A i \in 1..Len(q) : q[i] = (<<Head(q)>> \o Tail(q))[i]
  <2>1. Len(<<Head(q)>>) = 1 /\ <<Head(q)>>[1] = Head(q) /\ Head(q) = q[1] /\ Len(q) \in Nat
    OBVIOUS
  <2>2. Len(Tail(q)) = Len(q) - 1 /\ \A i \in 1..Len(Tail(q)) : Tail(q)[i] = q[i + 1]
    BY HeadTailProperties
  <2>3. \A i \in 1..1 + Len(Tail(q)) :
          (<<Head(q)>> \o Tail(q))[i] = IF i <= 1 THEN <<Head(q)>>[i] ELSE Tail(q)[i - 1]
    BY <1>1, <2>1, ConcatProperties
  <2>4. Len(<<Head(q)>> \o Tail(q)) = 1 + Len(Tail(q))
    BY <1>1, <2>1, ConcatProperties
  <2>5. ASSUME NEW i \in 1..Len(q) PROVE q[i] = (<<Head(q)>> \o Tail(q))[i]
    <3>1. CASE i = 1
      BY <2>1, <2>2, <2>3, <3>1
    <3>2. CASE i # 1
      <4>1. i - 1 \in 1..Len(Tail(q)) /\ i - 1 + 1 = i /\ i \in 1..1 + Len(Tail(q)) /\ ~(i <= 1)
        BY <2>1, <2>2, <3>2
      <4> QED
        BY <2>2, <2>3, <4>1
    <3> QED
      BY <3>1, <3>2
  <2> QED
    BY <2>1, <2>2, <2>4, <2>5
<1>3. <<Head(q)>> \o Tail(q) \in Seq(Notification)
  BY <1>1, ConcatProperties
<1> QED
  BY <1>1, <1>2, <1>3, SeqEqual

\* The events channel takes an event at its end, and gives its first one to the consumer.
LEMMA SeenGrows ==
    ASSUME NEW p \in Seq(Notification), NEW q \in Seq(Notification), NEW e \in Notification
    PROVE  /\ p \o Append(q, e) = Append(p \o q, e)
           /\ Append(p, e) \o q = p \o (<<e>> \o q)
           /\ p \o <<>> = p
<1>1. <<e>> \in Seq(Notification) /\ p \o q \in Seq(Notification)
  BY ConcatProperties
<1>2. p \o Append(q, e) = p \o (q \o <<e>>)
  BY AppendIsConcat
<1>3. p \o (q \o <<e>>) = (p \o q) \o <<e>>
  BY <1>1, ConcatAssociative
<1>4. (p \o q) \o <<e>> = Append(p \o q, e)
  BY <1>1, AppendIsConcat
<1>5. Append(p, e) \o q = (p \o <<e>>) \o q
  BY AppendIsConcat
<1>6. (p \o <<e>>) \o q = p \o (<<e>> \o q)
  BY <1>1, ConcatAssociative
<1>7. p \o <<>> = p
  BY ConcatEmptySeq
<1> QED
  BY <1>2, <1>3, <1>4, <1>5, <1>6, <1>7

\* Nothing is given up and nothing is seen, and a worker that has exited stays so.
LEMMA LossesStay ==
    ASSUME LossInv, Types, lost' = lost, Seen' = Seen,
           setup' = "subscribing" => setup = "subscribing" /\ worker' = worker,
           ctxDone \/ sessionDone => (ctxDone \/ sessionDone)',
           \A s \in Stream : worker[s] = "exited" => worker'[s] = "exited"
    PROVE  LossInv'
<1>1. \A e \in lost : e.stream \in Stream
  BY DEF Types, TypeOK, Notification
<1>2. LossOnlyAtEnd'
  BY DEF LossInv, LossOnlyAtEnd
<1> QED
  BY <1>1, <1>2 DEF LossInv

\* An event that a worker hands on is seen: its stream has lost none.
LEMMA LossesStayWhenSeen ==
    ASSUME LossInv, Types, lost' = lost, NEW s \in Stream, NEW e \in Notification, e.stream = s,
           Seen' = Append(Seen, e), worker[s] = "sending",
           \A t \in Stream \ {s} : worker'[t] = worker[t],
           UNCHANGED <<setup, ctxDone, sessionDone>>
    PROVE  LossInv'
<1>1. \A d \in lost : d.stream \in Stream \ {s} /\ worker[d.stream] = "exited"
  BY DEF Types, TypeOK, Notification, LossInv
<1>2. /\ Len(Seen') = Len(Seen) + 1 /\ (Seen')[Len(Seen) + 1] = e
      /\ \A i \in 1..Len(Seen) : (Seen')[i] = Seen[i]
      /\ Len(Seen) \in Nat
  BY QueuesOfNotifications, AppendProperties DEF QueueTypes
<1>3. \A i \in 1..Len(Seen') : i \in 1..Len(Seen) \/ i = Len(Seen) + 1
  BY <1>2
<1>4. ASSUME NEW d \in lost, NEW i \in 1..Len(Seen') PROVE Before((Seen')[i], d)
  <2>1. CASE i \in 1..Len(Seen)
    BY <1>2, <2>1 DEF LossInv, LossOnlyAtEnd
  <2>2. CASE i = Len(Seen) + 1
    BY <1>1, <1>2, <2>2 DEF Before
  <2> QED
    BY <1>3, <2>1, <2>2
<1>5. LossOnlyAtEnd'
  <2>1. ASSUME NEW d \in lost PROVE ctxDone' \/ sessionDone'
    BY DEF LossInv, LossOnlyAtEnd
  <2> QED
    BY <1>4, <2>1 DEF LossOnlyAtEnd
<1> QED
  BY <1>1, <1>5 DEF LossInv

LEMMA WorkerKeepsOrder ==
    ASSUME OrderInv, Types', NEW s \in Stream, Worker(s)
    PROVE  OrderInv'
<1> USE DEF subs, src, chans, ends, past
<1>1. stream[s] \in Seq(Notification) /\ worker \in [Stream -> {"none", "select", "sending", "exited"}]
  BY DEF OrderInv, Types, TypeOK
<1>0. setup # "subscribing"
  BY DEF OrderInv, LossInv, Worker, WorkerStops, WorkerSeesClosedStream, WorkerDecodes,
         WorkerFailsToDecode, WorkerSends, WorkerHandsOver
<1>2. worker[s] = "sending" => held[s] \in Notification /\ Coming(s) = <<held[s]>> \o stream[s]
  BY DEF OrderInv, Types, HoldsWhenSending, Coming
<1>3. worker[s] # "sending" => Coming(s) = stream[s]
  BY DEF Coming
<1>4. \A t \in Stream \ {s} : Coming(t)' = Coming(t)
  <2> SUFFICES ASSUME NEW t \in Stream \ {s} PROVE Coming(t)' = Coming(t)
    OBVIOUS
  <2>1. worker'[t] = worker[t] /\ held'[t] = held[t] /\ stream'[t] = stream[t]
    BY DEF OrderInv, Types, TypeOK, Worker, WorkerStops, WorkerSeesClosedStream, WorkerDecodes,
           WorkerFailsToDecode, WorkerSends, WorkerHandsOver, SentAway
  <2> QED
    BY <2>1 DEF Coming
<1>5. /\ \A t \in Stream \ {s} : worker'[t] = worker[t]
      /\ UNCHANGED <<setup, ctxDone, sessionDone, sent>>
  BY <1>1 DEF Worker, WorkerStops, WorkerSeesClosedStream, WorkerDecodes,
         WorkerFailsToDecode, WorkerSends, WorkerHandsOver, SentAway
<1>6. worker[s] = "sending" =>
        /\ held[s].stream = s
        /\ \A i \in 1..Len(Seen) : Before(Seen[i], held[s])
  <2> SUFFICES ASSUME worker[s] = "sending"
               PROVE  held[s].stream = s /\ \A i \in 1..Len(Seen) : Before(Seen[i], held[s])
    OBVIOUS
  <2>1. 1 \in 1..Len(Coming(s)) /\ Coming(s)[1] = held[s]
    BY <1>1, <1>2, Prepended
  <2> QED
    BY <2>1 DEF OrderInv, QueueInv, ComingOf, Precedes
<1>7. CASE WorkerStops(s) /\ worker[s] = "select"
  <2>1. Coming(s)' = Coming(s) /\ Seen' = Seen
    BY <1>1, <1>7 DEF WorkerStops, Coming, Seen
  <2>2. QueueInv'
    BY <1>4, <1>5, <2>1, QueuesStay DEF OrderInv
  <2>3. LossInv'
    BY <1>0, <1>1, <1>5, <1>7, <2>1, LossesStay DEF OrderInv, WorkerStops
  <2> QED
    BY <2>2, <2>3 DEF OrderInv
<1>8. CASE WorkerStops(s) /\ worker[s] = "sending"
  <2>1. Coming(s)' = stream[s] /\ Seen' = Seen /\ worker'[s] = "exited" /\ lost' = lost \cup {held[s]}
    BY <1>1, <1>8 DEF WorkerStops, Coming, Seen
  <2>2. QueueInv'
    BY <1>2, <1>4, <1>5, <1>8, <2>1, HeadGone DEF OrderInv
  <2>3. \A e \in lost' : worker'[e.stream] = "exited"
    <3>1. \A e \in lost : e.stream \in Stream /\ worker[e.stream] = "exited"
      BY DEF OrderInv, Types, TypeOK, Notification, LossInv
    <3> QED
      BY <1>5, <1>6, <1>8, <2>1, <3>1
  <2>4. LossOnlyAtEnd'
    BY <1>5, <1>6, <1>8, <2>1 DEF OrderInv, LossInv, LossOnlyAtEnd, WorkerStops
  <2> QED
    BY <1>0, <1>5, <2>2, <2>3, <2>4 DEF OrderInv, LossInv
<1>9. CASE WorkerSeesClosedStream(s)
  <2>1. Coming(s)' = Coming(s) /\ Seen' = Seen
    BY <1>1, <1>9 DEF WorkerSeesClosedStream, Coming, Seen
  <2>2. QueueInv'
    BY <1>4, <1>5, <2>1, QueuesStay DEF OrderInv
  <2>3. LossInv'
    BY <1>0, <1>1, <1>5, <1>9, <2>1, LossesStay DEF OrderInv, WorkerSeesClosedStream
  <2> QED
    BY <2>2, <2>3 DEF OrderInv
<1>10. CASE WorkerDecodes(s)
  <2>1. Coming(s)' = <<Head(stream[s])>> \o Tail(stream[s]) /\ Seen' = Seen
    BY <1>1, <1>10 DEF OrderInv, Types, TypeOK, WorkerDecodes, Coming, Seen
  <2>2. Coming(s)' = Coming(s)
    BY <1>1, <1>3, <1>10, <2>1, HeadAndTail DEF WorkerDecodes
  <2>3. QueueInv'
    BY <1>4, <1>5, <2>1, <2>2, QueuesStay DEF OrderInv
  <2>4. LossInv'
    BY <1>0, <1>1, <1>5, <1>10, <2>1, LossesStay DEF OrderInv, WorkerDecodes
  <2> QED
    BY <2>3, <2>4 DEF OrderInv
<1>11. CASE WorkerFailsToDecode(s)
  <2>1. Coming(s)' = Tail(stream[s]) /\ Seen' = Seen
    BY <1>1, <1>11 DEF OrderInv, Types, TypeOK, WorkerFailsToDecode, Coming, Seen
  <2>2. Coming(s) = <<Head(stream[s])>> \o Coming(s)' /\ Head(stream[s]) \in Notification
    BY <1>1, <1>3, <1>11, <2>1, HeadAndTail DEF WorkerFailsToDecode
  <2>3. QueueInv'
    BY <1>4, <1>5, <2>1, <2>2, HeadGone DEF OrderInv
  <2>4. LossInv'
    BY <1>0, <1>1, <1>5, <1>11, <2>1, LossesStay DEF OrderInv, WorkerFailsToDecode
  <2> QED
    BY <2>3, <2>4 DEF OrderInv
<1>12. CASE WorkerSends(s) \/ WorkerHandsOver(s)
  <2>1. worker[s] = "sending" /\ Coming(s)' = stream[s] /\ lost' = lost
    BY <1>1, <1>12 DEF WorkerSends, WorkerHandsOver, SentAway, Coming
  <2>2. received \in Seq(Notification) /\ events \in Seq(Notification) /\ held[s] \in Notification
    BY <1>2, <2>1 DEF OrderInv, Types, TypeOK
  <2>3. Seen' = Append(Seen, held[s])
    <3>1. CASE WorkerSends(s)
      BY <2>2, <3>1, SeenGrows DEF WorkerSends, Seen
    <3>2. CASE WorkerHandsOver(s)
      <4>1. received \o <<>> = received /\ Append(received, held[s]) \o <<>> = Append(received, held[s])
        BY <2>2, SeenGrows, AppendProperties
      <4> QED
        BY <3>2, <4>1 DEF WorkerHandsOver, Seen
    <3> QED
      BY <1>12, <3>1, <3>2
  <2>4. QueueInv'
    BY <1>2, <1>4, <1>5, <2>1, <2>2, <2>3, HeadSeen DEF OrderInv
  <2>5. LossInv'
    BY <1>0, <1>5, <1>6, <2>1, <2>2, <2>3, LossesStayWhenSeen DEF OrderInv
  <2> QED
    BY <2>4, <2>5 DEF OrderInv
<1> QED
  BY <1>7, <1>8, <1>9, <1>10, <1>11, <1>12 DEF Worker, WorkerStops

LEMMA NotifyKeepsOrder ==
    ASSUME OrderInv, Types', NEW s \in Stream, Notify(s)
    PROVE  OrderInv'
<1> USE DEF subs, src, chans, ends, past
<1>1. stream \in [Stream -> Seq(Notification)] /\ sent \in [Stream -> 0..MaxNotifications]
  BY DEF OrderInv, Types, TypeOK
<1>2. PICK decodes \in BOOLEAN :
          stream' = IF Len(stream[s]) < StreamBuffer
                    THEN [stream EXCEPT ![s] = Append(@, [stream |-> s, n |-> sent[s] + 1, decodes |-> decodes])]
                    ELSE stream
  BY DEF Notify
<1> DEFINE e == [stream |-> s, n |-> sent[s] + 1, decodes |-> decodes]
<1>3. e \in Notification /\ e.stream = s /\ e.n = sent[s] + 1
  <2>1. sent[s] + 1 \in 1..MaxNotifications
    BY <1>1, ConstantsAssumption DEF Notify
  <2> QED
    BY <2>1 DEF Notification
<1>4. Seen' = Seen /\ sent' = [sent EXCEPT ![s] = @ + 1] /\ lost' = lost
      /\ UNCHANGED <<setup, ctxDone, sessionDone, worker, held>>
  BY DEF Notify, Seen
<1>5. \A t \in Stream \ {s} : Coming(t)' = Coming(t)
  BY <1>1, <1>2, <1>4 DEF Coming
<1>6. Coming(s)' = Append(Coming(s), e) \/ Coming(s)' = Coming(s)
  <2>1. CASE Len(stream[s]) < StreamBuffer
    <3>1. stream'[s] = Append(stream[s], e)
      BY <1>1, <1>2, <2>1
    <3>2. CASE worker[s] = "sending"
      <4>1. <<held[s]>> \in Seq(Notification) /\ stream[s] \in Seq(Notification)
        BY <1>1, <3>2 DEF OrderInv, Types, HoldsWhenSending
      <4> QED
        BY <1>3, <1>4, <3>1, <3>2, <4>1, SeenGrows DEF Coming
    <3>3. CASE worker[s] # "sending"
      BY <1>4, <3>1, <3>3 DEF Coming
    <3> QED
      BY <3>2, <3>3
  <2>2. CASE ~(Len(stream[s]) < StreamBuffer)
    BY <1>2, <1>4, <2>2 DEF Coming
  <2> QED
    BY <2>1, <2>2
<1> HIDE DEF e
<1>7. QueueInv'
  BY <1>3, <1>4, <1>5, <1>6, NewerComes DEF OrderInv
<1>8. LossInv'
  BY <1>4, LossesStay DEF OrderInv
<1> QED
  BY <1>7, <1>8 DEF OrderInv

LEMMA InitOrderInv == Init => OrderInv
<1> SUFFICES ASSUME Init PROVE OrderInv
  OBVIOUS
<1>1. Seen = <<>> /\ \A s \in Stream : Coming(s) = <<>>
  <2>1. <<>> \o <<>> = <<>>
    BY ConcatEmptySeq
  <2> QED
    BY <2>1 DEF Init, Seen, Coming
<1>2. QueueInv
  BY <1>1 DEF QueueInv, Numbered, ComingOf, Ordered, Precedes
<1>3. LossInv
  BY DEF Init, LossInv, LossOnlyAtEnd
<1> QED
  BY <1>2, <1>3, InitTypes DEF OrderInv

LEMMA StepKeepsOrder == OrderInv /\ [Next]_vars => OrderInv'
<1> SUFFICES ASSUME OrderInv, [Next]_vars PROVE OrderInv'
  OBVIOUS
<1> USE DEF subs, src, chans, ends, past
<1>1. Types'
  BY StepKeepsTypes DEF OrderInv
<1>2. ASSUME NEW s \in Stream, Worker(s) PROVE OrderInv'
  BY <1>1, <1>2, WorkerKeepsOrder
<1>3. ASSUME NEW s \in Stream, Notify(s) PROVE OrderInv'
  BY <1>1, <1>3, NotifyKeepsOrder
<1>4. ASSUME UNCHANGED <<sent, stream, worker, held, setup, received, events, lost>>,
             ctxDone \/ sessionDone => (ctxDone \/ sessionDone)'
      PROVE  OrderInv'
  <2>1. Seen' = Seen /\ \A s \in Stream : Coming(s)' = Coming(s)
    BY <1>4 DEF Seen, Coming
  <2>2. QueueInv'
    BY <1>4, <2>1, QueuesStay DEF OrderInv
  <2>3. LossInv'
    BY <1>4, <2>1, LossesStay DEF OrderInv
  <2> QED
    BY <1>1, <2>2, <2>3 DEF OrderInv
<1>5. CASE Subscribe \/ Closer \/ CancelContext \/ CloseSession \/ ReceiveError \/ UNCHANGED vars
  BY <1>4, <1>5 DEF Subscribe, Closer, CloserWakes, CloseEvents, CloseErrs, CancelContext, CloseSession,
     ReceiveError, vars
<1>6. ASSUME NEW s \in Stream, StreamCloses(s) PROVE OrderInv'
  BY <1>4, <1>6 DEF StreamCloses
<1>7. CASE SubscribeFails
  <2>1. Seen' = Seen /\ \A s \in Stream : Coming(s)' = Coming(s)
    BY <1>7 DEF SubscribeFails, Seen, Coming
  <2>2. QueueInv'
    BY <1>7, <2>1, QueuesStay DEF OrderInv, SubscribeFails
  <2>3. LossInv'
    BY <1>7, <2>1, LossesStay DEF OrderInv, SubscribeFails
  <2> QED
    BY <1>1, <2>2, <2>3 DEF OrderInv
<1>8. CASE StartWorkers
  <2>1. Seen' = Seen /\ \A s \in Stream : Coming(s)' = Coming(s)
    BY <1>8 DEF StartWorkers, Seen, Coming, OrderInv, LossInv
  <2>2. QueueInv'
    BY <1>8, <2>1, QueuesStay DEF OrderInv, StartWorkers
  <2>3. LossInv'
    BY <1>8 DEF OrderInv, LossInv, LossOnlyAtEnd, StartWorkers
  <2> QED
    BY <1>1, <2>2, <2>3 DEF OrderInv
<1>9. CASE Receive
  <2>1. events \in Seq(Notification) /\ received \in Seq(Notification) /\ events # <<>>
    BY <1>9 DEF OrderInv, Types, TypeOK, Receive
  <2>2. Seen' = Seen
    <3>1. Append(received, Head(events)) \o Tail(events) = received \o events
      BY <2>1, HeadAndTail, SeenGrows
    <3> QED
      BY <1>9, <3>1 DEF Receive, Seen
  <2>3. \A s \in Stream : Coming(s)' = Coming(s)
    BY <1>9 DEF Receive, Coming
  <2>4. QueueInv'
    BY <1>9, <2>2, <2>3, QueuesStay DEF OrderInv, Receive
  <2>5. LossInv'
    BY <1>9, <2>2, LossesStay DEF OrderInv, Receive
  <2> QED
    BY <1>1, <2>4, <2>5 DEF OrderInv
<1> QED
  BY <1>2, <1>3, <1>5, <1>6, <1>7, <1>8, <1>9 DEF Next, Environment

(***************************************************************************)
(* Whatever the workers, the consumer, the closer and the device do, the   *)
(* events of one characteristic are seen in the order of its               *)
(* notifications, none twice, and one is given up only at the end of the   *)
(* stream, with nothing of its characteristic after it.                    *)
(***************************************************************************)
THEOREM EventsInOrder == Spec => []InOrderToTheEnd
<1>1. OrderInv => InOrderToTheEnd
  <2> SUFFICES ASSUME OrderInv, NEW s \in Stream PROVE Ordered(Path(s))
    BY DEF OrderInv, LossInv, InOrderToTheEnd, PerStreamOrder
  <2>1. Seen \in Seq(Notification) /\ Coming(s) \in Seq(Notification)
    BY QueuesOfNotifications DEF OrderInv, QueueTypes
  <2>2. Ordered(Seen) /\ Ordered(Coming(s)) /\ Precedes(Seen, Coming(s))
    BY DEF OrderInv, QueueInv
  <2> QED
    BY <2>1, <2>2, OrderedConcat DEF Path
<1> QED
  BY <1>1, InitOrderInv, StepKeepsOrder, PTL DEF Spec

----------------------------------------------------------------------------
(***************************************************************************)
(* The codec, for any bytes.  What is told is decoded from what was said,  *)
(* so what has to be shown is of one message, of each kind in turn.        *)
(***************************************************************************)
CodecInv ==
    /\ said \in Message \cup {Silence}
    /\ said # Silence => payload = Wire(said)
    /\ HasTold => said # Silence /\ told = <<Decoded(said, payload)>>

LEMMA SilenceIsNoMessage == Silence \notin Message
BY DEF Silence, Message, TapMessage, TapOn, RecordMessage, BlockMessage, Ack, Output, Firmware

LEMMA CodecInvAlways == CodecSpec => []CodecInv
<1>1. CodecInit => CodecInv
  BY DEF CodecInit, CodecInv, HasTold
<1>2. ASSUME CodecInv, [CodecNext]_codecVars PROVE CodecInv'
  <2>1. CASE Says
    BY <1>2, <2>1, SilenceIsNoMessage DEF Says, CodecInv, HasTold
  <2>2. CASE Decodes
    BY <1>2, <2>2 DEF Decodes, CodecInv, HasTold
  <2>3. CASE UNCHANGED codecVars
    BY <1>2, <2>3 DEF codecVars, CodecInv, HasTold
  <2> QED
    BY <1>2, <2>1, <2>2, <2>3 DEF CodecNext
<1> QED
  BY <1>1, <1>2, PTL DEF CodecSpec

(***************************************************************************)
(* A message of a kind is of the set of that kind.                         *)
(***************************************************************************)
LEMMA KindsOfMessages ==
    ASSUME NEW m \in Message
    PROVE  /\ m.on \in TapOn => m \in TapMessage
           /\ m.on = "history" => m \in RecordMessage
           /\ m.on = "command" => m \in Ack
           /\ m.on \in OutputOn => m \in Output
           /\ m.on = "firmware" => m \in Firmware
<1>1. ASSUME NEW n \in TapMessage PROVE n.on \in TapOn
  BY <1>1 DEF TapMessage
<1>2. ASSUME NEW n \in RecordMessage PROVE n.on = "history"
  BY <1>2 DEF RecordMessage
<1>3. ASSUME NEW n \in BlockMessage PROVE n.on = "historyV3"
  BY <1>3 DEF BlockMessage
<1>4. ASSUME NEW n \in Ack PROVE n.on = "command"
  BY <1>4 DEF Ack
<1>5. ASSUME NEW n \in Output PROVE n.on \in OutputOn
  BY <1>5 DEF Output, OutputOn
<1>6. ASSUME NEW n \in Firmware PROVE n.on = "firmware"
  BY <1>6 DEF Firmware
<1> QED
  BY <1>1, <1>2, <1>3, <1>4, <1>5, <1>6 DEF Message, TapOn, OutputOn

(***************************************************************************)
(* Taps and pauses.                                                        *)
(***************************************************************************)
LEMMA SideTells ==
    ASSUME NEW f \in 0..127, NEW pause \in BOOLEAN
    PROVE  LET side == f + Flag(pause, 128, 0) IN
           side \in 0..255 /\ side % 128 = f /\ (side >= 128 <=> pause) /\ (side > 127 <=> pause)
BY DEF Flag

LEMMA FacetsAreSmall == Facet \subseteq 0..127
<1>1. ASSUME NEW f \in Facet PROVE f \in 0..127
  <2>1. f \in 0..255 /\ f < 128
    BY CodecAssumption DEF Facet
  <2> QED
    BY <2>1
<1> QED
  BY <1>1

(***************************************************************************)
(* Which decoder is used, and what is put on the characteristic.           *)
(***************************************************************************)
LEMMA HowTapsAreTold ==
    ASSUME NEW m, m.on \in TapOn, NEW p
    PROVE  /\ Wire(m) = <<Side(m)>>
           /\ m.on = "facets" => Decoded(m, p) = DecodeFacet(p)
           /\ m.on = "doubleTap" => Decoded(m, p) = DecodeDoubleTap(p)
           /\ m.on \in {"tapText", "sideText"} => Decoded(m, p) = DecodeTimeFlipTextEvent(m.on, p)
<1>1. Wire(m) = <<Side(m)>>
  BY DEF Wire, TapOn, OutputOn
<1>2. ASSUME m.on = "facets" PROVE Decoded(m, p) = DecodeFacet(p)
  BY <1>2 DEF Decoded, OutputOn
<1>3. ASSUME m.on = "doubleTap" PROVE Decoded(m, p) = DecodeDoubleTap(p)
  BY <1>3 DEF Decoded, OutputOn
<1>4. ASSUME m.on \in {"tapText", "sideText"} PROVE Decoded(m, p) = DecodeTimeFlipTextEvent(m.on, p)
  BY <1>4 DEF Decoded, OutputOn
<1> QED
  BY <1>1, <1>2, <1>3, <1>4

LEMMA TapsAreTold ==
    ASSUME NEW m \in TapMessage
    PROVE  Decoded(m, Wire(m)).facet = m.facet /\ Decoded(m, Wire(m)).pause = m.pause
<1>1. m.on \in TapOn /\ m.facet \in 0..127 /\ m.pause \in BOOLEAN /\ (m.on = "facets" => ~m.pause)
  BY FacetsAreSmall DEF TapMessage
<1> DEFINE p == <<Side(m)>>
<1>2. Wire(m) = p /\ p[1] = Side(m)
  BY <1>1, HowTapsAreTold
<1>3. Side(m) % 128 = m.facet /\ (Side(m) >= 128 <=> m.pause) /\ (~m.pause => Side(m) = m.facet)
  BY <1>1, SideTells DEF Side, Flag
<1>4. CASE m.on = "facets"
  <2>1. Decoded(m, p) = DecodeFacet(p)
    BY <1>1, <1>4, HowTapsAreTold
  <2>2. DecodeFacet(p).facet = m.facet /\ DecodeFacet(p).pause = FALSE
    BY <1>1, <1>2, <1>3, <1>4 DEF DecodeFacet
  <2>3. m.pause = FALSE
    BY <1>1, <1>4
  <2> QED
    BY <1>2, <2>1, <2>2, <2>3
<1>5. CASE m.on = "doubleTap"
  <2>1. Decoded(m, p) = DecodeDoubleTap(p)
    BY <1>1, <1>5, HowTapsAreTold
  <2> QED
    BY <1>1, <1>2, <1>3, <2>1 DEF DecodeDoubleTap
<1>6. CASE m.on \in {"tapText", "sideText"}
  <2>1. Decoded(m, p) = DecodeTimeFlipTextEvent(m.on, p)
    BY <1>1, <1>6, HowTapsAreTold
  <2>2. CASE m.on = "tapText" \/ p[1] >= 128
    <3>1. Decoded(m, p) = DecodeDoubleTap(p)
      BY <2>1, <2>2 DEF DecodeTimeFlipTextEvent
    <3> QED
      BY <1>1, <1>2, <1>3, <3>1 DEF DecodeDoubleTap
  <2>3. CASE ~(m.on = "tapText" \/ p[1] >= 128)
    <3>1. Decoded(m, p) = DecodeFacet(p)
      BY <2>1, <2>3 DEF DecodeTimeFlipTextEvent
    <3>2. DecodeFacet(p).facet = Side(m) /\ DecodeFacet(p).pause = FALSE
      BY <1>2 DEF DecodeFacet
    <3>3. ~m.pause
      BY <1>2, <1>3, <2>3
    <3>4. m.pause = FALSE
      BY <1>1, <3>3
    <3> QED
      BY <1>2, <1>3, <3>1, <3>2, <3>3, <3>4
  <2> QED
    BY <2>2, <2>3
<1> QED
  BY <1>1, <1>2, <1>4, <1>5, <1>6 DEF TapOn

(***************************************************************************)
(* A record: its parts stand one behind the other, and are cut out again.  *)
(***************************************************************************)
LEMMA Chained ==
    ASSUME NEW S, NEW a \in Seq(S), NEW b \in Seq(S)
    PROVE  /\ a \o b \in Seq(S) /\ Len(a \o b) = Len(a) + Len(b) /\ Len(a) \in Nat /\ Len(b) \in Nat
           /\ \A i \in 1..Len(a) : (a \o b)[i] = a[i]
           /\ \A i \in 1..Len(b) : (a \o b)[Len(a) + i] = b[i]
OBVIOUS

LEMMA Cut ==
    ASSUME NEW S, NEW p \in Seq(S), NEW s \in Seq(S), NEW k \in Nat, k + Len(s) <= Len(p),
           \A i \in 1..Len(s) : p[k + i] = s[i]
    PROVE  SubSeq(p, k + 1, k + Len(s)) = s
<1> DEFINE t == SubSeq(p, k + 1, k + Len(s))
<1>1. Len(s) \in Nat /\ Len(p) \in Nat
  OBVIOUS
<1>2. t \in Seq(S) /\ Len(t) = Len(s) /\ \A i \in 1..Len(s) : t[i] = p[k + i]
  <2> DEFINE first == k + 1
             last == k + Len(s)
  <2>1. /\ first \in Int /\ last \in Int /\ last <= Len(p) /\ 1 <= first
        /\ last - first + 1 = Len(s) /\ first <= last + 1 /\ \A i \in Int : first + i - 1 = k + i
    BY <1>1
  <2> HIDE DEF first, last
  <2>2. \A i \in first..last : p[i] \in S
    BY <2>1
  <2>3. /\ SubSeq(p, first, last) \in Seq(S)
        /\ Len(SubSeq(p, first, last)) = IF first <= last THEN last - first + 1 ELSE 0
        /\ \A i \in 1..last - first + 1 : SubSeq(p, first, last)[i] = p[first + i - 1]
    <3>1. first \in Int /\ last \in Int
      BY <2>1
    <3> QED
      BY <2>2, <3>1, SubSeqProperties
  <2>4. /\ SubSeq(p, first, last) \in Seq(S) /\ Len(SubSeq(p, first, last)) = Len(s)
        /\ \A i \in 1..Len(s) : SubSeq(p, first, last)[i] = p[k + i]
    BY <1>1, <2>1, <2>3
  <2> QED
    BY <2>4, Zenon DEF first, last
<1> HIDE DEF t
<1>3. t = s
  BY <1>2, SeqEqual
<1> QED
  BY <1>3 DEF t

LEMMA CutLast ==
    ASSUME NEW S, NEW a \in Seq(S), NEW b \in Seq(S)
    PROVE  SubSeq(a \o b, Len(a) + 1, Len(a) + Len(b)) = b
<1> DEFINE p == a \o b
<1>1. p \in Seq(S) /\ Len(p) = Len(a) + Len(b) /\ Len(a) \in Nat /\ Len(b) \in Nat
      /\ \A i \in 1..Len(b) : p[Len(a) + i] = b[i]
  BY Chained
<1> HIDE DEF p
<1>2. Len(a) + Len(b) <= Len(p)
  BY <1>1
<1>3. SubSeq(p, Len(a) + 1, Len(a) + Len(b)) = b
  BY <1>1, <1>2, Cut, Zenon
<1> QED
  BY <1>3 DEF p

LEMMA CutFirst ==
    ASSUME NEW S, NEW a \in Seq(S), NEW b \in Seq(S), NEW i \in 1..Len(a), NEW j \in i..Len(a)
    PROVE  SubSeq(a \o b, i, j) = SubSeq(a, i, j)
<1> DEFINE p == a \o b
<1>1. /\ p \in Seq(S) /\ Len(p) = Len(a) + Len(b) /\ Len(a) \in Nat /\ Len(b) \in Nat
      /\ \A k \in 1..Len(a) : p[k] = a[k]
  BY Chained
<1> HIDE DEF p
<1> DEFINE s == SubSeq(a, i, j)
           t == SubSeq(p, i, j)
<1>2. i \in 1..Len(p) + 1 /\ j \in i - 1..Len(p) /\ i \in 1..Len(a) + 1 /\ j \in i - 1..Len(a)
  BY <1>1
<1>3. s \in Seq(S) /\ Len(s) = j - i + 1 /\ \A k \in 1..j - i + 1 : s[k] = a[i + k - 1]
  BY <1>1, <1>2
<1>4. t \in Seq(S) /\ Len(t) = j - i + 1 /\ \A k \in 1..j - i + 1 : t[k] = p[i + k - 1]
  BY <1>1, <1>2
<1> HIDE DEF s, t
<1>5. \A k \in 1..j - i + 1 : t[k] = s[k]
  <2>1. ASSUME NEW k \in 1..j - i + 1 PROVE i + k - 1 \in 1..Len(a)
    BY <1>1
  <2> QED
    BY <1>1, <1>3, <1>4, <2>1
<1>6. t = s
  BY <1>3, <1>4, <1>5, SeqEqual
<1> QED
  BY <1>6 DEF s, t, p

LEMMA CutWhole == ASSUME NEW S, NEW a \in Seq(S) PROVE SubSeq(a, 1, Len(a)) = a
<1>1. 0 \in Nat /\ 0 + Len(a) <= Len(a) /\ \A i \in 1..Len(a) : a[0 + i] = a[i]
  OBVIOUS
<1>2. SubSeq(a, 0 + 1, 0 + Len(a)) = a
  BY <1>1, Cut
<1> QED
  BY <1>2

\* What stands on a characteristic is a sequence of these.
Octet == 0..255

(***************************************************************************)
(* p is a, of n octets, with b behind it.                                  *)
(***************************************************************************)
Joins(p, a, n, b) ==
    /\ p \in Seq(Octet) /\ Len(p) = n + Len(b)
    /\ \A i \in 1..n : p[i] = a[i]
    /\ \A i \in 1..Len(b) : p[n + i] = b[i]
    /\ \A i \in 1..n : \A j \in i..n : SubSeq(p, i, j) = SubSeq(a, i, j)
    /\ SubSeq(p, n + 1, n + Len(b)) = b

LEMMA Joined ==
    ASSUME NEW a \in Seq(Octet), NEW b \in Seq(Octet), NEW n \in Nat, Len(a) = n
    PROVE  Joins(a \o b, a, n, b)
<1>1. /\ a \o b \in Seq(Octet) /\ Len(a \o b) = n + Len(b)
      /\ \A i \in 1..n : (a \o b)[i] = a[i]
      /\ \A i \in 1..Len(b) : (a \o b)[n + i] = b[i]
  OBVIOUS
<1>2. \A i \in 1..n : \A j \in i..n : SubSeq(a \o b, i, j) = SubSeq(a, i, j)
  BY CutFirst
<1>3. SubSeq(a \o b, n + 1, n + Len(b)) = b
  BY CutLast
<1> QED
  BY <1>1, <1>2, <1>3 DEF Joins

LEMMA NumbersAreSequences ==
    ASSUME NEW width \in {2, 3, 4, 8}, NEW n \in Number(width)
    PROVE  n \in Seq(Octet) /\ Len(n) = width
<1>1. Number(width) \subseteq [1..width -> Byte] /\ Byte \subseteq Octet
  BY CodecAssumption DEF Octet
<1>2. n \in [1..width -> Octet] /\ width \in Nat
  BY <1>1
<1> QED
  BY <1>2

LEMMA SidesAreOctets ==
    ASSUME NEW m, m.facet \in 0..127, m.pause \in BOOLEAN
    PROVE  /\ Side(m) \in Octet /\ Side(m) % 128 = m.facet
           /\ (Side(m) >= 128 <=> m.pause) /\ (Side(m) > 127 <=> m.pause)
BY SideTells DEF Side, Flag, Octet

LEMMA RecordOnTheWire ==
    ASSUME NEW m \in RecordMessage
    PROVE  LET head == m.event \o <<Side(m)>> \o m.moment \o m.duration
               p == Wire(m)
           IN  /\ p[5] = Side(m)
               /\ SubSeq(p, 1, 17) = head
               /\ SubSeq(p, 1, 4) = m.event /\ SubSeq(p, 6, 13) = m.moment
               /\ SubSeq(p, 14, 17) = m.duration /\ SubSeq(p, 18, Len(p)) = m.previous
<1> DEFINE side == <<Side(m)>>
           a == m.event \o side
           b == a \o m.moment
           c == b \o m.duration
           p == c \o m.previous
<1>1. /\ m.on = "history" /\ m.facet \in 0..127 /\ m.pause \in BOOLEAN
      /\ m.event \in Number(4) /\ m.moment \in Number(8) /\ m.duration \in Number(4)
      /\ m.previous \in Number(3) \cup {<<>>}
  BY FacetsAreSmall DEF RecordMessage
<1>2. Wire(m) = p
  BY <1>1 DEF Wire, TapOn, OutputOn
<1>3. m.event \in Seq(Octet) /\ Len(m.event) = 4
  BY <1>1, NumbersAreSequences
<1>4. m.moment \in Seq(Octet) /\ Len(m.moment) = 8
  BY <1>1, NumbersAreSequences
<1>5. m.duration \in Seq(Octet) /\ Len(m.duration) = 4
  BY <1>1, NumbersAreSequences
<1>6. m.previous \in Seq(Octet) /\ Len(m.previous) \in Nat
  <2>1. CASE m.previous \in Number(3)
    BY <2>1, NumbersAreSequences
  <2>2. CASE m.previous = <<>>
    BY <2>2
  <2> QED
    BY <1>1, <2>1, <2>2
<1>7. side \in Seq(Octet) /\ Len(side) = 1 /\ side[1] = Side(m)
  <2>1. Side(m) \in Octet
    BY <1>1, SidesAreOctets
  <2> QED
    BY <2>1
<1> HIDE DEF side
<1>8. /\ a \in Seq(Octet) /\ Len(a) = 5 /\ a[5] = Side(m) /\ SubSeq(a, 1, 4) = m.event
  <2>1. Joins(a, m.event, 4, side)
    BY <1>3, <1>7, Joined
  <2> HIDE DEF a
  <2>2. /\ a \in Seq(Octet) /\ Len(a) = 4 + 1 /\ a[4 + 1] = side[1]
        /\ SubSeq(a, 1, 4) = SubSeq(m.event, 1, 4)
    BY <1>7, <2>1 DEF Joins
  <2>3. SubSeq(m.event, 1, 4) = m.event
    BY <1>3, CutWhole
  <2> QED
    BY <1>7, <2>2, <2>3
<1> HIDE DEF a
<1>9. /\ b \in Seq(Octet) /\ Len(b) = 13 /\ b[5] = Side(m)
      /\ SubSeq(b, 1, 4) = m.event /\ SubSeq(b, 6, 13) = m.moment
  <2>1. Joins(b, a, 5, m.moment)
    BY <1>4, <1>8, Joined
  <2> HIDE DEF b
  <2>2. b \in Seq(Octet) /\ Len(b) = 5 + 8 /\ b[5] = a[5]
    BY <1>4, <2>1 DEF Joins
  <2>3. SubSeq(b, 1, 4) = SubSeq(a, 1, 4)
    BY <2>1 DEF Joins
  <2>4. SubSeq(b, 5 + 1, 5 + 8) = m.moment
    BY <1>4, <2>1 DEF Joins
  <2> QED
    BY <1>8, <2>2, <2>3, <2>4
<1> HIDE DEF b
<1>10. /\ c \in Seq(Octet) /\ Len(c) = 17 /\ c[5] = Side(m)
       /\ SubSeq(c, 1, 4) = m.event /\ SubSeq(c, 6, 13) = m.moment /\ SubSeq(c, 14, 17) = m.duration
  <2>1. Joins(c, b, 13, m.duration)
    BY <1>5, <1>9, Joined
  <2> HIDE DEF c
  <2>2. c \in Seq(Octet) /\ Len(c) = 13 + 4 /\ c[5] = b[5]
    BY <1>5, <2>1 DEF Joins
  <2>3. SubSeq(c, 1, 4) = SubSeq(b, 1, 4) /\ SubSeq(c, 6, 13) = SubSeq(b, 6, 13)
    <3>1. \A i \in 1..13 : \A j \in i..13 : SubSeq(c, i, j) = SubSeq(b, i, j)
      BY <2>1, Zenon DEF Joins
    <3> QED
      BY <3>1
  <2>4. SubSeq(c, 13 + 1, 13 + 4) = m.duration
    BY <1>5, <2>1, Zenon DEF Joins
  <2> QED
    BY <1>9, <2>2, <2>3, <2>4
<1> HIDE DEF c
<1>11. /\ p[5] = Side(m) /\ SubSeq(p, 1, 17) = c
       /\ SubSeq(p, 1, 4) = m.event /\ SubSeq(p, 6, 13) = m.moment /\ SubSeq(p, 14, 17) = m.duration
       /\ SubSeq(p, 18, Len(p)) = m.previous
  <2>1. Joins(p, c, 17, m.previous)
    BY <1>6, <1>10, Joined
  <2> HIDE DEF p
  <2>2. Len(p) = 17 + Len(m.previous) /\ p[5] = c[5]
    <3>1. Len(p) = 17 + Len(m.previous) /\ \A i \in 1..17 : p[i] = c[i]
      BY <2>1, Zenon DEF Joins
    <3> QED
      BY <3>1
  <2>3. /\ SubSeq(p, 1, 4) = SubSeq(c, 1, 4) /\ SubSeq(p, 6, 13) = SubSeq(c, 6, 13)
        /\ SubSeq(p, 14, 17) = SubSeq(c, 14, 17) /\ SubSeq(p, 1, 17) = SubSeq(c, 1, 17)
    <3>1. \A i \in 1..17 : \A j \in i..17 : SubSeq(p, i, j) = SubSeq(c, i, j)
      BY <2>1, Zenon DEF Joins
    <3> QED
      BY <3>1
  <2>4. SubSeq(p, 17 + 1, 17 + Len(m.previous)) = m.previous
    BY <2>1, Zenon DEF Joins
  <2>5. SubSeq(c, 1, 17) = c
    BY <1>10, CutWhole
  <2>6. SubSeq(p, 18, Len(p)) = m.previous
    BY <1>6, <2>2, <2>4
  <2> QED
    BY <1>10, <2>2, <2>3, <2>5, <2>6
<1> QED
  BY <1>2, <1>11 DEF a, b, c, side

LEMMA RecordsAreTold ==
    ASSUME NEW m \in RecordMessage
    PROVE  LET d == Decoded(m, Wire(m))
           IN  IF d.kind = "entry"
               THEN d = [kind |-> "entry", event |-> m.event, facet |-> m.facet, pause |-> m.pause,
                         moment |-> m.moment, duration |-> m.duration, previous |-> m.previous]
               ELSE m.event \o <<Side(m)>> \o m.moment \o m.duration = Zeros(17)
<1> DEFINE p == Wire(m)
<1>1. m.on = "history" /\ m.facet \in 0..127 /\ m.pause \in BOOLEAN
  BY FacetsAreSmall DEF RecordMessage
<1>2. Decoded(m, p) = DecodeHistoryPacket(p)
  BY <1>1 DEF Decoded, TapOn, OutputOn
<1>3. CASE SubSeq(p, 1, 17) = Zeros(17)
  <2>1. Decoded(m, p).kind = "complete"
    BY <1>2, <1>3 DEF DecodeHistoryPacket
  <2> QED
    BY <1>3, <2>1, RecordOnTheWire
<1>4. CASE SubSeq(p, 1, 17) # Zeros(17)
  <2>1. p[5] % 128 = m.facet /\ (p[5] > 127 <=> m.pause)
    BY <1>1, SidesAreOctets, RecordOnTheWire
  <2>2. (p[5] > 127) = m.pause
    BY <1>1, <2>1
  <2>3. DecodeHistoryPacket(p) =
            [kind |-> "entry", event |-> SubSeq(p, 1, 4), facet |-> p[5] % 128, pause |-> p[5] > 127,
             moment |-> SubSeq(p, 6, 13), duration |-> SubSeq(p, 14, 17), previous |-> SubSeq(p, 18, Len(p))]
    BY <1>4 DEF DecodeHistoryPacket
  <2>4. /\ SubSeq(p, 1, 4) = m.event /\ SubSeq(p, 6, 13) = m.moment
        /\ SubSeq(p, 14, 17) = m.duration /\ SubSeq(p, 18, Len(p)) = m.previous
    BY RecordOnTheWire
  <2>5. DecodeHistoryPacket(p) =
            [kind |-> "entry", event |-> m.event, facet |-> m.facet, pause |-> m.pause,
             moment |-> m.moment, duration |-> m.duration, previous |-> m.previous]
    BY <2>1, <2>2, <2>3, <2>4, Zenon
  <2> HIDE DEF p
  <2>6. DecodeHistoryPacket(p).kind = "entry"
    BY <2>5
  <2> QED
    BY <1>2, <2>5, <2>6, Zenon DEF p
<1> QED
  BY <1>3, <1>4

(***************************************************************************)
(* An acknowledgement is cut at its first zero, which stands behind its    *)
(* command and its status, or at its fourth byte.                          *)
(***************************************************************************)
LEMMA FirstPlace ==
    ASSUME NEW T \in SUBSET Nat, T # {}
    PROVE  \E i \in T : \A j \in T : i <= j
<1>1. PICK i \in T : \A j \in T : ~(<<j, i>> \in OpToRel(<, Nat))
  BY NatLessThanWellFounded, WFMin, Zenon
<1>2. \A j \in T : ~(j < i)
  BY <1>1 DEF OpToRel
<1> QED
  BY <1>2

LEMMA AcknowledgementIsCut ==
    ASSUME NEW p \in Seq(Octet), Len(p) >= 2, p[1] # 0, p[2] # 0
    PROVE  LET ack == AcknowledgementBytes(p)
           IN  /\ Len(ack) >= 2 /\ Len(ack) <= 4 /\ ack[1] = p[1] /\ ack[2] = p[2]
               /\ \A i \in DOMAIN ack : ack[i] # 0
<1> DEFINE zeros == {i \in 1..Len(p) : p[i] = 0}
           first(i) == i \in 1..Len(p) /\ p[i] = 0 /\ \A j \in 1..i - 1 : p[j] # 0
           end == IF \E i \in 1..Len(p) : p[i] = 0
                  THEN (CHOOSE i \in 1..Len(p) : p[i] = 0 /\ \A j \in 1..i - 1 : p[j] # 0) - 1
                  ELSE Len(p)
           n == IF end < 4 THEN end ELSE 4
<1>1. Len(p) \in Nat
  OBVIOUS
<1>2. end \in 2..Len(p) /\ \A j \in 1..end : p[j] # 0
  <2>1. CASE \E i \in 1..Len(p) : p[i] = 0
    <3>1. zeros \in SUBSET Nat /\ zeros # {}
      BY <2>1
    <3>2. PICK i \in zeros : \A j \in zeros : i <= j
      BY <3>1, FirstPlace
    <3>3. \A j \in 1..i - 1 : p[j] # 0
      <4>1. ASSUME NEW j \in 1..i - 1, p[j] = 0 PROVE FALSE
        <5>1. j \in zeros
          BY <1>1, <4>1
        <5> QED
          BY <1>1, <3>2, <5>1
      <4> QED
        BY <4>1
    <3>4. \E k \in 1..Len(p) : p[k] = 0 /\ \A j \in 1..k - 1 : p[j] # 0
      BY <3>2, <3>3
    <3> DEFINE f == CHOOSE k \in 1..Len(p) : p[k] = 0 /\ \A j \in 1..k - 1 : p[j] # 0
    <3>5. f \in 1..Len(p) /\ p[f] = 0 /\ \A j \in 1..f - 1 : p[j] # 0
      BY <3>4, Zenon
    <3>6. end = f - 1
      BY <2>1
    <3> HIDE DEF f, end
    <3>7. f # 1 /\ f # 2
      BY <3>5
    <3> QED
      BY <1>1, <3>5, <3>6, <3>7
  <2>2. CASE ~\E i \in 1..Len(p) : p[i] = 0
    <3>1. end = Len(p)
      BY <2>2
    <3> HIDE DEF end
    <3> QED
      BY <1>1, <2>2, <3>1
  <2> QED
    BY <2>1, <2>2
<1> HIDE DEF end
<1>3. n \in 2..4 /\ n \in 2..Len(p) /\ n <= end
  BY <1>1, <1>2
<1> HIDE DEF n
<1>4. AcknowledgementBytes(p) = SubSeq(p, 1, n)
  BY DEF AcknowledgementBytes, n, end
<1> DEFINE ack == SubSeq(p, 1, n)
<1>5. /\ ack \in Seq(Octet) /\ Len(ack) = n /\ \A i \in 1..n : ack[i] = p[i]
  <2>1. \A i \in 1..n : p[i] \in Octet
    BY <1>1, <1>3
  <2>2. /\ ack \in Seq(Octet) /\ Len(ack) = IF 1 <= n THEN n - 1 + 1 ELSE 0
        /\ \A i \in 1..n - 1 + 1 : ack[i] = p[1 + i - 1]
    BY <1>3, <2>1
  <2> HIDE DEF ack
  <2> QED
    BY <1>3, <2>2
<1> HIDE DEF ack
<1>6. /\ Len(ack) >= 2 /\ Len(ack) <= 4 /\ ack[1] = p[1] /\ ack[2] = p[2]
      /\ \A i \in DOMAIN ack : ack[i] # 0
  <2>1. DOMAIN ack = 1..n
    BY <1>3, <1>5
  <2> QED
    BY <1>2, <1>3, <1>5, <2>1
<1> QED
  BY <1>4, <1>6 DEF ack

LEMMA AcksAreTold ==
    ASSUME NEW m \in Ack
    PROVE  LET d == Decoded(m, Wire(m))
           IN  /\ d.kind = "ack" /\ d.code = Code[m.command] /\ d.ok = m.ok
               /\ Len(d.raw) <= 4 /\ \A i \in DOMAIN d.raw : d.raw[i] # 0
<1> DEFINE head == <<Code[m.command], Flag(m.ok, 2, 1)>>
           p == head \o m.tail
           ack == AcknowledgementBytes(p)
<1>1. m.on = "command" /\ m.command \in DOMAIN Code /\ m.ok \in BOOLEAN /\ m.tail \in Trailer
  BY DEF Ack
<1>2. Code[m.command] \in {4, 16, 20, 23} /\ Flag(m.ok, 2, 1) \in {1, 2}
  BY <1>1 DEF Code, Flag
<1>3. head \in Seq(Octet) /\ Len(head) = 2 /\ head[1] = Code[m.command] /\ head[2] = Flag(m.ok, 2, 1)
  BY <1>2 DEF Octet
<1>4. m.tail \in Seq(Octet) /\ Len(m.tail) \in Nat
  <2>1. 0 \in Octet /\ 2 \in Octet /\ 7 \in Octet /\ 8 \in Octet /\ 9 \in Octet
    BY DEF Octet
  <2>2. /\ <<0>> \in Seq(Octet) /\ <<0, 2>> \in Seq(Octet) /\ <<7>> \in Seq(Octet)
        /\ <<7, 0, 2>> \in Seq(Octet) /\ <<7, 8, 9>> \in Seq(Octet) /\ <<>> \in Seq(Octet)
    BY <2>1
  <2>3. m.tail \in Seq(Octet)
    BY <1>1, <2>2, Zenon DEF Trailer
  <2> QED
    BY <2>3
<1> HIDE DEF head
<1>5. Joins(p, head, 2, m.tail)
  BY <1>3, <1>4, Joined
<1>6. Wire(m) = p
  BY <1>1 DEF Wire, TapOn, OutputOn, head
<1> HIDE DEF p
<1>7. p \in Seq(Octet) /\ Len(p) >= 2 /\ p[1] = Code[m.command] /\ p[2] = Flag(m.ok, 2, 1)
  BY <1>3, <1>4, <1>5 DEF Joins
<1>8. p[1] # 0 /\ p[2] # 0 /\ p[2] \in {1, 2}
  BY <1>2, <1>7
<1>9. /\ Len(ack) >= 2 /\ Len(ack) <= 4 /\ ack[1] = p[1] /\ ack[2] = p[2]
      /\ \A i \in DOMAIN ack : ack[i] # 0
  BY <1>7, <1>8, AcknowledgementIsCut
<1>10. Decoded(m, p) = DecodeCommandStatus(p)
  BY <1>1 DEF Decoded, TapOn, OutputOn
<1> HIDE DEF ack
<1>11. DecodeCommandStatus(p) = [kind |-> "ack", code |-> ack[1], ok |-> ack[2] = 2, raw |-> ack]
  BY <1>8, <1>9 DEF DecodeCommandStatus, ack
<1>12. (ack[2] = 2) = m.ok
  BY <1>1, <1>7, <1>9 DEF Flag
<1>13. Decoded(m, p) = [kind |-> "ack", code |-> Code[m.command], ok |-> m.ok, raw |-> ack]
  BY <1>7, <1>9, <1>10, <1>11, <1>12, Zenon
<1> DEFINE d == [kind |-> "ack", code |-> Code[m.command], ok |-> m.ok, raw |-> ack]
<1>14. d.kind = "ack" /\ d.code = Code[m.command] /\ d.ok = m.ok /\ d.raw = ack
  BY Zenon
<1> HIDE DEF d
<1>15. Decoded(m, Wire(m)) = d
  BY <1>6, <1>13, Zenon DEF d
<1> QED
  BY <1>9, <1>14, <1>15, Zenon

(***************************************************************************)
(* An output is decoded for the read it answers, whole, and for no other.  *)
(***************************************************************************)
LEMMA NoOtherOutput ==
    ASSUME NEW p, Len(p) > 2
    PROVE  p # <<>> /\ p # <<1>> /\ p # <<25, 0>>
<1>1. Len(<<>>) = 0 /\ Len(<<1>>) = 1 /\ Len(<<25, 0>>) = 2
  OBVIOUS
<1>2. Len(p) # 0 /\ Len(p) # 1 /\ Len(p) # 2
  OBVIOUS
<1> QED
  BY <1>1, <1>2, Zenon

LEMMA StatusIsTold ==
    ASSUME NEW m, m.on = "status", m.value \in OnOff
    PROVE  LET d == DecodeOutput(Wire(m))
           IN  /\ d["status"] = [kind |-> "status", value |-> m.value]
               /\ d["readTask"].kind = "polled" /\ d["tapRead"].kind = "polled"
<1> DEFINE head == <<Flag(m.value.lock, 1, 2), Flag(m.value.pause, 1, 2)>>
           p == head \o m.value.minutes
<1>1. m.value.lock \in BOOLEAN /\ m.value.pause \in BOOLEAN /\ m.value.minutes \in Number(2)
  BY DEF OnOff
<1>2. m.value = [lock |-> m.value.lock, pause |-> m.value.pause, minutes |-> m.value.minutes]
  BY DEF OnOff
<1>3. Wire(m) = p
  BY DEF Wire, OutputBytes, TapOn, OutputOn
<1>4. m.value.minutes \in Seq(Octet) /\ Len(m.value.minutes) = 2
  BY <1>1, NumbersAreSequences
<1>5. /\ head \in Seq(Octet) /\ Len(head) = 2
      /\ head[1] = Flag(m.value.lock, 1, 2) /\ head[2] = Flag(m.value.pause, 1, 2)
  BY <1>1 DEF Flag, Octet
<1> HIDE DEF head
<1>6. Joins(p, head, 2, m.value.minutes)
  BY <1>4, <1>5, Joined
<1> HIDE DEF p
<1>7. /\ p \in Seq(Octet) /\ Len(p) = 4
      /\ p[1] = Flag(m.value.lock, 1, 2) /\ p[2] = Flag(m.value.pause, 1, 2)
  BY <1>4, <1>5, <1>6 DEF Joins
<1>8. SubSeq(p, 3, 4) = m.value.minutes
  <2>1. SubSeq(p, 2 + 1, 2 + 2) = m.value.minutes
    BY <1>4, <1>6 DEF Joins
  <2> QED
    BY <2>1
<1>9. p[1] \in {1, 2} /\ p[2] \in {1, 2} /\ (p[1] = 1) = m.value.lock /\ (p[2] = 1) = m.value.pause
  BY <1>1, <1>7 DEF Flag
<1>10. p # <<>> /\ p # <<1>> /\ p # <<25, 0>>
  <2>1. Len(p) > 2
    BY <1>7
  <2> QED
    BY <2>1, NoOtherOutput, Zenon
<1>11. Taken("status", p) /\ ~Taken("readTask", p) /\ ~Taken("tapRead", p)
  BY <1>7, <1>9, <1>10 DEF Taken, Accepts, IsUnassigned, IsTrackerStatus, Code
<1>12. OutputOf("status", p) =
           [kind |-> "status", value |-> [lock |-> p[1] = 1, pause |-> p[2] = 1, minutes |-> SubSeq(p, 3, 4)]]
  BY <1>7, <1>9, <1>10 DEF OutputOf, IsUnassigned, IsTrackerStatus
<1>13. OutputOf("status", p) = [kind |-> "status", value |-> m.value]
  BY <1>2, <1>8, <1>9, <1>12, Zenon
<1>14. /\ DecodeOutput(p)["status"] = OutputOf("status", p)
       /\ DecodeOutput(p)["readTask"].kind = "polled" /\ DecodeOutput(p)["tapRead"].kind = "polled"
  BY <1>10, <1>11 DEF DecodeOutput
<1> QED
  BY <1>3, <1>13, <1>14, Zenon

LEMMA TaskIsTold ==
    ASSUME NEW m, m.on = "readTask", m.value \in Task
    PROVE  LET d == DecodeOutput(Wire(m))
           IN  /\ d["readTask"] = [kind |-> "readTask", value |-> m.value]
               /\ d["status"].kind = "polled" /\ d["tapRead"].kind = "polled"
<1> DEFINE head == <<Code.readTask, m.value.facet, m.value.mode>>
           a == head \o m.value.limit
           p == a \o m.value.elapsed
<1>1. /\ m.value.facet \in 0..127 /\ m.value.mode \in {0, 1}
      /\ m.value.limit \in Number(4) /\ m.value.elapsed \in Number(4)
  BY FacetsAreSmall DEF Task
<1>2. m.value = [facet |-> m.value.facet, mode |-> m.value.mode,
                 limit |-> m.value.limit, elapsed |-> m.value.elapsed]
  BY DEF Task
<1>3. Wire(m) = p
  BY DEF Wire, OutputBytes, TapOn, OutputOn
<1>4. m.value.limit \in Seq(Octet) /\ Len(m.value.limit) = 4
  BY <1>1, NumbersAreSequences
<1>5. m.value.elapsed \in Seq(Octet) /\ Len(m.value.elapsed) = 4
  BY <1>1, NumbersAreSequences
<1>6. /\ head \in Seq(Octet) /\ Len(head) = 3
      /\ head[1] = 20 /\ head[2] = m.value.facet /\ head[3] = m.value.mode
  BY <1>1 DEF Octet, Code
<1> HIDE DEF head
<1>7. Joins(a, head, 3, m.value.limit)
  BY <1>4, <1>6, Joined
<1> HIDE DEF a
<1>8. a \in Seq(Octet) /\ Len(a) = 7 /\ a[1] = 20 /\ a[2] = m.value.facet /\ a[3] = m.value.mode
  BY <1>4, <1>6, <1>7 DEF Joins
<1>9. SubSeq(a, 4, 7) = m.value.limit
  <2>1. SubSeq(a, 3 + 1, 3 + 4) = m.value.limit
    BY <1>4, <1>7 DEF Joins
  <2> QED
    BY <2>1
<1>10. Joins(p, a, 7, m.value.elapsed)
  BY <1>5, <1>8, Joined
<1> HIDE DEF p
<1>11. Len(p) = 11 /\ p[1] = 20 /\ p[2] = m.value.facet /\ p[3] = m.value.mode
  BY <1>5, <1>8, <1>10 DEF Joins
<1>12. SubSeq(p, 4, 7) = m.value.limit
  BY <1>9, <1>10 DEF Joins
<1>13. SubSeq(p, 8, 11) = m.value.elapsed
  <2>1. SubSeq(p, 7 + 1, 7 + 4) = m.value.elapsed
    BY <1>5, <1>10 DEF Joins
  <2> QED
    BY <2>1
<1>14. p # <<>> /\ p # <<1>> /\ p # <<25, 0>>
  <2>1. Len(p) > 2
    BY <1>11
  <2> QED
    BY <2>1, NoOtherOutput, Zenon
<1>15. Taken("readTask", p) /\ ~Taken("status", p) /\ ~Taken("tapRead", p)
  BY <1>11, <1>14 DEF Taken, Accepts, IsUnassigned, IsTrackerStatus, Code
<1>16. OutputOf("readTask", p) =
           [kind |-> "readTask", value |-> [facet |-> p[2], mode |-> p[3],
                                            limit |-> SubSeq(p, 4, 7), elapsed |-> SubSeq(p, 8, 11)]]
  BY <1>11, <1>14 DEF OutputOf, IsUnassigned, IsTrackerStatus
<1>17. OutputOf("readTask", p) = [kind |-> "readTask", value |-> m.value]
  BY <1>2, <1>11, <1>12, <1>13, <1>16, Zenon
<1>18. /\ DecodeOutput(p)["readTask"] = OutputOf("readTask", p)
       /\ DecodeOutput(p)["status"].kind = "polled" /\ DecodeOutput(p)["tapRead"].kind = "polled"
  BY <1>14, <1>15 DEF DecodeOutput
<1> QED
  BY <1>3, <1>17, <1>18, Zenon

LEMMA TapsSettingsAreTold ==
    ASSUME NEW m, m.on = "tapRead", m.value \in Taps
    PROVE  LET d == DecodeOutput(Wire(m))
           IN  /\ d["tapRead"] = [kind |-> "tapRead", value |-> m.value]
               /\ d["status"].kind = "polled" /\ d["readTask"].kind = "polled"
<1> DEFINE p == <<Code.tapRead, 58, m.value.threshold, 59, m.value.limit,
                                60, m.value.latency, 61, m.value.window>>
<1>1. m.value = [threshold |-> m.value.threshold, limit |-> m.value.limit,
                 latency |-> m.value.latency, window |-> m.value.window]
  BY DEF Taps
<1>2. Wire(m) = p
  BY DEF Wire, OutputBytes, TapOn, OutputOn
<1>3. /\ Len(p) = 9 /\ p[1] = 23 /\ p[2] = 58 /\ p[3] = m.value.threshold /\ p[5] = m.value.limit
      /\ p[7] = m.value.latency /\ p[9] = m.value.window
  BY DEF Code
<1> HIDE DEF p
<1>4. p # <<>> /\ p # <<1>> /\ p # <<25, 0>>
  <2>1. Len(p) > 2
    BY <1>3
  <2> QED
    BY <2>1, NoOtherOutput, Zenon
<1>5. Taken("tapRead", p) /\ ~Taken("status", p) /\ ~Taken("readTask", p)
  BY <1>3, <1>4 DEF Taken, Accepts, IsUnassigned, IsTrackerStatus, Code
<1>6. OutputOf("tapRead", p) =
          [kind |-> "tapRead", value |-> [threshold |-> p[3], limit |-> p[5], latency |-> p[7], window |-> p[9]]]
  BY <1>3, <1>4 DEF OutputOf, IsUnassigned, IsTrackerStatus
<1>7. OutputOf("tapRead", p) = [kind |-> "tapRead", value |-> m.value]
  BY <1>1, <1>3, <1>6, Zenon
<1>8. /\ DecodeOutput(p)["tapRead"] = OutputOf("tapRead", p)
      /\ DecodeOutput(p)["status"].kind = "polled" /\ DecodeOutput(p)["readTask"].kind = "polled"
  BY <1>4, <1>5 DEF DecodeOutput
<1> QED
  BY <1>2, <1>7, <1>8, Zenon

LEMMA OtherOutputsAreNot ==
    ASSUME NEW m, m.on \in {"unassigned", "wrongPassword", "nothing"},
           NEW read \in {"status", "readTask", "tapRead"}
    PROVE  LET d == DecodeOutput(Wire(m))[read]
           IN  \/ d.kind \in {"polled", "unauthorized"}
               \/ d.kind = "unassigned" /\ m.on = "unassigned" /\ read # "status"
<1> DEFINE p == Wire(m)
<1>1. CASE m.on = "unassigned"
  <2>1. p = <<25, 0>>
    BY <1>1 DEF Wire, OutputBytes, TapOn, OutputOn
  <2>2. p[1] = 25 /\ Len(p) = 2 /\ p # <<>> /\ p # <<1>>
    BY <2>1
  <2> HIDE DEF p
  <2>3. CASE read = "status"
    <3>1. ~Taken(read, p)
      BY <2>2, <2>3 DEF Taken, Accepts, IsTrackerStatus, Code
    <3>2. DecodeOutput(p)[read].kind = "polled"
      BY <2>2, <3>1 DEF DecodeOutput
    <3> QED
      BY <3>2 DEF p
  <2>4. CASE read # "status"
    <3>1. Taken(read, p)
      BY <2>1, <2>2, <2>4 DEF Taken, Accepts, IsUnassigned
    <3>2. OutputOf(read, p) = [kind |-> "unassigned", value |-> 0]
      BY <2>1, <2>2, <2>4 DEF OutputOf, IsUnassigned, IsTrackerStatus
    <3>3. DecodeOutput(p)[read] = OutputOf(read, p)
      BY <3>1 DEF DecodeOutput
    <3>4. DecodeOutput(p)[read].kind = "unassigned"
      BY <3>2, <3>3
    <3> QED
      BY <1>1, <2>4, <3>4 DEF p
  <2> QED
    BY <2>3, <2>4
<1>2. CASE m.on = "wrongPassword"
  <2>1. p = <<1>>
    BY <1>2 DEF Wire, OutputBytes, TapOn, OutputOn
  <2>2. p[1] = 1
    BY <2>1
  <2>3. ~Taken(read, p)
    BY <2>1, <2>2 DEF Taken, Code
  <2> HIDE DEF p
  <2>4. DecodeOutput(p)[read].kind = "unauthorized"
    BY <2>1, <2>3 DEF DecodeOutput
  <2> QED
    BY <2>4 DEF p
<1>3. CASE m.on = "nothing"
  <2>1. p = <<>>
    BY <1>3 DEF Wire, OutputBytes, TapOn, OutputOn
  <2>2. Len(p) = 0 /\ p # <<1>> /\ p # <<25, 0>>
    BY <2>1
  <2> HIDE DEF p
  <2>3. ~Taken(read, p)
    BY <2>1, <2>2 DEF Taken, Accepts, IsUnassigned, IsTrackerStatus
  <2>4. DecodeOutput(p)[read].kind = "polled"
    BY <2>2, <2>3 DEF DecodeOutput
  <2> QED
    BY <2>4 DEF p
<1> QED
  BY <1>1, <1>2, <1>3

AnswersOne(d, m, read) ==
    /\ read = m.on => d[read] = [kind |-> read, value |-> m.value]
    /\ read # m.on =>
          \/ d[read].kind \in {"polled", "unauthorized"}
          \/ d[read].kind = "unassigned" /\ m.on = "unassigned" /\ read # "status"

LEMMA OutputsAreTold ==
    ASSUME NEW m \in Output, NEW read \in {"status", "readTask", "tapRead"}
    PROVE  /\ DOMAIN Decoded(m, Wire(m)) = {"status", "readTask", "tapRead"}
           /\ AnswersOne(Decoded(m, Wire(m)), m, read)
<1> DEFINE d == DecodeOutput(Wire(m))
<1>1. m.on \in OutputOn
  BY DEF Output, OutputOn
<1>2. Decoded(m, Wire(m)) = d
  BY <1>1 DEF Decoded, TapOn, OutputOn
<1>3. DOMAIN d = {"status", "readTask", "tapRead"}
  BY DEF DecodeOutput
<1>4. CASE m.on = "status"
  <2>1. m.value \in OnOff
    BY <1>4 DEF Output
  <2>2. /\ d["status"] = [kind |-> "status", value |-> m.value]
        /\ d["readTask"].kind = "polled" /\ d["tapRead"].kind = "polled"
    BY <1>4, <2>1, StatusIsTold
  <2> HIDE DEF d
  <2> QED
    BY <1>2, <1>3, <1>4, <2>2, Zenon DEF AnswersOne
<1>5. CASE m.on = "readTask"
  <2>1. m.value \in Task
    BY <1>5 DEF Output
  <2>2. /\ d["readTask"] = [kind |-> "readTask", value |-> m.value]
        /\ d["status"].kind = "polled" /\ d["tapRead"].kind = "polled"
    BY <1>5, <2>1, TaskIsTold
  <2> HIDE DEF d
  <2> QED
    BY <1>2, <1>3, <1>5, <2>2, Zenon DEF AnswersOne
<1>6. CASE m.on = "tapRead"
  <2>1. m.value \in Taps
    BY <1>6 DEF Output
  <2>2. /\ d["tapRead"] = [kind |-> "tapRead", value |-> m.value]
        /\ d["status"].kind = "polled" /\ d["readTask"].kind = "polled"
    BY <1>6, <2>1, TapsSettingsAreTold
  <2> HIDE DEF d
  <2> QED
    BY <1>2, <1>3, <1>6, <2>2, Zenon DEF AnswersOne
<1>7. CASE m.on \in {"unassigned", "wrongPassword", "nothing"}
  <2>1. read # m.on
    BY <1>7
  <2>2. \/ d[read].kind \in {"polled", "unauthorized"}
        \/ d[read].kind = "unassigned" /\ m.on = "unassigned" /\ read # "status"
    BY <1>7, OtherOutputsAreNot
  <2> HIDE DEF d
  <2> QED
    BY <1>2, <1>3, <2>1, <2>2, Zenon DEF AnswersOne
<1> QED
  BY <1>1, <1>4, <1>5, <1>6, <1>7, Zenon DEF OutputOn

(***************************************************************************)
(* A release of two minor digits, as a fraction and as a whole number.     *)
(***************************************************************************)
LEMMA ReleasesAreTold ==
    ASSUME NEW m \in Firmware, m.marker # "other", m.minor.scale = 100
    PROVE  Decoded(m, Wire(m)) = IF m.major = 4 \/ m.minor.value >= 47 THEN "v4" ELSE "v3"
<1>1. m.on = "firmware" /\ m.minor.value \in Nat
  BY CodecAssumption DEF Firmware
<1>2. Decoded(m, Wire(m)) = InferProtocolVersion(m)
  BY <1>1 DEF Decoded, TapOn, OutputOn
<1>3. AtLeast347(m) <=> m.major = 4 \/ m.minor.value >= 47
  BY <1>1 DEF AtLeast347
<1> QED
  BY <1>2, <1>3 DEF InferProtocolVersion

(***************************************************************************)
(* What the application is told is what the device said, for any bytes,    *)
(* any numbers made of them and any minor releases: events keep facet and  *)
(* pause, records all their parts, acknowledgements command and status,    *)
(* an output answers one read, and the releases split at 3.47.             *)
(***************************************************************************)
THEOREM MessagesUnderstood == CodecSpec => []MessagesAreUnderstood
<1>1. CodecInv => MessagesAreUnderstood
  <2> SUFFICES ASSUME CodecInv, HasTold PROVE MessagesAreUnderstood
    BY DEF MessagesAreUnderstood, EventsTellTheDevice, AcksSurviveTheirTail, OutputAnswersOne, FirmwareSplits
  <2>1. said \in Message /\ told[1] = Decoded(said, Wire(said))
    BY DEF CodecInv
  <2>2. EventsTellTheDevice
    <3>1. ASSUME said.on \in TapOn PROVE told[1].facet = said.facet /\ told[1].pause = said.pause
      BY <2>1, <3>1, KindsOfMessages, TapsAreTold
    <3>2. ASSUME said.on = "history"
          PROVE  IF told[1].kind = "entry"
                 THEN told[1] = [kind |-> "entry", event |-> said.event, facet |-> said.facet, pause |-> said.pause,
                              moment |-> said.moment, duration |-> said.duration, previous |-> said.previous]
                 ELSE said.event \o <<Side(said)>> \o said.moment \o said.duration = Zeros(17)
      <4>1. said \in RecordMessage
        BY <2>1, <3>2, KindsOfMessages
      <4> QED
        BY <2>1, <4>1, RecordsAreTold, Zenon
    <3> QED
      BY <3>1, <3>2, Zenon DEF EventsTellTheDevice
  <2>3. AcksSurviveTheirTail
    <3>1. ASSUME said.on = "command" PROVE said \in Ack
      BY <2>1, <3>1, KindsOfMessages
    <3> QED
      BY <2>1, <3>1, AcksAreTold, Zenon DEF AcksSurviveTheirTail
  <2>4. OutputAnswersOne
    <3> SUFFICES ASSUME said.on \in OutputOn, NEW read \in DOMAIN told[1]
                 PROVE  /\ read = said.on => told[1][read] = [kind |-> read, value |-> said.value]
                        /\ read # said.on =>
                              \/ told[1][read].kind \in {"polled", "unauthorized"}
                              \/ told[1][read].kind = "unassigned" /\ said.on = "unassigned" /\ read # "status"
      BY DEF OutputAnswersOne
    <3>1. said \in Output
      BY <2>1, KindsOfMessages
    <3>2. read \in {"status", "readTask", "tapRead"}
      BY <2>1, <3>1, OutputsAreTold
    <3>3. AnswersOne(told[1], said, read)
      BY <2>1, <3>1, <3>2, OutputsAreTold, Zenon
    <3> QED
      BY <3>3, Zenon DEF AnswersOne
  <2>5. FirmwareSplits
    <3>1. ASSUME said.on = "firmware" PROVE said \in Firmware
      BY <2>1, <3>1, KindsOfMessages
    <3> QED
      BY <2>1, <3>1, ReleasesAreTold, Zenon DEF FirmwareSplits
  <2> QED
    BY <2>2, <2>3, <2>4, <2>5 DEF MessagesAreUnderstood
<1> QED
  BY <1>1, CodecInvAlways, PTL

=============================================================================
