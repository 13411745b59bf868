---------------------------- MODULE Parts_proof ----------------------------
(***************************************************************************)
(* What the sum of the smaller models guarantees, the specification of     *)
(* MCParts, for every value of the constants.  A behaviour of the sum is a *)
(* behaviour of each of its parts, so what is proved of a part holds in    *)
(* it: of SessionVersion, CompoundCalls and HistoryRead in                 *)
(* SessionCalls_proof, of Pairing and DeviceNames in Client_proof, and of  *)
(* TraceForward, SampleStream and LineEditor here.                         *)
(*                                                                         *)
(* The two goroutines that carry values from a source to a channel,        *)
(* TraceForward and SampleStream, implement OrderedStream.                 *)
(*                                                                         *)
(* TraceForward.  A notification is its number, so the invariant says      *)
(* which numbers stand in each of the places it passes through.            *)
(***************************************************************************)
EXTENDS MCParts, SessionCalls_proof, Client_proof

\* s holds the numbers that follow n.
Follows(n, s) == \A i \in 1..Len(s) : s[i] = n + i

InnerFollows == Follows(delivered - Len(inner), inner)
ReceivedFollows == Follows(0, received)
LoggedFollows == Follows(0, logged)
WhileReceiving ==
    forwarder = "receiving" => Len(received) = delivered - Len(inner) /\ Len(logged) = Len(received)
WhileSending ==
    forwarder = "sending" =>
        /\ held = Len(received) + 1 /\ held = delivered - Len(inner)
        /\ Len(logged) = Len(received) + 1
OnceExited ==
    forwarder = "exited" =>
        /\ Len(logged) \in {Len(received), Len(received) + 1}
        /\ ~ctxDone => innerClosed /\ Len(received) = delivered /\ Len(logged) = Len(received)

TraceInv ==
    /\ TraceTypeOK
    /\ InnerFollows /\ ReceivedFollows /\ LoggedFollows
    /\ WhileReceiving /\ WhileSending /\ OnceExited

(***************************************************************************)
(* Appending the next number, and taking the first one, keep what follows. *)
(***************************************************************************)
LEMMA AppendFollows ==
    ASSUME NEW n \in Int, NEW s \in Seq(Int), Follows(n, s)
    PROVE  /\ Append(s, n + Len(s) + 1) \in Seq(Int)
           /\ Len(Append(s, n + Len(s) + 1)) = Len(s) + 1
           /\ Follows(n, Append(s, n + Len(s) + 1))
<1> DEFINE t == Append(s, n + Len(s) + 1)
<1>1. Len(s) \in Nat /\ n + Len(s) + 1 \in Int
  OBVIOUS
<1>2. t \in Seq(Int) /\ Len(t) = Len(s) + 1
  BY <1>1
<1>3. ASSUME NEW i \in 1..Len(t) PROVE t[i] = n + i
  <2>1. CASE i = Len(s) + 1
    BY <1>1, <2>1
  <2>2. CASE i \in 1..Len(s)
    BY <1>1, <2>2 DEF Follows
  <2> QED
    BY <1>1, <1>2, <2>1, <2>2
<1> QED
  BY <1>2, <1>3 DEF Follows

LEMMA TailFollows ==
    ASSUME NEW n \in Int, NEW s \in Seq(Int), s # <<>>, Follows(n, s)
    PROVE  Head(s) = n + 1 /\ Len(Tail(s)) = Len(s) - 1 /\ Follows(n + 1, Tail(s))
<1>1. Len(s) \in Nat \ {0}
  BY EmptySeq
<1>2. Head(s) = s[1]
  OBVIOUS
<1> QED
  BY <1>1, <1>2, HeadTailProperties DEF Follows

LEMMA Numbers ==
    ASSUME TraceTypeOK
    PROVE  /\ inner \in Seq(Int) /\ received \in Seq(Int) /\ logged \in Seq(Int)
           /\ Len(inner) \in Nat /\ Len(received) \in Nat /\ Len(logged) \in Nat
           /\ delivered \in Nat /\ delivered <= MaxNotifications /\ MaxNotifications \in Nat
<1>1. 1..MaxNotifications \subseteq Int
  OBVIOUS
<1>2. inner \in Seq(Int) /\ received \in Seq(Int) /\ logged \in Seq(Int)
  BY <1>1, SeqMonotonic DEF TraceTypeOK
<1> QED
  BY <1>2, TraceAssumption DEF TraceTypeOK

LEMMA InitTraceInv ==
    ASSUME TraceInit
    PROVE  TraceInv
<1>1. \A n \in Int : Follows(n, <<>>)
  BY EmptySeq DEF Follows
<1>2. Len(<<>>) = 0 /\ <<>> \in Seq(1..MaxNotifications)
  BY EmptySeq
<1>3. TraceTypeOK
  <2>1. delivered \in 0..MaxNotifications /\ held \in 0..MaxNotifications
    BY TraceAssumption DEF TraceInit
  <2>2. Len(inner) = 0 /\ Len(received) = 0 /\ Len(logged) = 0
    BY <1>2 DEF TraceInit
  <2>3. Len(inner) <= InnerBuffer
    BY <2>2, TraceAssumption
  <2>4. /\ inner \in Seq(1..MaxNotifications) /\ received \in Seq(1..MaxNotifications)
        /\ logged \in Seq(1..MaxNotifications)
    BY <1>2 DEF TraceInit
  <2> QED
    BY <2>1, <2>3, <2>4 DEF TraceInit, TraceTypeOK
<1>4. InnerFollows /\ ReceivedFollows /\ LoggedFollows
  BY <1>1, <1>2 DEF TraceInit, InnerFollows, ReceivedFollows, LoggedFollows
<1>5. WhileReceiving /\ WhileSending /\ OnceExited
  <2>1. delivered = 0 /\ Len(inner) = 0 /\ Len(received) = 0 /\ Len(logged) = 0 /\ forwarder = "receiving"
    BY <1>2 DEF TraceInit
  <2> QED
    BY <2>1 DEF WhileReceiving, WhileSending, OnceExited
<1> QED
  BY <1>3, <1>4, <1>5 DEF TraceInv

(***************************************************************************)
(* Steps that move no notification.                                        *)
(***************************************************************************)
LEMMA AroundKeepsInv ==
    ASSUME TraceInv,
           InnerCloses \/ CancelContext \/ CloseSession \/ ReaderGoesOn \/ ReaderLeaves \/ UNCHANGED traceVars
    PROVE  TraceInv'
<1> USE DEF TraceInv, InnerCloses, CancelContext, CloseSession, ReaderGoesOn, ReaderLeaves, traceVars, source, ends
<1>1. TraceTypeOK'
  BY DEF TraceTypeOK
<1>2. InnerFollows' /\ ReceivedFollows' /\ LoggedFollows'
  BY DEF InnerFollows, ReceivedFollows, LoggedFollows, Follows
<1>3. WhileReceiving' /\ WhileSending' /\ OnceExited'
  BY DEF WhileReceiving, WhileSending, OnceExited
<1> QED
  BY <1>1, <1>2, <1>3

LEMMA DeliverKeepsInv ==
    ASSUME TraceInv, Deliver
    PROVE  TraceInv'
<1> USE DEF TraceInv, Deliver, source, ends
<1>1. inner \in Seq(Int) /\ delivered \in Nat /\ Len(inner) \in Nat
  BY Numbers
<1>2. Len(inner') = Len(inner) + 1 /\ delivered' - Len(inner') = delivered - Len(inner)
  BY <1>1
<1>3. InnerFollows'
  BY <1>1, <1>2, AppendFollows DEF InnerFollows
<1>4. TraceTypeOK'
  BY <1>1, <1>2, TraceAssumption DEF TraceTypeOK
<1>5. ReceivedFollows' /\ LoggedFollows'
  BY DEF ReceivedFollows, LoggedFollows, Follows
<1>6. WhileReceiving' /\ WhileSending' /\ OnceExited'
  BY <1>1, <1>2 DEF WhileReceiving, WhileSending, OnceExited, TraceTypeOK
<1> QED
  BY <1>3, <1>4, <1>5, <1>6

LEMMA LogsKeepsInv ==
    ASSUME TraceInv, Logs
    PROVE  /\ TraceInv'
           /\ held' = Len(received) + 1
<1> USE DEF TraceInv, Logs, source, ends
<1>1. /\ inner \in Seq(Int) /\ logged \in Seq(Int) /\ delivered \in Nat /\ Len(inner) \in Nat
      /\ Len(received) \in Nat /\ Len(logged) \in Nat
  BY Numbers
<1>2. /\ held' = delivered - Len(inner) + 1
      /\ Len(inner') = Len(inner) - 1
      /\ Follows(delivered - Len(inner) + 1, inner')
  BY <1>1, TailFollows DEF InnerFollows
<1>3. InnerFollows'
  BY <1>1, <1>2 DEF InnerFollows, Follows
<1>4. held' = Len(received) + 1 /\ held' = 0 + Len(logged) + 1
  BY <1>1, <1>2 DEF WhileReceiving, TraceTypeOK
<1>5. logged' = Append(logged, 0 + Len(logged) + 1)
  BY <1>4
<1>6. LoggedFollows' /\ Len(logged') = Len(logged) + 1
  BY <1>1, <1>5, AppendFollows DEF LoggedFollows
<1>7. Head(inner) \in 1..MaxNotifications /\ Tail(inner) \in Seq(1..MaxNotifications)
  BY HeadTailProperties DEF TraceTypeOK
<1>8. TraceTypeOK'
  BY <1>1, <1>2, <1>7, TraceAssumption DEF TraceTypeOK
<1>9. ReceivedFollows'
  BY DEF ReceivedFollows, Follows
<1>10. WhileReceiving' /\ WhileSending' /\ OnceExited'
  BY <1>1, <1>2, <1>4, <1>6 DEF WhileReceiving, WhileSending, OnceExited
<1> QED
  BY <1>3, <1>4, <1>6, <1>8, <1>9, <1>10

LEMMA ForwardsKeepsInv ==
    ASSUME TraceInv, Forwards
    PROVE  TraceInv'
<1> USE DEF TraceInv, Forwards, source, ends
<1>1. /\ received \in Seq(Int) /\ Len(received) \in Nat /\ delivered \in Nat /\ Len(inner) \in Nat
      /\ delivered <= MaxNotifications /\ MaxNotifications \in Nat
  BY Numbers
<1>2. held = 0 + Len(received) + 1 /\ held \in 1..MaxNotifications
  BY <1>1 DEF WhileSending
<1>3. ReceivedFollows' /\ Len(received') = Len(received) + 1
  BY <1>1, <1>2, AppendFollows DEF ReceivedFollows
<1>4. TraceTypeOK'
  BY <1>1, <1>2 DEF TraceTypeOK
<1>5. InnerFollows' /\ LoggedFollows'
  BY DEF InnerFollows, LoggedFollows, Follows
<1>6. WhileReceiving' /\ WhileSending' /\ OnceExited'
  BY <1>1, <1>2, <1>3 DEF WhileReceiving, WhileSending, OnceExited
<1> QED
  BY <1>3, <1>4, <1>5, <1>6

LEMMA ExitKeepsInv ==
    ASSUME TraceInv, Cancelled \/ SeesInnerClosed
    PROVE  TraceInv'
<1> USE DEF TraceInv, Cancelled, SeesInnerClosed, source, ends
<1>1. TraceTypeOK'
  <2>1. held' \in 0..MaxNotifications
    BY Numbers DEF TraceTypeOK
  <2> QED
    BY <2>1 DEF TraceTypeOK
<1>2. InnerFollows' /\ ReceivedFollows' /\ LoggedFollows'
  BY DEF InnerFollows, ReceivedFollows, LoggedFollows, Follows
<1>3. OnceExited'
  BY DEF OnceExited, WhileReceiving, WhileSending, TraceTypeOK
<1>4. WhileReceiving' /\ WhileSending'
  BY DEF WhileReceiving, WhileSending
<1> QED
  BY <1>1, <1>2, <1>3, <1>4

LEMMA TraceInductive == TraceInv /\ [TraceNext]_traceVars => TraceInv'
BY AroundKeepsInv, DeliverKeepsInv, LogsKeepsInv, ForwardsKeepsInv, ExitKeepsInv DEF TraceNext, Forwarder

LEMMA TraceInvAlways == TraceSpec => []TraceInv
<1>1. TraceInit => TraceInv
  BY InitTraceInv
<1>2. TraceInv /\ [TraceNext]_traceVars => TraceInv'
  BY TraceInductive
<1> QED
  BY <1>1, <1>2, PTL DEF TraceSpec

(***************************************************************************)
(* Every reachable state of a traced subscription is well typed: at most   *)
(* InnerBuffer notifications wait in the channel of trace.go's inner       *)
(* subscription.                                                           *)
(***************************************************************************)
THEOREM TraceTypeCorrectness == TraceSpec => []TraceTypeOK
<1>1. TraceInv => TraceTypeOK
  BY DEF TraceInv
<1> QED
  BY <1>1, TraceInvAlways, PTL

----------------------------------------------------------------------------
(***************************************************************************)
(* The trace is what happened, for any channel and any reader: trace.go    *)
(* logs a notification before it forwards it, and logs the next one only   *)
(* when the reader has taken it.                                           *)
(***************************************************************************)
THEOREM TraceTellsWhatHappened == TraceSpec => []TraceIsTrue
<1>1. ASSUME TraceInv PROVE TraceIsTrue
  <2>1. /\ received \in Seq(Int) /\ logged \in Seq(Int)
        /\ Len(received) \in Nat /\ Len(logged) \in Nat /\ Len(received) <= Len(logged)
    BY <1>1, Numbers DEF TraceInv, TraceTypeOK, WhileReceiving, WhileSending, OnceExited
  <2>2. \A i \in 1..Len(received) : logged[i] \in Int /\ logged[i] = received[i]
    BY <1>1, <2>1 DEF TraceInv, ReceivedFollows, LoggedFollows, Follows
  <2> DEFINE forwarded == SubSeq(logged, 1, Len(received))
  <2>3. /\ forwarded \in Seq(Int) /\ Len(forwarded) = Len(received)
        /\ \A i \in 1..Len(received) : forwarded[i] = logged[i]
    BY <2>1, <2>2, SubSeqProperties
  <2>4. forwarded = received
    BY <2>1, <2>2, <2>3, SeqEqual
  <2>5. Len(logged) <= Len(received) + 1 /\ (Len(logged) > Len(received) => forwarder = "sending" \/ ctxDone)
    BY <1>1, <2>1 DEF TraceInv, TraceTypeOK, WhileReceiving, WhileSending, OnceExited
  <2> QED
    BY <2>4, <2>5 DEF TraceIsTrue
<1> QED
  BY <1>1, TraceInvAlways, PTL

(***************************************************************************)
(* Without a cancelled context nothing is lost: the loop over the inner    *)
(* channel goes on to its end, and every send waits for its reader.        *)
(***************************************************************************)
THEOREM ForwardsToTheEnd == TraceSpec => []CloseDrains
<1>1. TraceInv => CloseDrains
  BY DEF TraceInv, OnceExited, CloseDrains
<1> QED
  BY <1>1, TraceInvAlways, PTL

(***************************************************************************)
(* Both together, for the tracing connection of the demo.                  *)
(***************************************************************************)
THEOREM HarmlessTracing == TraceSpec => []TracingIsHarmless
<1>1. TraceIsTrue /\ CloseDrains => TracingIsHarmless
  BY DEF TracingIsHarmless
<1> QED
  BY <1>1, TraceTellsWhatHappened, ForwardsToTheEnd, PTL

----------------------------------------------------------------------------
(***************************************************************************)
(* The refinement.  What is under way is what the forwarder sends and what *)
(* the inner channel holds.                                                *)
(***************************************************************************)
LEMMA UnderWayIs ==
    ASSUME TraceInv
    PROVE  /\ forwarder = "receiving" => UnderWay = inner
           /\ forwarder = "sending" => UnderWay = <<held>> \o inner
           /\ forwarder = "exited" => UnderWay = <<>>
<1>1. inner \in Seq(Int) /\ <<>> \o inner = inner
  BY Numbers, ConcatEmptySeq DEF TraceInv
<1> QED
  BY <1>1 DEF UnderWay

LEMMA DeliverGives ==
    ASSUME TraceInv, TraceInv', Deliver
    PROVE  [Ordered!Next]_(Ordered!vars)
<1>1. /\ inner \in Seq(Int) /\ Len(inner) \in Nat /\ Len(received) \in Nat
      /\ delivered \in Nat /\ InnerBuffer \in Nat /\ held \in Int
  BY Numbers, TraceAssumption DEF TraceInv, TraceTypeOK
<1>2. inner' = Append(inner, delivered + 1) /\ Len(inner) < InnerBuffer /\ UNCHANGED <<forwarder, held, received>>
  BY DEF Deliver
<1>3. CASE forwarder = "receiving"
  <2>1. UnderWay = inner /\ UnderWay' = inner'
    <3>1. inner' \in Seq(Int) /\ <<>> \o inner' = inner'
      BY <1>1, <1>2, ConcatEmptySeq
    <3> QED
      BY <1>2, <1>3, <3>1, UnderWayIs DEF UnderWay
  <2>2. delivered + 1 = Len(received) + Len(UnderWay) + 1
    BY <1>1, <1>3, <2>1 DEF TraceInv, WhileReceiving
  <2>3. Ordered!Give
    BY <1>1, <1>2, <1>3, <2>1, <2>2 DEF Ordered!Give
  <2> QED
    BY <2>3 DEF Ordered!Next
<1>4. CASE forwarder = "sending"
  <2>1. UnderWay = <<held>> \o inner /\ UnderWay' = <<held>> \o Append(inner, delivered + 1)
    BY <1>2, <1>4, UnderWayIs DEF UnderWay
  <2>2. Len(UnderWay) = Len(inner) + 1 /\ UnderWay' = Append(UnderWay, delivered + 1)
    BY <1>1, <2>1
  <2>3. delivered + 1 = Len(received) + Len(UnderWay) + 1
    <3>1. delivered - Len(inner) = Len(received) + 1
      BY <1>4 DEF TraceInv, WhileSending
    <3> QED
      BY <1>1, <2>2, <3>1
  <2>4. Ordered!Give
    BY <1>1, <1>2, <1>4, <2>2, <2>3 DEF Ordered!Give
  <2> QED
    BY <2>4 DEF Ordered!Next
<1>5. CASE forwarder = "exited"
  BY <1>2, <1>5 DEF UnderWay, Ordered!vars
<1> QED
  BY <1>3, <1>4, <1>5 DEF TraceInv, TraceTypeOK

LEMMA LogsIsHidden ==
    ASSUME TraceInv, TraceInv', Logs
    PROVE  UNCHANGED Ordered!vars
<1>1. inner \in Seq(Int) /\ inner # <<>>
  BY Numbers DEF TraceInv, Logs
<1>2. UnderWay = inner
  BY UnderWayIs DEF Logs
<1>3. UnderWay' = <<Head(inner)>> \o Tail(inner)
  BY DEF UnderWay, Logs
<1>4. <<Head(inner)>> \o Tail(inner) = inner
  BY <1>1
<1> QED
  BY <1>2, <1>3, <1>4 DEF Logs, Ordered!vars

LEMMA ForwardsTakes ==
    ASSUME TraceInv, TraceInv', Forwards
    PROVE  Ordered!Take
<1>1. inner \in Seq(Int) /\ held \in Int
  BY Numbers DEF TraceInv, TraceTypeOK
<1>2. UnderWay = <<held>> \o inner
  BY UnderWayIs DEF Forwards
<1>3. UnderWay' = <<>> \o inner
  BY DEF UnderWay, Forwards, source
<1>4. UnderWay # <<>> /\ Head(UnderWay) = held /\ Tail(UnderWay) = inner
  BY <1>1, <1>2
<1>5. UnderWay' = inner
  BY <1>1, <1>3, ConcatEmptySeq
<1> QED
  BY <1>4, <1>5 DEF Forwards, Ordered!Take

LEMMA ExitEnds ==
    ASSUME TraceInv, Cancelled \/ SeesInnerClosed
    PROVE  Ordered!End
<1>1. UnderWay \in Seq(Int)
  <2>1. inner \in Seq(Int) /\ held \in Int
    BY Numbers DEF TraceInv, TraceTypeOK
  <2> QED
    <3>1. UnderWay = inner \/ UnderWay = <<held>> \o inner
      BY UnderWayIs DEF Cancelled, SeesInnerClosed
    <3>2. <<held>> \in Seq(Int)
      BY <2>1
    <3> QED
      BY <2>1, <3>1, <3>2, ConcatProperties
<1>2. UnderWay' = <<>> /\ forwarder # "exited" /\ forwarder' = "exited" /\ received' = received
  BY DEF UnderWay, Cancelled, SeesInnerClosed
<1>3. 0 \in 0..Len(UnderWay) /\ SubSeq(UnderWay, 1, 0) = <<>>
  BY <1>1, SubSeqEmpty
<1> QED
  BY <1>2, <1>3 DEF Ordered!End

LEMMA AroundIsHidden ==
    ASSUME InnerCloses \/ CancelContext \/ CloseSession \/ ReaderGoesOn \/ ReaderLeaves \/ UNCHANGED traceVars
    PROVE  UNCHANGED Ordered!vars
BY DEF InnerCloses, CancelContext, CloseSession, ReaderGoesOn, ReaderLeaves, traceVars, source, UnderWay, Ordered!vars

(***************************************************************************)
(* The forwarder of trace.go is an ordered stream: tracing does not        *)
(* reorder, repeat or drop notifications, and holds one more than the      *)
(* channel below it.                                                       *)
(***************************************************************************)
THEOREM ForwarderIsOrdered == TraceSpec => CarriesNotifications
<1>1. TraceInit => Ordered!Init
  <2> SUFFICES ASSUME TraceInit PROVE Ordered!Init
    OBVIOUS
  <2>1. UnderWay = <<>> \o <<>> /\ received = <<>> /\ forwarder # "exited"
    BY DEF TraceInit, UnderWay
  <2>2. <<>> \o <<>> = <<>>
    BY EmptySeq, ConcatEmptySeq
  <2> QED
    BY <2>1, <2>2 DEF Ordered!Init
<1>2. TraceInv /\ TraceInv' /\ [TraceNext]_traceVars => [Ordered!Next]_(Ordered!vars)
  BY DeliverGives, LogsIsHidden, ForwardsTakes, ExitEnds, AroundIsHidden DEF TraceNext, Forwarder, Ordered!Next
<1> QED
  BY <1>1, <1>2, TraceInvAlways, PTL DEF TraceSpec, CarriesNotifications, Ordered!Spec


----------------------------------------------------------------------------
(***************************************************************************)
(* SampleStream.  A sample is its number, too, and for the refinement it   *)
(* is enough to count: every sample the device has delivered has been      *)
(* received, is in the channel or is being sent, until the goroutine ends. *)
(***************************************************************************)
SamplesAddUp ==
    /\ producer = "sending" => sampled = Len(sampleReceived) + Len(samples) + 1
    /\ producer \notin {"sending", "exited"} => sampled = Len(sampleReceived) + Len(samples)

SampleInv == SampleTypeOK /\ SamplesAddUp

Sample == 1..MaxSamples

LEMMA SampleCounts ==
    ASSUME SampleInv
    PROVE  /\ samples \in Seq(Sample) /\ sampleReceived \in Seq(Sample)
           /\ Len(samples) \in Nat /\ Len(sampleReceived) \in Nat /\ Len(samples) <= Buffer
           /\ sampled \in Nat /\ sampled <= MaxSamples /\ MaxSamples \in Nat /\ Buffer \in Nat
           /\ producer = "sending" => sampled \in Sample
<1>1. /\ samples \in Seq(Sample) /\ sampleReceived \in Seq(Sample) /\ Len(samples) <= Buffer
      /\ sampled \in 0..MaxSamples
  BY DEF SampleInv, SampleTypeOK, Sample
<1>2. Len(samples) \in Nat /\ Len(sampleReceived) \in Nat
  BY <1>1
<1> QED
  BY <1>1, <1>2, SampleAssumption DEF SampleInv, SamplesAddUp, Sample

LEMMA InitSampleInv == SampleInit => SampleInv
<1> SUFFICES ASSUME SampleInit PROVE SampleInv
  OBVIOUS
<1>1. Len(<<>>) = 0 /\ <<>> \in Seq(1..MaxSamples)
  BY EmptySeq
<1>2. SampleTypeOK
  <2>1. Len(samples) <= Buffer /\ sampled \in 0..MaxSamples
    <3>1. Len(samples) = 0 /\ sampled = 0
      BY <1>1 DEF SampleInit
    <3> QED
      BY <3>1, SampleAssumption
  <2>2. samples \in Seq(1..MaxSamples) /\ sampleReceived \in Seq(1..MaxSamples)
    BY <1>1 DEF SampleInit
  <2> QED
    BY <2>1, <2>2 DEF SampleInit, SampleTypeOK, SamplePlace
<1>3. SamplesAddUp
  BY <1>1 DEF SampleInit, SamplesAddUp
<1> QED
  BY <1>2, <1>3 DEF SampleInv

\* Steps that move no sample: everything but the poll that succeeds, the two sends and the receipt.
SamplesRest ==
    \/ Start \/ Classify \/ CancelSamples \/ CloseSampledSession
    \/ TimerFires \/ PollFails \/ PollBegins
    \/ CloseErrs \/ CloseSamples \/ ReceiveError
    \/ UNCHANGED sampleVars

LEMMA RestKeepsPlaces ==
    ASSUME SampleInv, SamplesRest
    PROVE  /\ UNCHANGED <<samples, sampled, sampleReceived>>
           /\ producer' = producer \/ (producer \notin {"sending", "exited"} /\ producer' \notin {"sending", "exited"})
<1> USE DEF SamplesRest, sampleChans, sampleEnds, sampleVars
<1>1. CASE Start \/ Classify \/ CancelSamples \/ CloseSampledSession
  BY <1>1 DEF Start, Classify, CancelSamples, CloseSampledSession
<1>2. CASE TimerFires \/ PollFails \/ PollBegins
  BY <1>2 DEF TimerFires, PollFails, PollEnds, PollBegins, Again
<1>3. CASE CloseErrs \/ CloseSamples \/ ReceiveError \/ UNCHANGED sampleVars
  BY <1>3 DEF CloseErrs, CloseSamples, ReceiveError
<1> QED
  BY <1>1, <1>2, <1>3

LEMMA RestKeepsSampleInv ==
    ASSUME SampleInv, SamplesRest
    PROVE  SampleInv'
<1>1. SamplesAddUp'
  BY RestKeepsPlaces DEF SampleInv, SamplesAddUp
<1>2. SampleTypeOK'
  <2> USE DEF SampleInv, SampleTypeOK, SamplePlace, sampleChans, sampleEnds, sampleVars
  <2>1. CASE Start \/ Classify \/ CancelSamples \/ CloseSampledSession
    BY <2>1 DEF Start, Classify, CancelSamples, CloseSampledSession
  <2>2. CASE TimerFires \/ PollFails \/ PollBegins
    BY <2>2 DEF TimerFires, PollFails, PollEnds, PollBegins, Again
  <2>3. CASE CloseErrs \/ CloseSamples \/ ReceiveError \/ UNCHANGED sampleVars
    BY <2>3 DEF CloseErrs, CloseSamples, ReceiveError
  <2> QED
    BY <2>1, <2>2, <2>3 DEF SamplesRest
<1> QED
  BY <1>1, <1>2 DEF SampleInv

LEMMA MovesKeepSampleInv ==
    ASSUME SampleInv, PollSucceeds \/ Sends \/ HandsOver \/ Stops \/ Receive
    PROVE  SampleInv'
<1> USE DEF sampleChans, sampleEnds, Again
<1>1. CASE PollSucceeds
  <2>1. UNCHANGED <<samples, sampleReceived>> /\ sampled' = sampled + 1 /\ sampled' \in 0..MaxSamples
        /\ producer = "reading" /\ producer' = "sending"
    BY <1>1, SampleCounts DEF PollSucceeds
  <2>2. SamplesAddUp'
    BY <2>1, SampleCounts DEF SampleInv, SamplesAddUp
  <2>3. SampleTypeOK'
    BY <1>1, <2>1 DEF PollSucceeds, SampleInv, SampleTypeOK, SamplePlace
  <2> QED
    BY <2>2, <2>3 DEF SampleInv
<1>2. CASE Sends
  <2>1. /\ samples' \in Seq(Sample) /\ Len(samples') = Len(samples) + 1 /\ Len(samples') <= Buffer
        /\ UNCHANGED <<sampled, sampleReceived>> /\ producer = "sending" /\ producer' = "select"
    BY <1>2, SampleCounts DEF Sends
  <2>2. SamplesAddUp'
    BY <2>1, SampleCounts DEF SampleInv, SamplesAddUp
  <2>3. SampleTypeOK'
    BY <1>2, <2>1 DEF Sends, SampleInv, SampleTypeOK, SamplePlace, Sample
  <2> QED
    BY <2>2, <2>3 DEF SampleInv
<1>3. CASE HandsOver
  <2>1. /\ sampleReceived' \in Seq(Sample) /\ Len(sampleReceived') = Len(sampleReceived) + 1
        /\ UNCHANGED <<sampled, samples>> /\ producer = "sending" /\ producer' = "select"
    BY <1>3, SampleCounts DEF HandsOver
  <2>2. SamplesAddUp'
    BY <2>1, SampleCounts DEF SampleInv, SamplesAddUp
  <2>3. SampleTypeOK'
    BY <1>3, <2>1 DEF HandsOver, SampleInv, SampleTypeOK, SamplePlace, Sample
  <2> QED
    BY <2>2, <2>3 DEF SampleInv
<1>4. CASE Stops
  BY <1>4 DEF Stops, SampleInv, SampleTypeOK, SamplesAddUp, SamplePlace
<1>5. CASE Receive
  <2>1. /\ Head(samples) \in Sample /\ Tail(samples) \in Seq(Sample) /\ Len(Tail(samples)) = Len(samples) - 1
    BY <1>5, SampleCounts, HeadTailProperties DEF Receive
  <2>2. /\ sampleReceived' \in Seq(Sample) /\ Len(sampleReceived') = Len(sampleReceived) + 1
        /\ samples' \in Seq(Sample) /\ Len(samples') = Len(samples) - 1
        /\ UNCHANGED <<sampled, producer>>
    BY <1>5, <2>1, SampleCounts DEF Receive
  <2>3. SamplesAddUp'
    BY <2>2, SampleCounts DEF SampleInv, SamplesAddUp
  <2>4. Len(samples') <= Buffer
    BY <2>2, SampleCounts
  <2>5. SampleTypeOK'
    BY <1>5, <2>2, <2>4 DEF Receive, SampleInv, SampleTypeOK, Sample
  <2> QED
    BY <2>3, <2>5 DEF SampleInv
<1> QED
  BY <1>1, <1>2, <1>3, <1>4, <1>5

LEMMA SampleInvAlways == SampleSpec => []SampleInv
<1>1. SampleInv /\ [SampleNext]_sampleVars => SampleInv'
  BY RestKeepsSampleInv, MovesKeepSampleInv DEF SampleNext, Loop, SamplesRest
<1> QED
  BY <1>1, InitSampleInv, PTL DEF SampleSpec

(***************************************************************************)
(* Every reachable state of the stream of samples is well typed: at most   *)
(* Buffer samples wait in the channel.                                     *)
(***************************************************************************)
THEOREM SampleTypeCorrectness == SampleSpec => []SampleTypeOK
BY SampleInvAlways, PTL DEF SampleInv

InChannelOrSent ==
    /\ producer = "sending" => SamplesUnderWay = Append(samples, sampled)
    /\ producer # "sending" => SamplesUnderWay = samples

LEMMA SamplesUnderWayAre == SampleInv => InChannelOrSent
<1> SUFFICES ASSUME SampleInv PROVE InChannelOrSent
  OBVIOUS
<1>1. samples \in Seq(Sample) /\ samples \o <<>> = samples
  BY SampleCounts, ConcatEmptySeq
<1>2. producer = "sending" => samples \o <<sampled>> = Append(samples, sampled)
  BY <1>1, SampleCounts, AppendIsConcat
<1> QED
  BY <1>1, <1>2 DEF SamplesUnderWay, InChannelOrSent

\* A poll gives a sample; both sends and the receipt take or move one; the end gives up the last.
LEMMA SampleStepIsOrdered ==
    ASSUME SampleInv, SampleInv', [SampleNext]_sampleVars
    PROVE  [OrderedSamples!Next]_(OrderedSamples!vars)
<1> USE DEF sampleChans, sampleEnds, Again
<1>0. InChannelOrSent /\ InChannelOrSent'
  BY SamplesUnderWayAre, PTL
<1>1. /\ producer = "sending" => SamplesUnderWay = Append(samples, sampled)
      /\ producer # "sending" => SamplesUnderWay = samples
      /\ producer' = "sending" => SamplesUnderWay' = Append(samples', sampled')
      /\ producer' # "sending" => SamplesUnderWay' = samples'
  BY <1>0 DEF InChannelOrSent
<1>2. CASE SamplesRest
  <2>1. SamplesUnderWay' = SamplesUnderWay /\ sampleReceived' = sampleReceived
    BY <1>1, <1>2, RestKeepsPlaces
  <2>2. (producer = "exited")' = (producer = "exited")
    BY <1>2, RestKeepsPlaces
  <2> QED
    BY <2>1, <2>2 DEF OrderedSamples!vars
<1>3. CASE PollSucceeds
  <2>1. /\ producer = "reading" /\ producer' = "sending" /\ sampled' = sampled + 1
        /\ UNCHANGED <<samples, sampleReceived>>
    BY <1>3 DEF PollSucceeds
  <2>2. SamplesUnderWay = samples /\ SamplesUnderWay' = Append(samples, sampled + 1)
    BY <1>1, <2>1
  <2>3. sampled + 1 = Len(sampleReceived) + Len(samples) + 1 /\ Len(samples) < Buffer + 1
    BY <2>1, SampleCounts DEF SampleInv, SamplesAddUp
  <2>4. OrderedSamples!Give
    BY <2>1, <2>2, <2>3 DEF OrderedSamples!Give
  <2> QED
    BY <2>4 DEF OrderedSamples!Next
<1>4. CASE Sends
  <2>1. /\ producer = "sending" /\ producer' = "select" /\ samples' = Append(samples, sampled)
        /\ UNCHANGED <<sampled, sampleReceived>>
    BY <1>4 DEF Sends
  <2>2. SamplesUnderWay' = SamplesUnderWay
    BY <1>1, <2>1
  <2> QED
    BY <2>1, <2>2 DEF OrderedSamples!vars
<1>5. CASE HandsOver
  <2>1. /\ producer = "sending" /\ producer' = "select" /\ samples = <<>>
        /\ sampleReceived' = Append(sampleReceived, sampled) /\ UNCHANGED <<samples, sampled>>
    BY <1>5 DEF HandsOver
  <2>2. SamplesUnderWay = Append(<<>>, sampled) /\ SamplesUnderWay' = <<>>
    BY <1>1, <2>1
  <2>3. /\ SamplesUnderWay # <<>> /\ Head(SamplesUnderWay) = sampled /\ Tail(SamplesUnderWay) = <<>>
    BY <2>2, SampleCounts, HeadTailAppend, AppendProperties, EmptySeq
  <2>4. OrderedSamples!Take
    BY <2>1, <2>2, <2>3 DEF OrderedSamples!Take
  <2> QED
    BY <2>4 DEF OrderedSamples!Next
<1>6. CASE Stops
  <2>1. /\ producer \in {"select", "sending"} /\ producer' = "exited"
        /\ UNCHANGED <<samples, sampled, sampleReceived>>
    BY <1>6 DEF Stops
  <2>2. SamplesUnderWay' = samples
    BY <1>1, <2>1
  <2>3. Len(samples) \in 0..Len(SamplesUnderWay) /\ samples = SubSeq(SamplesUnderWay, 1, Len(samples))
    <3>1. CASE producer = "select"
      BY <1>1, <3>1, SampleCounts, SubSeqFull
    <3>2. CASE producer = "sending"
      <4> DEFINE queue == Append(samples, sampled)
      <4>1. /\ queue \in Seq(Sample) /\ Len(queue) = Len(samples) + 1
            /\ \A i \in 1..Len(samples) : queue[i] = samples[i]
        BY <3>2, SampleCounts, AppendProperties
      <4> HIDE DEF queue
      <4>2. \A i \in 1..Len(samples) : queue[i] \in Sample
        BY <4>1, SampleCounts
      <4> DEFINE ahead == SubSeq(queue, 1, Len(samples))
      <4>3. /\ ahead \in Seq(Sample) /\ Len(ahead) = Len(samples)
            /\ \A i \in 1..Len(samples) : ahead[i] = queue[i]
        BY <4>1, <4>2, SampleCounts, SubSeqProperties
      <4>4. ahead = samples
        BY <4>1, <4>3, SampleCounts, SeqEqual
      <4>5. Len(samples) \in 0..Len(queue)
        BY <4>1, SampleCounts
      <4> QED
        BY <1>1, <3>2, <4>4, <4>5 DEF queue
    <3> QED
      BY <2>1, <3>1, <3>2
  <2>4. OrderedSamples!End
    BY <2>1, <2>2, <2>3 DEF OrderedSamples!End
  <2> QED
    BY <2>4 DEF OrderedSamples!Next
<1>7. CASE Receive
  <2>1. /\ samples # <<>> /\ sampleReceived' = Append(sampleReceived, Head(samples))
        /\ samples' = Tail(samples) /\ UNCHANGED <<producer, sampled>>
    BY <1>7 DEF Receive
  <2>2. SamplesUnderWay # <<>> /\ Head(SamplesUnderWay) = Head(samples) /\ Tail(SamplesUnderWay) = SamplesUnderWay'
    <3>1. CASE producer = "sending"
      <4>1. SamplesUnderWay = Append(samples, sampled) /\ SamplesUnderWay' = Append(Tail(samples), sampled)
        BY <1>1, <2>1, <3>1
      <4>2. samples \in Seq(Sample) /\ sampled \in Sample
        BY <3>1, SampleCounts
      <4>3. Append(samples, sampled) # <<>>
        BY <4>2, AppendProperties
      <4>4. /\ Head(Append(samples, sampled)) = Head(samples)
            /\ Tail(Append(samples, sampled)) = Append(Tail(samples), sampled)
        BY <2>1, <4>2, HeadTailAppend
      <4> QED
        BY <4>1, <4>3, <4>4
    <3>2. CASE producer # "sending"
      BY <1>1, <2>1, <3>2
    <3> QED
      BY <3>1, <3>2
  <2>3. OrderedSamples!Take
    BY <2>1, <2>2 DEF OrderedSamples!Take
  <2> QED
    BY <2>3 DEF OrderedSamples!Next
<1> QED
  BY <1>2, <1>3, <1>4, <1>5, <1>6, <1>7 DEF SampleNext, Loop, SamplesRest

(***************************************************************************)
(* AccelerometerSamples of session.go is an ordered stream: the consumer   *)
(* gets the samples in the device's order and without a gap, whichever     *)
(* polls fail and however slow it is, and at most Buffer samples and one   *)
(* wait for it.                                                            *)
(***************************************************************************)
THEOREM SamplesAreOrdered == SampleSpec => CarriesSamples
<1>1. SampleInit => OrderedSamples!Init
  <2> SUFFICES ASSUME SampleInit PROVE OrderedSamples!Init
    OBVIOUS
  <2>1. SamplesUnderWay = <<>> \o <<>> /\ sampleReceived = <<>> /\ producer # "exited"
    BY DEF SampleInit, SamplesUnderWay
  <2>2. <<>> \o <<>> = <<>>
    BY EmptySeq, ConcatEmptySeq
  <2> QED
    BY <2>1, <2>2 DEF OrderedSamples!Init
<1>2. SampleInv /\ SampleInv' /\ [SampleNext]_sampleVars => [OrderedSamples!Next]_(OrderedSamples!vars)
  BY SampleStepIsOrdered
<1> QED
  BY <1>1, <1>2, SampleInvAlways, PTL DEF SampleSpec, CarriesSamples, OrderedSamples!Spec

-----------------------------------------------------------------------------
(***************************************************************************)
(* The line editor.  The line set aside is the draft while a line kept is  *)
(* shown, and the last line kept is the last command entered.              *)
(***************************************************************************)
DraftKept == prompt # "none" => IF recall = Len(history) + 1 THEN line = draft ELSE pending = draft

Newest(i) == i \in Commands /\ \A j \in Commands : j <= i

NewestKept ==
    /\ Commands # {} => history # <<>>
    /\ history # <<>> => \E i \in Commands : Newest(i) /\ entered[i].value = history[Len(history)]

EditorInv == EditorTypeOK /\ DraftKept /\ KeepsCommandsOnly /\ NewestKept

LEMMA TrimIsLine == ASSUME NEW s \in Line PROVE TrimSpace(s) \in Line
<1> DEFINE inside == {i \in DOMAIN s : s[i] # Space}
<1>1. CASE inside = {}
  BY <1>1 DEF TrimSpace, Line
<1>2. CASE inside # {}
  <2> DEFINE first == CHOOSE i \in inside : \A j \in inside : i <= j
             final == CHOOSE i \in inside : \A j \in inside : i >= j
  <2>1. Len(s) \in Nat /\ inside \in SUBSET (1..Len(s)) /\ inside \in SUBSET Nat
    BY DEF Line
  <2>2. first \in inside
    BY <1>2, <2>1, FirstPlace
  <2>3. final \in inside
    BY <1>2, <2>1, LastPlace
  <2>4. TrimSpace(s) = SubSeq(s, first, final)
    BY <1>2 DEF TrimSpace
  <2> HIDE DEF first, final, inside
  <2>5. first \in 1..Len(s) + 1 /\ final \in 0..Len(s)
    BY <2>1, <2>2, <2>3
  <2> QED
    BY <2>1, <2>4, <2>5, SubSeqProperties DEF Line
<1> QED
  BY <1>1, <1>2

(***************************************************************************)
(* Youngest forgets the first of a list that is one too long.              *)
(***************************************************************************)
LEMMA YoungestOfLonger ==
    ASSUME NEW s \in Seq(Line), Len(s) <= MaxHistory, NEW v \in Line
    PROVE  LET t == Youngest(Append(s, v)) IN
           /\ t \in Seq(Line) /\ Len(t) <= MaxHistory
           /\ Len(t) = IF Len(s) = MaxHistory THEN Len(s) ELSE Len(s) + 1
           /\ t # <<>> /\ t[Len(t)] = v
           /\ \A k \in 1..Len(t) - 1 : t[Len(t) - k] = s[Len(s) - (k - 1)]
<1> DEFINE a == Append(s, v)
           t == Youngest(a)
<1>1. Len(s) \in Nat /\ a \in Seq(Line) /\ Len(a) = Len(s) + 1 /\ MaxHistory \in Nat \ {0}
  BY EditorAssumption
<1>2. \A i \in 1..Len(s) : a[i] = s[i]
  OBVIOUS
<1>3. a[Len(s) + 1] = v
  OBVIOUS
<1>4. CASE Len(s) = MaxHistory
  <2>1. t = SubSeq(a, 2, Len(a))
    BY <1>1, <1>4 DEF Youngest
  <2>2. t \in Seq(Line) /\ Len(t) = Len(s) /\ \A i \in 1..Len(s) : t[i] = a[i + 1]
    <3> HIDE DEF a, t
    <3> QED BY <1>1, <1>4, <2>1
  <2> HIDE DEF a, t
  <2> QED
    BY <1>1, <1>2, <1>3, <1>4, <2>2 DEF t, a
<1>5. CASE Len(s) < MaxHistory
  <2>1. t = SubSeq(a, 1, Len(a))
    <3>1. ~(Len(a) > MaxHistory)
      BY <1>1, <1>5
    <3> HIDE DEF a
    <3> QED
      BY <3>1 DEF Youngest
  <2>2. t \in Seq(Line) /\ Len(t) = Len(s) + 1 /\ \A i \in 1..Len(s) + 1 : t[i] = a[i]
    <3> HIDE DEF a, t
    <3> QED BY <1>1, <1>5, <2>1
  <2> HIDE DEF a, t
  <2> QED
    BY <1>1, <1>2, <1>3, <1>5, <2>2 DEF t, a
<1> QED
  BY <1>1, <1>4, <1>5

(***************************************************************************)
(* What a line that is entered does to the places of commands and of those *)
(* that are not repeated: nothing, or its own place is added.              *)
(***************************************************************************)
PromptEntry == [prompt : {"command", "answer", "secret"}, value : Line]
IsCommand(e) == e.prompt = "command" /\ e.value # <<>>

LEMMA EnteredGrows ==
    ASSUME EditorTypeOK, NEW e \in PromptEntry, entered' = Append(entered, e)
    PROVE  /\ Len(entered) \in Nat /\ DOMAIN entered = 1..Len(entered)
           /\ entered' \in Seq(PromptEntry) /\ DOMAIN entered' = 1..Len(entered) + 1
           /\ entered'[Len(entered) + 1] = e
           /\ \A i \in 1..Len(entered) : entered'[i] = entered[i]
<1>1. entered \in Seq(PromptEntry)
  BY DEF EditorTypeOK, PromptEntry
<1> QED
  BY <1>1

LEMMA CommandsGrow ==
    ASSUME EditorTypeOK, NEW e \in PromptEntry, entered' = Append(entered, e)
    PROVE  /\ Commands \subseteq 1..Len(entered)
           /\ IsCommand(e) => Commands' = Commands \cup {Len(entered) + 1}
           /\ ~IsCommand(e) => Commands' = Commands
BY EnteredGrows DEF Commands, IsCommand

LEMMA NeighboursStay ==
    ASSUME EditorTypeOK, NEW e \in PromptEntry, entered' = Append(entered, e),
           NEW i \in Commands, NEW j \in Commands
    PROVE  NextTo(j, i)' <=> NextTo(j, i)
<1>1. \A k \in Commands' \ Commands : i <= k
  BY EnteredGrows, CommandsGrow
<1>2. Commands \subseteq Commands'
  BY CommandsGrow
<1> QED
  BY <1>1, <1>2 DEF NextTo

LEMMA FreshStay ==
    ASSUME EditorTypeOK, NEW e \in PromptEntry, entered' = Append(entered, e), NEW i \in Commands
    PROVE  i \in Fresh' <=> i \in Fresh
<1>1. i \in 1..Len(entered) /\ i \in Commands'
  BY CommandsGrow
<1>2. \A j \in Commands' \ Commands : ~NextTo(j, i)'
  BY <1>1, EnteredGrows, CommandsGrow DEF NextTo
<1>3. \A j \in Commands : NextTo(j, i)' <=> NextTo(j, i)
  BY NeighboursStay
<1>4. \A j \in Commands : entered'[j].value = entered[j].value /\ j \in Commands'
  BY EnteredGrows, CommandsGrow
<1> QED
  BY <1>1, <1>2, <1>3, <1>4 DEF Fresh

LEMMA FreshGrow ==
    ASSUME EditorTypeOK, NEW e \in PromptEntry, entered' = Append(entered, e), IsCommand(e),
           NEW new, new = Len(entered) + 1
    PROVE  IF \E j \in Commands : Newest(j) /\ entered[j].value = e.value
           THEN Fresh' = Fresh ELSE Fresh' = Fresh \cup {new}
<1>1. Commands' = Commands \cup {new} /\ Commands \subseteq 1..Len(entered) /\ Len(entered) \in Nat
  BY EnteredGrows, CommandsGrow
<1>2. \A j \in Commands : NextTo(j, new)' <=> Newest(j)
  BY <1>1 DEF NextTo, Newest
<1>3. ~NextTo(new, new)'
  BY <1>1 DEF NextTo
<1>4. entered'[new] = e /\ \A j \in Commands : entered'[j] = entered[j]
  BY <1>1, EnteredGrows
<1>5. new \in Fresh' <=> ~\E j \in Commands : Newest(j) /\ entered[j].value = e.value
  BY <1>1, <1>2, <1>3, <1>4 DEF Fresh
<1>6. \A i \in Commands : i \in Fresh' <=> i \in Fresh
  BY FreshStay
<1>7. Fresh \subseteq Commands /\ Fresh' \subseteq Commands \cup {new} /\ new \notin Commands
  BY <1>1 DEF Fresh
<1>8. CASE new \in Fresh'
  <2>1. Fresh' = Fresh \cup {new}
    BY <1>6, <1>7, <1>8
  <2> QED
    BY <1>5, <1>8, <2>1
<1>9. CASE new \notin Fresh'
  <2>1. Fresh' = Fresh
    BY <1>6, <1>7, <1>9
  <2> QED
    BY <1>5, <1>9, <2>1
<1> QED
  BY <1>8, <1>9

(***************************************************************************)
(* The places behind one that is not repeated are fewer than all of them.  *)
(***************************************************************************)
LEMMA PlacesAreFinite ==
    ASSUME EditorTypeOK
    PROVE  /\ IsFiniteSet(Fresh) /\ Cardinality(Fresh) \in Nat
           /\ \A i \in Fresh : /\ IsFiniteSet(After(i)) /\ Cardinality(After(i)) \in Nat
                               /\ Cardinality(After(i)) < Cardinality(Fresh)
<1>1. Len(entered) \in Nat /\ Fresh \subseteq 1..Len(entered)
  BY DEF EditorTypeOK, Fresh, Commands
<1>2. IsFiniteSet(Fresh) /\ Cardinality(Fresh) \in Nat
  <2>1. IsFiniteSet(1..Len(entered))
    BY <1>1, FS_Interval
  <2> QED
    BY <1>1, <2>1, FS_Subset, FS_CardinalityType
<1>3. ASSUME NEW i \in Fresh
      PROVE  /\ IsFiniteSet(After(i)) /\ Cardinality(After(i)) \in Nat
             /\ Cardinality(After(i)) < Cardinality(Fresh)
  <2>1. After(i) \subseteq Fresh /\ i \notin After(i)
    BY <1>1 DEF After
  <2>2. After(i) # Fresh
    BY <2>1
  <2> QED
    BY <1>2, <2>1, <2>2, FS_Subset, FS_CardinalityType
<1> QED
  BY <1>2, <1>3

LEMMA AfterGrows ==
    ASSUME EditorTypeOK, NEW e \in PromptEntry, entered' = Append(entered, e),
           NEW new, new = Len(entered) + 1, Fresh' = Fresh \cup {new}
    PROVE  /\ Cardinality(Fresh') = Cardinality(Fresh) + 1
           /\ Cardinality(After(new)') = 0
           /\ \A i \in Fresh : Cardinality(After(i)') = Cardinality(After(i)) + 1
<1>1. Len(entered) \in Nat /\ Fresh \subseteq 1..Len(entered) /\ new \notin Fresh
  BY DEF EditorTypeOK, Fresh, Commands
<1>2. Cardinality(Fresh') = Cardinality(Fresh) + 1
  BY <1>1, PlacesAreFinite, FS_AddElement
<1>3. After(new)' = {}
  <2>1. \A j \in Fresh \cup {new} : ~(new < j)
    BY <1>1
  <2> QED
    BY <2>1 DEF After
<1>4. ASSUME NEW i \in Fresh PROVE Cardinality(After(i)') = Cardinality(After(i)) + 1
  <2>0. i < new
    BY <1>1
  <2>1. After(i)' = After(i) \cup {new} /\ new \notin After(i)
    BY <1>1, <2>0 DEF After
  <2> QED
    BY <2>1, PlacesAreFinite, FS_AddElement
<1> QED
  BY <1>2, <1>3, <1>4, FS_EmptySet
(***************************************************************************)
(* The keys change what is shown, never what is kept; the line set aside   *)
(* goes with what is shown.                                                *)
(***************************************************************************)
LEMMA InitEditorInv == EditorInit => EditorInv
<1> SUFFICES ASSUME EditorInit PROVE EditorInv
  OBVIOUS
<1>1. EditorTypeOK
  BY EditorAssumption DEF EditorInit, EditorTypeOK, Line
<1>2. Commands = {} /\ Fresh = {}
  BY DEF EditorInit, Commands, Fresh
<1>3. KeepsCommandsOnly
  BY <1>2, FS_EmptySet, EditorAssumption DEF KeepsCommandsOnly, EditorInit
<1> QED
  BY <1>1, <1>2, <1>3 DEF EditorInv, DraftKept, NewestKept, EditorInit

LEMMA KeptAreKept ==
    ASSUME EditorInv, UNCHANGED <<history, entered>>
    PROVE  KeepsCommandsOnly' /\ NewestKept'
<1>1. Commands' = Commands
  BY DEF Commands
<1>2. \A i, j : NextTo(j, i)' <=> NextTo(j, i)
  BY <1>1 DEF NextTo
<1>3. Fresh' = Fresh
  BY <1>1, <1>2 DEF Fresh
<1>4. \A i : After(i)' = After(i)
  BY <1>3 DEF After
<1> QED
  BY <1>1, <1>3, <1>4 DEF EditorInv, KeepsCommandsOnly, NewestKept, Newest

LEMMA LinesJoin ==
    ASSUME NEW a \in Line, NEW b \in Line
    PROVE  a \o b \in Line /\ Len(a \o b) = Len(a) + Len(b)
BY DEF Line

LEMMA LineChanges ==
    ASSUME NEW s \in Line, NEW i \in 1..Len(s) + 1, NEW c \in Char \cup {Space}
    PROVE  /\ InsertAt(s, i, c) \in Line /\ Len(InsertAt(s, i, c)) = Len(s) + 1
           /\ i <= Len(s) => RemoveAt(s, i) \in Line /\ Len(RemoveAt(s, i)) = Len(s) - 1
<1> DEFINE upto == SubSeq(s, 1, i - 1)
           from   == SubSeq(s, i, Len(s))
           behind == SubSeq(s, i + 1, Len(s))
<1>1. Len(s) \in Nat /\ s \in Seq(Char \cup {Space})
  BY DEF Line
<1>2. upto \in Line /\ Len(upto) = i - 1 /\ from \in Line /\ Len(from) = Len(s) - i + 1
  BY <1>1, SubSeqProperties DEF Line
<1>3. i <= Len(s) => behind \in Line /\ Len(behind) = Len(s) - i
  BY <1>1, SubSeqProperties DEF Line
<1>4. InsertAt(s, i, c) = upto \o <<c>> \o from /\ RemoveAt(s, i) = upto \o behind
  BY DEF InsertAt, RemoveAt
<1> HIDE DEF upto, from, behind
<1>5. upto \o <<c>> \in Line /\ Len(upto \o <<c>>) = i
  BY <1>1, <1>2 DEF Line
<1>6. (upto \o <<c>>) \o from \in Line /\ Len((upto \o <<c>>) \o from) = Len(s) + 1
  BY <1>1, <1>2, <1>5, LinesJoin
<1>7. i <= Len(s) => upto \o behind \in Line /\ Len(upto \o behind) = Len(s) - 1
  BY <1>1, <1>2, <1>3, LinesJoin
<1> QED
  BY <1>4, <1>6, <1>7

LEMMA KeysKeepInv ==
    ASSUME EditorInv,
           ReadLine \/ (\E c \in Char \cup {Space} : Insert(c)) \/ Erase \/ Move \/ Up \/ Down \/ EndOfInput
    PROVE  EditorInv'
<1>1. UNCHANGED <<history, entered>>
  BY DEF ReadLine, Insert, Erase, Edited, Move, Up, Down, EndOfInput
<1>2. EditorTypeOK /\ DraftKept
  BY DEF EditorInv
<1>3. ASSUME ReadLine PROVE EditorTypeOK' /\ DraftKept'
  BY <1>2, <1>3 DEF ReadLine, EditorTypeOK, DraftKept, Line
<1>4. ASSUME NEW c \in Char \cup {Space}, Insert(c) PROVE EditorTypeOK' /\ DraftKept'
  <2>1. InsertAt(line, pos + 1, c) \in Line /\ Len(InsertAt(line, pos + 1, c)) = Len(line) + 1
    BY <1>2, LineChanges DEF EditorTypeOK
  <2> QED
    BY <1>2, <1>4, <2>1 DEF Insert, Edited, EditorTypeOK, DraftKept
<1>5. ASSUME Erase PROVE EditorTypeOK' /\ DraftKept'
  <2>1. RemoveAt(line, pos) \in Line /\ Len(RemoveAt(line, pos)) = Len(line) - 1
    <3>1. line \in Line /\ Len(line) \in Nat /\ pos \in 1..Len(line)
      BY <1>2, <1>5 DEF EditorTypeOK, Erase, Line
    <3>2. pos \in 1..Len(line) + 1 /\ pos <= Len(line)
      BY <3>1
    <3> QED
      BY <3>1, <3>2, LineChanges
  <2> QED
    BY <1>2, <1>5, <2>1 DEF Erase, Edited, EditorTypeOK, DraftKept, Line
<1>6. ASSUME Move PROVE EditorTypeOK' /\ DraftKept'
  BY <1>2, <1>6 DEF Move, EditorTypeOK, DraftKept, Line
<1>7. ASSUME Up PROVE EditorTypeOK' /\ DraftKept'
  BY <1>2, <1>7 DEF Up, Show, EditorTypeOK, DraftKept, Line
<1>8. ASSUME Down PROVE EditorTypeOK' /\ DraftKept'
  <2> DEFINE recalled == IF recall = Len(history) THEN pending ELSE history[recall + 1]
  <2>1. /\ prompt # "none" /\ recall \in 1..Len(history) /\ Len(history) \in Nat /\ history \in Seq(Line)
        /\ UNCHANGED <<prompt, pending, history, entered, draft>>
        /\ recall' = recall + 1 /\ line' = recalled /\ pos' = Len(recalled)
    BY <1>2, <1>8 DEF Down, Show, EditorTypeOK
  <2>2. recalled \in Line /\ Len(recalled) \in 0..Len(recalled) /\ recall + 1 \in 1..Len(history) + 1
    BY <1>2, <2>1 DEF EditorTypeOK, Line
  <2> HIDE DEF recalled
  <2>3. EditorTypeOK'
    BY <1>2, <2>1, <2>2 DEF EditorTypeOK
  <2>4. DraftKept'
    BY <1>2, <2>1 DEF DraftKept, recalled
  <2> QED
    BY <2>3, <2>4
<1>9. ASSUME EndOfInput PROVE EditorTypeOK' /\ DraftKept'
  BY <1>2, <1>9 DEF EndOfInput, edit, EditorTypeOK, DraftKept
<1> QED
  BY <1>1, <1>3, <1>4, <1>5, <1>6, <1>7, <1>8, <1>9, KeptAreKept DEF EditorInv

(***************************************************************************)
(* A line that is entered is kept, is the line kept last, or is none.      *)
(***************************************************************************)
LEMMA EnterKeepsInv ==
    ASSUME EditorInv, Enter
    PROVE  EditorInv'
<1> DEFINE v == TrimSpace(line)
<1>1. PICK e \in PromptEntry : e = [prompt |-> prompt, value |-> v]
  BY TrimIsLine DEF EditorInv, EditorTypeOK, Enter, PromptEntry
<1>2. entered' = Append(entered, e) /\ e.value = v /\ v \in Line /\ e.prompt = prompt
  BY <1>1, TrimIsLine DEF Enter, EditorInv, EditorTypeOK
<1>3. EditorTypeOK /\ KeepsCommandsOnly /\ NewestKept
  BY DEF EditorInv
<1>4. PICK new : new = Len(entered) + 1
  OBVIOUS
<1>5. history' = KeepsLine(v) /\ prompt' = "none" /\ UNCHANGED <<line, pos, recall, pending, draft>>
  BY DEF Enter, edit
<1> HIDE DEF v
<1>6. DraftKept'
  BY <1>5 DEF DraftKept
<1>7. entered' \in Seq([prompt : {"command", "answer", "secret"}, value : Line])
  BY <1>2, <1>3, EnteredGrows DEF PromptEntry
<1>8. SUFFICES /\ history' \in Seq(Line) /\ Len(history') <= MaxHistory
               /\ KeepsCommandsOnly' /\ NewestKept'
  BY <1>3, <1>5, <1>6, <1>7 DEF EditorInv, EditorTypeOK
<1>9. CASE ~IsCommand(e)
  <2>1. history' = history
    BY <1>2, <1>5, <1>9 DEF KeepsLine, IsCommand
  <2>2. Commands' = Commands
    BY <1>2, <1>3, <1>9, CommandsGrow
  <2>3. Fresh' = Fresh /\ Fresh \subseteq Commands
    BY <1>2, <1>3, <2>2, FreshStay DEF Fresh
  <2>4. \A i : After(i)' = After(i)
    BY <2>3 DEF After
  <2>5. \A i \in Commands : entered'[i] = entered[i]
    BY <1>2, <1>3, EnteredGrows, CommandsGrow
  <2> QED
    BY <1>3, <2>1, <2>2, <2>3, <2>4, <2>5 DEF KeepsCommandsOnly, NewestKept, Newest, EditorTypeOK
<1>10. CASE IsCommand(e) /\ history # <<>> /\ Last(history) = v
  <2>1. history' = history
    BY <1>2, <1>5, <1>10 DEF KeepsLine, IsCommand
  <2>2. Commands' = Commands \cup {new} /\ Commands \subseteq 1..Len(entered) /\ Len(entered) \in Nat
    BY <1>2, <1>3, <1>4, <1>10, CommandsGrow, EnteredGrows
  <2>3. history[Len(history)] = v
    BY <1>10 DEF Last
  <2>4. Fresh' = Fresh /\ Fresh \subseteq Commands
    BY <1>2, <1>3, <1>4, <1>10, <2>3, FreshGrow DEF NewestKept, Fresh
  <2>5. \A i : After(i)' = After(i)
    BY <2>4 DEF After
  <2>6. entered'[new] = e /\ \A i \in Commands : entered'[i] = entered[i]
    BY <1>2, <1>3, <1>4, EnteredGrows, CommandsGrow
  <2>7. KeepsCommandsOnly'
    BY <1>3, <2>1, <2>4, <2>5, <2>6 DEF KeepsCommandsOnly
  <2>8. Newest(new)'
    BY <1>4, <2>2 DEF Newest
  <2>9. NewestKept'
    BY <1>2, <1>10, <2>1, <2>2, <2>3, <2>6, <2>8 DEF NewestKept
  <2> QED
    BY <1>3, <2>1, <2>7, <2>9 DEF EditorTypeOK
<1>11. CASE IsCommand(e) /\ (history = <<>> \/ Last(history) # v)
  <2>1. history' = Youngest(Append(history, v))
    BY <1>2, <1>5, <1>11 DEF KeepsLine, IsCommand
  <2> DEFINE t == Youngest(Append(history, v))
  <2>2. /\ t \in Seq(Line) /\ Len(t) <= MaxHistory
        /\ Len(t) = IF Len(history) = MaxHistory THEN Len(history) ELSE Len(history) + 1
        /\ t # <<>> /\ t[Len(t)] = v
        /\ \A k \in 1..Len(t) - 1 : t[Len(t) - k] = history[Len(history) - (k - 1)]
    BY <1>2, <1>3, YoungestOfLonger DEF EditorTypeOK
  <2>3. history' = t
    BY <2>1
  <2> HIDE DEF t
  <2>4. Commands' = Commands \cup {new} /\ Commands \subseteq 1..Len(entered) /\ Len(entered) \in Nat
    BY <1>2, <1>3, <1>4, <1>11, CommandsGrow, EnteredGrows
  <2>5. ~\E j \in Commands : Newest(j) /\ entered[j].value = v
    <3>1. ASSUME NEW j \in Commands, Newest(j), entered[j].value = v PROVE FALSE
      <4>1. history # <<>>
        BY <1>3 DEF NewestKept
      <4>2. PICK i \in Commands : Newest(i) /\ entered[i].value = history[Len(history)]
        BY <1>3, <4>1 DEF NewestKept
      <4>3. i = j
        BY <2>4, <3>1, <4>2 DEF Newest
      <4> QED
        BY <1>11, <3>1, <4>1, <4>2, <4>3 DEF Last
    <3> QED
      BY <3>1
  <2>6. Fresh' = Fresh \cup {new} /\ Fresh \subseteq Commands
    BY <1>2, <1>3, <1>4, <1>11, <2>5, FreshGrow DEF Fresh
  <2>7. /\ Cardinality(Fresh') = Cardinality(Fresh) + 1
        /\ Cardinality(After(new)') = 0
        /\ \A i \in Fresh : Cardinality(After(i)') = Cardinality(After(i)) + 1
    BY <1>2, <1>3, <1>4, <2>6, AfterGrows
  <2>8. /\ Cardinality(Fresh) \in Nat
        /\ \A i \in Fresh : Cardinality(After(i)) \in Nat /\ Cardinality(After(i)) < Cardinality(Fresh)
    BY <1>3, PlacesAreFinite
  <2>9. entered'[new] = e /\ \A i \in Commands : entered'[i] = entered[i]
    BY <1>2, <1>3, <1>4, EnteredGrows, CommandsGrow
  <2>10. Len(history) = IF Cardinality(Fresh) < MaxHistory THEN Cardinality(Fresh) ELSE MaxHistory
    BY <1>3 DEF KeepsCommandsOnly
  <2>11. Len(history') = IF Cardinality(Fresh') < MaxHistory THEN Cardinality(Fresh') ELSE MaxHistory
    BY <2>2, <2>3, <2>7, <2>8, <2>10, EditorAssumption
  <2>12. ASSUME NEW i \in Fresh', Cardinality(After(i)') < MaxHistory
         PROVE  history'[Len(history') - Cardinality(After(i)')] = entered'[i].value
    <3>1. CASE i = new
      <4>1. Len(t) \in Nat /\ Cardinality(After(i)') = 0
        BY <2>2, <2>7, <3>1
      <4>2. Len(history') - Cardinality(After(i)') = Len(t)
        BY <2>3, <4>1
      <4>3. history'[Len(t)] = v
        BY <2>2, <2>3
      <4>4. entered'[i].value = v
        BY <1>2, <2>9, <3>1
      <4> QED
        BY <4>2, <4>3, <4>4
    <3>2. CASE i \in Fresh
      <4> DEFINE k == Cardinality(After(i)) + 1
      <4>1. Cardinality(After(i)') = k /\ k \in 1..Len(t) - 1
        BY <2>2, <2>7, <2>8, <2>10, <2>12, <3>2, EditorAssumption
      <4>2. history[Len(history) - (k - 1)] = entered[i].value
        BY <1>3, <2>8, <2>12, <3>2, <4>1, EditorAssumption DEF KeepsCommandsOnly
      <4> QED
        BY <2>2, <2>3, <2>6, <2>9, <3>2, <4>1, <4>2
    <3> QED
      BY <2>6, <3>1, <3>2
  <2>13. KeepsCommandsOnly'
    BY <2>11, <2>12 DEF KeepsCommandsOnly
  <2>14. Newest(new)'
    BY <1>4, <2>4 DEF Newest
  <2>15. NewestKept'
    BY <1>2, <2>2, <2>3, <2>4, <2>9, <2>14 DEF NewestKept
  <2> QED
    BY <2>2, <2>3, <2>13, <2>15
<1> QED
  BY <1>9, <1>10, <1>11

LEMMA EditorInvAlways == EditorSpec => []EditorInv
<1>1. EditorInv /\ UNCHANGED editorVars => EditorInv'
  <2> SUFFICES ASSUME EditorInv, UNCHANGED editorVars PROVE EditorInv'
    OBVIOUS
  <2>1. UNCHANGED <<prompt, line, pos, recall, pending, history, entered, draft>>
    BY DEF editorVars, edit
  <2>2. EditorTypeOK' /\ DraftKept'
    BY <2>1 DEF EditorInv, EditorTypeOK, DraftKept
  <2> QED
    BY <2>1, <2>2, KeptAreKept DEF EditorInv
<1>2. EditorInv /\ [EditorNext]_editorVars => EditorInv'
  BY <1>1, KeysKeepInv, EnterKeepsInv DEF EditorNext
<1> QED
  BY <1>2, InitEditorInv, PTL DEF EditorSpec

THEOREM EditorTypeCorrectness == EditorSpec => []EditorTypeOK
<1>1. EditorInv => EditorTypeOK
  BY DEF EditorInv
<1> QED
  BY <1>1, EditorInvAlways, PTL

(***************************************************************************)
(* The line being written comes back as it was left, and the lines kept    *)
(* are the last commands entered, for any number of lines of any length.   *)
(***************************************************************************)
THEOREM LinesKept == EditorSpec => []LinesAreKept
<1>1. EditorInv => LinesAreKept
  BY DEF EditorInv, LinesAreKept, DraftKept, DraftComesBack
<1> QED
  BY <1>1, EditorInvAlways, PTL

-----------------------------------------------------------------------------
(***************************************************************************)
(* The sum.  A step of one part leaves the variables of the others alone,  *)
(* so that it is a step or a stutter of each.                              *)
(***************************************************************************)
LEMMA StepOfEachPart ==
    ASSUME [PartsNext]_partsVars
    PROVE  /\ [Next]_vars /\ [CallsNext]_callsVars /\ [SampleNext]_sampleVars
           /\ [TraceNext]_traceVars /\ [NamesNext]_namesVars /\ [EditorNext]_editorVars
           /\ [CodecNext]_codecVars /\ [PairingNext]_pairingVars /\ [HistoryNext]_historyVars
BY DEF PartsNext, partsVars

(***************************************************************************)
(* The models that MCParts checks side by side share nothing: whatever the *)
(* sum does, each part does by itself.                                     *)
(***************************************************************************)
THEOREM PartsAreTheirOwn ==
    PartsSpec => /\ Spec /\ CallsSpec /\ SampleSpec
                 /\ TraceSpec /\ NamesSpec /\ EditorSpec
                 /\ CodecSpec /\ PairingSpec /\ HistorySpec
<1>1. PartsInit => /\ Init /\ CallsInit /\ SampleInit
                   /\ TraceInit /\ NamesInit /\ EditorInit
                   /\ CodecInit /\ PairingInit /\ HistoryInit
  BY DEF PartsInit
<1> QED
  BY <1>1, StepOfEachPart, PTL
  DEF PartsSpec, Spec, CallsSpec, SampleSpec, TraceSpec, NamesSpec, EditorSpec, CodecSpec, PairingSpec, HistorySpec

(***************************************************************************)
(* Every reachable state of every part is well typed: no channel of        *)
(* AccelerometerSamples or trace.go holds more than its capacity, the      *)
(* editor remembers no more lines than its limit, and a session never      *)
(* holds a torn version.                                                   *)
(***************************************************************************)
THEOREM PartsTypeCorrectness == PartsSpec => []PartsTypeOK
<1>1. /\ TypeOK /\ CallsTypeOK /\ SampleTypeOK /\ TraceTypeOK /\ NamesTypeOK /\ EditorTypeOK
      /\ PairingTypeOK /\ HistoryTypeOK
      => PartsTypeOK
  BY DEF PartsTypeOK
<1> QED
  BY <1>1, PartsAreTheirOwn, TypeCorrectness, CallsTypeCorrectness, SampleTypeCorrectness, TraceTypeCorrectness,
     NamesTypeCorrectness, EditorTypeCorrectness, PairingTypeCorrectness, HistoryTypeCorrectness, PTL

(***************************************************************************)
(* What is proved of each part alone holds in the sum that TLC checks.     *)
(***************************************************************************)
THEOREM PartsAreSound ==
    PartsSpec => /\ [](/\ VersionIsSound /\ CompoundCallsHold /\ HistoryIsTrue /\ TracingIsHarmless
                      /\ NamesAreRight /\ LinesAreKept /\ SessionReleased /\ ResultIsTrue)
                 /\ VersionIsStable /\ CarriesSamples /\ CarriesNotifications
BY PartsAreTheirOwn, SoundVersion, StableVersion, CompoundCallsAreSound, HistoryReadIsTrue, HarmlessTracing,
   NamesAreSound, LinesKept, SessionIsReleased, TrueResult, SamplesAreOrdered, ForwarderIsOrdered, PTL
=============================================================================
