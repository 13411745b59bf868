---------------------------- MODULE SampleStream ----------------------------
(***************************************************************************)
(* One call of Session.AccelerometerSamples (session.go): a goroutine that *)
(* polls the accelerometer on a timer and sends the samples on a channel,  *)
(* until the caller's context or the session ends.  Meanwhile other calls  *)
(* may find out that the device is a v4 one, which has no accelerometer    *)
(* data: every poll is refused from then on.                               *)
(***************************************************************************)
EXTENDS Naturals, Sequences

CONSTANTS
    Buffer,     \* AccelerometerOptions.Buffer, the capacity of the samples channel
    MaxSamples  \* bound: samples the device delivers

ASSUME SampleAssumption == Buffer \in Nat /\ MaxSamples \in Nat

VARIABLES
    sampleVersion, \* s.protocol
    producer,      \* the goroutine: see Place
    timer,         \* "ticking", "fired", or "off" when its tick has been taken
    sampled,       \* samples the device has delivered
    samples, samplesClosed,
    errs, errsClosed,  \* errors in the errs channel, whose capacity is 1
    sampleCtxDone, sampleSessionDone,
    sampleReceived \* history: the samples the consumer has received

sampleChans == <<samples, samplesClosed, errs, errsClosed>>
sampleEnds  == <<sampleCtxDone, sampleSessionDone>>
sampleVars  == <<sampleVersion, producer, timer, sampled, sampleChans, sampleEnds, sampleReceived>>

SamplePlace == {"none", "refused", "select", "reading", "sending", "exited"}

SampleInit ==
    /\ sampleVersion \in {"auto", "v3", "v4"}
    /\ producer = "none" /\ timer = "off"
    /\ sampled = 0
    /\ samples = <<>> /\ samplesClosed = FALSE
    /\ errs = 0 /\ errsClosed = FALSE
    /\ sampleCtxDone = FALSE /\ sampleSessionDone = FALSE
    /\ sampleReceived = <<>>

----------------------------------------------------------------------------
(***************************************************************************)
(* The call is refused on v4; otherwise the goroutine starts, its timer    *)
(* set to fire at once.                                                    *)
(***************************************************************************)
Start ==
    /\ producer = "none"
    /\ IF sampleVersion = "v4"
       THEN producer' = "refused" /\ UNCHANGED timer
       ELSE producer' = "select" /\ timer' = "ticking"
    /\ UNCHANGED <<sampleVersion, sampled, sampleChans, sampleEnds, sampleReceived>>

\* Another call infers the version.
Classify ==
    /\ sampleVersion = "auto"
    /\ sampleVersion' \in {"v3", "v4"}
    /\ UNCHANGED <<producer, timer, sampled, sampleChans, sampleEnds, sampleReceived>>

CancelSamples ==
    /\ sampleCtxDone' = TRUE
    /\ UNCHANGED <<sampleVersion, producer, timer, sampled, sampleChans, sampleSessionDone, sampleReceived>>

CloseSampledSession ==
    /\ sampleSessionDone' = TRUE
    /\ UNCHANGED <<sampleVersion, producer, timer, sampled, sampleChans, sampleCtxDone, sampleReceived>>

----------------------------------------------------------------------------
(***************************************************************************)
(* The loop: the timer fires, ReadAccelerometer is called, its sample is   *)
(* sent or its error is left if errs has room, and the timer is set again. *)
(***************************************************************************)
TimerFires ==
    /\ timer = "ticking"
    /\ timer' = "fired"
    /\ UNCHANGED <<sampleVersion, producer, sampled, sampleChans, sampleEnds, sampleReceived>>

Again ==
    /\ producer' = "select"
    /\ timer' = "ticking"

\* A v4 device is not asked.
PollEnds == producer = "reading" \/ (producer = "select" /\ timer = "fired" /\ sampleVersion = "v4")

\* Mutant of PollFails: an error goes on with the loop before the timer is set again.
PollFailsUnset ==
    /\ PollEnds
    /\ errs' = 1
    /\ producer' = "select"
    /\ timer' = "off"
    /\ UNCHANGED <<sampleVersion, sampled, samples, samplesClosed, errsClosed, sampleEnds, sampleReceived>>

PollFails ==
    /\ PollEnds
    /\ errs' = 1
    /\ Again
    /\ UNCHANGED <<sampleVersion, sampled, samples, samplesClosed, errsClosed, sampleEnds, sampleReceived>>

PollBegins ==
    /\ producer = "select" /\ timer = "fired"
    /\ sampleVersion # "v4"
    /\ producer' = "reading"
    /\ timer' = "off"
    /\ UNCHANGED <<sampleVersion, sampled, sampleChans, sampleEnds, sampleReceived>>

PollSucceeds ==
    /\ producer = "reading"
    /\ sampled < MaxSamples
    /\ sampled' = sampled + 1
    /\ sampleVersion' = IF sampleVersion = "auto" THEN "v3" ELSE sampleVersion
    /\ producer' = "sending"
    /\ UNCHANGED <<timer, sampleChans, sampleEnds, sampleReceived>>

\* Mutant of Sends: a full channel drops the sample, as the one of errors does.
SendsOrDrops ==
    /\ producer = "sending"
    /\ samples' = IF Len(samples) < Buffer THEN Append(samples, sampled) ELSE samples
    /\ Again
    /\ UNCHANGED <<sampleVersion, sampled, samplesClosed, errs, errsClosed, sampleEnds, sampleReceived>>

Sends ==
    /\ producer = "sending"
    /\ Len(samples) < Buffer
    /\ samples' = Append(samples, sampled)
    /\ Again
    /\ UNCHANGED <<sampleVersion, sampled, samplesClosed, errs, errsClosed, sampleEnds, sampleReceived>>

HandsOver ==
    /\ producer = "sending"
    /\ samples = <<>>
    /\ sampleReceived' = Append(sampleReceived, sampled)
    /\ Again
    /\ UNCHANGED <<sampleVersion, sampled, sampleChans, sampleEnds>>

\* Mutant of Stops: the send listens to the context only.
StopsLate ==
    /\ \/ producer = "select" /\ (sampleCtxDone \/ sampleSessionDone)
       \/ producer = "sending" /\ sampleCtxDone
    /\ producer' = "exited"
    /\ timer' = "off"
    /\ UNCHANGED <<sampleVersion, sampled, sampleChans, sampleEnds, sampleReceived>>

Stops ==
    /\ producer \in {"select", "sending"}
    /\ sampleCtxDone \/ sampleSessionDone
    /\ producer' = "exited"
    /\ timer' = "off"
    /\ UNCHANGED <<sampleVersion, sampled, sampleChans, sampleEnds, sampleReceived>>

\* The deferred closes run in the opposite order of their statements.
CloseErrs ==
    /\ producer = "exited"
    /\ ~errsClosed
    /\ errsClosed' = TRUE
    /\ UNCHANGED <<sampleVersion, producer, timer, sampled, samples, samplesClosed, errs, sampleEnds, sampleReceived>>

CloseSamples ==
    /\ errsClosed
    /\ ~samplesClosed
    /\ samplesClosed' = TRUE
    /\ UNCHANGED <<sampleVersion, producer, timer, sampled, samples, errs, errsClosed, sampleEnds, sampleReceived>>

Receive ==
    /\ samples # <<>>
    /\ sampleReceived' = Append(sampleReceived, Head(samples))
    /\ samples' = Tail(samples)
    /\ UNCHANGED <<sampleVersion, producer, timer, sampled, samplesClosed, errs, errsClosed, sampleEnds>>

ReceiveError ==
    /\ errs = 1
    /\ errs' = 0
    /\ UNCHANGED <<sampleVersion, producer, timer, sampled, samples, samplesClosed, errsClosed, sampleEnds, sampleReceived>>

----------------------------------------------------------------------------
Loop == TimerFires \/ PollFails \/ PollBegins \/ PollSucceeds \/ Sends \/ HandsOver
SampleNext ==
    \/ Start \/ Classify \/ CancelSamples \/ CloseSampledSession
    \/ Loop \/ Stops \/ CloseErrs \/ CloseSamples
    \/ Receive \/ ReceiveError

SampleSpec == SampleInit /\ [][SampleNext]_sampleVars

(***************************************************************************)
(* Timers fire, a poll ends at its deadline at the latest, and the selects *)
(* do not pass the ends over for ever.  The consumer owes nothing.         *)
(***************************************************************************)
SampleFairness ==
    /\ WF_sampleVars(TimerFires) /\ WF_sampleVars(PollBegins) /\ WF_sampleVars(PollFails)
    /\ SF_sampleVars(Stops)
    /\ WF_sampleVars(CloseErrs) /\ WF_sampleVars(CloseSamples)

SampleFairSpec == SampleSpec /\ SampleFairness

----------------------------------------------------------------------------
SampleTypeOK ==
    /\ sampleVersion \in {"auto", "v3", "v4"}
    /\ producer \in SamplePlace
    /\ timer \in {"ticking", "fired", "off"}
    /\ sampled \in 0..MaxSamples
    /\ samples \in Seq(1..MaxSamples) /\ Len(samples) <= Buffer
    /\ samplesClosed \in BOOLEAN /\ errsClosed \in BOOLEAN
    /\ errs \in {0, 1}
    /\ sampleCtxDone \in BOOLEAN /\ sampleSessionDone \in BOOLEAN
    /\ sampleReceived \in Seq(1..MaxSamples)

(***************************************************************************)
(* The consumer gets the samples in the order the device gave them, with   *)
(* no gap, however slow it is and whichever polls fail; at most Buffer     *)
(* samples and one wait for it; only the end gives one up.                 *)
(***************************************************************************)
SamplesUnderWay == samples \o (IF producer = "sending" THEN <<sampled>> ELSE <<>>)
OrderedSamples == INSTANCE OrderedStream WITH Capacity <- Buffer + 1, queue <- SamplesUnderWay,
                                       taken <- sampleReceived, ended <- producer = "exited"
CarriesSamples == OrderedSamples!Spec

(***************************************************************************)
(* Cancelling the context or closing the session closes both channels,     *)
(* also when the consumer has stopped reading.                             *)
(***************************************************************************)
EndsClose ==
    producer \in SamplePlace \ {"none", "refused"} /\ (sampleCtxDone \/ sampleSessionDone)
        ~> samplesClosed /\ errsClosed

(***************************************************************************)
(* A failed poll does not end the stream: as long as the device may have   *)
(* samples, it is asked again, unless the consumer keeps the goroutine     *)
(* waiting or the stream ends.                                             *)
(***************************************************************************)
KeepsPolling == producer = "select" ~> producer \in {"reading", "exited"} \/ sampleVersion = "v4"

=============================================================================
