-------------------------- MODULE SessionCommands --------------------------
(***************************************************************************)
(* The command path of one Session (session.go): several goroutines call   *)
(* SendCommand, a command-backed read (readCommandPayload), Authorize,     *)
(* ReadHistory or Events on the same connection.  Commands and their       *)
(* acknowledgements share the command characteristic, outputs and password *)
(* verdicts share the command-result characteristic, and both are read by  *)
(* polling: nothing on the wire says which request an acknowledgement or   *)
(* an output answers.                                                      *)
(*                                                                         *)
(* All but Authorize hold opMu to their return.  A timeout bounds what     *)
(* they do under it, but for Events, which subscribes with its caller's    *)
(* context alone.                                                          *)
(*                                                                         *)
(* The transport and the device are the environment.  With Prompt = FALSE  *)
(* they behave as a radio link does: a write whose context ends still      *)
(* lands later, the device executes a landed write and publishes its       *)
(* output in steps of its own.  With Prompt = TRUE a write that returns    *)
(* nil has been executed and answered, and one that fails has not been.    *)
(***************************************************************************)
EXTENDS Naturals, FiniteSets

CONSTANTS
    Proc,         \* goroutines that share the session
    NoProc,       \* opMu is free
    Code,         \* command codes in use
    NoCode,       \* the code field of a payload that carries none
    Calls,        \* the calls the goroutines may make, a subset of Call
    Reply,        \* [Code -> SUBSET Kind]: the outputs the device gives to a code
    Accept,       \* [Code -> SUBSET Kind]: uncoded outputs the caller's accept() takes
    Refusals,     \* the statuses of the acknowledgements that do not say "executed"
    Prompt,       \* is a write executed and answered when it returns?
    MaxCalls,     \* bound: calls made by one goroutine
    StatusPolls,  \* maxCommandStatusPolls
    OutputPolls,  \* maxCommandOutputPolls
    VerdictPolls, \* bound: polls that fit in authorizationResultWindow
    PackageReads  \* maxHistoryV3Packets

(***************************************************************************)
(* What a payload of the command-result characteristic can be: an output   *)
(* whose first byte is the command code, the tracker status (its first     *)
(* byte is 0x01 or 0x02), 0x19 0x00, a password verdict, a package of      *)
(* history, or nothing.                                                    *)
(***************************************************************************)
Kind == {"coded", "tracker01", "tracker02", "unassigned", "passwordOK", "passwordWrong", "package", "empty"}

(***************************************************************************)
(* A call: its operation, its command code, whether its input passes       *)
(* validation and, for Authorize, whether the password is the device's.    *)
(* The code of a history read is that of its v3 path, cmdHistoryRead.      *)
(***************************************************************************)
Call == [op : {"send", "read"}, code : Code, valid : BOOLEAN, right : {FALSE}]
           \cup [op : {"history"}, code : Code, valid : {TRUE}, right : {FALSE}]
           \cup [op : {"events"}, code : {NoCode}, valid : {TRUE}, right : {FALSE}]
           \cup [op : {"authorize"}, code : {NoCode}, valid : BOOLEAN, right : BOOLEAN]

Status == {"ok", "rejected", "malformed"}

ASSUME ConstantsAssumption ==
    /\ NoProc \notin Proc
    /\ NoCode \notin Code
    /\ Calls \subseteq Call /\ Calls # {}
    /\ Reply \in [Code -> SUBSET Kind]
    /\ Accept \in [Code -> SUBSET Kind]
    /\ Refusals \subseteq Status \ {"ok"}
    /\ Prompt \in BOOLEAN
    /\ MaxCalls \in Nat
    /\ StatusPolls \in Nat \ {0}
    /\ OutputPolls \in Nat \ {0}
    /\ VerdictPolls \in Nat \ {0}
    /\ PackageReads \in Nat \ {0}

VARIABLES
    pc,        \* where each goroutine is in its call
    call,      \* the call it makes, or made last
    count,     \* how many calls it has made
    polls,     \* iterations left in the polling loop it is in
    ctx,       \* its operation context: "live", "deadline" or "cancelled"
    outcome,   \* what its last call returned, and whose answers it took
    opMu,      \* the goroutine that holds Session.opMu
    inflight,  \* writes the transport has accepted and the device not yet executed
    dev,       \* the two shared characteristics, and the device behind them
    executed   \* history: every write the device executed, with its verdict

vars == <<pc, call, count, polls, ctx, outcome, opMu, inflight, dev, executed>>

(***************************************************************************)
(* A request is the count-th call of a goroutine.                          *)
(***************************************************************************)
Request == (Proc \cup {NoProc}) \X Nat
NoRequest == <<NoProc, 0>>
RequestOf(p) == <<p, count[p]>>

IsCommand(c) == c.op \in {"send", "read"}

\* A call that writes a command and polls for its acknowledgement.
WritesCommand(c) == c.op \in {"send", "read", "history"}

TakesLock(c) == c.op # "authorize"

(***************************************************************************)
(* The program counter: waiting for opMu, about to write, in Write, in the *)
(* Read of a polling loop or of the loop over packages, sleeping in a      *)
(* polling loop, in the Subscribe calls of Events, or in the v4 path of    *)
(* ReadHistory, which has a characteristic to itself.                      *)
(***************************************************************************)
Reading  == {"status", "output", "verdict", "packages"}
Sleeping == {"statusSleep", "outputSleep", "verdictSleep"}
Active   == {"write", "writing", "subscribing", "historyV4"} \cup Reading \cup Sleeping
PC       == {"idle", "lock"} \cup Active

Results == {"none", "ok", "rejected", "unauthorized", "invalid", "timeout", "cancelled", "protocol", "failed"}
Outcome == [result : Results, ack : Request, from : Request]

Ack    == [code : Code \cup {NoCode}, status : Status, req : Request]
Output == [kind : Kind, code : Code \cup {NoCode}, req : Request]
Write  == [req : Request, call : Call]
Device == [ack : Ack, output : Output, due : SUBSET Output, authorized : BOOLEAN]
Execution == [req : Request, call : Call, accepted : BOOLEAN]

NoAck == [code |-> NoCode, status |-> "malformed", req |-> NoRequest]
Plain(kind, req) == [kind |-> kind, code |-> NoCode, req |-> req]

(***************************************************************************)
(* A new connection finds the device unauthorized; the calls modelled here *)
(* may also come after an Authorize that succeeded.                        *)
(***************************************************************************)
InitialDevice(authorized, kind) ==
    [ack |-> NoAck, output |-> Plain(kind, NoRequest), due |-> {}, authorized |-> authorized]

Init ==
    /\ pc = [p \in Proc |-> "idle"]
    /\ call = [p \in Proc |-> CHOOSE c \in Calls : TRUE]
    /\ count = [p \in Proc |-> 0]
    /\ polls = [p \in Proc |-> 0]
    /\ ctx = [p \in Proc |-> "live"]
    /\ outcome = [p \in Proc |-> [result |-> "none", ack |-> NoRequest, from |-> NoRequest]]
    /\ opMu = NoProc
    /\ inflight = {}
    /\ dev \in {InitialDevice(FALSE, "empty"), InitialDevice(FALSE, "passwordWrong"),
                InitialDevice(TRUE, "passwordOK")}
    /\ executed = {}

----------------------------------------------------------------------------
(***************************************************************************)
(* The device.  Effects is the set of states it can be in after executing  *)
(* write w.  An unauthorized device does not execute commands: it shows    *)
(* the wrong-password verdict and acknowledges them as rejected or, when   *)
(* it is not prompt, not at all.                                           *)
(***************************************************************************)
AckOf(w, status) == [code |-> w.call.code, status |-> status, req |-> w.req]

ReplyOf(w, kind) ==
    [kind |-> kind, code |-> IF kind = "coded" THEN w.call.code ELSE NoCode, req |-> w.req]

PasswordEffects(d, w) ==
    {[d EXCEPT !.authorized = w.call.right,
               !.output = Plain(IF w.call.right THEN "passwordOK" ELSE "passwordWrong", w.req)]}

BlockedEffects(d, w) ==
    {[d EXCEPT !.ack = a, !.output = Plain("passwordWrong", w.req)] :
        a \in {AckOf(w, "rejected")} \cup IF Prompt THEN {} ELSE {d.ack}}

RefusedEffects(d, w) ==
    {[d EXCEPT !.ack = AckOf(w, status)] : status \in Refusals}

\* The sets of outputs a command may give rise to: one output, or none.
OutputsOf(w) ==
    IF Reply[w.call.code] = {} THEN {{}} ELSE {{ReplyOf(w, kind)} : kind \in Reply[w.call.code]}

ObeyedEffects(d, w) ==
    {[d EXCEPT !.ack = AckOf(w, "ok"), !.due = @ \cup out] : out \in OutputsOf(w)}

Effects(d, w) ==
    IF ~WritesCommand(w.call) THEN PasswordEffects(d, w)
    ELSE IF ~d.authorized THEN BlockedEffects(d, w)
    ELSE RefusedEffects(d, w) \cup ObeyedEffects(d, w)

(***************************************************************************)
(* What the device made of write w, seen from the state e it left.         *)
(***************************************************************************)
ExecutionOf(w, e) ==
    [req |-> w.req, call |-> w.call,
     accepted |-> IF WritesCommand(w.call) THEN e.ack = AckOf(w, "ok") ELSE e.authorized]

(***************************************************************************)
(* A write lands and is executed; an output that is due is published.      *)
(***************************************************************************)
DeviceExecutes ==
    /\ \E w \in inflight : \E e \in Effects(dev, w) :
          /\ dev' = e
          /\ inflight' = inflight \ {w}
          /\ executed' = executed \cup {ExecutionOf(w, e)}
    /\ UNCHANGED <<pc, call, count, polls, ctx, outcome, opMu>>

DevicePublishes ==
    /\ \E o \in dev.due : dev' = [dev EXCEPT !.output = o, !.due = @ \ {o}]
    /\ UNCHANGED <<pc, call, count, polls, ctx, outcome, opMu, inflight, executed>>

(***************************************************************************)
(* A prompt device has published everything when the write returns.        *)
(***************************************************************************)
Settled(e) == IF e.due = {} THEN {e} ELSE {[e EXCEPT !.output = o, !.due = {}] : o \in e.due}

----------------------------------------------------------------------------
(***************************************************************************)
(* A goroutine makes a call.  All but Authorize wait for opMu first.       *)
(***************************************************************************)
Invoke(p) ==
    /\ pc[p] = "idle"
    /\ count[p] < MaxCalls
    /\ \E c \in Calls :
          /\ call' = [call EXCEPT ![p] = c]
          /\ pc' = [pc EXCEPT ![p] = IF TakesLock(c) THEN "lock" ELSE "write"]
    /\ count' = [count EXCEPT ![p] = @ + 1]
    /\ ctx' = [ctx EXCEPT ![p] = "live"]
    /\ outcome' = [outcome EXCEPT ![p] = [result |-> "none", ack |-> NoRequest, from |-> NoRequest]]
    /\ UNCHANGED <<polls, opMu, inflight, dev, executed>>

\* ReadHistory begins with its v4 path, unless the session is known to be v3.
FirstSteps(c) ==
    CASE c.op = "events"  -> {"subscribing"}
      [] c.op = "history" -> {"historyV4", "write"}
      [] OTHER            -> {"write"}

\* Mutant of Lock: the operation does not wait for opMu.
LockNotExclusive(p) ==
    /\ pc[p] = "lock"
    /\ opMu' = p
    /\ \E to \in FirstSteps(call[p]) : pc' = [pc EXCEPT ![p] = to]
    /\ UNCHANGED <<call, count, polls, ctx, outcome, inflight, dev, executed>>

(***************************************************************************)
(* opMu.Lock() does not look at the context.                               *)
(***************************************************************************)
Lock(p) ==
    /\ pc[p] = "lock"
    /\ opMu = NoProc
    /\ opMu' = p
    /\ \E to \in FirstSteps(call[p]) : pc' = [pc EXCEPT ![p] = to]
    /\ UNCHANGED <<call, count, polls, ctx, outcome, inflight, dev, executed>>

(***************************************************************************)
(* The caller cancels, or the operation's own timeout expires: that one    *)
(* starts to run only when opMu is held (timeoutFrom).  Events has none.   *)
(***************************************************************************)
Cancel(p) ==
    /\ pc[p] # "idle"
    /\ ctx[p] = "live"
    /\ ctx' = [ctx EXCEPT ![p] = "cancelled"]
    /\ UNCHANGED <<pc, call, count, polls, outcome, opMu, inflight, dev, executed>>

Deadline(p) ==
    /\ pc[p] \in Active \ {"subscribing"}
    /\ ctx[p] = "live"
    /\ ctx' = [ctx EXCEPT ![p] = "deadline"]
    /\ UNCHANGED <<pc, call, count, polls, outcome, opMu, inflight, dev, executed>>

(***************************************************************************)
(* Every return: the deferred Unlock runs, whatever the result.            *)
(***************************************************************************)
Return(p, result, from) ==
    /\ pc' = [pc EXCEPT ![p] = "idle"]
    /\ outcome' = [outcome EXCEPT ![p] = [@ EXCEPT !.result = result, !.from = from]]
    /\ opMu' = IF TakesLock(call[p]) THEN NoProc ELSE opMu

(***************************************************************************)
(* wrapContextErr turns a deadline into ErrTimeout and leaves a            *)
(* cancellation as it is.                                                  *)
(***************************************************************************)
ContextError(p) == IF ctx[p] = "deadline" THEN "timeout" ELSE "cancelled"

(***************************************************************************)
(* The write.  An invalid payload or password is refused before it, and a  *)
(* context that has ended or a transport that fails refuses it.            *)
(***************************************************************************)
WriteOf(p) == [req |-> RequestOf(p), call |-> call[p]]

\* Mutant of RefuseInput: the early return comes before the deferred Unlock.
RefuseInputLocked(p) ==
    /\ pc[p] = "write"
    /\ ~call[p].valid
    /\ pc' = [pc EXCEPT ![p] = "idle"]
    /\ outcome' = [outcome EXCEPT ![p].result = "invalid"]
    /\ UNCHANGED <<call, count, polls, ctx, opMu, inflight, dev, executed>>

RefuseInput(p) ==
    /\ pc[p] = "write"
    /\ ~call[p].valid
    /\ Return(p, "invalid", NoRequest)
    /\ UNCHANGED <<call, count, polls, ctx, inflight, dev, executed>>

RefuseWrite(p) ==
    /\ pc[p] = "write"
    /\ call[p].valid
    /\ \E r \in IF ctx[p] = "live" THEN {"failed"} ELSE {ContextError(p)} : Return(p, r, NoRequest)
    /\ UNCHANGED <<call, count, polls, ctx, inflight, dev, executed>>

(***************************************************************************)
(* What the call does once Write has returned nil: it starts to poll.      *)
(***************************************************************************)
StartPolling(p) ==
    /\ pc' = [pc EXCEPT ![p] = IF WritesCommand(call[p]) THEN "status" ELSE "verdict"]
    /\ polls' = [polls EXCEPT ![p] = IF WritesCommand(call[p]) THEN StatusPolls ELSE VerdictPolls]

PromptWrite(p) ==
    /\ pc[p] = "write"
    /\ call[p].valid
    /\ ctx[p] = "live"
    /\ \E e \in Effects(dev, WriteOf(p)) :
          /\ dev' \in Settled(e)
          /\ executed' = executed \cup {ExecutionOf(WriteOf(p), e)}
    /\ StartPolling(p)
    /\ UNCHANGED <<call, count, ctx, outcome, opMu, inflight>>

SubmitWrite(p) ==
    /\ pc[p] = "write"
    /\ call[p].valid
    /\ ctx[p] = "live"
    /\ inflight' = inflight \cup {WriteOf(p)}
    /\ pc' = [pc EXCEPT ![p] = "writing"]
    /\ UNCHANGED <<call, count, polls, ctx, outcome, opMu, dev, executed>>

\* A write that is not refused is executed before it returns, or goes on its way.
AcceptWrite(p) == IF Prompt THEN PromptWrite(p) ELSE SubmitWrite(p)

WriteReturns(p) ==
    /\ pc[p] = "writing"
    /\ StartPolling(p)
    /\ UNCHANGED <<call, count, ctx, outcome, opMu, inflight, dev, executed>>

(***************************************************************************)
(* The write is lost, or the context ends while it is on its way: the      *)
(* goroutine that performs it is not stopped.                              *)
(***************************************************************************)
WriteLost(p) ==
    /\ pc[p] = "writing"
    /\ WriteOf(p) \in inflight
    /\ inflight' = inflight \ {WriteOf(p)}
    /\ Return(p, "failed", NoRequest)
    /\ UNCHANGED <<call, count, polls, ctx, dev, executed>>

\* Mutant of WriteAbandoned: the error path keeps opMu.
WriteAbandonedLocked(p) ==
    /\ pc[p] = "writing"
    /\ ctx[p] # "live"
    /\ pc' = [pc EXCEPT ![p] = "idle"]
    /\ outcome' = [outcome EXCEPT ![p].result = ContextError(p)]
    /\ UNCHANGED <<call, count, polls, ctx, opMu, inflight, dev, executed>>

WriteAbandoned(p) ==
    /\ pc[p] = "writing"
    /\ ctx[p] # "live"
    /\ Return(p, ContextError(p), NoRequest)
    /\ UNCHANGED <<call, count, polls, ctx, inflight, dev, executed>>

----------------------------------------------------------------------------
(***************************************************************************)
(* The Read of a polling loop ends with the context, or the transport      *)
(* fails it.                                                               *)
(***************************************************************************)
ReadAborted(p) ==
    /\ pc[p] \in Reading
    /\ ctx[p] # "live"
    /\ Return(p, ContextError(p), NoRequest)
    /\ UNCHANGED <<call, count, polls, ctx, inflight, dev, executed>>

ReadFails(p) ==
    /\ pc[p] \in Reading
    /\ ctx[p] = "live"
    /\ Return(p, "failed", NoRequest)
    /\ UNCHANGED <<call, count, polls, ctx, inflight, dev, executed>>

(***************************************************************************)
(* readCommandStatusFor: the first acknowledgement that begins with the    *)
(* code of this command is taken for its own.                              *)
(***************************************************************************)
\* Mutant of AckMatches: the first acknowledgement found is taken.
AckMatchesAny(p) == dev.ack.code # NoCode

AckMatches(p) == dev.ack.code = call[p].code

StatusResult(p) ==
    IF dev.ack.status = "rejected" THEN "rejected" ELSE IF dev.ack.status = "ok" THEN "ok" ELSE "protocol"

StatusEnds(p) ==
    /\ pc[p] = "status"
    /\ AckMatches(p)
    /\ call[p].op = "send" \/ dev.ack.status # "ok"
    /\ pc' = [pc EXCEPT ![p] = "idle"]
    /\ outcome' = [outcome EXCEPT ![p] = [result |-> StatusResult(p), ack |-> dev.ack.req, from |-> NoRequest]]
    /\ opMu' = NoProc
    /\ UNCHANGED <<call, count, polls, ctx, inflight, dev, executed>>

\* Mutant of StatusThenOutput: opMu covers the acknowledgement only.
StatusThenOutputUnlocked(p) ==
    /\ pc[p] = "status"
    /\ AckMatches(p)
    /\ call[p].op = "read" /\ dev.ack.status = "ok"
    /\ pc' = [pc EXCEPT ![p] = "output"]
    /\ polls' = [polls EXCEPT ![p] = OutputPolls]
    /\ outcome' = [outcome EXCEPT ![p].ack = dev.ack.req]
    /\ opMu' = NoProc
    /\ UNCHANGED <<call, count, ctx, inflight, dev, executed>>

StatusThenOutput(p) ==
    /\ pc[p] = "status"
    /\ AckMatches(p)
    /\ call[p].op = "read" /\ dev.ack.status = "ok"
    /\ pc' = [pc EXCEPT ![p] = "output"]
    /\ polls' = [polls EXCEPT ![p] = OutputPolls]
    /\ outcome' = [outcome EXCEPT ![p].ack = dev.ack.req]
    /\ UNCHANGED <<call, count, ctx, opMu, inflight, dev, executed>>

StatusMissing(p) ==
    /\ pc[p] = "status"
    /\ ~AckMatches(p)
    /\ pc' = [pc EXCEPT ![p] = "statusSleep"]
    /\ UNCHANGED <<call, count, polls, ctx, outcome, opMu, inflight, dev, executed>>

(***************************************************************************)
(* readCommandOutputFor: the first output that begins with the code of the *)
(* command, or that accept() takes, is the result; the one-byte            *)
(* wrong-password verdict ends the call.                                   *)
(***************************************************************************)
OutputMatches(p) ==
    LET o == dev.output
    IN  \/ o.kind = "coded" /\ o.code = call[p].code
        \/ o.kind # "passwordWrong" /\ o.kind \in Accept[call[p].code]

OutputTaken(p) ==
    /\ pc[p] = "output"
    /\ OutputMatches(p)
    /\ Return(p, "ok", dev.output.req)
    /\ UNCHANGED <<call, count, polls, ctx, inflight, dev, executed>>

OutputUnauthorized(p) ==
    /\ pc[p] = "output"
    /\ dev.output.kind = "passwordWrong"
    /\ Return(p, "unauthorized", dev.output.req)
    /\ UNCHANGED <<call, count, polls, ctx, inflight, dev, executed>>

OutputMissing(p) ==
    /\ pc[p] = "output"
    /\ ~OutputMatches(p)
    /\ dev.output.kind # "passwordWrong"
    /\ pc' = [pc EXCEPT ![p] = "outputSleep"]
    /\ UNCHANGED <<call, count, polls, ctx, outcome, opMu, inflight, dev, executed>>

(***************************************************************************)
(* readAuthorizationResult looks at the first byte only: 0x02 is success,  *)
(* 0x01 may be the stale verdict of an earlier password and is polled      *)
(* again, anything else is a protocol error.                               *)
(***************************************************************************)
SaysAuthorized == dev.output.kind \in {"passwordOK", "tracker02"}
SaysWrong      == dev.output.kind \in {"passwordWrong", "tracker01"}

VerdictTaken(p) ==
    /\ pc[p] = "verdict"
    /\ ~SaysWrong
    /\ Return(p, IF SaysAuthorized THEN "ok" ELSE "protocol", dev.output.req)
    /\ UNCHANGED <<call, count, polls, ctx, inflight, dev, executed>>

VerdictWrong(p) ==
    /\ pc[p] = "verdict"
    /\ SaysWrong
    /\ pc' = [pc EXCEPT ![p] = "verdictSleep"]
    /\ UNCHANGED <<call, count, polls, ctx, outcome, opMu, inflight, dev, executed>>

(***************************************************************************)
(* The sleep of a polling loop ends: with the next poll, with the budget   *)
(* (or, for Authorize, the result window) used up, or with the context.    *)
(***************************************************************************)
\* Mutant of Awake: the poll budget is not looked at.
AwakeUnbounded(p) ==
    /\ pc[p] \in Sleeping
    /\ polls' = [polls EXCEPT ![p] = @ - 1]
    /\ pc' = [pc EXCEPT ![p] = CASE pc[p] = "statusSleep"  -> "status"
                                 [] pc[p] = "outputSleep"  -> "output"
                                 [] pc[p] = "verdictSleep" -> "verdict"]
    /\ UNCHANGED <<call, count, ctx, outcome, opMu, inflight, dev, executed>>

\* Mutant of Awake: a poll that missed is not counted.
AwakeUncounted(p) ==
    /\ pc[p] \in Sleeping
    /\ polls[p] > 1
    /\ pc' = [pc EXCEPT ![p] = CASE pc[p] = "statusSleep"  -> "status"
                                 [] pc[p] = "outputSleep"  -> "output"
                                 [] pc[p] = "verdictSleep" -> "verdict"]
    /\ UNCHANGED <<call, count, polls, ctx, outcome, opMu, inflight, dev, executed>>

Awake(p) ==
    /\ pc[p] \in Sleeping
    /\ polls[p] > 1
    /\ polls' = [polls EXCEPT ![p] = @ - 1]
    /\ pc' = [pc EXCEPT ![p] = CASE pc[p] = "statusSleep"  -> "status"
                                 [] pc[p] = "outputSleep"  -> "output"
                                 [] pc[p] = "verdictSleep" -> "verdict"]
    /\ UNCHANGED <<call, count, ctx, outcome, opMu, inflight, dev, executed>>

PollsExhausted(p) ==
    /\ pc[p] \in {"statusSleep", "outputSleep"}
    /\ polls[p] <= 1
    /\ Return(p, "protocol", NoRequest)
    /\ UNCHANGED <<call, count, polls, ctx, inflight, dev, executed>>

WindowCloses(p) ==
    /\ pc[p] = "verdictSleep"
    /\ Return(p, "unauthorized", NoRequest)
    /\ UNCHANGED <<call, count, polls, ctx, inflight, dev, executed>>

SleepAborted(p) ==
    /\ pc[p] \in Sleeping
    /\ ctx[p] # "live"
    /\ Return(p, IF pc[p] = "verdictSleep" THEN ContextError(p) ELSE "protocol", NoRequest)
    /\ UNCHANGED <<call, count, polls, ctx, inflight, dev, executed>>

----------------------------------------------------------------------------
(***************************************************************************)
(* Events subscribes under opMu to one characteristic after the other.     *)
(* Each Subscribe ends with the radio's answer or with the caller's        *)
(* context; the streams begin when the last one has been answered.         *)
(***************************************************************************)
SubscribeReturns(p) ==
    /\ pc[p] = "subscribing"
    /\ \E r \in {"ok", "failed"} : Return(p, r, NoRequest)
    /\ UNCHANGED <<call, count, polls, ctx, inflight, dev, executed>>

SubscribeAborted(p) ==
    /\ pc[p] = "subscribing"
    /\ ctx[p] # "live"
    /\ Return(p, ContextError(p), NoRequest)
    /\ UNCHANGED <<call, count, polls, ctx, inflight, dev, executed>>

(***************************************************************************)
(* ReadHistory under opMu: the v4 path ends the call or, when it failed in *)
(* a session not known to be v4, the v3 path follows with a timeout of its *)
(* own.  That one writes a command and, once it is acknowledged, reads     *)
(* packages until the end of the history, of what is malformed or of the   *)
(* budget.  What the packages hold is left to HistoryRead.                 *)
(***************************************************************************)
HistoryV4Returns(p) ==
    /\ pc[p] = "historyV4"
    /\ \E r \in {"ok", "failed", "protocol"} : Return(p, r, NoRequest)
    /\ UNCHANGED <<call, count, polls, ctx, inflight, dev, executed>>

HistoryV4Aborted(p) ==
    /\ pc[p] = "historyV4"
    /\ ctx[p] # "live"
    /\ Return(p, ContextError(p), NoRequest)
    /\ UNCHANGED <<call, count, polls, ctx, inflight, dev, executed>>

HistoryFallsBack(p) ==
    /\ pc[p] = "historyV4"
    /\ pc' = [pc EXCEPT ![p] = "write"]
    /\ ctx' = [ctx EXCEPT ![p] = IF @ = "deadline" THEN "live" ELSE @]
    /\ UNCHANGED <<call, count, polls, outcome, opMu, inflight, dev, executed>>

StatusThenPackages(p) ==
    /\ pc[p] = "status"
    /\ AckMatches(p)
    /\ call[p].op = "history" /\ dev.ack.status = "ok"
    /\ pc' = [pc EXCEPT ![p] = "packages"]
    /\ polls' = [polls EXCEPT ![p] = PackageReads]
    /\ UNCHANGED <<call, count, ctx, outcome, opMu, inflight, dev, executed>>

PackageRead(p) ==
    /\ pc[p] = "packages"
    /\ polls[p] > 1
    /\ polls' = [polls EXCEPT ![p] = @ - 1]
    /\ UNCHANGED <<pc, call, count, ctx, outcome, opMu, inflight, dev, executed>>

PackagesEnd(p) ==
    /\ pc[p] = "packages"
    /\ \E r \in {"ok", "protocol"} : Return(p, r, dev.output.req)
    /\ UNCHANGED <<call, count, polls, ctx, inflight, dev, executed>>

----------------------------------------------------------------------------
Writing(p) ==
    \/ RefuseInput(p) \/ RefuseWrite(p) \/ AcceptWrite(p)
    \/ WriteReturns(p) \/ WriteLost(p) \/ WriteAbandoned(p)

Polling(p) ==
    \/ ReadAborted(p) \/ ReadFails(p)
    \/ StatusEnds(p) \/ StatusThenOutput(p) \/ StatusMissing(p)
    \/ OutputTaken(p) \/ OutputUnauthorized(p) \/ OutputMissing(p)
    \/ VerdictTaken(p) \/ VerdictWrong(p)
    \/ Awake(p) \/ PollsExhausted(p) \/ WindowCloses(p) \/ SleepAborted(p)

SubscribingOrHistory(p) ==
    \/ SubscribeReturns(p) \/ SubscribeAborted(p)
    \/ HistoryV4Returns(p) \/ HistoryV4Aborted(p) \/ HistoryFallsBack(p)
    \/ StatusThenPackages(p) \/ PackageRead(p) \/ PackagesEnd(p)

(***************************************************************************)
(* The bound on calls is the only reason for which the system stops.       *)
(***************************************************************************)
Finished ==
    /\ \A p \in Proc : pc[p] = "idle" /\ count[p] = MaxCalls
    /\ inflight = {} /\ dev.due = {}
    /\ UNCHANGED vars

Next ==
    \/ \E p \in Proc : \/ Invoke(p) \/ Lock(p) \/ Cancel(p) \/ Deadline(p)
                      \/ Writing(p) \/ Polling(p) \/ SubscribingOrHistory(p)
    \/ DeviceExecutes
    \/ DevicePublishes
    \/ Finished

Spec == Init /\ [][Next]_vars

(***************************************************************************)
(* What the Go scheduler and timers guarantee.  Every operation context    *)
(* but that of Events has a deadline (normalizeConfig), an ended context   *)
(* ends a Write, a Read, a Subscribe or a sleep, a sleep ends, and         *)
(* sync.Mutex does not starve a waiter.  Nothing is assumed of the device, *)
(* which may never answer, nor of the callers, who need not cancel.  Of    *)
(* the transport it asks that it looks at contexts, as the macOS           *)
(* connection does in all places but one, where a Subscribe closes the     *)
(* subscription it replaces (MacConnection).                               *)
(***************************************************************************)
LocalStep(p) ==
    \/ RefuseInput(p) \/ RefuseWrite(p) \/ WriteAbandoned(p) \/ ReadAborted(p)
    \/ Awake(p) \/ PollsExhausted(p) \/ WindowCloses(p) \/ SleepAborted(p)
    \/ SubscribeAborted(p) \/ HistoryV4Aborted(p)
    \/ ctx[p] # "live" /\ HistoryFallsBack(p)

Fairness ==
    \A p \in Proc : WF_vars(Deadline(p)) /\ WF_vars(LocalStep(p)) /\ SF_vars(Lock(p))

FairSpec == Spec /\ Fairness

----------------------------------------------------------------------------
TypeOK ==
    /\ pc \in [Proc -> PC]
    /\ call \in [Proc -> Calls]
    /\ count \in [Proc -> Nat]
    /\ polls \in [Proc -> Nat]
    /\ ctx \in [Proc -> {"live", "deadline", "cancelled"}]
    /\ outcome \in [Proc -> Outcome]
    /\ opMu \in Proc \cup {NoProc}
    /\ inflight \subseteq Write
    /\ dev \in Device
    /\ executed \subseteq Execution

(***************************************************************************)
(* A goroutine is inside the section that opMu guards.                     *)
(***************************************************************************)
InSection(p) == pc[p] \in Active /\ TakesLock(call[p])

(***************************************************************************)
(* Command-style operations are serialized on a session: between the write *)
(* of one and its return no other writes or polls, and none does while     *)
(* Events subscribes or ReadHistory reads (opMu).                          *)
(***************************************************************************)
CommandsSerialized == \A p, q \in Proc : InSection(p) /\ InSection(q) => p = q

(***************************************************************************)
(* opMu is held exactly while a call that takes it does its work: no error *)
(* path leaves it locked and none unlocks it early.                        *)
(***************************************************************************)
LockMatchesSection == \A p \in Proc : opMu = p <=> InSection(p)

(***************************************************************************)
(* An acknowledgement or a coded output that a call accepts answers a      *)
(* request with the code of that call that the device really accepted,     *)
(* however late the writes land and whatever else is on the                *)
(* characteristics (readCommandStatusFor and readCommandOutputFor ignore   *)
(* payloads that begin with another code).                                 *)
(***************************************************************************)
AcceptedIn(history, req, code) == \E e \in history : e.req = req /\ e.accepted /\ e.call.code = code
AcceptedFor(req, code) == AcceptedIn(executed, req, code)

AnswersCarryOwnCode ==
    \A p \in Proc :
        /\ IsCommand(call[p])
        /\ outcome[p].result = "ok"
        => /\ AcceptedFor(outcome[p].ack, call[p].code)
           /\ call[p].op = "read" /\ Accept[call[p].code] = {} => AcceptedFor(outcome[p].from, call[p].code)

(***************************************************************************)
(* Serialized operations do not take each other's answers: the             *)
(* acknowledgement, the output and the password verdict a call ends on are *)
(* those of its own request, and one that succeeds has seen them.          *)
(***************************************************************************)
OwnAnswer ==
    \A p \in Proc :
        /\ outcome[p].ack \in {NoRequest, RequestOf(p)}
        /\ outcome[p].from \in {NoRequest, RequestOf(p)}
        /\ outcome[p].result = "ok" =>
              /\ IsCommand(call[p]) => outcome[p].ack = RequestOf(p)
              /\ call[p].op \in {"read", "authorize"} => outcome[p].from = RequestOf(p)

(***************************************************************************)
(* The steps that a call can still take before it returns: two for each    *)
(* poll left, its own and the sleep after it, one for each package, and    *)
(* those on the way to the first poll.                                     *)
(***************************************************************************)
AllPolls == StatusPolls + OutputPolls + VerdictPolls + PackageReads

StepsLeft(p) ==
    CASE pc[p] = "idle"                      -> 0
      [] pc[p] = "lock"                      -> 2 * AllPolls + 5
      [] pc[p] = "subscribing"               -> 1
      [] pc[p] = "historyV4"                 -> 2 * AllPolls + 4
      [] pc[p] = "write"                     -> 2 * AllPolls + 3
      [] pc[p] = "writing"                   -> 2 * AllPolls + 2
      [] pc[p] = "status"                    -> 2 * (OutputPolls + PackageReads) + 2 * polls[p] + 1
      [] pc[p] = "statusSleep"               -> 2 * (OutputPolls + PackageReads) + 2 * polls[p]
      [] pc[p] \in {"output", "verdict"}     -> 2 * polls[p] + 1
      [] pc[p] \in {"outputSleep", "verdictSleep"} -> 2 * polls[p]
      [] pc[p] = "packages"                  -> polls[p]

(***************************************************************************)
(* A call that has been made comes nearer to its return with every step it *)
(* takes, and no step of anybody else takes it back: the polling loops of  *)
(* readCommandStatusFor, readCommandOutputFor, readAuthorizationResult and *)
(* readHistoryV3 are used up, whatever the device shows.                   *)
(***************************************************************************)
CallsComeNearer ==
    [][\A p \in Proc : \/ pc[p] = "idle"
                       \/ UNCHANGED <<pc[p], polls[p]>>
                       \/ StepsLeft(p)' < StepsLeft(p)]_vars

(***************************************************************************)
(* Every call returns, also when the device never answers a write or a     *)
(* read, unless an Events holds opMu for want of the radio's answer to its *)
(* subscriptions: a caller waits for opMu only as long as the calls before *)
(* it, and Events alone has no timeout of its own.                         *)
(***************************************************************************)
EventsHolds == \E q \in Proc : pc[q] = "subscribing"

EveryCallReturns == \A p \in Proc : pc[p] # "idle" ~> pc[p] = "idle" \/ EventsHolds

(***************************************************************************)
(* A call that blocks observes the cancellation of its context.  The code  *)
(* does not keep this: a command that waits for opMu behind an Events with *)
(* no answer from the radio goes on to wait.                               *)
(***************************************************************************)
CancelledCallsReturn == \A p \in Proc : pc[p] # "idle" /\ ctx[p] = "cancelled" ~> pc[p] = "idle"
=============================================================================
