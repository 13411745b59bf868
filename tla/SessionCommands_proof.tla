----------------------- MODULE SessionCommands_proof -----------------------
(***************************************************************************)
(* Proofs about the command path of a session, for any set of goroutines,  *)
(* codes and calls, any poll budgets, and a prompt device or not.          *)
(***************************************************************************)
EXTENDS SessionRefinement, TLAPS

(***************************************************************************)
(* Whatever the device does with a write, it stays a device.               *)
(***************************************************************************)
LEMMA EffectsType ==
    ASSUME NEW d \in Device, NEW w \in Write, NEW e \in Effects(d, w)
    PROVE  e \in Device
<1> USE ConstantsAssumption
<1>1. CASE ~WritesCommand(w.call)
  <2>1. w.req \in Request /\ w.call.right \in BOOLEAN
    BY DEF Write, Call
  <2>2. \A kind \in Kind : Plain(kind, w.req) \in Output
    BY <2>1 DEF Plain, Output
  <2>3. e \in PasswordEffects(d, w)
    BY <1>1 DEF Effects
  <2> QED
    BY <2>1, <2>2, <2>3 DEF PasswordEffects, Device, Kind
<1>2. CASE WritesCommand(w.call)
  <2>1. w.req \in Request /\ w.call.code \in Code
    BY <1>2 DEF Write, Call, WritesCommand
  <2>2. \A status \in Status : AckOf(w, status) \in Ack
    BY <2>1 DEF AckOf, Ack
  <2>3. CASE ~d.authorized
    <3>1. e \in BlockedEffects(d, w)
      BY <1>2, <2>3 DEF Effects
    <3>2. PICK a \in Ack : e = [d EXCEPT !.ack = a, !.output = Plain("passwordWrong", w.req)]
      BY <3>1, <2>2 DEF BlockedEffects, Device, Status
    <3>3. Plain("passwordWrong", w.req) \in Output
      BY <2>1 DEF Plain, Output, Kind
    <3> QED
      BY <3>2, <3>3 DEF Device
  <2>4. CASE d.authorized /\ e \in RefusedEffects(d, w)
    BY <2>2, <2>4 DEF RefusedEffects, Device
  <2>5. CASE d.authorized /\ e \in ObeyedEffects(d, w)
    <3>1. \A kind \in Reply[w.call.code] : ReplyOf(w, kind) \in Output
      BY <2>1 DEF ReplyOf, Output
    <3>a. OutputsOf(w) \subseteq SUBSET Output
      BY <3>1 DEF OutputsOf
    <3>2. PICK out \in SUBSET Output : e = [d EXCEPT !.ack = AckOf(w, "ok"), !.due = @ \cup out]
      BY <3>a, <2>5 DEF ObeyedEffects
    <3> QED
      BY <3>2, <2>2 DEF Device, Status
  <2> QED
    BY <1>2, <2>3, <2>4, <2>5 DEF Effects
<1> QED
  BY <1>1, <1>2

LEMMA SettledType ==
    ASSUME NEW d \in Device, NEW e \in Settled(d)
    PROVE  e \in Device
BY DEF Settled, Device

LEMMA ExecutionType ==
    ASSUME NEW w \in Write, NEW e \in Device
    PROVE  ExecutionOf(w, e) \in Execution
BY DEF ExecutionOf, Execution, Write, Device

LEMMA WriteType ==
    ASSUME TypeOK, NEW p \in Proc
    PROVE  WriteOf(p) \in Write
BY ConstantsAssumption DEF TypeOK, WriteOf, RequestOf, Request, Write

LEMMA ReturnType ==
    ASSUME TypeOK, NEW p \in Proc, NEW result \in Results, NEW from \in Request,
           Return(p, result, from)
    PROVE  /\ pc' \in [Proc -> PC]
           /\ outcome' \in [Proc -> Outcome]
           /\ opMu' \in Proc \cup {NoProc}
BY DEF TypeOK, Return, PC, Outcome

LEMMA NoRequestType == NoRequest \in Request
BY DEF NoRequest, Request

----------------------------------------------------------------------------
(***************************************************************************)
(* Type correctness.                                                       *)
(***************************************************************************)
LEMMA InitTypeOK == Init => TypeOK
<1> SUFFICES ASSUME Init PROVE TypeOK
  OBVIOUS
<1> USE ConstantsAssumption
<1>a. NoAck \in Ack
  BY NoRequestType DEF NoAck, Ack, Status
<1>b. \A kind \in Kind : Plain(kind, NoRequest) \in Output
  BY NoRequestType DEF Plain, Output
<1>c. \A authorized \in BOOLEAN, kind \in Kind : InitialDevice(authorized, kind) \in Device
  BY <1>a, <1>b DEF InitialDevice, Device
<1>1. dev \in Device
  BY <1>c DEF Init, Kind
<1>2. outcome \in [Proc -> Outcome]
  BY NoRequestType DEF Init, Outcome, Results
<1>3. call \in [Proc -> Calls]
  BY DEF Init
<1> QED
  BY <1>1, <1>2, <1>3 DEF Init, TypeOK, PC

LEMMA EnvironmentKeepsType ==
    ASSUME TypeOK, DeviceExecutes \/ DevicePublishes
    PROVE  TypeOK'
<1>1. CASE DeviceExecutes
  <2>1. PICK w \in inflight : \E e \in Effects(dev, w) :
            /\ dev' = e
            /\ inflight' = inflight \ {w}
            /\ executed' = executed \cup {ExecutionOf(w, e)}
    BY <1>1 DEF DeviceExecutes
  <2>2. w \in Write /\ dev \in Device
    BY DEF TypeOK
  <2>3. dev' \in Effects(dev, w) /\ executed' = executed \cup {ExecutionOf(w, dev')}
    BY <2>1
  <2>4. dev' \in Device
    BY <2>2, <2>3, EffectsType
  <2>5. ExecutionOf(w, dev') \in Execution
    BY <2>2, <2>4, ExecutionType
  <2>6. inflight' \subseteq Write /\ executed' \subseteq Execution
    BY <2>1, <2>3, <2>5 DEF TypeOK
  <2>7. UNCHANGED <<pc, call, count, polls, ctx, outcome, opMu>>
    BY <1>1 DEF DeviceExecutes
  <2> QED
    BY <2>4, <2>6, <2>7 DEF TypeOK
<1>2. CASE DevicePublishes
  <2>1. PICK o \in dev.due : dev' = [dev EXCEPT !.output = o, !.due = @ \ {o}]
    BY <1>2 DEF DevicePublishes
  <2>2. o \in Output /\ dev.due \ {o} \subseteq Output
    BY DEF TypeOK, Device
  <2>3. dev' \in Device
    BY <2>1, <2>2 DEF TypeOK, Device
  <2> QED
    BY <1>2, <2>3 DEF TypeOK, DevicePublishes
<1> QED
  BY <1>1, <1>2

LEMMA WritingKeepsType ==
    ASSUME TypeOK, NEW p \in Proc, Writing(p)
    PROVE  TypeOK'
<1> USE ConstantsAssumption
<1>a. ContextError(p) \in Results /\ "invalid" \in Results /\ "failed" \in Results
  BY DEF ContextError, Results
<1>1. CASE RefuseInput(p)
  BY <1>1, <1>a, ReturnType, NoRequestType DEF RefuseInput, TypeOK
<1>2. CASE RefuseWrite(p)
  <2>1. PICK r \in Results : Return(p, r, NoRequest)
    BY <1>2, <1>a DEF RefuseWrite
  <2> QED
    BY <1>2, <2>1, ReturnType, NoRequestType DEF RefuseWrite, TypeOK
<1>3. CASE PromptWrite(p)
  <2>1. PICK e \in Effects(dev, WriteOf(p)) :
            /\ dev' \in Settled(e)
            /\ executed' = executed \cup {ExecutionOf(WriteOf(p), e)}
    BY <1>3 DEF PromptWrite
  <2>2. WriteOf(p) \in Write /\ dev \in Device
    BY WriteType DEF TypeOK
  <2>3. e \in Device
    BY <2>2, EffectsType
  <2>4. dev' \in Device
    BY <2>1, <2>3, SettledType
  <2>5. ExecutionOf(WriteOf(p), e) \in Execution
    BY <2>2, <2>3, ExecutionType
  <2>6. executed' \subseteq Execution
    BY <2>1, <2>5 DEF TypeOK
  <2>7. pc' \in [Proc -> PC] /\ polls' \in [Proc -> Nat]
    BY <1>3 DEF PromptWrite, StartPolling, TypeOK, PC, Active, Reading
  <2>8. UNCHANGED <<call, count, ctx, outcome, opMu, inflight>>
    BY <1>3 DEF PromptWrite
  <2> QED
    BY <2>4, <2>6, <2>7, <2>8 DEF TypeOK
<1>4. CASE SubmitWrite(p)
  BY <1>4, WriteType DEF SubmitWrite, TypeOK, PC, Active
<1>5. CASE WriteReturns(p)
  BY <1>5 DEF WriteReturns, StartPolling, TypeOK, PC, Active, Reading
<1>6. CASE WriteLost(p)
  BY <1>6, <1>a, ReturnType, NoRequestType DEF WriteLost, TypeOK
<1>7. CASE WriteAbandoned(p)
  BY <1>7, <1>a, ReturnType, NoRequestType DEF WriteAbandoned, TypeOK
<1> QED
  BY <1>1, <1>2, <1>3, <1>4, <1>5, <1>6, <1>7 DEF Writing, AcceptWrite

LEMMA PollingKeepsType ==
    ASSUME TypeOK, NEW p \in Proc, Polling(p)
    PROVE  TypeOK'
<1> USE ConstantsAssumption
<1>a. {ContextError(p), StatusResult(p), "ok", "protocol", "failed", "unauthorized"} \subseteq Results
  BY DEF ContextError, StatusResult, Results
<1>b. dev.ack.req \in Request /\ dev.output.req \in Request
  BY DEF TypeOK, Device, Ack, Output
<1>1. CASE ReadAborted(p)
  BY <1>1, <1>a, ReturnType, NoRequestType DEF ReadAborted, TypeOK
<1>2. CASE ReadFails(p)
  BY <1>2, <1>a, ReturnType, NoRequestType DEF ReadFails, TypeOK
<1>3. CASE StatusEnds(p)
  <2>1. outcome' \in [Proc -> Outcome]
    BY <1>3, <1>a, <1>b, NoRequestType DEF StatusEnds, TypeOK, Outcome
  <2> QED
    BY <1>3, <2>1 DEF StatusEnds, TypeOK, PC
<1>4. CASE StatusThenOutput(p)
  <2>1. outcome' \in [Proc -> Outcome]
    BY <1>4, <1>b DEF StatusThenOutput, TypeOK, Outcome
  <2> QED
    BY <1>4, <2>1 DEF StatusThenOutput, TypeOK, PC, Active, Reading
<1>5. CASE StatusMissing(p)
  BY <1>5 DEF StatusMissing, TypeOK, PC, Active, Sleeping
<1>6. CASE OutputTaken(p)
  BY <1>6, <1>a, <1>b, ReturnType DEF OutputTaken, TypeOK
<1>7. CASE OutputUnauthorized(p)
  BY <1>7, <1>a, <1>b, ReturnType DEF OutputUnauthorized, TypeOK
<1>8. CASE OutputMissing(p)
  BY <1>8 DEF OutputMissing, TypeOK, PC, Active, Sleeping
<1>9. CASE VerdictTaken(p)
  BY <1>9, <1>a, <1>b, ReturnType DEF VerdictTaken, TypeOK
<1>10. CASE VerdictWrong(p)
  BY <1>10 DEF VerdictWrong, TypeOK, PC, Active, Sleeping
<1>11. CASE Awake(p)
  <2>1. polls' \in [Proc -> Nat]
    BY <1>11 DEF Awake, TypeOK
  <2>2. pc' \in [Proc -> PC]
    BY <1>11 DEF Awake, TypeOK, PC, Active, Reading, Sleeping
  <2> QED
    BY <1>11, <2>1, <2>2 DEF Awake, TypeOK
<1>12. CASE PollsExhausted(p)
  BY <1>12, <1>a, ReturnType, NoRequestType DEF PollsExhausted, TypeOK
<1>13. CASE WindowCloses(p)
  BY <1>13, <1>a, ReturnType, NoRequestType DEF WindowCloses, TypeOK
<1>14. CASE SleepAborted(p)
  BY <1>14, <1>a, ReturnType, NoRequestType DEF SleepAborted, TypeOK
<1> QED
  BY <1>1, <1>2, <1>3, <1>4, <1>5, <1>6, <1>7, <1>8, <1>9, <1>10, <1>11, <1>12, <1>13, <1>14
     DEF Polling

LEMMA HoldingKeepsType ==
    ASSUME TypeOK, NEW p \in Proc, SubscribingOrHistory(p)
    PROVE  TypeOK'
<1> USE ConstantsAssumption
<1>a. {ContextError(p), "ok", "protocol", "failed"} \subseteq Results /\ dev.output.req \in Request
  BY DEF ContextError, Results, TypeOK, Device, Output
<1>1. CASE SubscribeReturns(p)
  <2>1. PICK r \in Results : Return(p, r, NoRequest)
    BY <1>1, <1>a DEF SubscribeReturns
  <2> QED
    BY <1>1, <2>1, ReturnType, NoRequestType DEF SubscribeReturns, TypeOK
<1>2. CASE SubscribeAborted(p)
  BY <1>2, <1>a, ReturnType, NoRequestType DEF SubscribeAborted, TypeOK
<1>3. CASE HistoryV4Returns(p)
  <2>1. PICK r \in Results : Return(p, r, NoRequest)
    BY <1>3, <1>a DEF HistoryV4Returns
  <2> QED
    BY <1>3, <2>1, ReturnType, NoRequestType DEF HistoryV4Returns, TypeOK
<1>4. CASE HistoryV4Aborted(p)
  BY <1>4, <1>a, ReturnType, NoRequestType DEF HistoryV4Aborted, TypeOK
<1>5. CASE HistoryFallsBack(p)
  <2>1. pc' \in [Proc -> PC]
    BY <1>5 DEF HistoryFallsBack, TypeOK, PC, Active
  <2>2. ctx' \in [Proc -> {"live", "deadline", "cancelled"}]
    BY <1>5 DEF HistoryFallsBack, TypeOK
  <2> QED
    BY <1>5, <2>1, <2>2 DEF HistoryFallsBack, TypeOK
<1>6. CASE StatusThenPackages(p)
  BY <1>6 DEF StatusThenPackages, TypeOK, PC, Active, Reading
<1>7. CASE PackageRead(p)
  <2>1. polls' \in [Proc -> Nat]
    BY <1>7 DEF PackageRead, TypeOK
  <2> QED
    BY <1>7, <2>1 DEF PackageRead, TypeOK
<1>8. CASE PackagesEnd(p)
  <2>1. PICK r \in Results : Return(p, r, dev.output.req)
    BY <1>8, <1>a DEF PackagesEnd
  <2> QED
    BY <1>8, <1>a, <2>1, ReturnType DEF PackagesEnd, TypeOK
<1> QED
  BY <1>1, <1>2, <1>3, <1>4, <1>5, <1>6, <1>7, <1>8 DEF SubscribingOrHistory

LEMMA StepKeepsType == TypeOK /\ [Next]_vars => TypeOK'
<1> SUFFICES ASSUME TypeOK, [Next]_vars PROVE TypeOK'
  OBVIOUS
<1> USE ConstantsAssumption
<1>1. ASSUME NEW p \in Proc, Invoke(p) PROVE TypeOK'
  BY <1>1, NoRequestType DEF Invoke, TypeOK, PC, Active, Outcome, Results
<1>2. ASSUME NEW p \in Proc, Lock(p) PROVE TypeOK'
  <2>1. PICK to \in FirstSteps(call[p]) : pc' = [pc EXCEPT ![p] = to]
    BY <1>2 DEF Lock
  <2>2. to \in PC
    BY <2>1 DEF FirstSteps, PC, Active
  <2> QED
    BY <1>2, <2>1, <2>2 DEF Lock, TypeOK
<1>3. ASSUME NEW p \in Proc, Cancel(p) \/ Deadline(p) PROVE TypeOK'
  BY <1>3 DEF Cancel, Deadline, TypeOK
<1>4. ASSUME NEW p \in Proc, Writing(p) PROVE TypeOK'
  BY <1>4, WritingKeepsType
<1>5. ASSUME NEW p \in Proc, Polling(p) PROVE TypeOK'
  BY <1>5, PollingKeepsType
<1>6. CASE DeviceExecutes \/ DevicePublishes
  BY <1>6, EnvironmentKeepsType
<1>7. CASE UNCHANGED vars
  BY <1>7 DEF vars, TypeOK
<1>8. ASSUME NEW p \in Proc, SubscribingOrHistory(p) PROVE TypeOK'
  BY <1>8, HoldingKeepsType
<1> QED
  BY <1>1, <1>2, <1>3, <1>4, <1>5, <1>6, <1>7, <1>8 DEF Next, Finished

(***************************************************************************)
(* The variables of the command path keep their types.                     *)
(***************************************************************************)
THEOREM TypeCorrectness == Spec => []TypeOK
  BY InitTypeOK, StepKeepsType, PTL DEF Spec

----------------------------------------------------------------------------
(***************************************************************************)
(* Serialization.  LockMatchesSection is inductive only together with what *)
(* the program counter says of the call: Authorize alone polls for a       *)
(* verdict and never waits for opMu, Events alone subscribes and never     *)
(* writes, and a history has a path of its own.                            *)
(***************************************************************************)
CommandPC == {"status", "statusSleep", "output", "outputSleep"}

Fits(place, c) ==
    /\ place = "lock" => TakesLock(c)
    /\ place \in {"write", "writing"} => c.op # "events"
    /\ place \in CommandPC => WritesCommand(c)
    /\ place \in {"output", "outputSleep"} => c.op = "read"
    /\ place \in {"verdict", "verdictSleep"} => c.op = "authorize"
    /\ place = "subscribing" => c.op = "events"
    /\ place \in {"historyV4", "packages"} => c.op = "history"

PathMatchesCall == \A p \in Proc : Fits(pc[p], call[p])

LockInv == TypeOK /\ PathMatchesCall /\ LockMatchesSection

LEMMA InitLockInv == Init => LockInv
BY InitTypeOK, ConstantsAssumption
   DEF Init, LockInv, PathMatchesCall, Fits, CommandPC, LockMatchesSection, InSection, Active, Reading, Sleeping

LEMMA ReturnKeepsLockInv ==
    ASSUME LockInv, NEW p \in Proc, pc[p] \in Active, NEW result, NEW from, Return(p, result, from),
           call' = call
    PROVE  PathMatchesCall' /\ LockMatchesSection'
BY ConstantsAssumption
   DEF LockInv, TypeOK, Return, PathMatchesCall, Fits, CommandPC, LockMatchesSection, InSection,
       Active, Reading, Sleeping

LEMMA MoveKeepsLockInv ==
    ASSUME LockInv, NEW p \in Proc, pc[p] \in Active, NEW to \in Active, pc' = [pc EXCEPT ![p] = to],
           Fits(to, call[p]),
           UNCHANGED <<call, opMu>>
    PROVE  PathMatchesCall' /\ LockMatchesSection'
BY DEF LockInv, TypeOK, PathMatchesCall, LockMatchesSection, InSection

LEMMA WritingKeepsLockInv ==
    ASSUME LockInv, NEW p \in Proc, Writing(p)
    PROVE  PathMatchesCall' /\ LockMatchesSection'
<1>1. CASE RefuseInput(p)
  BY <1>1, ReturnKeepsLockInv DEF RefuseInput, Active
<1>2. CASE RefuseWrite(p)
  <2>1. PICK r : Return(p, r, NoRequest)
    BY <1>2 DEF RefuseWrite
  <2> QED
    BY <1>2, <2>1, ReturnKeepsLockInv DEF RefuseWrite, Active
<1>3. CASE PromptWrite(p) \/ WriteReturns(p)
  <2>1. call[p] \in Call /\ Fits(pc[p], call[p]) /\ pc[p] \in {"write", "writing"}
    BY <1>3, ConstantsAssumption DEF PromptWrite, WriteReturns, LockInv, TypeOK, PathMatchesCall
  <2>2. Fits(IF WritesCommand(call[p]) THEN "status" ELSE "verdict", call[p])
    BY <2>1 DEF Fits, CommandPC, WritesCommand, Call
  <2> QED
    BY <1>3, <2>1, <2>2, MoveKeepsLockInv DEF PromptWrite, WriteReturns, StartPolling, Active, Reading
<1>4. CASE SubmitWrite(p)
  BY <1>4, MoveKeepsLockInv DEF SubmitWrite, Active, CommandPC, Fits, LockInv, PathMatchesCall
<1>5. CASE WriteLost(p)
  BY <1>5, ReturnKeepsLockInv DEF WriteLost, Active
<1>6. CASE WriteAbandoned(p)
  BY <1>6, ReturnKeepsLockInv DEF WriteAbandoned, Active
<1> QED
  BY <1>1, <1>2, <1>3, <1>4, <1>5, <1>6 DEF Writing, AcceptWrite

LEMMA PollingKeepsLockInv ==
    ASSUME LockInv, NEW p \in Proc, Polling(p)
    PROVE  PathMatchesCall' /\ LockMatchesSection'
<1>1. CASE ReadAborted(p)
  BY <1>1, ReturnKeepsLockInv DEF ReadAborted, Active
<1>2. CASE ReadFails(p)
  BY <1>2, ReturnKeepsLockInv DEF ReadFails, Active
<1>3. CASE StatusEnds(p)
  <2>1. TakesLock(call[p])
    BY <1>3 DEF StatusEnds, LockInv, PathMatchesCall, Fits, CommandPC, WritesCommand, TakesLock
  <2> QED
    BY <2>1, <1>3, ConstantsAssumption
       DEF StatusEnds, LockInv, TypeOK, PathMatchesCall, Fits, CommandPC, LockMatchesSection,
           InSection, Active, Reading, Sleeping
<1>4. CASE StatusThenOutput(p)
  BY <1>4, MoveKeepsLockInv DEF StatusThenOutput, Active, Reading, Fits, CommandPC, WritesCommand
<1>5. CASE StatusMissing(p)
  BY <1>5, MoveKeepsLockInv
     DEF StatusMissing, Active, Reading, Sleeping, CommandPC, Fits, LockInv, PathMatchesCall
<1>6. CASE OutputTaken(p)
  BY <1>6, ReturnKeepsLockInv DEF OutputTaken, Active, Reading
<1>7. CASE OutputUnauthorized(p)
  BY <1>7, ReturnKeepsLockInv DEF OutputUnauthorized, Active, Reading
<1>8. CASE OutputMissing(p)
  BY <1>8, MoveKeepsLockInv
     DEF OutputMissing, Active, Reading, Sleeping, CommandPC, Fits, LockInv, PathMatchesCall
<1>9. CASE VerdictTaken(p)
  BY <1>9, ReturnKeepsLockInv DEF VerdictTaken, Active, Reading
<1>10. CASE VerdictWrong(p)
  BY <1>10, MoveKeepsLockInv
     DEF VerdictWrong, Active, Reading, Sleeping, CommandPC, Fits, LockInv, PathMatchesCall
<1>11. CASE Awake(p)
  BY <1>11, MoveKeepsLockInv
     DEF Awake, Active, Reading, Sleeping, CommandPC, Fits, LockInv, PathMatchesCall
<1>12. CASE PollsExhausted(p)
  BY <1>12, ReturnKeepsLockInv DEF PollsExhausted, Active, Sleeping
<1>13. CASE WindowCloses(p)
  BY <1>13, ReturnKeepsLockInv DEF WindowCloses, Active, Sleeping
<1>14. CASE SleepAborted(p)
  BY <1>14, ReturnKeepsLockInv DEF SleepAborted, Active
<1> QED
  BY <1>1, <1>2, <1>3, <1>4, <1>5, <1>6, <1>7, <1>8, <1>9, <1>10, <1>11, <1>12, <1>13, <1>14
     DEF Polling

LEMMA HoldingKeepsLockInv ==
    ASSUME LockInv, NEW p \in Proc, SubscribingOrHistory(p)
    PROVE  PathMatchesCall' /\ LockMatchesSection'
<1>1. CASE SubscribeReturns(p)
  BY <1>1, ReturnKeepsLockInv DEF SubscribeReturns, Active
<1>2. CASE SubscribeAborted(p)
  BY <1>2, ReturnKeepsLockInv DEF SubscribeAborted, Active
<1>3. CASE HistoryV4Returns(p)
  BY <1>3, ReturnKeepsLockInv DEF HistoryV4Returns, Active
<1>4. CASE HistoryV4Aborted(p)
  BY <1>4, ReturnKeepsLockInv DEF HistoryV4Aborted, Active
<1>5. CASE HistoryFallsBack(p)
  BY <1>5, MoveKeepsLockInv DEF HistoryFallsBack, Active, CommandPC, Fits, LockInv, PathMatchesCall
<1>6. CASE StatusThenPackages(p)
  BY <1>6, MoveKeepsLockInv DEF StatusThenPackages, Active, Reading, CommandPC, Fits
<1>7. CASE PackageRead(p)
  BY <1>7 DEF PackageRead, LockInv, PathMatchesCall, LockMatchesSection, InSection
<1>8. CASE PackagesEnd(p)
  BY <1>8, ReturnKeepsLockInv DEF PackagesEnd, Active, Reading
<1> QED
  BY <1>1, <1>2, <1>3, <1>4, <1>5, <1>6, <1>7, <1>8 DEF SubscribingOrHistory

LEMMA StepKeepsLockInv == LockInv /\ [Next]_vars => LockInv'
<1> SUFFICES ASSUME LockInv, [Next]_vars PROVE PathMatchesCall' /\ LockMatchesSection'
  BY StepKeepsType DEF LockInv
<1>1. ASSUME NEW p \in Proc, Invoke(p) PROVE PathMatchesCall' /\ LockMatchesSection'
  <2>1. PICK c \in Calls, to \in {"lock", "write"} :
            /\ call' = [call EXCEPT ![p] = c] /\ pc' = [pc EXCEPT ![p] = to]
            /\ to = IF TakesLock(c) THEN "lock" ELSE "write"
    BY <1>1 DEF Invoke
  <2>2. Fits(to, c) /\ (to = "write" => ~TakesLock(c))
    BY <2>1 DEF Fits, CommandPC, TakesLock
  <2>3. pc[p] = "idle" /\ opMu' = opMu
    BY <1>1 DEF Invoke
  <2> QED
    BY <2>1, <2>2, <2>3 DEF LockInv, TypeOK, PathMatchesCall, LockMatchesSection, InSection,
       Active, Reading, Sleeping
<1>2. ASSUME NEW p \in Proc, Lock(p) PROVE PathMatchesCall' /\ LockMatchesSection'
  <2>1. PICK to \in FirstSteps(call[p]) : pc' = [pc EXCEPT ![p] = to]
    BY <1>2 DEF Lock
  <2>2. Fits(to, call[p]) /\ to \in Active
    BY <2>1 DEF FirstSteps, Fits, CommandPC, Active
  <2>3. pc[p] = "lock" /\ TakesLock(call[p]) /\ opMu = NoProc /\ opMu' = p /\ call' = call
    BY <1>2 DEF Lock, LockInv, PathMatchesCall, Fits
  <2> QED
    BY <2>1, <2>2, <2>3, ConstantsAssumption
       DEF LockInv, TypeOK, PathMatchesCall, LockMatchesSection, InSection
<1>3. ASSUME NEW p \in Proc, Writing(p) PROVE PathMatchesCall' /\ LockMatchesSection'
  BY <1>3, WritingKeepsLockInv
<1>4. ASSUME NEW p \in Proc, Polling(p) PROVE PathMatchesCall' /\ LockMatchesSection'
  BY <1>4, PollingKeepsLockInv
<1>5. CASE UNCHANGED <<pc, call, opMu>>
  BY <1>5 DEF LockInv, PathMatchesCall, LockMatchesSection, InSection
<1>6. ASSUME NEW p \in Proc, SubscribingOrHistory(p) PROVE PathMatchesCall' /\ LockMatchesSection'
  BY <1>6, HoldingKeepsLockInv
<1> QED
  BY <1>1, <1>2, <1>3, <1>4, <1>5, <1>6
     DEF Next, Finished, vars, Cancel, Deadline, DeviceExecutes, DevicePublishes

(***************************************************************************)
(* opMu is held exactly while a call that takes it does its work, on every *)
(* path through SendCommand, readCommandPayload, ReadHistory and Events.   *)
(***************************************************************************)
THEOREM LockDiscipline == Spec => []LockMatchesSection
<1>1. LockInv => LockMatchesSection
  BY DEF LockInv
<1> QED
  BY <1>1, InitLockInv, StepKeepsLockInv, PTL DEF Spec

(***************************************************************************)
(* At most one command-style operation of a session is between its write   *)
(* and its return.                                                         *)
(***************************************************************************)
THEOREM Serialization == Spec => []CommandsSerialized
<1>1. LockInv => CommandsSerialized
  BY DEF LockInv, LockMatchesSection, CommandsSerialized
<1> QED
  BY <1>1, InitLockInv, StepKeepsLockInv, PTL DEF Spec

----------------------------------------------------------------------------
(***************************************************************************)
(* The way to the return.  A call that polls has a poll left, so that what *)
(* StepsLeft counts is never used up before the call is over.              *)
(***************************************************************************)
PollsInv == LockInv /\ \A p \in Proc : pc[p] \in Reading \cup Sleeping => polls[p] >= 1

LEMMA InitPollsInv == Init => PollsInv
BY InitLockInv DEF Init, PollsInv, Reading, Sleeping


(***************************************************************************)
(* One step of the path of p: p has a poll left wherever it gets, and is   *)
(* nearer to its return.                                                   *)
(***************************************************************************)
Nearer(p) ==
    /\ pc'[p] \in Reading \cup Sleeping => polls'[p] >= 1
    /\ StepsLeft(p)' < StepsLeft(p)
    /\ \A q \in Proc : q # p => UNCHANGED <<pc[q], polls[q]>>

LEMMA ReturnIsNearer ==
    ASSUME PollsInv, NEW p \in Proc, pc[p] \in Active, NEW result, NEW from, Return(p, result, from),
           UNCHANGED polls
    PROVE  Nearer(p)
<1>1. pc'[p] = "idle" /\ \A q \in Proc : q # p => pc'[q] = pc[q]
  BY DEF Return, PollsInv, LockInv, TypeOK
<1>2. StepsLeft(p)' = 0
  BY <1>1 DEF StepsLeft
<1>3. polls[p] \in Nat /\ (pc[p] \in Reading \cup Sleeping => polls[p] >= 1)
  BY DEF PollsInv, LockInv, TypeOK
<1>4. StepsLeft(p) > 0
  BY <1>3, ConstantsAssumption DEF StepsLeft, AllPolls, Active, Reading, Sleeping
<1> QED
  BY <1>1, <1>2, <1>4 DEF Nearer, Reading, Sleeping

LEMMA WritingIsNearer ==
    ASSUME PollsInv, NEW p \in Proc, Writing(p)
    PROVE  Nearer(p)
<1>1. CASE RefuseInput(p)
  BY <1>1, ReturnIsNearer DEF RefuseInput, Active
<1>2. CASE RefuseWrite(p)
  <2>1. PICK r : Return(p, r, NoRequest)
    BY <1>2 DEF RefuseWrite
  <2> QED
    BY <1>2, <2>1, ReturnIsNearer DEF RefuseWrite, Active
<1>3. CASE PromptWrite(p) \/ WriteReturns(p)
  <2>1. /\ pc[p] \in {"write", "writing"} /\ \A q \in Proc : q # p => UNCHANGED <<pc[q], polls[q]>>
        /\ \/ pc'[p] = "status" /\ polls'[p] = StatusPolls
           \/ pc'[p] = "verdict" /\ polls'[p] = VerdictPolls
    BY <1>3 DEF PromptWrite, WriteReturns, StartPolling, PollsInv, LockInv, TypeOK
  <2>2. StepsLeft(p) >= 2 * AllPolls + 2 /\ StepsLeft(p)' < 2 * AllPolls + 2
    BY <2>1, ConstantsAssumption DEF StepsLeft, AllPolls
  <2>3. StepsLeft(p) \in Nat /\ StepsLeft(p)' \in Nat /\ AllPolls \in Nat
    BY <2>1, ConstantsAssumption DEF StepsLeft, AllPolls
  <2> QED
    BY <2>1, <2>2, <2>3, ConstantsAssumption DEF Nearer
<1>4. CASE SubmitWrite(p)
  <2>1. /\ pc[p] = "write" /\ pc'[p] = "writing" /\ UNCHANGED polls
        /\ \A q \in Proc : q # p => pc'[q] = pc[q]
    BY <1>4 DEF SubmitWrite, PollsInv, LockInv, TypeOK
  <2> QED
    BY <2>1, ConstantsAssumption DEF Nearer, StepsLeft, AllPolls, Reading, Sleeping
<1>5. CASE WriteLost(p)
  BY <1>5, ReturnIsNearer DEF WriteLost, Active
<1>6. CASE WriteAbandoned(p)
  BY <1>6, ReturnIsNearer DEF WriteAbandoned, Active
<1> QED
  BY <1>1, <1>2, <1>3, <1>4, <1>5, <1>6 DEF Writing, AcceptWrite

LEMMA PollingIsNearer ==
    ASSUME PollsInv, NEW p \in Proc, Polling(p)
    PROVE  Nearer(p)
<1>a. /\ polls[p] \in Nat /\ OutputPolls \in Nat \ {0} /\ PackageReads \in Nat \ {0}
      /\ (pc[p] \in Reading \cup Sleeping => polls[p] >= 1)
  BY ConstantsAssumption DEF PollsInv, LockInv, TypeOK
<1>1. CASE ReadAborted(p)
  BY <1>1, ReturnIsNearer DEF ReadAborted, Active
<1>2. CASE ReadFails(p)
  BY <1>2, ReturnIsNearer DEF ReadFails, Active
<1>3. CASE StatusEnds(p)
  <2>1. /\ pc[p] = "status" /\ pc'[p] = "idle" /\ UNCHANGED polls
        /\ \A q \in Proc : q # p => pc'[q] = pc[q]
    BY <1>3 DEF StatusEnds, PollsInv, LockInv, TypeOK
  <2> QED
    BY <1>a, <2>1 DEF Nearer, StepsLeft, Reading, Sleeping
<1>4. CASE StatusThenOutput(p)
  <2>1. /\ pc[p] = "status" /\ pc'[p] = "output" /\ polls'[p] = OutputPolls
        /\ \A q \in Proc : q # p => UNCHANGED <<pc[q], polls[q]>>
    BY <1>4 DEF StatusThenOutput, PollsInv, LockInv, TypeOK
  <2> QED
    BY <1>a, <2>1 DEF Nearer, StepsLeft, Reading
<1>5. CASE StatusMissing(p) \/ OutputMissing(p) \/ VerdictWrong(p)
  <2>1. /\ \/ pc[p] = "status" /\ pc'[p] = "statusSleep"
           \/ pc[p] = "output" /\ pc'[p] = "outputSleep"
           \/ pc[p] = "verdict" /\ pc'[p] = "verdictSleep"
        /\ UNCHANGED polls
        /\ \A q \in Proc : q # p => pc'[q] = pc[q]
    BY <1>5 DEF StatusMissing, OutputMissing, VerdictWrong, PollsInv, LockInv, TypeOK
  <2> QED
    BY <1>a, <2>1 DEF Nearer, StepsLeft, Reading, Sleeping
<1>6. CASE OutputTaken(p)
  BY <1>6, ReturnIsNearer DEF OutputTaken, Active, Reading
<1>7. CASE OutputUnauthorized(p)
  BY <1>7, ReturnIsNearer DEF OutputUnauthorized, Active, Reading
<1>8. CASE VerdictTaken(p)
  BY <1>8, ReturnIsNearer DEF VerdictTaken, Active, Reading
<1>9. CASE Awake(p)
  <2>1. /\ \/ pc[p] = "statusSleep" /\ pc'[p] = "status"
           \/ pc[p] = "outputSleep" /\ pc'[p] = "output"
           \/ pc[p] = "verdictSleep" /\ pc'[p] = "verdict"
        /\ polls[p] > 1 /\ polls'[p] = polls[p] - 1
        /\ \A q \in Proc : q # p => UNCHANGED <<pc[q], polls[q]>>
    BY <1>9 DEF Awake, Sleeping, PollsInv, LockInv, TypeOK
  <2> QED
    BY <1>a, <2>1 DEF Nearer, StepsLeft
<1>10. CASE PollsExhausted(p)
  BY <1>10, ReturnIsNearer DEF PollsExhausted, Active, Sleeping
<1>11. CASE WindowCloses(p)
  BY <1>11, ReturnIsNearer DEF WindowCloses, Active, Sleeping
<1>12. CASE SleepAborted(p)
  BY <1>12, ReturnIsNearer DEF SleepAborted, Active
<1> QED
  BY <1>1, <1>2, <1>3, <1>4, <1>5, <1>6, <1>7, <1>8, <1>9, <1>10, <1>11, <1>12 DEF Polling

LEMMA HoldingIsNearer ==
    ASSUME PollsInv, NEW p \in Proc, SubscribingOrHistory(p)
    PROVE  Nearer(p)
<1>a. polls[p] \in Nat /\ (pc[p] \in Reading \cup Sleeping => polls[p] >= 1)
  BY DEF PollsInv, LockInv, TypeOK
<1>1. CASE SubscribeReturns(p)
  BY <1>1, ReturnIsNearer DEF SubscribeReturns, Active
<1>2. CASE SubscribeAborted(p)
  BY <1>2, ReturnIsNearer DEF SubscribeAborted, Active
<1>3. CASE HistoryV4Returns(p)
  BY <1>3, ReturnIsNearer DEF HistoryV4Returns, Active
<1>4. CASE HistoryV4Aborted(p)
  BY <1>4, ReturnIsNearer DEF HistoryV4Aborted, Active
<1>5. CASE HistoryFallsBack(p)
  <2>1. /\ pc[p] = "historyV4" /\ pc'[p] = "write" /\ UNCHANGED polls
        /\ \A q \in Proc : q # p => pc'[q] = pc[q]
    BY <1>5 DEF HistoryFallsBack, PollsInv, LockInv, TypeOK
  <2> QED
    BY <2>1, ConstantsAssumption DEF Nearer, StepsLeft, AllPolls, Reading, Sleeping
<1>6. CASE StatusThenPackages(p)
  <2>1. /\ pc[p] = "status" /\ pc'[p] = "packages" /\ polls'[p] = PackageReads
        /\ \A q \in Proc : q # p => UNCHANGED <<pc[q], polls[q]>>
    BY <1>6 DEF StatusThenPackages, PollsInv, LockInv, TypeOK
  <2>2. StepsLeft(p)' = PackageReads /\ StepsLeft(p) = 2 * (OutputPolls + PackageReads) + 2 * polls[p] + 1
    BY <2>1 DEF StepsLeft
  <2> QED
    BY <1>a, <2>1, <2>2, ConstantsAssumption DEF Nearer
<1>7. CASE PackageRead(p)
  <2>1. /\ pc[p] = "packages" /\ UNCHANGED pc /\ polls[p] > 1 /\ polls'[p] = polls[p] - 1
        /\ \A q \in Proc : q # p => polls'[q] = polls[q]
    BY <1>7 DEF PackageRead, PollsInv, LockInv, TypeOK
  <2> QED
    BY <1>a, <2>1 DEF Nearer, StepsLeft
<1>8. CASE PackagesEnd(p)
  BY <1>8, ReturnIsNearer DEF PackagesEnd, Active, Reading
<1> QED
  BY <1>1, <1>2, <1>3, <1>4, <1>5, <1>6, <1>7, <1>8 DEF SubscribingOrHistory

LEMMA StepIsNearer ==
    ASSUME PollsInv, [Next]_vars
    PROVE  /\ PollsInv'
           /\ \A p \in Proc : \/ pc[p] = "idle"
                              \/ UNCHANGED <<pc[p], polls[p]>>
                              \/ StepsLeft(p)' < StepsLeft(p)
<1> DEFINE Goal == /\ \A p \in Proc : pc'[p] \in Reading \cup Sleeping => polls'[p] >= 1
                   /\ \A p \in Proc : \/ pc[p] = "idle"
                                      \/ UNCHANGED <<pc[p], polls[p]>>
                                      \/ StepsLeft(p)' < StepsLeft(p)
<1>a. LockInv'
  BY StepKeepsLockInv DEF PollsInv
<1>1. ASSUME NEW p \in Proc, Nearer(p) PROVE Goal
  BY <1>1 DEF Nearer, PollsInv
<1>2. ASSUME NEW p \in Proc, Invoke(p) PROVE Goal
  <2>1. /\ pc[p] = "idle" /\ pc'[p] \in {"lock", "write"} /\ UNCHANGED polls
        /\ \A q \in Proc : q # p => pc'[q] = pc[q]
    BY <1>2 DEF Invoke, PollsInv, LockInv, TypeOK
  <2> QED
    BY <2>1 DEF PollsInv, Reading, Sleeping
<1>3. ASSUME NEW p \in Proc, Lock(p) PROVE Goal
  <2>0. PICK to \in FirstSteps(call[p]) : pc' = [pc EXCEPT ![p] = to]
    BY <1>3 DEF Lock
  <2>1. /\ pc[p] = "lock" /\ pc'[p] \in {"write", "historyV4", "subscribing"} /\ UNCHANGED polls
        /\ \A q \in Proc : q # p => pc'[q] = pc[q]
    BY <1>3, <2>0 DEF Lock, FirstSteps, PollsInv, LockInv, TypeOK
  <2>2. Nearer(p)
    BY <2>1, ConstantsAssumption DEF Nearer, StepsLeft, AllPolls, Reading, Sleeping
  <2> QED
    BY <2>2, <1>1
<1>4. ASSUME pc' = pc, polls' = polls PROVE Goal
  <2>1. \A p \in Proc : UNCHANGED <<pc[p], polls[p]>>
    BY <1>4
  <2> QED
    BY <1>4, <2>1 DEF PollsInv
<1> HIDE DEF Goal
<1>5. ASSUME NEW p \in Proc, Writing(p) \/ Polling(p) \/ SubscribingOrHistory(p) PROVE Goal
  BY <1>1, <1>5, WritingIsNearer, PollingIsNearer, HoldingIsNearer
<1>6. Goal
  BY <1>2, <1>3, <1>4, <1>5 DEF Next, Finished, vars, Cancel, Deadline, DeviceExecutes, DevicePublishes
<1> QED
  BY <1>a, <1>6 DEF PollsInv, Goal

(***************************************************************************)
(* Every step of a call takes it nearer to its return, whatever the device *)
(* shows and whatever the other calls do: nothing but the steps it takes   *)
(* itself separates a call from its return, and they are bounded by the    *)
(* polls of its loops.                                                     *)
(***************************************************************************)
THEOREM EveryStepCounts == Spec => CallsComeNearer
<1>1. PollsInv /\ [Next]_vars => PollsInv'
  BY StepIsNearer
<1>2. PollsInv /\ [Next]_vars
      => [\A p \in Proc : \/ pc[p] = "idle"
                          \/ UNCHANGED <<pc[p], polls[p]>>
                          \/ StepsLeft(p)' < StepsLeft(p)]_vars
  BY StepIsNearer
<1> QED
  BY <1>1, <1>2, InitPollsInv, PTL DEF Spec, CallsComeNearer

----------------------------------------------------------------------------
(***************************************************************************)
(* Answers.  What the characteristics show is backed by what the device    *)
(* executed: an "ok" acknowledgement and a coded output, published or due, *)
(* name a request with their code that the device accepted.                *)
(***************************************************************************)
Honest(d, history) ==
    /\ d.ack.status = "ok" => AcceptedIn(history, d.ack.req, d.ack.code)
    /\ d.output.kind = "coded" => AcceptedIn(history, d.output.req, d.output.code)
    /\ \A o \in d.due : o.kind = "coded" => AcceptedIn(history, o.req, o.code)

LEMMA EffectsHonest ==
    ASSUME NEW d \in Device, NEW w \in Write, NEW e \in Effects(d, w), NEW history, Honest(d, history)
    PROVE  Honest(e, history \cup {ExecutionOf(w, e)})
<1> DEFINE later == history \cup {ExecutionOf(w, e)}
<1>a. \A req, code : AcceptedIn(history, req, code) => AcceptedIn(later, req, code)
  BY DEF AcceptedIn
<1>b. e \in Device
  BY EffectsType
<1>1. CASE ~WritesCommand(w.call)
  <2>1. e \in PasswordEffects(d, w)
    BY <1>1 DEF Effects
  <2>a. PICK kind \in {"passwordOK", "passwordWrong"} :
            e = [d EXCEPT !.authorized = w.call.right, !.output = Plain(kind, w.req)]
    BY <2>1 DEF PasswordEffects
  <2>2. e.ack = d.ack /\ e.due = d.due /\ e.output.kind # "coded"
    BY <2>a DEF Plain, Device
  <2> QED
    BY <2>2, <1>a DEF Honest
<1>2. CASE WritesCommand(w.call) /\ ~d.authorized
  <2>1. e \in BlockedEffects(d, w)
    BY <1>2 DEF Effects
  <2>2. PICK a : /\ a = d.ack \/ a = AckOf(w, "rejected")
                 /\ e = [d EXCEPT !.ack = a, !.output = Plain("passwordWrong", w.req)]
    BY <2>1 DEF BlockedEffects
  <2>3. e.ack = a /\ e.due = d.due /\ e.output.kind # "coded"
    BY <2>2 DEF Plain, Device
  <2>4. a = d.ack \/ a.status # "ok"
    BY <2>2 DEF AckOf
  <2> QED
    BY <2>3, <2>4, <1>a DEF Honest
<1>3. CASE WritesCommand(w.call) /\ e \in RefusedEffects(d, w)
  <2>1. PICK status \in Refusals : e = [d EXCEPT !.ack = AckOf(w, status)]
    BY <1>3 DEF RefusedEffects
  <2>2. e.ack.status # "ok" /\ e.due = d.due /\ e.output = d.output
    BY <2>1, ConstantsAssumption DEF AckOf, Device
  <2> QED
    BY <2>2, <1>a DEF Honest
<1>4. CASE WritesCommand(w.call) /\ e \in ObeyedEffects(d, w)
  <2>1. PICK out \in OutputsOf(w) : e = [d EXCEPT !.ack = AckOf(w, "ok"), !.due = @ \cup out]
    BY <1>4 DEF ObeyedEffects
  <2>2. e.ack = AckOf(w, "ok") /\ e.output = d.output /\ e.due = d.due \cup out
    BY <2>1 DEF Device
  <2>a. ExecutionOf(w, e).req = w.req /\ ExecutionOf(w, e).call = w.call /\ ExecutionOf(w, e).accepted
    BY <2>2, <1>4 DEF ExecutionOf
  <2>3. AcceptedIn(later, w.req, w.call.code)
    BY <2>a DEF AcceptedIn
  <2>4. AcceptedIn(later, e.ack.req, e.ack.code)
    BY <2>2, <2>3 DEF AckOf
  <2>5. \A o \in out : o.kind = "coded" => o.req = w.req /\ o.code = w.call.code
    BY DEF OutputsOf, ReplyOf
  <2> QED
    BY <2>2, <2>3, <2>4, <2>5, <1>a DEF Honest
<1> QED
  BY <1>1, <1>2, <1>3, <1>4 DEF Effects

LEMMA SettledHonest ==
    ASSUME NEW d \in Device, NEW e \in Settled(d), NEW history, Honest(d, history)
    PROVE  Honest(e, history)
<1>1. CASE d.due = {}
  BY <1>1 DEF Settled
<1>2. CASE d.due # {}
  <2>1. PICK o \in d.due : e = [d EXCEPT !.output = o, !.due = {}]
    BY <1>2 DEF Settled
  <2>2. e.ack = d.ack /\ e.output = o /\ e.due = {}
    BY <2>1 DEF Device
  <2> QED
    BY <2>2 DEF Honest
<1> QED
  BY <1>1, <1>2

(***************************************************************************)
(* A call that has no result yet has none recorded, and one that polls for *)
(* its output has accepted an acknowledgement that carries its code.       *)
(***************************************************************************)
PendingCalls ==
    \A p \in Proc :
        /\ pc[p] # "idle" => outcome[p].result = "none"
        /\ pc[p] \in {"output", "outputSleep"} => AcceptedFor(outcome[p].ack, call[p].code)

AnswersInv == LockInv /\ Honest(dev, executed) /\ PendingCalls /\ AnswersCarryOwnCode

LEMMA InitAnswersInv == Init => AnswersInv
BY InitLockInv
   DEF Init, AnswersInv, Honest, InitialDevice, NoAck, Plain, PendingCalls, AnswersCarryOwnCode

(***************************************************************************)
(* The history only grows, so that what it backs stays backed.             *)
(***************************************************************************)
LEMMA HistoryKeepsAnswers ==
    ASSUME PendingCalls, AnswersCarryOwnCode, executed \subseteq executed',
           UNCHANGED <<call, outcome>>,
           \A p \in Proc : pc'[p] = pc[p] \/ (pc[p] # "idle" /\ pc'[p] \notin {"output", "outputSleep"})
    PROVE  PendingCalls' /\ AnswersCarryOwnCode'
<1>1. \A req, code : AcceptedFor(req, code) => AcceptedFor(req, code)'
  BY DEF AcceptedFor, AcceptedIn
<1> QED
  BY <1>1 DEF PendingCalls, AnswersCarryOwnCode

LEMMA ReturnKeepsAnswers ==
    ASSUME AnswersInv, NEW p \in Proc, NEW result, NEW from, Return(p, result, from),
           result = "ok" /\ IsCommand(call[p]) =>
               /\ pc[p] \in {"output", "outputSleep"}
               /\ Accept[call[p].code] = {} => AcceptedFor(from, call[p].code),
           UNCHANGED <<call, executed>>
    PROVE  PendingCalls' /\ AnswersCarryOwnCode'
<1>1. \A req, code : AcceptedFor(req, code) => AcceptedFor(req, code)'
  BY DEF AcceptedFor, AcceptedIn
<1>2. /\ pc'[p] = "idle" /\ outcome'[p].result = result /\ outcome'[p].from = from
      /\ outcome'[p].ack = outcome[p].ack
  BY DEF Return, AnswersInv, LockInv, TypeOK, Outcome
<1>3. \A q \in Proc : q # p => pc'[q] = pc[q] /\ outcome'[q] = outcome[q]
  BY DEF Return, AnswersInv, LockInv, TypeOK
<1>4. result = "ok" /\ IsCommand(call[p]) => AcceptedFor(outcome[p].ack, call[p].code)
  BY DEF AnswersInv, PendingCalls
<1> QED
  BY <1>1, <1>2, <1>3, <1>4 DEF AnswersInv, PendingCalls, AnswersCarryOwnCode

LEMMA WritingKeepsAnswers ==
    ASSUME AnswersInv, NEW p \in Proc, Writing(p)
    PROVE  Honest(dev, executed)' /\ PendingCalls' /\ AnswersCarryOwnCode'
<1> USE DEF AnswersInv
<1>a. ContextError(p) # "ok"
  BY DEF ContextError
<1>1. CASE RefuseInput(p) \/ WriteLost(p) \/ WriteAbandoned(p)
  BY <1>1, <1>a, ReturnKeepsAnswers DEF RefuseInput, WriteLost, WriteAbandoned, Honest
<1>2. CASE RefuseWrite(p)
  <2>1. PICK r : r # "ok" /\ Return(p, r, NoRequest)
    BY <1>2, <1>a DEF RefuseWrite
  <2> QED
    BY <1>2, <2>1, ReturnKeepsAnswers DEF RefuseWrite, Honest
<1>3. CASE PromptWrite(p)
  <2>1. PICK e \in Effects(dev, WriteOf(p)) :
            /\ dev' \in Settled(e)
            /\ executed' = executed \cup {ExecutionOf(WriteOf(p), e)}
    BY <1>3 DEF PromptWrite
  <2>2. WriteOf(p) \in Write /\ dev \in Device
    BY WriteType DEF LockInv, TypeOK
  <2>3. e \in Device /\ Honest(e, executed')
    BY <2>1, <2>2, EffectsType, EffectsHonest
  <2>4. Honest(dev', executed')
    BY <2>1, <2>3, SettledHonest
  <2>5. \A q \in Proc : pc'[q] = pc[q] \/ (pc[q] # "idle" /\ pc'[q] \notin {"output", "outputSleep"})
    BY <1>3 DEF PromptWrite, StartPolling, LockInv, TypeOK
  <2> QED
    BY <1>3, <2>1, <2>4, <2>5, HistoryKeepsAnswers DEF PromptWrite
<1>4. CASE SubmitWrite(p) \/ WriteReturns(p)
  <2>1. \A q \in Proc : pc'[q] = pc[q] \/ (pc[q] # "idle" /\ pc'[q] \notin {"output", "outputSleep"})
    BY <1>4 DEF SubmitWrite, WriteReturns, StartPolling, LockInv, TypeOK
  <2> QED
    BY <1>4, <2>1, HistoryKeepsAnswers DEF SubmitWrite, WriteReturns, Honest
<1> QED
  BY <1>1, <1>2, <1>3, <1>4 DEF Writing, AcceptWrite

LEMMA PollingKeepsAnswers ==
    ASSUME AnswersInv, NEW p \in Proc, Polling(p)
    PROVE  PendingCalls' /\ AnswersCarryOwnCode'
<1> USE DEF AnswersInv
<1>a. ContextError(p) # "ok"
  BY DEF ContextError
<1>b. \A req, code : AcceptedFor(req, code) /\ UNCHANGED executed => AcceptedFor(req, code)'
  BY DEF AcceptedFor, AcceptedIn
<1>1. CASE \/ ReadAborted(p) \/ ReadFails(p) \/ OutputUnauthorized(p)
           \/ PollsExhausted(p) \/ WindowCloses(p)
  BY <1>1, <1>a, ReturnKeepsAnswers
     DEF ReadAborted, ReadFails, OutputUnauthorized, PollsExhausted, WindowCloses
<1>2. CASE SleepAborted(p)
  BY <1>2, <1>a, ReturnKeepsAnswers DEF SleepAborted
<1>3. CASE StatusEnds(p)
  <2>1. /\ pc'[p] = "idle" /\ outcome'[p].result = StatusResult(p) /\ outcome'[p].ack = dev.ack.req
        /\ \A q \in Proc : q # p => pc'[q] = pc[q] /\ outcome'[q] = outcome[q]
        /\ UNCHANGED <<call, executed>>
    BY <1>3 DEF StatusEnds, LockInv, TypeOK
  <2>2. StatusResult(p) = "ok" => AcceptedFor(dev.ack.req, call[p].code) /\ call[p].op = "send"
    BY <1>3 DEF StatusEnds, StatusResult, AckMatches, Honest, AcceptedFor
  <2> QED
    BY <2>1, <2>2, <1>b DEF PendingCalls, AnswersCarryOwnCode
<1>4. CASE StatusThenOutput(p)
  <2>1. /\ pc'[p] = "output" /\ outcome'[p].result = outcome[p].result /\ outcome'[p].ack = dev.ack.req
        /\ \A q \in Proc : q # p => pc'[q] = pc[q] /\ outcome'[q] = outcome[q]
        /\ UNCHANGED <<call, executed>>
    BY <1>4 DEF StatusThenOutput, LockInv, TypeOK, Outcome
  <2>2. AcceptedFor(dev.ack.req, call[p].code)
    BY <1>4 DEF StatusThenOutput, AckMatches, Honest, AcceptedFor
  <2>3. outcome[p].result = "none"
    BY <1>4 DEF StatusThenOutput, PendingCalls
  <2> QED
    BY <2>1, <2>2, <2>3, <1>b DEF PendingCalls, AnswersCarryOwnCode
<1>5. CASE OutputTaken(p)
  <2>1. Accept[call[p].code] = {} => AcceptedFor(dev.output.req, call[p].code)
    BY <1>5 DEF OutputTaken, OutputMatches, Honest, AcceptedFor
  <2> QED
    BY <1>5, <2>1, ReturnKeepsAnswers DEF OutputTaken
<1>6. CASE VerdictTaken(p)
  <2>1. ~IsCommand(call[p]) \/ pc[p] # "verdict"
    BY DEF LockInv, PathMatchesCall, Fits, IsCommand
  <2> QED
    BY <1>6, <2>1, ReturnKeepsAnswers DEF VerdictTaken
<1>7. CASE StatusMissing(p) \/ OutputMissing(p) \/ VerdictWrong(p) \/ Awake(p)
  <2>1. \A q \in Proc : q # p => pc'[q] = pc[q]
    BY <1>7 DEF StatusMissing, OutputMissing, VerdictWrong, Awake, LockInv, TypeOK
  <2>2. pc[p] # "idle" /\ (pc'[p] \in {"output", "outputSleep"} => pc[p] \in {"output", "outputSleep"})
    BY <1>7 DEF StatusMissing, OutputMissing, VerdictWrong, Awake, LockInv, TypeOK, Sleeping
  <2>3. UNCHANGED <<call, outcome, executed>>
    BY <1>7 DEF StatusMissing, OutputMissing, VerdictWrong, Awake
  <2> QED
    BY <2>1, <2>2, <2>3, <1>b DEF PendingCalls, AnswersCarryOwnCode
<1> QED
  BY <1>1, <1>2, <1>3, <1>4, <1>5, <1>6, <1>7 DEF Polling

LEMMA HoldingKeepsAnswers ==
    ASSUME AnswersInv, NEW p \in Proc, SubscribingOrHistory(p)
    PROVE  PendingCalls' /\ AnswersCarryOwnCode'
<1> USE DEF AnswersInv
<1>a. pc[p] \in {"subscribing", "historyV4", "packages"} => ~IsCommand(call[p])
  BY DEF LockInv, PathMatchesCall, Fits, IsCommand
<1>1. CASE SubscribeReturns(p) \/ HistoryV4Returns(p)
  <2>1. PICK r : Return(p, r, NoRequest)
    BY <1>1 DEF SubscribeReturns, HistoryV4Returns
  <2> QED
    BY <1>1, <1>a, <2>1, ReturnKeepsAnswers DEF SubscribeReturns, HistoryV4Returns
<1>2. CASE SubscribeAborted(p) \/ HistoryV4Aborted(p)
  BY <1>2, <1>a, ReturnKeepsAnswers DEF SubscribeAborted, HistoryV4Aborted
<1>3. CASE PackagesEnd(p)
  <2>1. PICK r : Return(p, r, dev.output.req)
    BY <1>3 DEF PackagesEnd
  <2> QED
    BY <1>3, <1>a, <2>1, ReturnKeepsAnswers DEF PackagesEnd
<1>4. CASE HistoryFallsBack(p) \/ StatusThenPackages(p) \/ PackageRead(p)
  <2>1. \A q \in Proc : pc'[q] = pc[q] \/ (pc[q] # "idle" /\ pc'[q] \notin {"output", "outputSleep"})
    BY <1>4 DEF HistoryFallsBack, StatusThenPackages, PackageRead, LockInv, TypeOK
  <2> QED
    BY <1>4, <2>1, HistoryKeepsAnswers DEF HistoryFallsBack, StatusThenPackages, PackageRead
<1> QED
  BY <1>1, <1>2, <1>3, <1>4 DEF SubscribingOrHistory

LEMMA StepKeepsAnswers == AnswersInv /\ [Next]_vars => AnswersInv'
<1> SUFFICES ASSUME AnswersInv, [Next]_vars
             PROVE  Honest(dev, executed)' /\ PendingCalls' /\ AnswersCarryOwnCode'
  BY StepKeepsLockInv DEF AnswersInv
<1> USE DEF AnswersInv
<1>1. ASSUME NEW p \in Proc, Invoke(p)
      PROVE  Honest(dev, executed)' /\ PendingCalls' /\ AnswersCarryOwnCode'
  <2>1. /\ pc'[p] \in {"lock", "write"} /\ outcome'[p].result = "none"
        /\ \A q \in Proc : q # p => /\ pc'[q] = pc[q] /\ outcome'[q] = outcome[q]
                                   /\ call'[q] = call[q]
        /\ UNCHANGED <<dev, executed>>
    BY <1>1 DEF Invoke, LockInv, TypeOK
  <2>2. \A req, code : AcceptedFor(req, code) => AcceptedFor(req, code)'
    BY <2>1 DEF AcceptedFor, AcceptedIn
  <2>3. PendingCalls' /\ AnswersCarryOwnCode'
    BY <2>1, <2>2 DEF PendingCalls, AnswersCarryOwnCode
  <2> QED
    BY <2>1, <2>3
<1>2. ASSUME NEW p \in Proc, Lock(p)
      PROVE  Honest(dev, executed)' /\ PendingCalls' /\ AnswersCarryOwnCode'
  <2>1. PICK to \in FirstSteps(call[p]) : pc[p] = "lock" /\ pc' = [pc EXCEPT ![p] = to]
    BY <1>2 DEF Lock
  <2>2. to \notin {"output", "outputSleep"}
    BY <2>1 DEF FirstSteps
  <2>3. \A q \in Proc : pc'[q] = pc[q] \/ (pc[q] # "idle" /\ pc'[q] \notin {"output", "outputSleep"})
    BY <2>1, <2>2 DEF LockInv, TypeOK
  <2> QED
    BY <1>2, <2>3, HistoryKeepsAnswers DEF Lock, Honest
<1>3. ASSUME NEW p \in Proc, Writing(p)
      PROVE  Honest(dev, executed)' /\ PendingCalls' /\ AnswersCarryOwnCode'
  BY <1>3, WritingKeepsAnswers
<1>4. ASSUME NEW p \in Proc, Polling(p)
      PROVE  Honest(dev, executed)' /\ PendingCalls' /\ AnswersCarryOwnCode'
  <2>1. UNCHANGED <<dev, executed>>
    BY <1>4 DEF Polling, ReadAborted, ReadFails, StatusEnds, StatusThenOutput, StatusMissing,
         OutputTaken, OutputUnauthorized, OutputMissing, VerdictTaken, VerdictWrong, Awake,
         PollsExhausted, WindowCloses, SleepAborted
  <2> QED
    BY <1>4, <2>1, PollingKeepsAnswers
<1>5. CASE DeviceExecutes
  <2>1. PICK w \in inflight : \E e \in Effects(dev, w) :
            dev' = e /\ executed' = executed \cup {ExecutionOf(w, e)}
    BY <1>5 DEF DeviceExecutes
  <2>2. w \in Write /\ dev \in Device
    BY DEF LockInv, TypeOK
  <2>3. dev' \in Effects(dev, w) /\ executed' = executed \cup {ExecutionOf(w, dev')}
    BY <2>1
  <2>4. Honest(dev', executed')
    BY <2>2, <2>3, EffectsHonest
  <2> QED
    BY <1>5, <2>3, <2>4, HistoryKeepsAnswers DEF DeviceExecutes
<1>6. CASE DevicePublishes
  <2>1. PICK o \in dev.due : dev' = [dev EXCEPT !.output = o, !.due = @ \ {o}]
    BY <1>6 DEF DevicePublishes
  <2>2. dev'.ack = dev.ack /\ dev'.output = o /\ dev'.due = dev.due \ {o}
    BY <2>1 DEF LockInv, TypeOK, Device
  <2>3. Honest(dev', executed)
    BY <2>2 DEF Honest
  <2> QED
    BY <1>6, <2>3, HistoryKeepsAnswers DEF DevicePublishes
<1>7. CASE UNCHANGED <<pc, call, outcome, dev, executed>>
  BY <1>7, HistoryKeepsAnswers
<1>8. ASSUME NEW p \in Proc, SubscribingOrHistory(p)
      PROVE  Honest(dev, executed)' /\ PendingCalls' /\ AnswersCarryOwnCode'
  <2>1. UNCHANGED <<dev, executed>>
    BY <1>8 DEF SubscribingOrHistory, SubscribeReturns, SubscribeAborted, HistoryV4Returns, HistoryV4Aborted,
         HistoryFallsBack, StatusThenPackages, PackageRead, PackagesEnd
  <2> QED
    BY <1>8, <2>1, HoldingKeepsAnswers
<1> QED
  BY <1>1, <1>2, <1>3, <1>4, <1>5, <1>6, <1>7, <1>8 DEF Next, Finished, vars, Cancel, Deadline

(***************************************************************************)
(* An acknowledgement or a coded output that a call accepts answers a      *)
(* request with the code of that call that the device accepted, whatever   *)
(* is late on the link and whatever Authorize leaves on the result         *)
(* characteristic.                                                         *)
(***************************************************************************)
THEOREM AnswersMatchCode == Spec => []AnswersCarryOwnCode
<1>1. AnswersInv => AnswersCarryOwnCode
  BY DEF AnswersInv
<1> QED
  BY <1>1, InitAnswersInv, StepKeepsAnswers, PTL DEF Spec

----------------------------------------------------------------------------
(***************************************************************************)
(* Own answers.  With a prompt link and Authorize kept apart, what the two *)
(* shared characteristics show answers the one call that waits, from its   *)
(* write to its return: opMu keeps the commands from each other, and the   *)
(* callers keep Authorize from everybody.  BeforeWrite and AfterWrite say  *)
(* this of a call at the places of its path; requests are told apart by    *)
(* their numbers, and no request has been executed that has not been made. *)
(***************************************************************************)
NoOutcome == [result |-> "none", ack |-> NoRequest, from |-> NoRequest]

BeforeWrite(p) == pc[p] \in {"lock", "write"} => ~ExecutedOwn(p) /\ outcome[p] = NoOutcome

AfterWrite(p) ==
    /\ pc[p] \in Answering =>
          ExecutedOwn(p) /\ outcome[p].result = "none" /\ outcome[p].from = NoRequest
    /\ pc[p] \in {"status", "statusSleep", "output", "outputSleep"} =>
          dev.ack.req = RequestOf(p) /\ dev.ack.code = call[p].code
    /\ pc[p] \in {"status", "statusSleep"} =>
          /\ outcome[p].ack = NoRequest
          /\ dev.ack.status = "ok" /\ call[p].op = "read" => dev.output.req = RequestOf(p)
    /\ pc[p] \in {"output", "outputSleep"} =>
          outcome[p].ack = RequestOf(p) /\ dev.output.req = RequestOf(p)
    /\ pc[p] \in {"verdict", "verdictSleep"} =>
          outcome[p].ack = NoRequest /\ dev.output.req = RequestOf(p)

NoneAhead == \A e \in executed, p \in Proc : e.req[1] = p => e.req[2] <= count[p]

OneAnswerEach == \A p \in Proc : call[p].op \in {"send", "read", "authorize"}

Quiet == inflight = {} /\ dev.due = {} /\ \A p \in Proc : pc[p] # "writing"

PromptInv ==
    /\ LockInv
    /\ OneAnswerEach
    /\ Quiet
    /\ NoneAhead
    /\ \A p \in Proc : BeforeWrite(p) /\ AfterWrite(p)
    /\ OwnAnswer

LEMMA CallsHaveOneAnswer == ASSUME PromptSession, TypeOK PROVE OneAnswerEach
BY DEF PromptSession, TypeOK, OneAnswerEach

LEMMA InitPromptInv == ASSUME PromptSession PROVE Init => PromptInv
<1> SUFFICES ASSUME Init PROVE PromptInv
  OBVIOUS
<1>1. LockInv /\ OneAnswerEach
  BY InitLockInv, CallsHaveOneAnswer DEF LockInv
<1>2. Quiet /\ NoneAhead
  BY DEF Init, Quiet, NoneAhead, InitialDevice
<1>3. \A p \in Proc : BeforeWrite(p) /\ AfterWrite(p)
  BY DEF Init, BeforeWrite, AfterWrite, Answering
<1>4. OwnAnswer
  BY DEF Init, OwnAnswer
<1> QED
  BY <1>1, <1>2, <1>3, <1>4 DEF PromptInv

(***************************************************************************)
(* Where a call can be, and what it then is.                               *)
(***************************************************************************)
LEMMA Places ==
    ASSUME PromptInv, NEW p \in Proc
    PROVE  /\ pc[p] \in {"idle", "lock", "write"} \cup Answering
           /\ pc[p] \in {"status", "statusSleep", "output", "outputSleep"} => IsCommand(call[p])
           /\ pc[p] \in {"output", "outputSleep"} => call[p].op = "read"
           /\ pc[p] \in {"verdict", "verdictSleep"} => ~IsCommand(call[p])
<1>1. Fits(pc[p], call[p]) /\ call[p].op \in {"send", "read", "authorize"} /\ pc[p] # "writing" /\ pc[p] \in PC
  BY DEF PromptInv, LockInv, TypeOK, PathMatchesCall, OneAnswerEach, Quiet
<1> QED
  BY <1>1 DEF Fits, CommandPC, WritesCommand, IsCommand, PC, Active, Reading, Sleeping, Answering

(***************************************************************************)
(* While one call waits for its answer, no other does.                     *)
(***************************************************************************)
LEMMA OneAnswering ==
    ASSUME LockInv, VerdictsApart, NEW p \in Proc, NEW q \in Proc, pc[p] \in Answering, pc[q] \in Answering
    PROVE  p = q
<1> SUFFICES ASSUME p # q PROVE FALSE
  OBVIOUS
<1>1. InSection(p) /\ InSection(q)
  BY DEF VerdictsApart, IsCommand, TakesLock, InSection, Active, Answering, Reading, Sleeping
<1> QED
  BY <1>1 DEF LockInv, LockMatchesSection

LEMMA WriterIsAlone ==
    ASSUME PromptInv, LockInv', VerdictsApart', NEW p \in Proc, PromptWrite(p)
    PROVE  \A q \in Proc : q # p => pc[q] \notin Answering
<1>1. pc'[p] \in {"status", "verdict"} /\ \A q \in Proc : q # p => pc'[q] = pc[q]
  BY DEF PromptWrite, StartPolling, PromptInv, LockInv, TypeOK
<1> SUFFICES ASSUME NEW q \in Proc, q # p, pc[q] \in Answering PROVE FALSE
  OBVIOUS
<1>2. pc'[p] \in Answering /\ pc'[q] \in Answering
  BY <1>1 DEF Answering
<1>3. IsCommand(call'[p]) /\ IsCommand(call'[q])
  BY <1>2 DEF VerdictsApart, IsCommand
<1>4. InSection(p)' /\ InSection(q)'
  BY <1>2, <1>3 DEF IsCommand, TakesLock, InSection, Active, Answering, Reading, Sleeping
<1> QED
  BY <1>4 DEF LockInv, LockMatchesSection

(***************************************************************************)
(* What a prompt device shows when the write of a call returns.            *)
(***************************************************************************)
LEMMA PromptWriteShowsOwn ==
    ASSUME PromptSession, PromptInv, NEW p \in Proc, PromptWrite(p)
    PROVE  /\ dev'.due = {}
           /\ IsCommand(call[p]) =>
                 /\ dev'.ack.req = RequestOf(p) /\ dev'.ack.code = call[p].code
                 /\ dev'.ack.status = "ok" /\ call[p].op = "read" => dev'.output.req = RequestOf(p)
           /\ ~IsCommand(call[p]) => dev'.output.req = RequestOf(p)
           /\ \E x : x.req = RequestOf(p) /\ executed' = executed \cup {x}
<1> DEFINE w == WriteOf(p)
<1>1. /\ w \in Write /\ w.req = RequestOf(p) /\ w.call = call[p]
      /\ dev \in Device /\ dev.due = {} /\ call[p] \in Calls
  BY WriteType DEF PromptInv, Quiet, LockInv, TypeOK, WriteOf
<1>a. WritesCommand(w.call) <=> IsCommand(w.call)
  BY <1>1 DEF PromptInv, OneAnswerEach, WritesCommand, IsCommand
<1>2. PICK e \in Effects(dev, w) : dev' \in Settled(e) /\ executed' = executed \cup {ExecutionOf(w, e)}
  BY DEF PromptWrite
<1>3. e \in Device
  BY <1>1, EffectsType
<1>4. \E x : x.req = RequestOf(p) /\ executed' = executed \cup {x}
  BY <1>1, <1>2 DEF ExecutionOf
<1>5. CASE IsCommand(w.call) /\ ~dev.authorized
  <2>1. e \in BlockedEffects(dev, w)
    BY <1>1, <1>a, <1>5 DEF Effects
  <2>2. e = [dev EXCEPT !.ack = AckOf(w, "rejected"), !.output = Plain("passwordWrong", w.req)]
    BY <2>1 DEF BlockedEffects, PromptSession
  <2>3. e.ack = AckOf(w, "rejected") /\ e.due = {}
    BY <1>1, <2>2 DEF Device
  <2>4. dev' = e
    BY <1>2, <2>3 DEF Settled
  <2> QED
    BY <1>1, <1>4, <1>5, <2>3, <2>4 DEF AckOf
<1>6. CASE IsCommand(w.call) /\ dev.authorized /\ e \in RefusedEffects(dev, w)
  <2>1. PICK status \in Refusals : e = [dev EXCEPT !.ack = AckOf(w, status)]
    BY <1>6 DEF RefusedEffects
  <2>2. e.ack = AckOf(w, status) /\ e.due = {} /\ status # "ok"
    BY <1>1, <2>1, ConstantsAssumption DEF Device
  <2>3. dev' = e
    BY <1>2, <2>2 DEF Settled
  <2> QED
    BY <1>1, <1>4, <1>6, <2>2, <2>3 DEF AckOf
<1>7. CASE IsCommand(w.call) /\ dev.authorized /\ e \in ObeyedEffects(dev, w)
  <2>1. PICK out \in OutputsOf(w) : e = [dev EXCEPT !.ack = AckOf(w, "ok"), !.due = @ \cup out]
    BY <1>7 DEF ObeyedEffects
  <2>2. e.ack = AckOf(w, "ok") /\ e.due = out
    BY <1>1, <2>1 DEF Device
  <2>3. dev' \in Device /\ dev'.ack = e.ack /\ dev'.due = {} /\ (out # {} => dev'.output \in out)
    BY <1>2, <1>3, <2>2, SettledType DEF Settled, Device
  <2>4. \A o \in out : o.req = w.req
    BY DEF OutputsOf, ReplyOf
  <2>5. call[p].op = "read" => out # {}
    BY <1>1 DEF OutputsOf, PromptSession
  <2> QED
    BY <1>1, <1>4, <1>7, <2>2, <2>3, <2>4, <2>5 DEF AckOf
<1>8. CASE ~IsCommand(w.call)
  <2>1. PICK kind : e = [dev EXCEPT !.authorized = w.call.right, !.output = Plain(kind, w.req)]
    BY <1>1, <1>a, <1>8 DEF Effects, PasswordEffects
  <2>2. e.output.req = w.req /\ e.due = {}
    BY <1>1, <2>1 DEF Device, Plain
  <2>3. dev' = e
    BY <1>2, <2>2 DEF Settled
  <2> QED
    BY <1>1, <1>4, <1>8, <2>2, <2>3
<1> QED
  BY <1>1, <1>a, <1>5, <1>6, <1>7, <1>8 DEF Effects

(***************************************************************************)
(* A call that returns, or moves from one place of its path to the next    *)
(* without touching the link, leaves everybody else's evidence alone.      *)
(***************************************************************************)
LEMMA ReturnKeepsPromptInv ==
    ASSUME PromptInv, NEW p \in Proc, pc[p] \in {"write"} \cup Answering,
           NEW result \in Results, NEW from \in {NoRequest, RequestOf(p)}, Return(p, result, from),
           result = "ok" => pc[p] \in {"output", "verdict"} /\ from = RequestOf(p),
           UNCHANGED <<call, count, inflight, dev, executed>>
    PROVE  Quiet' /\ NoneAhead' /\ (\A q \in Proc : BeforeWrite(q)' /\ AfterWrite(q)') /\ OwnAnswer'
<1>1. /\ pc'[p] = "idle" /\ outcome'[p].result = result /\ outcome'[p].from = from
      /\ outcome'[p].ack = outcome[p].ack
  BY DEF Return, PromptInv, LockInv, TypeOK, Outcome
<1>2. \A q \in Proc : q # p => pc'[q] = pc[q] /\ outcome'[q] = outcome[q]
  BY DEF Return, PromptInv, LockInv, TypeOK
<1>3. Quiet' /\ NoneAhead'
  BY <1>1, <1>2 DEF PromptInv, Quiet, NoneAhead
<1>4. \A q \in Proc : RequestOf(q)' = RequestOf(q) /\ ExecutedOwn(q)' = ExecutedOwn(q)
  BY DEF RequestOf, ExecutedOwn
<1>5. \A q \in Proc : BeforeWrite(q)' /\ AfterWrite(q)'
  BY <1>1, <1>2, <1>4 DEF PromptInv, BeforeWrite, AfterWrite, Answering
<1>6. outcome[p].ack \in {NoRequest, RequestOf(p)} /\ (pc[p] = "output" => outcome[p].ack = RequestOf(p))
  BY DEF PromptInv, AfterWrite, OwnAnswer
<1>7. OwnAnswer'
  BY <1>1, <1>2, <1>4, <1>6, Places DEF PromptInv, OwnAnswer
<1> QED
  BY <1>3, <1>5, <1>7

LEMMA MoveKeepsPromptInv ==
    ASSUME PromptInv, NEW p \in Proc, NEW to, pc' = [pc EXCEPT ![p] = to],
           \/ pc[p] = "lock" /\ to = "write"
           \/ pc[p] \in {"status", "statusSleep"} /\ to \in {"status", "statusSleep"}
           \/ pc[p] \in {"output", "outputSleep"} /\ to \in {"output", "outputSleep"}
           \/ pc[p] \in {"verdict", "verdictSleep"} /\ to \in {"verdict", "verdictSleep"},
           UNCHANGED <<call, count, outcome, inflight, dev, executed>>
    PROVE  Quiet' /\ NoneAhead' /\ (\A q \in Proc : BeforeWrite(q)' /\ AfterWrite(q)') /\ OwnAnswer'
<1>1. pc'[p] = to /\ \A q \in Proc : q # p => pc'[q] = pc[q]
  BY DEF PromptInv, LockInv, TypeOK
<1>2. \A q \in Proc : RequestOf(q)' = RequestOf(q) /\ ExecutedOwn(q)' = ExecutedOwn(q)
  BY DEF RequestOf, ExecutedOwn
<1>3. Quiet' /\ NoneAhead' /\ OwnAnswer'
  BY <1>1, <1>2 DEF PromptInv, Quiet, NoneAhead, OwnAnswer
<1>4. \A q \in Proc : BeforeWrite(q)' /\ AfterWrite(q)'
  BY <1>1, <1>2 DEF PromptInv, BeforeWrite, AfterWrite, Answering
<1> QED
  BY <1>3, <1>4

LEMMA InvokeKeepsPromptInv ==
    ASSUME PromptInv, NEW p \in Proc, Invoke(p)
    PROVE  Quiet' /\ NoneAhead' /\ (\A q \in Proc : BeforeWrite(q)' /\ AfterWrite(q)') /\ OwnAnswer'
<1>1. /\ pc'[p] \in {"lock", "write"} /\ outcome'[p] = NoOutcome /\ count'[p] = count[p] + 1
      /\ UNCHANGED <<inflight, dev, executed>>
  BY DEF Invoke, PromptInv, LockInv, TypeOK, NoOutcome
<1>2. \A q \in Proc : q # p => /\ pc'[q] = pc[q] /\ outcome'[q] = outcome[q]
                               /\ call'[q] = call[q] /\ count'[q] = count[q]
  BY DEF Invoke, PromptInv, LockInv, TypeOK
<1>3. \A q \in Proc : count[q] \in Nat
  BY DEF PromptInv, LockInv, TypeOK
<1>4. \A e \in executed : e.req[2] \in Nat
  BY DEF PromptInv, LockInv, TypeOK, Execution, Request
<1>5. Quiet' /\ NoneAhead'
  BY <1>1, <1>2, <1>3, <1>4 DEF PromptInv, Quiet, NoneAhead
<1>6. ~ExecutedOwn(p)'
  <2> SUFFICES ASSUME NEW e \in executed, e.req = <<p, count[p] + 1>> PROVE FALSE
    BY <1>1 DEF ExecutedOwn, RequestOf
  <2>1. e.req[1] = p /\ e.req[2] = count[p] + 1
    OBVIOUS
  <2> QED
    BY <2>1, <1>3 DEF PromptInv, NoneAhead
<1>7. \A q \in Proc : q # p => RequestOf(q)' = RequestOf(q) /\ ExecutedOwn(q)' = ExecutedOwn(q)
  BY <1>1, <1>2 DEF RequestOf, ExecutedOwn
<1>8. \A q \in Proc : BeforeWrite(q)' /\ AfterWrite(q)'
  BY <1>1, <1>2, <1>6, <1>7 DEF PromptInv, BeforeWrite, AfterWrite, Answering
<1>9. OwnAnswer'
  BY <1>1, <1>2, <1>7 DEF PromptInv, OwnAnswer, NoOutcome
<1> QED
  BY <1>5, <1>8, <1>9

(***************************************************************************)
(* The write replaces what the characteristics show.  Nobody else waits    *)
(* for them.                                                               *)
(***************************************************************************)
LEMMA PromptWriteKeepsPromptInv ==
    ASSUME PromptSession, PromptInv, LockInv', VerdictsApart', NEW p \in Proc, PromptWrite(p)
    PROVE  Quiet' /\ NoneAhead' /\ (\A q \in Proc : BeforeWrite(q)' /\ AfterWrite(q)') /\ OwnAnswer'
<1>a. WritesCommand(call[p]) <=> IsCommand(call[p])
  BY DEF PromptInv, OneAnswerEach, WritesCommand, IsCommand
<1>1. /\ pc[p] = "write" /\ \A q \in Proc : q # p => pc'[q] = pc[q]
      /\ pc'[p] = IF IsCommand(call[p]) THEN "status" ELSE "verdict"
      /\ UNCHANGED <<call, count, outcome, inflight>>
  BY <1>a DEF PromptWrite, StartPolling, PromptInv, LockInv, TypeOK
<1>2. PICK x : x.req = RequestOf(p) /\ executed' = executed \cup {x}
  BY PromptWriteShowsOwn
<1>3. \A q \in Proc : q # p => pc[q] \notin Answering
  BY WriterIsAlone
<1>4. \A q \in Proc : RequestOf(q)' = RequestOf(q) /\ (q # p => ExecutedOwn(q)' = ExecutedOwn(q))
  <2>1. \A q \in Proc : RequestOf(q)' = RequestOf(q)
    BY <1>1 DEF RequestOf
  <2>2. \A q \in Proc : q # p => RequestOf(q) # RequestOf(p)
    BY DEF RequestOf
  <2> QED
    BY <1>2, <2>1, <2>2 DEF ExecutedOwn
<1>5. Quiet'
  BY <1>1, PromptWriteShowsOwn DEF PromptInv, Quiet
<1>6. NoneAhead'
  <2>1. x.req[1] = p /\ x.req[2] = count[p] /\ count[p] \in Nat
    BY <1>2 DEF RequestOf, PromptInv, LockInv, TypeOK
  <2> QED
    BY <1>1, <1>2, <2>1 DEF PromptInv, NoneAhead
<1>7. \A q \in Proc : q # p => BeforeWrite(q)' /\ AfterWrite(q)'
  BY <1>1, <1>3, <1>4 DEF PromptInv, BeforeWrite, AfterWrite, Answering
<1>8. BeforeWrite(p)' /\ AfterWrite(p)'
  <2>1. outcome[p] = NoOutcome
    BY <1>1 DEF PromptInv, BeforeWrite
  <2>2. ExecutedOwn(p)'
    BY <1>2, <1>4 DEF ExecutedOwn
  <2>3. outcome'[p].result = "none" /\ outcome'[p].from = NoRequest /\ outcome'[p].ack = NoRequest
    BY <1>1, <2>1 DEF NoOutcome
  <2> QED
    BY <1>1, <1>4, <2>2, <2>3, PromptWriteShowsOwn DEF BeforeWrite, AfterWrite, Answering
<1>9. OwnAnswer'
  BY <1>1, <1>4 DEF PromptInv, OwnAnswer
<1> QED
  BY <1>5, <1>6, <1>7, <1>8, <1>9

LEMMA StatusKeepsPromptInv ==
    ASSUME PromptInv, NEW p \in Proc, StatusEnds(p) \/ StatusThenOutput(p)
    PROVE  Quiet' /\ NoneAhead' /\ (\A q \in Proc : BeforeWrite(q)' /\ AfterWrite(q)') /\ OwnAnswer'
<1>1. /\ pc[p] = "status" /\ UNCHANGED <<call, count, inflight, dev, executed>>
      /\ \A q \in Proc : q # p => pc'[q] = pc[q] /\ outcome'[q] = outcome[q]
      /\ outcome'[p].ack = RequestOf(p) /\ outcome'[p].from = NoRequest
  BY DEF StatusEnds, StatusThenOutput, PromptInv, AfterWrite, Answering, LockInv, TypeOK, Outcome
<1>2. \A q \in Proc : RequestOf(q)' = RequestOf(q) /\ ExecutedOwn(q)' = ExecutedOwn(q)
  BY <1>1 DEF RequestOf, ExecutedOwn
<1>3. \/ pc'[p] = "idle" /\ (outcome'[p].result = "ok" => call[p].op = "send")
      \/ /\ pc'[p] = "output" /\ outcome'[p].result = "none"
         /\ dev.ack.status = "ok" /\ call[p].op = "read"
  BY DEF StatusEnds, StatusThenOutput, StatusResult, PromptInv, AfterWrite, Answering, LockInv, TypeOK, Outcome
<1>4. Quiet' /\ NoneAhead'
  BY <1>1, <1>3 DEF PromptInv, Quiet, NoneAhead
<1>5. \A q \in Proc : BeforeWrite(q)' /\ AfterWrite(q)'
  BY <1>1, <1>2, <1>3 DEF PromptInv, BeforeWrite, AfterWrite, Answering
<1>6. OwnAnswer'
  BY <1>1, <1>2, <1>3 DEF PromptInv, OwnAnswer
<1> QED
  BY <1>4, <1>5, <1>6

LEMMA PollingKeepsPromptInv ==
    ASSUME PromptInv, NEW p \in Proc, Polling(p)
    PROVE  Quiet' /\ NoneAhead' /\ (\A q \in Proc : BeforeWrite(q)' /\ AfterWrite(q)') /\ OwnAnswer'
<1>a. {ContextError(p), "ok", "protocol", "failed", "unauthorized"} \subseteq Results /\ ContextError(p) # "ok"
  BY DEF ContextError, Results
<1>b. pc[p] \in {"output", "verdict"} => dev.output.req = RequestOf(p)
  BY DEF PromptInv, AfterWrite
<1>1. CASE ReadAborted(p)
  BY <1>1, <1>a, Places, ReturnKeepsPromptInv DEF ReadAborted, Reading, Answering
<1>2. CASE ReadFails(p)
  BY <1>2, <1>a, Places, ReturnKeepsPromptInv DEF ReadFails, Reading, Answering
<1>3. CASE StatusEnds(p) \/ StatusThenOutput(p)
  BY <1>3, StatusKeepsPromptInv
<1>4. CASE StatusMissing(p)
  BY <1>4, MoveKeepsPromptInv DEF StatusMissing
<1>5. CASE OutputTaken(p)
  BY <1>5, <1>a, <1>b, ReturnKeepsPromptInv DEF OutputTaken, Answering
<1>6. CASE OutputUnauthorized(p)
  BY <1>6, <1>a, <1>b, ReturnKeepsPromptInv DEF OutputUnauthorized, Answering
<1>7. CASE OutputMissing(p)
  BY <1>7, MoveKeepsPromptInv DEF OutputMissing
<1>8. CASE Awake(p)
  BY <1>8, MoveKeepsPromptInv DEF Awake, Sleeping
<1>9. CASE PollsExhausted(p)
  BY <1>9, <1>a, ReturnKeepsPromptInv DEF PollsExhausted, Answering
<1>10. CASE SleepAborted(p)
  BY <1>10, <1>a, ReturnKeepsPromptInv DEF SleepAborted, Sleeping, Answering
<1>11. CASE VerdictTaken(p)
  BY <1>11, <1>a, <1>b, ReturnKeepsPromptInv DEF VerdictTaken, Answering
<1>12. CASE VerdictWrong(p)
  BY <1>12, MoveKeepsPromptInv DEF VerdictWrong
<1>13. CASE WindowCloses(p)
  BY <1>13, <1>a, ReturnKeepsPromptInv DEF WindowCloses, Answering
<1> QED
  BY <1>1, <1>2, <1>3, <1>4, <1>5, <1>6, <1>7, <1>8, <1>9, <1>10, <1>11, <1>12, <1>13 DEF Polling

LEMMA WritingKeepsPromptInv ==
    ASSUME PromptSession, PromptInv, LockInv', VerdictsApart', NEW p \in Proc, Writing(p)
    PROVE  Quiet' /\ NoneAhead' /\ (\A q \in Proc : BeforeWrite(q)' /\ AfterWrite(q)') /\ OwnAnswer'
<1>a. {ContextError(p), "invalid", "failed"} \subseteq Results /\ ContextError(p) # "ok"
  BY DEF ContextError, Results
<1>b. pc[p] # "writing"
  BY DEF PromptInv, Quiet
<1>1. CASE RefuseInput(p)
  BY <1>1, <1>a, ReturnKeepsPromptInv DEF RefuseInput
<1>2. CASE RefuseWrite(p)
  <2>1. PICK r \in {ContextError(p), "failed"} : Return(p, r, NoRequest)
    BY <1>2 DEF RefuseWrite
  <2> QED
    BY <1>2, <1>a, <2>1, ReturnKeepsPromptInv DEF RefuseWrite
<1>3. CASE PromptWrite(p)
  BY <1>3, PromptWriteKeepsPromptInv
<1> QED
  BY <1>1, <1>2, <1>3, <1>b DEF Writing, AcceptWrite, SubmitWrite, WriteReturns, WriteLost, WriteAbandoned, PromptSession

(***************************************************************************)
(* Here opMu is taken by commands alone, and nobody subscribes or reads    *)
(* the history.                                                            *)
(***************************************************************************)
LEMMA LockThenWrite ==
    ASSUME PromptInv, NEW p \in Proc, Lock(p)
    PROVE  pc[p] = "lock" /\ pc' = [pc EXCEPT ![p] = "write"]
BY DEF Lock, FirstSteps, PromptInv, OneAnswerEach

LEMMA NobodyHolds == ASSUME PromptInv, NEW p \in Proc PROVE ~SubscribingOrHistory(p)
<1>1. pc[p] \notin {"subscribing", "historyV4", "packages"} /\ call[p].op # "history"
  BY Places DEF PromptInv, OneAnswerEach, Answering
<1> QED
  BY <1>1 DEF SubscribingOrHistory, SubscribeReturns, SubscribeAborted, HistoryV4Returns, HistoryV4Aborted,
       HistoryFallsBack, StatusThenPackages, PackageRead, PackagesEnd

LEMMA StepKeepsPromptInv ==
    ASSUME PromptSession
    PROVE  PromptInv /\ [Next /\ VerdictsApart']_vars => PromptInv'
<1> SUFFICES ASSUME PromptInv, [Next /\ VerdictsApart']_vars PROVE PromptInv'
  OBVIOUS
<1>a. LockInv'
  BY StepKeepsLockInv DEF PromptInv
<1>b. OneAnswerEach'
  BY <1>a DEF LockInv, TypeOK, PromptSession, OneAnswerEach
<1> SUFFICES Quiet' /\ NoneAhead' /\ (\A q \in Proc : BeforeWrite(q)' /\ AfterWrite(q)') /\ OwnAnswer'
  BY <1>a, <1>b DEF PromptInv
<1>1. ASSUME NEW p \in Proc, Lock(p)
      PROVE  Quiet' /\ NoneAhead' /\ (\A q \in Proc : BeforeWrite(q)' /\ AfterWrite(q)') /\ OwnAnswer'
  BY <1>1, LockThenWrite, MoveKeepsPromptInv DEF Lock
<1>2. CASE UNCHANGED <<pc, call, count, outcome, inflight, dev, executed>>
  BY <1>2 DEF PromptInv, Quiet, NoneAhead, BeforeWrite, AfterWrite, OwnAnswer, ExecutedOwn, RequestOf
<1>3. ~DeviceExecutes /\ ~DevicePublishes
  BY DEF PromptInv, Quiet, DeviceExecutes, DevicePublishes
<1>4. ASSUME NEW p \in Proc, Writing(p), VerdictsApart'
      PROVE  Quiet' /\ NoneAhead' /\ (\A q \in Proc : BeforeWrite(q)' /\ AfterWrite(q)') /\ OwnAnswer'
  BY <1>a, <1>4, WritingKeepsPromptInv
<1> QED
  BY <1>1, <1>2, <1>3, <1>4, InvokeKeepsPromptInv, PollingKeepsPromptInv, NobodyHolds
     DEF Next, Finished, vars, Cancel, Deadline

LEMMA ApartInvariance == ASSUME PromptSession PROVE ApartSpec => [](PromptInv /\ VerdictsApart)
<1>1. PromptInv /\ [Next /\ VerdictsApart']_vars => PromptInv'
  BY StepKeepsPromptInv
<1>2. Init => VerdictsApart
  BY DEF Init, VerdictsApart, Answering
<1>3. VerdictsApart /\ [Next /\ VerdictsApart']_vars => VerdictsApart'
  BY DEF vars, VerdictsApart
<1> QED
  BY <1>1, <1>2, <1>3, InitPromptInv, PTL DEF ApartSpec

(***************************************************************************)
(* Calls over a prompt link do not take each other's answers, for any      *)
(* number of goroutines, calls and polls, if no Authorize waits for its    *)
(* verdict while another call waits for its answer: Authorize, which does  *)
(* not take opMu, is the only way in which answers are exchanged.          *)
(***************************************************************************)
THEOREM OwnAnswersApart == ASSUME PromptSession PROVE ApartSpec => []OwnAnswer
<1>1. PromptInv => OwnAnswer
  BY DEF PromptInv
<1> QED
  BY <1>1, ApartInvariance, PTL

(***************************************************************************)
(* Commands alone are apart by themselves: opMu serializes them.           *)
(***************************************************************************)
LEMMA CommandsAreApart == ASSUME PromptCommands PROVE Spec => ApartSpec
<1>1. LockInv => VerdictsApart
  <2> SUFFICES ASSUME LockInv PROVE VerdictsApart
    OBVIOUS
  <2>1. \A p \in Proc : IsCommand(call[p])
    BY DEF LockInv, TypeOK, PromptCommands
  <2> QED
    BY <2>1 DEF VerdictsApart
<1>2. VerdictsApart' /\ [Next]_vars => [Next /\ VerdictsApart']_vars
  OBVIOUS
<1> QED
  BY <1>1, <1>2, InitLockInv, StepKeepsLockInv, PTL DEF Spec, ApartSpec

(***************************************************************************)
(* Serialized commands over a prompt link do not take each other's         *)
(* answers, whatever their callers do.                                     *)
(***************************************************************************)
THEOREM OwnAnswers == ASSUME PromptCommands PROVE Spec => []OwnAnswer
<1>1. PromptSession
  BY DEF PromptCommands
<1>2. ApartSpec => []OwnAnswer
  BY <1>1, OwnAnswersApart
<1>3. Spec => ApartSpec
  BY CommandsAreApart
<1> QED
  BY <1>2, <1>3
----------------------------------------------------------------------------
(***************************************************************************)
(* The refinement of CommandService.  ServedFacts says whom the service    *)
(* serves: the goroutine that polls, if there is one.                      *)
(***************************************************************************)
ServedFacts ==
    /\ \A p \in Proc : Served(p) <=> pc[p] \in Answering
    /\ \A p \in Proc : Served(p) => ServiceServing = p
    /\ (\A p \in Proc : ~Served(p)) => ServiceServing = NoProc

LEMMA PromptServedFacts == PromptInv /\ VerdictsApart => ServedFacts
<1> SUFFICES ASSUME PromptInv, VerdictsApart PROVE ServedFacts
  OBVIOUS
<1>1. \A p \in Proc : Served(p) <=> pc[p] \in Answering
  BY Places DEF Served, PromptInv, BeforeWrite, AfterWrite, Answering
<1>2. \A p, q \in Proc : Served(p) /\ Served(q) => p = q
  BY <1>1, OneAnswering DEF PromptInv
<1>3. ASSUME NEW p \in Proc, Served(p) PROVE ServiceServing = p
  <2>1. (CHOOSE q \in Proc : Served(q)) \in Proc /\ Served(CHOOSE q \in Proc : Served(q))
    BY <1>3
  <2>2. (CHOOSE q \in Proc : Served(q)) = p
    BY <1>2, <1>3, <2>1
  <2> QED
    BY <1>3, <2>2 DEF ServiceServing
<1> QED
  BY <1>1, <1>3 DEF ServedFacts, ServiceServing

(***************************************************************************)
(* A step of one goroutine changes the phase and the result of nobody      *)
(* else.                                                                   *)
(***************************************************************************)
OthersStay(p) ==
    \A q \in Proc \ {p} :
        /\ pc'[q] = pc[q] /\ outcome'[q] = outcome[q] /\ call'[q] = call[q]
        /\ RequestOf(q)' = RequestOf(q) /\ ExecutedOwn(q)' = ExecutedOwn(q)

LEMMA OthersKeepService ==
    ASSUME NEW p \in Proc, OthersStay(p)
    PROVE  /\ ServicePhase' = [ServicePhase EXCEPT ![p] = ServicePhase'[p]]
           /\ ServiceGot' = [ServiceGot EXCEPT ![p] = ServiceGot'[p]]
<1>1. \A q \in Proc \ {p} : ServicePhase'[q] = ServicePhase[q]
  BY DEF OthersStay, ServicePhase
<1>2. \A q \in Proc \ {p} : ServiceGot'[q] = ServiceGot[q]
  BY DEF OthersStay, ServiceGot, OwnEvidence
<1>3. /\ DOMAIN ServicePhase = Proc /\ DOMAIN ServicePhase' = Proc
      /\ ServicePhase = [q \in Proc |-> ServicePhase[q]] /\ ServicePhase' = [q \in Proc |-> ServicePhase'[q]]
  BY DEF ServicePhase
<1>4. /\ DOMAIN ServiceGot = Proc /\ DOMAIN ServiceGot' = Proc
      /\ ServiceGot = [q \in Proc |-> ServiceGot[q]] /\ ServiceGot' = [q \in Proc |-> ServiceGot'[q]]
  BY DEF ServiceGot
<1> QED
  BY <1>1, <1>2, <1>3, <1>4

LEMMA InvokeCalls ==
    ASSUME PromptInv, ServedFacts, ServedFacts', NEW p \in Proc, Invoke(p)
    PROVE  Service!Call(p)
<1>1. /\ pc[p] = "idle" /\ pc'[p] \in {"lock", "write"} /\ outcome'[p].result = "none"
      /\ \A q \in Proc \ {p} : /\ pc'[q] = pc[q] /\ outcome'[q] = outcome[q]
                               /\ call'[q] = call[q] /\ count'[q] = count[q]
      /\ UNCHANGED executed
  BY DEF Invoke, PromptInv, LockInv, TypeOK
<1>2. OthersStay(p)
  BY <1>1 DEF OthersStay, RequestOf, ExecutedOwn
<1>3. \A q \in Proc : Served(q)' <=> Served(q)
  BY <1>1 DEF ServedFacts, Answering
<1>4. UNCHANGED ServiceServing
  BY <1>3 DEF ServedFacts
<1>5. ServicePhase[p] = "idle" /\ ServicePhase'[p] = "called" /\ ServiceGot'[p] = "nothing"
  <2>1. ~ExecutedOwn(p)'
    BY <1>1 DEF ServedFacts, Served, Answering
  <2> QED
    BY <1>1, <2>1 DEF ServicePhase, ServiceGot
<1> QED
  BY <1>2, <1>4, <1>5, OthersKeepService DEF Service!Call

LEMMA PromptWriteExecutes ==
    ASSUME PromptSession, PromptInv, LockInv', VerdictsApart', ServedFacts, ServedFacts',
           NEW p \in Proc, PromptWrite(p)
    PROVE  Service!Execute(p)
<1>1. /\ pc[p] = "write" /\ pc'[p] \in {"status", "verdict"} /\ \A q \in Proc : q # p => pc'[q] = pc[q]
      /\ UNCHANGED <<call, count, outcome>>
  BY DEF PromptWrite, StartPolling, PromptInv, LockInv, TypeOK
<1>2. PICK x : x.req = RequestOf(p) /\ executed' = executed \cup {x}
  BY PromptWriteShowsOwn
<1>3. OthersStay(p)
  <2>1. \A q \in Proc : RequestOf(q)' = RequestOf(q)
    BY <1>1 DEF RequestOf
  <2>2. \A q \in Proc : q # p => RequestOf(q) # RequestOf(p)
    BY DEF RequestOf
  <2>3. \A q \in Proc : q # p => ExecutedOwn(q)' = ExecutedOwn(q)
    BY <1>2, <2>1, <2>2 DEF ExecutedOwn
  <2> QED
    BY <1>1, <2>1, <2>3 DEF OthersStay
<1>4. \A q \in Proc : ~Served(q)
  BY <1>1, WriterIsAlone DEF ServedFacts, Answering
<1>5. ServiceServing = NoProc /\ Served(p)' /\ ServiceServing' = p
  BY <1>1, <1>4 DEF ServedFacts, Answering
<1>6. ServicePhase[p] = "called" /\ ServicePhase'[p] = "executed" /\ ServiceGot'[p] = ServiceGot[p]
  BY <1>1, <1>4, <1>5 DEF ServicePhase, ServiceGot, Served
<1>7. ServiceGot = [ServiceGot EXCEPT ![p] = ServiceGot[p]]
  BY DEF ServiceGot
<1> QED
  BY <1>3, <1>5, <1>6, <1>7, OthersKeepService DEF Service!Execute

(***************************************************************************)
(* A return is an answer if it ends with the device's own answer, and a    *)
(* failure otherwise.                                                      *)
(***************************************************************************)
LEMMA EndFinishes ==
    ASSUME PromptInv, ServedFacts, ServedFacts', NEW p \in Proc, OthersStay(p),
           pc[p] \in {"write"} \cup Answering, pc'[p] = "idle",
           \/ outcome'[p].result \notin {"none", "ok", "rejected"}
           \/ outcome'[p].result \in {"ok", "rejected"} /\ OwnEvidence(p)' /\ pc[p] \in Answering
    PROVE  Service!Answer(p) \/ Service!Fail(p)
<1>1. ServicePhase[p] = IF pc[p] \in Answering THEN "executed" ELSE "called"
  BY DEF ServicePhase, ServedFacts, Served, Answering
<1>2. ServicePhase'[p] = "idle"
  BY DEF ServicePhase
<1>3. ServiceServing' = IF ServiceServing = p THEN NoProc ELSE ServiceServing
  <2>1. \A q \in Proc : Served(q)' <=> q # p /\ Served(q)
    BY DEF ServedFacts, OthersStay, Answering
  <2>2. CASE Served(p)
    <3>1. ServiceServing = p /\ \A q \in Proc : Served(q) => q = p
      BY <2>2 DEF ServedFacts
    <3> QED
      BY <2>1, <3>1 DEF ServedFacts
  <2>3. CASE ~Served(p)
    <3>1. UNCHANGED ServiceServing
      BY <2>1, <2>3 DEF ServedFacts
    <3>2. ServiceServing # p
      BY <2>3, ConstantsAssumption DEF ServedFacts
    <3> QED
      BY <3>1, <3>2
  <2> QED
    BY <2>2, <2>3
<1>4. pc[p] \in Answering => ServiceServing = p
  BY DEF ServedFacts
<1>5. CASE outcome'[p].result \notin {"none", "ok", "rejected"}
  <2>1. ServiceGot'[p] = "error"
    BY <1>5 DEF ServiceGot
  <2> QED
    BY <1>1, <1>2, <1>3, <2>1, OthersKeepService DEF Service!Fail
<1>6. CASE outcome'[p].result \in {"ok", "rejected"} /\ OwnEvidence(p)' /\ pc[p] \in Answering
  <2>1. ServiceGot'[p] = "answer"
    BY <1>6 DEF ServiceGot
  <2> QED
    BY <1>1, <1>2, <1>3, <1>4, <1>6, <2>1, OthersKeepService DEF Service!Answer
<1> QED
  BY <1>5, <1>6
LEMMA ReturnFinishes ==
    ASSUME PromptInv, ServedFacts, ServedFacts', NEW p \in Proc, pc[p] \in {"write"} \cup Answering,
           NEW result, NEW from, Return(p, result, from),
           \/ result \notin {"none", "ok", "rejected"}
           \/ result = "ok" /\ from = RequestOf(p) /\ pc[p] \in {"output", "verdict"},
           UNCHANGED <<call, count, executed>>
    PROVE  Service!Answer(p) \/ Service!Fail(p)
<1>1. /\ pc'[p] = "idle" /\ outcome'[p].result = result /\ outcome'[p].from = from
      /\ outcome'[p].ack = outcome[p].ack
  BY DEF Return, PromptInv, LockInv, TypeOK, Outcome
<1>2. OthersStay(p)
  BY DEF Return, PromptInv, LockInv, TypeOK, OthersStay, RequestOf, ExecutedOwn
<1>3. result = "ok" => OwnEvidence(p)' /\ pc[p] \in Answering
  BY <1>1, Places DEF OwnEvidence, RequestOf, PromptInv, AfterWrite, Answering
<1> QED
  BY <1>1, <1>2, <1>3, EndFinishes

LEMMA StatusFinishes ==
    ASSUME PromptInv, ServedFacts, ServedFacts', NEW p \in Proc, StatusEnds(p)
    PROVE  Service!Answer(p) \/ Service!Fail(p)
<1>1. /\ pc[p] = "status" /\ pc'[p] = "idle" /\ UNCHANGED <<call, count, executed>>
      /\ outcome'[p].result \in {"ok", "rejected", "protocol"}
      /\ outcome'[p].ack = RequestOf(p)
      /\ outcome'[p].result = "ok" => call[p].op = "send"
  BY DEF StatusEnds, StatusResult, PromptInv, AfterWrite, Answering, LockInv, TypeOK, Outcome
<1>2. OthersStay(p)
  BY DEF StatusEnds, PromptInv, LockInv, TypeOK, OthersStay, RequestOf, ExecutedOwn
<1>3. OwnEvidence(p)'
  BY <1>1 DEF OwnEvidence, RequestOf, IsCommand
<1>4. pc[p] \in Answering
  BY <1>1 DEF Answering
<1> QED
  BY <1>1, <1>2, <1>3, <1>4, EndFinishes

(***************************************************************************)
(* Waiting, sleeping and reading an acknowledgement that is not the end    *)
(* are hidden.                                                             *)
(***************************************************************************)
LEMMA MoveIsHidden ==
    ASSUME PromptInv, ServedFacts, ServedFacts', NEW p \in Proc, NEW to, pc' = [pc EXCEPT ![p] = to],
           \/ pc[p] = "lock" /\ to = "write"
           \/ pc[p] \in Answering /\ to \in Answering,
           \A q \in Proc \ {p} : outcome'[q] = outcome[q],
           UNCHANGED <<call, count, executed>>
    PROVE  UNCHANGED Service!vars
<1>1. pc'[p] = to /\ \A q \in Proc : q # p => pc'[q] = pc[q]
  BY DEF PromptInv, LockInv, TypeOK
<1>2. OthersStay(p)
  BY <1>1 DEF OthersStay, RequestOf, ExecutedOwn
<1>3. \A q \in Proc : Served(q)' <=> Served(q)
  BY <1>1 DEF ServedFacts, Answering
<1>4. UNCHANGED ServiceServing
  BY <1>3 DEF ServedFacts
<1>5. ServicePhase'[p] = ServicePhase[p] /\ ServiceGot'[p] = ServiceGot[p]
  BY <1>1, <1>3 DEF ServicePhase, ServiceGot, Served, Answering
<1>6. ServicePhase = [ServicePhase EXCEPT ![p] = ServicePhase[p]]
      /\ ServiceGot = [ServiceGot EXCEPT ![p] = ServiceGot[p]]
  BY DEF ServicePhase, ServiceGot
<1> QED
  BY <1>2, <1>4, <1>5, <1>6, OthersKeepService DEF Service!vars

LEMMA PollingRefines ==
    ASSUME PromptInv, ServedFacts, ServedFacts', NEW p \in Proc, Polling(p)
    PROVE  Service!Answer(p) \/ Service!Fail(p) \/ UNCHANGED Service!vars
<1>a. ContextError(p) \notin {"none", "ok", "rejected"}
  BY DEF ContextError
<1>b. pc[p] \in {"output", "verdict"} => dev.output.req = RequestOf(p)
  BY DEF PromptInv, AfterWrite
<1>1. CASE ReadAborted(p)
  BY <1>1, <1>a, Places, ReturnFinishes DEF ReadAborted, Reading, Answering
<1>2. CASE ReadFails(p)
  BY <1>2, Places, ReturnFinishes DEF ReadFails, Reading, Answering
<1>3. CASE StatusEnds(p)
  BY <1>3, StatusFinishes
<1>4. CASE StatusThenOutput(p)
  <2>1. \A q \in Proc \ {p} : outcome'[q] = outcome[q]
    BY <1>4 DEF StatusThenOutput, PromptInv, LockInv, TypeOK
  <2> QED
    BY <1>4, <2>1, MoveIsHidden DEF StatusThenOutput, Answering
<1>5. CASE StatusMissing(p)
  BY <1>5, MoveIsHidden DEF StatusMissing, Answering
<1>6. CASE OutputTaken(p)
  BY <1>6, <1>b, ReturnFinishes DEF OutputTaken, Answering
<1>7. CASE OutputUnauthorized(p)
  BY <1>7, ReturnFinishes DEF OutputUnauthorized, Answering
<1>8. CASE OutputMissing(p)
  BY <1>8, MoveIsHidden DEF OutputMissing, Answering
<1>9. CASE Awake(p)
  BY <1>9, MoveIsHidden DEF Awake, Sleeping, Answering
<1>10. CASE PollsExhausted(p)
  BY <1>10, ReturnFinishes DEF PollsExhausted, Answering
<1>11. CASE SleepAborted(p)
  BY <1>11, <1>a, ReturnFinishes DEF SleepAborted, Sleeping, Answering
<1>12. CASE VerdictTaken(p)
  BY <1>12, <1>b, ReturnFinishes DEF VerdictTaken, Answering
<1>13. CASE VerdictWrong(p)
  BY <1>13, MoveIsHidden DEF VerdictWrong, Answering
<1>14. CASE WindowCloses(p)
  BY <1>14, ReturnFinishes DEF WindowCloses, Answering
<1> QED
  BY <1>1, <1>2, <1>3, <1>4, <1>5, <1>6, <1>7, <1>8, <1>9, <1>10, <1>11, <1>12, <1>13, <1>14 DEF Polling

LEMMA WritingRefines ==
    ASSUME PromptSession, PromptInv, LockInv', VerdictsApart', ServedFacts, ServedFacts',
           NEW p \in Proc, Writing(p)
    PROVE  Service!Execute(p) \/ Service!Answer(p) \/ Service!Fail(p)
<1>a. ContextError(p) \notin {"none", "ok", "rejected"}
  BY DEF ContextError
<1>b. pc[p] # "writing"
  BY DEF PromptInv, Quiet
<1>1. CASE RefuseInput(p)
  BY <1>1, ReturnFinishes DEF RefuseInput
<1>2. CASE RefuseWrite(p)
  <2>1. PICK r \in {ContextError(p), "failed"} : Return(p, r, NoRequest)
    BY <1>2 DEF RefuseWrite
  <2> QED
    BY <1>2, <1>a, <2>1, ReturnFinishes DEF RefuseWrite
<1>3. CASE PromptWrite(p)
  BY <1>3, PromptWriteExecutes
<1> QED
  BY <1>1, <1>2, <1>3, <1>b DEF Writing, AcceptWrite, SubmitWrite, WriteReturns, WriteLost, WriteAbandoned, PromptSession

LEMMA StepRefines ==
    ASSUME PromptSession
    PROVE  PromptInv /\ ServedFacts /\ ServedFacts' /\ [Next /\ VerdictsApart']_vars
           => [Service!Next]_(Service!vars)
<1> SUFFICES ASSUME PromptInv, ServedFacts, ServedFacts', [Next /\ VerdictsApart']_vars
             PROVE  Service!Next \/ UNCHANGED Service!vars
  OBVIOUS
<1>a. LockInv'
  BY StepKeepsLockInv DEF PromptInv
<1>1. ASSUME NEW p \in Proc, Lock(p) PROVE UNCHANGED Service!vars
  BY <1>1, LockThenWrite, MoveIsHidden DEF Lock
<1>2. CASE UNCHANGED <<pc, call, count, outcome, executed>>
  BY <1>2 DEF Service!vars, ServicePhase, ServiceServing, ServiceGot, Served, ExecutedOwn, RequestOf, OwnEvidence
<1>3. ~DeviceExecutes /\ ~DevicePublishes
  BY DEF PromptInv, Quiet, DeviceExecutes, DevicePublishes
<1>4. ASSUME NEW p \in Proc, Invoke(p) \/ (Writing(p) /\ VerdictsApart') \/ Polling(p)
      PROVE  Service!Next \/ UNCHANGED Service!vars
  BY <1>a, <1>4, InvokeCalls, WritingRefines, PollingRefines DEF Service!Next
<1> QED
  BY <1>1, <1>2, <1>3, <1>4, NobodyHolds DEF Next, Finished, vars, Cancel, Deadline

(***************************************************************************)
(* Over a prompt link, and with Authorize kept apart, the polled calls are *)
(* the atomic service: each is executed at most once, while no other is,   *)
(* and ends with its own answer or an error.                               *)
(***************************************************************************)
THEOREM ApartCallsAreService == ASSUME PromptSession PROVE ApartSpec => ImplementsService
<1>1. Init => Service!Init
  BY DEF Init, Service!Init, ServicePhase, ServiceServing, ServiceGot, Served
<1>2. PromptInv /\ VerdictsApart => ServedFacts
  BY PromptServedFacts
<1>3. PromptInv /\ ServedFacts /\ ServedFacts' /\ [Next /\ VerdictsApart']_vars
      => [Service!Next]_(Service!vars)
  BY StepRefines
<1> QED
  BY <1>1, <1>2, <1>3, ApartInvariance, PTL DEF ApartSpec, ImplementsService, Service!Spec

(***************************************************************************)
(* Polled commands are the atomic service without any care of the callers. *)
(***************************************************************************)
THEOREM PolledCommandsAreService == ASSUME PromptCommands PROVE Spec => ImplementsService
<1>1. PromptSession
  BY DEF PromptCommands
<1>2. ApartSpec => ImplementsService
  BY <1>1, ApartCallsAreService
<1>3. Spec => ApartSpec
  BY CommandsAreApart
<1> QED
  BY <1>2, <1>3
=============================================================================
