---------------------------- MODULE Client_proof ----------------------------
(***************************************************************************)
(* What two models of a client guarantee: Pairing, for any passwords and   *)
(* any number of workflows, and DeviceNames, for any devices and any       *)
(* number of names.                                                        *)
(*                                                                         *)
(* Pairing.  The result of a workflow is what has become of the session    *)
(* and the device.  The invariant says of each stage what the workflow has *)
(* established when it reaches it.                                         *)
(***************************************************************************)
EXTENDS Pairing, DeviceNames, TLAPS

Entry == [stage : Stage, completed : BOOLEAN]
Result == [stage : Stage, stages : Seq(Entry), completed : BOOLEAN, manual : BOOLEAN,
           deviceReset : BOOLEAN, osUnpair : BOOLEAN, err : BOOLEAN]

Places == {"ready", "returned", "connect", "os_pair", "authorize", "set_password", "verify",
           "device_reset", "os_unpair", "finish"}
Active == Places \ {"ready", "returned"}

Types ==
    /\ place \in Places
    /\ request \in Request
    /\ result \in Result
    /\ connected \in BOOLEAN
    /\ wasReset \in BOOLEAN

\* Which workflow a stage belongs to, and when it has a session.
PlaceFacts ==
    /\ place \in {"os_pair", "set_password", "verify"} => request.kind = "pair"
    /\ place \in {"device_reset", "os_unpair", "finish"} => request.kind = "unpair"
    /\ place \in {"ready", "returned", "connect"} => ~connected
    /\ place \in {"os_pair", "authorize", "set_password", "verify", "device_reset"} => connected
    /\ place = "device_reset" => request.reset
    /\ place = "set_password" => request.new # NoPassword

\* A workflow in progress has neither failed nor completed.
Undecided == place \in Active => ~result.err /\ ~result.completed

\* What is known of the device at each stage.
DeviceFacts ==
    /\ place = "verify" => secret = Wanted(request)
    /\ place \in Active /\ result.deviceReset => wasReset

\* What the stages recorded so far tell of the password.
PasswordFacts ==
    /\ place \in Active => ~RecordedAs(FALSE)
    /\ place \in {"connect", "os_pair", "authorize", "set_password", "device_reset"} => ~RecordedAs(TRUE)
    /\ place \in Active /\ RecordedAs(TRUE) => secret = PasswordSet
    /\ place \in Active /\ ~RecordedAs(TRUE) => secret = before

PairingInv ==
    /\ Types /\ PlaceFacts /\ Undecided /\ DeviceFacts /\ PasswordFacts
    /\ PairedDeviceOpens /\ PasswordCanBeTold /\ CompletedMeansReset /\ ErrorNamesItsStage

(***************************************************************************)
(* Recording a stage adds one entry at the end, and changes nothing else   *)
(* of the result but the stage it names.                                   *)
(***************************************************************************)
LEMMA RecordEffect ==
    ASSUME Types, NEW s \in Stage, NEW ok \in BOOLEAN
    PROVE  /\ Record(s, ok) \in Result
           /\ Record(s, ok).stage = s
           /\ Record(s, ok).stages = Append(result.stages, [stage |-> s, completed |-> ok])
           /\ Record(s, ok).completed = result.completed
           /\ Record(s, ok).deviceReset = result.deviceReset
           /\ Record(s, ok).err = result.err
<1>1. [stage |-> s, completed |-> ok] \in Entry
  BY DEF Entry
<1>2. Append(result.stages, [stage |-> s, completed |-> ok]) \in Seq(Entry)
  BY <1>1 DEF Types, Result
<1> QED
  BY <1>2 DEF Record, Types, Result

\* The entry added last is the last one, and the others are where they were.
LEMMA AppendedEntries ==
    ASSUME NEW q \in Seq(Entry), NEW e \in Entry
    PROVE  /\ Append(q, e)[Len(Append(q, e))] = e
           /\ \A x : (\E i \in 1..Len(Append(q, e)) : Append(q, e)[i] = x)
                         <=> x = e \/ \E i \in 1..Len(q) : q[i] = x
<1>1. Len(q) \in Nat /\ Len(Append(q, e)) = Len(q) + 1
  OBVIOUS
<1>2. Append(q, e)[Len(q) + 1] = e
  OBVIOUS
<1>3. \A i \in 1..Len(q) : Append(q, e)[i] = q[i]
  OBVIOUS
<1>4. ASSUME NEW x
      PROVE (\E i \in 1..Len(Append(q, e)) : Append(q, e)[i] = x)
                         <=> x = e \/ \E i \in 1..Len(q) : q[i] = x
  <2>1. ASSUME NEW i \in 1..Len(Append(q, e)), Append(q, e)[i] = x
        PROVE  x = e \/ \E j \in 1..Len(q) : q[j] = x
    <3>1. i = Len(q) + 1 \/ i \in 1..Len(q)
      BY <1>1
    <3> QED
      BY <1>2, <1>3, <2>1, <3>1
  <2>2. ASSUME x = e PROVE \E i \in 1..Len(Append(q, e)) : Append(q, e)[i] = x
    BY <1>1, <1>2, <2>2
  <2>3. ASSUME NEW j \in 1..Len(q), q[j] = x PROVE \E i \in 1..Len(Append(q, e)) : Append(q, e)[i] = x
    BY <1>1, <1>3, <2>3
  <2> QED
    BY <2>1, <2>2, <2>3
<1> QED
  BY <1>1, <1>2, <1>4

(***************************************************************************)
(* So a recorded stage is one of the password if it is the password stage  *)
(* that is recorded, and the other stages leave what was recorded.         *)
(***************************************************************************)
LEMMA RecordedNow ==
    ASSUME Types, NEW s \in Stage, NEW ok \in BOOLEAN, NEW b \in BOOLEAN, UNCHANGED request,
           result'.stages = Append(result.stages, [stage |-> s, completed |-> ok])
    PROVE  /\ RecordedAs(b)' <=> RecordedAs(b) \/ (s = PasswordStage /\ ok = b)
           /\ result'.stages[Len(result'.stages)] = [stage |-> s, completed |-> ok]
<1> DEFINE e == [stage |-> s, completed |-> ok]
<1> DEFINE x == [stage |-> PasswordStage, completed |-> b]
<1>1. e \in Entry /\ result.stages \in Seq(Entry)
  BY DEF Entry, Types, Result
<1>2. x = e <=> s = PasswordStage /\ ok = b
  OBVIOUS
<1>3. RecordedAs(b) <=> \E i \in 1..Len(result.stages) : result.stages[i] = x
  BY DEF RecordedAs
<1>4. RecordedAs(b)' <=> \E i \in 1..Len(Append(result.stages, e)) : Append(result.stages, e)[i] = x
  BY DEF RecordedAs, PasswordStage
<1> HIDE DEF x
<1> QED
  BY <1>1, <1>2, <1>3, <1>4, AppendedEntries

----------------------------------------------------------------------------
(***************************************************************************)
(* A stage that fails and ends the workflow.  If it is the one that        *)
(* changes the password, the device has the old one or the new one.        *)
(***************************************************************************)
LEMMA FailureKeepsInv ==
    ASSUME PairingInv, place \in Active, NEW s \in Stage,
           result' \in Result, result'.stage = s, result'.err, ~result'.completed,
           result'.stages = Append(result.stages, [stage |-> s, completed |-> FALSE]),
           place' = "returned", connected' = FALSE, wasReset' \in BOOLEAN, UNCHANGED <<request, before>>,
           IF s = PasswordStage THEN ~RecordedAs(TRUE) /\ secret' \in {before, PasswordSet}
                                ELSE secret' = secret
    PROVE  PairingInv'
<1>1. Types' /\ PlaceFacts'
  BY DEF PairingInv, Types, Places, PlaceFacts
<1>2. Undecided' /\ DeviceFacts' /\ PasswordFacts'
  BY DEF Undecided, DeviceFacts, PasswordFacts, Active
<1>3. PairedDeviceOpens' /\ CompletedMeansReset'
  BY DEF PairedDeviceOpens, CompletedMeansReset
<1>4. /\ RecordedAs(TRUE)' <=> RecordedAs(TRUE)
      /\ RecordedAs(FALSE)' <=> s = PasswordStage
      /\ result'.stages[Len(result'.stages)] = [stage |-> s, completed |-> FALSE]
  BY RecordedNow DEF PairingInv, PasswordFacts
<1>5. PasswordSet' = PasswordSet
  BY DEF PasswordSet
<1>6. PasswordCanBeTold'
  BY <1>4, <1>5 DEF PasswordCanBeTold, PairingInv, PasswordFacts
<1>7. ErrorNamesItsStage'
  BY <1>4 DEF ErrorNamesItsStage
<1> QED
  BY <1>1, <1>2, <1>3, <1>6, <1>7 DEF PairingInv

(***************************************************************************)
(* A stage after which the workflow goes on.  The one that changes the     *)
(* password is recorded as completed, and no other stage changes it.       *)
(***************************************************************************)
BeforePassword == {"connect", "os_pair", "authorize", "set_password", "device_reset"}

LEMMA ProgressKeepsInv ==
    ASSUME PairingInv, place \in Active, NEW s \in Stage, NEW ok \in BOOLEAN,
           result' \in Result, ~result'.err, ~result'.completed,
           result'.stages = Append(result.stages, [stage |-> s, completed |-> ok]),
           place' \in Active, connected' \in BOOLEAN, wasReset' \in BOOLEAN, UNCHANGED <<request, before>>,
           PlaceFacts', DeviceFacts',
           IF s = PasswordStage THEN ok /\ secret' = PasswordSet /\ place' \notin BeforePassword
                                ELSE secret' = secret /\ (place' \in BeforePassword => place \in BeforePassword)
    PROVE  PairingInv'
<1>1. Types' /\ Undecided'
  BY DEF PairingInv, Types, Undecided, Active
<1>2. PairedDeviceOpens' /\ CompletedMeansReset' /\ PasswordCanBeTold' /\ ErrorNamesItsStage'
  BY DEF PairedDeviceOpens, CompletedMeansReset, PasswordCanBeTold, ErrorNamesItsStage, Returned,
     Active
<1>3. /\ RecordedAs(TRUE)' <=> RecordedAs(TRUE) \/ (s = PasswordStage /\ ok)
      /\ RecordedAs(FALSE)' <=> RecordedAs(FALSE) \/ (s = PasswordStage /\ ~ok)
  BY RecordedNow DEF PairingInv
<1>4. PasswordSet' = PasswordSet
  BY DEF PasswordSet
<1>5. PasswordFacts'
  BY <1>3, <1>4 DEF PairingInv, PasswordFacts, BeforePassword
<1> QED
  BY <1>1, <1>2, <1>5 DEF PairingInv

----------------------------------------------------------------------------
(***************************************************************************)
(* The actions.                                                            *)
(***************************************************************************)
LEMMA InitPairingInv == PairingInit => PairingInv
<1> SUFFICES ASSUME PairingInit PROVE PairingInv
  OBVIOUS
<1>1. NoResult \in Result /\ NoResult.stages = <<>> /\ ~NoResult.completed /\ ~NoResult.err
  BY DEF NoResult, Result, Stage, PairStage
<1>2. request \in Request
  BY DEF PairingInit, Request, Given
<1>3. Types
  BY <1>1, <1>2 DEF PairingInit, Types, Places
<1>4. PlaceFacts /\ Undecided /\ DeviceFacts /\ PasswordFacts
  BY DEF PairingInit, PlaceFacts, Undecided, DeviceFacts, PasswordFacts, Active
<1>5. PairedDeviceOpens /\ PasswordCanBeTold /\ CompletedMeansReset /\ ErrorNamesItsStage
  BY DEF PairingInit, PairedDeviceOpens, PasswordCanBeTold, CompletedMeansReset, ErrorNamesItsStage,
     Returned
<1> QED
  BY <1>3, <1>4, <1>5 DEF PairingInv

LEMMA BeginInv == ASSUME PairingInv, NEW r \in Request, Begin(r) PROVE PairingInv'
<1>1. place = "ready" \/ place = "returned"
  BY DEF Begin
<1>2. ~connected /\ connected \in BOOLEAN
  BY <1>1 DEF PairingInv, Types, PlaceFacts
<1>3. request' = r /\ before' = secret' /\ secret' = secret /\ connected' = connected /\ wasReset' = FALSE
  BY DEF Begin
<1>4. CASE r.password = Malformed
  <2>1. /\ place' = "returned"
        /\ result' = [NoResult EXCEPT !.stages = <<[stage |-> "authorize", completed |-> FALSE]>>, !.err = TRUE]
    BY <1>4 DEF Begin
  <2>2. [stage |-> "authorize", completed |-> FALSE] \in Entry
    BY DEF Entry, Stage, PairStage
  <2>3. <<[stage |-> "authorize", completed |-> FALSE]>> \in Seq(Entry)
    BY <2>2
  <2>4. result' \in Result /\ ~result'.completed
    BY <2>1, <2>3 DEF NoResult, Result, Stage, PairStage
  <2>5. Types' /\ PlaceFacts' /\ Undecided' /\ DeviceFacts' /\ PasswordFacts'
    BY <1>2, <1>3, <2>1, <2>4 DEF Types, Places, PlaceFacts, Undecided, DeviceFacts, PasswordFacts,
       Active
  <2>6. result'.stages = <<[stage |-> "authorize", completed |-> FALSE]>>
    BY <2>1 DEF NoResult
  <2>7. \A b \in BOOLEAN : ~RecordedAs(b)'
    <3> SUFFICES ASSUME NEW b \in BOOLEAN, NEW i \in 1..Len(result'.stages),
                        result'.stages[i] = [stage |-> PasswordStage', completed |-> b]
                 PROVE  FALSE
      BY DEF RecordedAs
    <3>1. i = 1
      BY <2>6
    <3>2. PasswordStage' = "authorize"
      BY <2>6, <3>1
    <3> QED
      BY <3>2 DEF PasswordStage
  <2>8. PasswordCanBeTold'
    BY <1>3, <2>7 DEF PasswordCanBeTold
  <2>9. PairedDeviceOpens' /\ CompletedMeansReset' /\ ErrorNamesItsStage'
    BY <1>3, <1>4, <2>4 DEF PairedDeviceOpens, CompletedMeansReset, ErrorNamesItsStage
  <2> QED
    BY <2>5, <2>8, <2>9 DEF PairingInv
<1>5. CASE r.password # Malformed
  <2>1. /\ result' = NoResult
        /\ place' = IF NeedsDeviceAccess(r) THEN "connect" ELSE IF r.os THEN "os_unpair" ELSE "finish"
    BY <1>5 DEF Begin
  <2>2. NoResult \in Result /\ NoResult.stages = <<>> /\ ~NoResult.completed /\ ~NoResult.err
        /\ ~NoResult.deviceReset
    BY DEF NoResult, Result, Stage, PairStage
  <2>3. place' \in {"connect", "os_unpair", "finish"}
    BY <2>1
  <2>4. place' # "connect" => r.kind = "unpair"
    BY <2>1 DEF NeedsDeviceAccess, Request
  <2>5. \A b \in BOOLEAN : ~RecordedAs(b)'
    BY <2>1, <2>2 DEF RecordedAs
  <2>6. Types' /\ PlaceFacts' /\ Undecided' /\ DeviceFacts' /\ PasswordFacts'
    BY <1>2, <1>3, <2>1, <2>2, <2>3, <2>4, <2>5 DEF Types, Places, PlaceFacts, Undecided,
       DeviceFacts, PasswordFacts, Active
  <2>7. PairedDeviceOpens' /\ PasswordCanBeTold' /\ CompletedMeansReset' /\ ErrorNamesItsStage'
    BY <2>3 DEF PairedDeviceOpens, PasswordCanBeTold, CompletedMeansReset, ErrorNamesItsStage,
       Returned
  <2> QED
    BY <2>6, <2>7 DEF PairingInv
<1> QED
  BY <1>4, <1>5

\* The stages that fail: PairUnreachable, AuthorizeFails, SetPasswordFails, VerifyFails, FactoryResetFails.
LEMMA FailingStage ==
    ASSUME PairingInv, place \in Active, NEW s \in Stage, Fails(s), wasReset' \in BOOLEAN, UNCHANGED <<request, before>>,
           IF s = PasswordStage THEN place \in BeforePassword /\ secret' \in {secret, PasswordSet}
                                ELSE secret' = secret
    PROVE  PairingInv'
<1>1. Types
  BY DEF PairingInv
<1>2. /\ result' = [Record(s, FALSE) EXCEPT !.err = TRUE]
      /\ place' = "returned" /\ connected' = FALSE
  BY DEF Fails, Returning
<1>3. /\ Record(s, FALSE) \in Result /\ Record(s, FALSE).stage = s
      /\ Record(s, FALSE).completed = result.completed
      /\ Record(s, FALSE).stages = Append(result.stages, [stage |-> s, completed |-> FALSE])
  BY <1>1, RecordEffect
<1>4. /\ result' \in Result /\ result'.stage = s /\ result'.err
      /\ result'.completed = result.completed
      /\ result'.stages = Append(result.stages, [stage |-> s, completed |-> FALSE])
  BY <1>2, <1>3 DEF Result
<1>5. ~result'.completed
  BY <1>4 DEF PairingInv, Undecided
<1>6. s = PasswordStage => ~RecordedAs(TRUE) /\ secret' \in {before, PasswordSet}
  BY DEF PairingInv, PasswordFacts, BeforePassword, Active
<1> QED
  BY <1>2, <1>4, <1>5, <1>6, FailureKeepsInv

\* The stages that are done and let the workflow go on.
LEMMA PassingStage ==
    ASSUME PairingInv, place \in Active, NEW s \in Stage, NEW ok \in BOOLEAN,
           result' \in Result, result'.completed = result.completed, result'.err = result.err,
           result'.stages = Append(result.stages, [stage |-> s, completed |-> ok]),
           place' \in Active, connected' \in BOOLEAN, wasReset' \in BOOLEAN, UNCHANGED <<request, before>>,
           PlaceFacts', DeviceFacts',
           IF s = PasswordStage THEN ok /\ secret' = PasswordSet /\ place' \notin BeforePassword
                                ELSE secret' = secret /\ (place' \in BeforePassword => place \in BeforePassword)
    PROVE  PairingInv'
<1>1. ~result'.err /\ ~result'.completed
  BY DEF PairingInv, Undecided
<1> QED
  BY <1>1, ProgressKeepsInv

----------------------------------------------------------------------------
(***************************************************************************)
(* One lemma for each group of actions: those that fail, those on the      *)
(* device that succeed, those of the operating system, and the last one.   *)
(***************************************************************************)
LEMMA FailuresInv ==
    ASSUME PairingInv, PairUnreachable \/ AuthorizeFails \/ SetPasswordFails \/ VerifyFails \/ FactoryResetFails
    PROVE  PairingInv'
<1> USE DEF Active, Places, BeforePassword, Stage, PairStage, UnpairStage
<1>1. Types /\ PlaceFacts
  BY DEF PairingInv
<1>2. CASE PairUnreachable
  <2>1. "connect" # PasswordStage
    BY DEF PasswordStage
  <2> QED
    BY <1>1, <1>2, <2>1, FailingStage DEF PairUnreachable, Types
<1>3. CASE AuthorizeFails
  <2>1. "authorize" # PasswordStage
    BY DEF PasswordStage
  <2> QED
    BY <1>1, <1>3, <2>1, FailingStage DEF AuthorizeFails, Types
<1>4. CASE SetPasswordFails
  <2>1. PasswordStage = "set_password" /\ PasswordSet = request.new
    BY <1>1, <1>4 DEF SetPasswordFails, PlaceFacts, PasswordStage, PasswordSet
  <2> QED
    BY <1>1, <1>4, <2>1, FailingStage DEF SetPasswordFails, Types
<1>5. CASE VerifyFails
  <2>1. "verify" # PasswordStage
    BY DEF PasswordStage
  <2> QED
    BY <1>1, <1>5, <2>1, FailingStage DEF VerifyFails, Types
<1>6. CASE FactoryResetFails
  <2>1. PasswordStage = "device_reset" /\ PasswordSet = Default
    BY <1>1, <1>6 DEF FactoryResetFails, PlaceFacts, PasswordStage, PasswordSet
  <2>2. wasReset' \in BOOLEAN
    BY <1>1, <1>6 DEF FactoryResetFails, Types
  <2> QED
    BY <1>1, <1>6, <2>1, <2>2, FailingStage DEF FactoryResetFails
<1> QED
  BY <1>2, <1>3, <1>4, <1>5, <1>6

LEMMA DeviceStagesInv ==
    ASSUME PairingInv, Connects \/ UnpairUnreachable \/ Authorizes \/ SetsPassword \/ FactoryResets
    PROVE  PairingInv'
<1> USE DEF Active, Places, BeforePassword, Stage, PairStage, UnpairStage
<1>1. Types /\ PlaceFacts /\ DeviceFacts
  BY DEF PairingInv
<1>2. \A s \in Stage, ok \in BOOLEAN :
         /\ Record(s, ok) \in Result
         /\ Record(s, ok).stages = Append(result.stages, [stage |-> s, completed |-> ok])
         /\ Record(s, ok).completed = result.completed
         /\ Record(s, ok).deviceReset = result.deviceReset
         /\ Record(s, ok).err = result.err
  BY <1>1, RecordEffect
<1>3. request.kind \in {"pair", "unpair"}
  BY <1>1 DEF Types, Request
<1>4. CASE Connects
  <2>1. "connect" # PasswordStage
    BY DEF PasswordStage
  <2>2. result' = Record("connect", TRUE)
    BY <1>4 DEF Connects
  <2>3. result'.deviceReset = result.deviceReset
    BY <1>2, <2>2
  <2>4. PlaceFacts' /\ DeviceFacts'
    BY <1>1, <1>4, <2>3 DEF Connects, PlaceFacts, DeviceFacts
  <2> QED
    BY <1>1, <1>2, <1>4, <2>1, <2>2, <2>4, PassingStage DEF Connects, Types
<1>5. CASE UnpairUnreachable
  <2>1. "connect" # PasswordStage
    BY DEF PasswordStage
  <2>2. result' = Record("connect", FALSE)
    BY <1>5 DEF UnpairUnreachable
  <2>3. result'.deviceReset = result.deviceReset
    BY <1>2, <2>2
  <2>4. PlaceFacts' /\ DeviceFacts'
    BY <1>1, <1>5, <2>3 DEF UnpairUnreachable, PlaceFacts, DeviceFacts
  <2> QED
    BY <1>1, <1>2, <1>5, <2>1, <2>2, <2>4, PassingStage DEF UnpairUnreachable, Types
<1>6. CASE Authorizes
  <2>1. "authorize" # PasswordStage
    BY DEF PasswordStage
  <2>2. /\ result' = Record("authorize", TRUE) /\ place' = AfterAuthorize
        /\ UNCHANGED <<connected, request, secret, before, wasReset>>
    BY <1>6 DEF Authorizes, Succeeds
  <2>3. result'.deviceReset = result.deviceReset
    BY <1>2, <2>2
  <2>4. /\ place' \in {"set_password", "verify", "device_reset", "os_unpair", "finish"}
        /\ place' \in {"set_password", "verify"} => request.kind = "pair"
        /\ place' \in {"device_reset", "os_unpair", "finish"} => request.kind = "unpair"
        /\ place' = "device_reset" => request.reset
        /\ place' = "set_password" => request.new # NoPassword
        /\ place' = "verify" => request.new = NoPassword
    BY <1>3, <2>2 DEF AfterAuthorize
  <2>5. connected
    BY <1>1, <1>6 DEF Authorizes, PlaceFacts
  <2>6. place' = "verify" => secret = Wanted(request)
    BY <1>6, <2>4 DEF Authorizes, Wanted
  <2>7. PlaceFacts'
    BY <2>2, <2>4, <2>5 DEF PlaceFacts
  <2>8. DeviceFacts'
    <3>1. place' = "verify" => secret' = Wanted(request)'
      BY <2>2, <2>6 DEF Wanted, passwordOrDefault
    <3>2. place' \in Active /\ result'.deviceReset => wasReset'
      BY <1>1, <1>6, <2>2, <2>3 DEF Authorizes, DeviceFacts
    <3> QED
      BY <3>1, <3>2 DEF DeviceFacts
  <2> QED
    BY <1>1, <1>2, <1>6, <2>1, <2>2, <2>4, <2>7, <2>8, PassingStage DEF Authorizes, Types
<1>7. CASE SetsPassword
  <2>1. request.kind = "pair" /\ request.new # NoPassword /\ connected
    BY <1>1, <1>7 DEF SetsPassword, PlaceFacts
  <2>2. PasswordStage = "set_password" /\ PasswordSet = request.new /\ Wanted(request) = request.new
    BY <2>1 DEF PasswordStage, PasswordSet, Wanted
  <2>3. /\ result' = Record("set_password", TRUE) /\ place' = "verify" /\ secret' = request.new
        /\ UNCHANGED <<connected, request, before, wasReset>>
    BY <1>7 DEF SetsPassword, Succeeds
  <2>4. result'.deviceReset = result.deviceReset
    BY <1>2, <2>3
  <2>5. PlaceFacts'
    BY <2>1, <2>3 DEF PlaceFacts
  <2>6. DeviceFacts'
    <3>1. secret' = Wanted(request)'
      BY <2>2, <2>3 DEF Wanted, passwordOrDefault
    <3>2. result'.deviceReset => wasReset'
      BY <1>1, <1>7, <2>3, <2>4 DEF SetsPassword, DeviceFacts
    <3> QED
      BY <3>1, <3>2 DEF DeviceFacts
  <2> QED
    BY <1>1, <1>2, <1>7, <2>2, <2>3, <2>5, <2>6, PassingStage DEF SetsPassword, Types
<1>8. CASE FactoryResets
  <2>1. request.kind = "unpair" /\ connected
    BY <1>1, <1>8 DEF FactoryResets, PlaceFacts
  <2>2. PasswordStage = "device_reset" /\ PasswordSet = Default
    BY <2>1 DEF PasswordStage, PasswordSet
  <2>3. /\ result' = [Record("device_reset", TRUE) EXCEPT !.deviceReset = TRUE]
        /\ secret' = Default /\ wasReset' = TRUE /\ place' \in {"os_unpair", "finish"}
        /\ UNCHANGED <<connected, request, before>>
    BY <1>8 DEF FactoryResets
  <2>4. /\ Record("device_reset", TRUE) \in Result
        /\ Record("device_reset", TRUE).stages = Append(result.stages, [stage |-> "device_reset", completed |-> TRUE])
        /\ Record("device_reset", TRUE).completed = result.completed
        /\ Record("device_reset", TRUE).err = result.err
    BY <1>2
  <2>5. /\ result' \in Result
        /\ result'.stages = Append(result.stages, [stage |-> "device_reset", completed |-> TRUE])
        /\ result'.completed = result.completed /\ result'.err = result.err
    BY <2>3, <2>4 DEF Result
  <2>6. PlaceFacts' /\ DeviceFacts'
    BY <2>1, <2>3 DEF PlaceFacts, DeviceFacts
  <2> QED
    BY <1>1, <1>8, <2>2, <2>3, <2>5, <2>6, PassingStage DEF FactoryResets, Types
<1> QED
  BY <1>4, <1>5, <1>6, <1>7, <1>8

LEMMA OSStagesInv == ASSUME PairingInv, PairsOS \/ UnpairsOS \/ OSFails PROVE PairingInv'
<1> USE DEF Active, Places, BeforePassword, Stage, PairStage, UnpairStage
<1>1. Types /\ PlaceFacts /\ DeviceFacts
  BY DEF PairingInv
<1>2. "os_pair" # PasswordStage /\ "os_unpair" # PasswordStage
  BY DEF PasswordStage
<1>3. CASE PairsOS
  <2>1. PICK performed \in BOOLEAN, manual \in BOOLEAN :
           result' = [Record("os_pair", performed) EXCEPT !.manual = manual]
    BY <1>3 DEF PairsOS
  <2>2. /\ Record("os_pair", performed) \in Result
        /\ Record("os_pair", performed).stages = Append(result.stages, [stage |-> "os_pair", completed |-> performed])
        /\ Record("os_pair", performed).completed = result.completed
        /\ Record("os_pair", performed).deviceReset = result.deviceReset
        /\ Record("os_pair", performed).err = result.err
    BY <1>1, RecordEffect
  <2>3. /\ result' \in Result
        /\ result'.stages = Append(result.stages, [stage |-> "os_pair", completed |-> performed])
        /\ result'.completed = result.completed /\ result'.err = result.err
        /\ result'.deviceReset = result.deviceReset
    BY <2>1, <2>2 DEF Result
  <2>4. PlaceFacts' /\ DeviceFacts'
    BY <1>1, <1>3, <2>3 DEF PairsOS, PlaceFacts, DeviceFacts
  <2> QED
    BY <1>1, <1>2, <1>3, <2>3, <2>4, PassingStage DEF PairsOS, Types
<1>4. CASE UnpairsOS
  <2>1. PICK performed \in BOOLEAN, manual \in BOOLEAN :
           result' = [Record("os_unpair", performed) EXCEPT !.osUnpair = performed, !.manual = manual]
    BY <1>4 DEF UnpairsOS
  <2>2. /\ Record("os_unpair", performed) \in Result
        /\ Record("os_unpair", performed).stages = Append(result.stages, [stage |-> "os_unpair", completed |-> performed])
        /\ Record("os_unpair", performed).completed = result.completed
        /\ Record("os_unpair", performed).deviceReset = result.deviceReset
        /\ Record("os_unpair", performed).err = result.err
    BY <1>1, RecordEffect
  <2>3. /\ result' \in Result
        /\ result'.stages = Append(result.stages, [stage |-> "os_unpair", completed |-> performed])
        /\ result'.completed = result.completed /\ result'.err = result.err
        /\ result'.deviceReset = result.deviceReset
    BY <2>1, <2>2 DEF Result
  <2>4. PlaceFacts' /\ DeviceFacts'
    BY <1>1, <1>4, <2>3 DEF UnpairsOS, PlaceFacts, DeviceFacts
  <2> QED
    BY <1>1, <1>2, <1>4, <2>3, <2>4, PassingStage DEF UnpairsOS, Types
<1>5. CASE OSFails
  <2>1. place \in {"os_pair", "os_unpair"} /\ place \in Stage
    BY <1>5 DEF OSFails
  <2>2. PICK manual \in BOOLEAN : result' = [Record(place, FALSE) EXCEPT !.err = TRUE, !.manual = manual]
    BY <1>5 DEF OSFails
  <2>3. /\ Record(place, FALSE) \in Result
        /\ Record(place, FALSE).stage = place
        /\ Record(place, FALSE).stages = Append(result.stages, [stage |-> place, completed |-> FALSE])
        /\ Record(place, FALSE).completed = result.completed
    BY <1>1, <2>1, RecordEffect
  <2>4. /\ result' \in Result /\ result'.stage = place /\ result'.err
        /\ result'.stages = Append(result.stages, [stage |-> place, completed |-> FALSE])
        /\ result'.completed = result.completed
    BY <2>2, <2>3 DEF Result
  <2>5. ~result'.completed
    BY <2>1, <2>4 DEF PairingInv, Undecided
  <2>6. place' = "returned" /\ connected' = FALSE /\ wasReset' \in BOOLEAN
        /\ UNCHANGED <<request, secret, before>>
    BY <1>1, <1>5 DEF OSFails, Returning, Types
  <2> QED
    BY <1>2, <2>1, <2>4, <2>5, <2>6, FailureKeepsInv
<1> QED
  BY <1>3, <1>4, <1>5

\* The last step completes the workflow, if it does what was asked, and records nothing.
LEMMA LastStepInv == ASSUME PairingInv, Verifies \/ Finishes PROVE PairingInv'
<1> USE DEF Active, Places, Stage, PairStage, UnpairStage
<1>1. Types /\ PlaceFacts /\ DeviceFacts /\ PasswordFacts /\ Undecided
  BY DEF PairingInv
<1>2. CASE Verifies
  <2>1. /\ Record("verify", TRUE) \in Result
        /\ Record("verify", TRUE).stages = Append(result.stages, [stage |-> "verify", completed |-> TRUE])
        /\ Record("verify", TRUE).err = result.err
    BY <1>1, RecordEffect
  <2>2. /\ result' = [Record("verify", TRUE) EXCEPT !.stage = "complete", !.completed = TRUE]
        /\ place = "verify" /\ place' = "returned" /\ connected' = FALSE
        /\ UNCHANGED <<request, secret, before, wasReset>>
    BY <1>2 DEF Verifies, Returning
  <2>3. /\ result' \in Result /\ ~result'.err
        /\ result'.stages = Append(result.stages, [stage |-> "verify", completed |-> TRUE])
    BY <1>1, <2>1, <2>2 DEF Result, Undecided
  <2>4. Types' /\ PlaceFacts' /\ Undecided' /\ DeviceFacts' /\ PasswordFacts'
    BY <1>1, <2>2, <2>3 DEF Types, PlaceFacts, Undecided, DeviceFacts, PasswordFacts
  <2>5. request.kind = "pair" /\ secret = Wanted(request)
    BY <1>1, <2>2 DEF PlaceFacts, DeviceFacts
  <2>6. PairedDeviceOpens'
    BY <2>2, <2>5 DEF PairedDeviceOpens, Wanted, passwordOrDefault
  <2>7. CompletedMeansReset' /\ ErrorNamesItsStage'
    BY <2>2, <2>3, <2>5 DEF CompletedMeansReset, ErrorNamesItsStage, Returned
  <2>8. "verify" # PasswordStage
    BY DEF PasswordStage
  <2>9. \A b \in BOOLEAN : RecordedAs(b)' <=> RecordedAs(b)
    BY <1>1, <2>2, <2>3, <2>8, RecordedNow
  <2>10. PasswordSet' = PasswordSet
    BY <2>2 DEF PasswordSet
  <2>11. PasswordCanBeTold'
    BY <1>1, <2>2, <2>9, <2>10 DEF PasswordCanBeTold, PasswordFacts
  <2> QED
    BY <2>4, <2>6, <2>7, <2>11 DEF PairingInv
<1>3. CASE Finishes
  <2>1. /\ result' = [result EXCEPT !.completed = Completed(request), !.stage = "complete"]
        /\ place = "finish" /\ place' = "returned" /\ connected' = FALSE
        /\ UNCHANGED <<request, secret, before, wasReset>>
    BY <1>3 DEF Finishes, Returning
  <2>2. Completed(request) \in BOOLEAN
    BY DEF Completed
  <2>3. /\ result' \in Result /\ ~result'.err
        /\ result'.stages = result.stages /\ result'.completed = Completed(request)
    BY <1>1, <2>1, <2>2 DEF Types, Result, Undecided
  <2>4. Types' /\ PlaceFacts' /\ Undecided' /\ DeviceFacts' /\ PasswordFacts'
    BY <1>1, <2>1, <2>3 DEF Types, PlaceFacts, Undecided, DeviceFacts, PasswordFacts
  <2>5. request.kind = "unpair"
    BY <1>1, <2>1 DEF PlaceFacts
  <2>6. PairedDeviceOpens' /\ ErrorNamesItsStage'
    BY <2>1, <2>3, <2>5 DEF PairedDeviceOpens, ErrorNamesItsStage, Returned
  <2>7. CompletedMeansReset'
    BY <1>1, <2>1, <2>3 DEF CompletedMeansReset, Completed, DeviceFacts
  <2>8. \A b \in BOOLEAN : RecordedAs(b)' <=> RecordedAs(b)
    BY <2>1, <2>3 DEF RecordedAs, PasswordStage
  <2>9. PasswordSet' = PasswordSet
    BY <2>1 DEF PasswordSet
  <2>10. PasswordCanBeTold'
    BY <1>1, <2>1, <2>8, <2>9 DEF PasswordCanBeTold, PasswordFacts
  <2> QED
    BY <2>4, <2>6, <2>7, <2>10 DEF PairingInv
<1> QED
  BY <1>2, <1>3

LEMMA StutterInv == ASSUME PairingInv, UNCHANGED pairingVars PROVE PairingInv'
<1>1. \A b \in BOOLEAN : RecordedAs(b)' <=> RecordedAs(b)
  BY DEF pairingVars, RecordedAs, PasswordStage
<1>2. PasswordSet' = PasswordSet /\ Wanted(request)' = Wanted(request)
  BY DEF pairingVars, PasswordSet, Wanted, passwordOrDefault
<1> QED
  BY <1>1, <1>2 DEF pairingVars, PairingInv, Types, PlaceFacts, Undecided, DeviceFacts, PasswordFacts,
     PairedDeviceOpens, PasswordCanBeTold, CompletedMeansReset, ErrorNamesItsStage, Returned

\* What is known of a workflow at each stage, on every path through it.
THEOREM PairingInvariance == PairingSpec => []PairingInv
<1>1. PairingInit => PairingInv
  BY InitPairingInv
<1>2. PairingInv /\ [PairingNext]_pairingVars => PairingInv'
  <2> SUFFICES ASSUME PairingInv, [PairingNext]_pairingVars PROVE PairingInv'
    OBVIOUS
  <2>1. CASE \E r \in Request : Begin(r)
    BY <2>1, BeginInv
  <2>2. CASE PairUnreachable \/ AuthorizeFails \/ SetPasswordFails \/ VerifyFails \/ FactoryResetFails
    BY <2>2, FailuresInv
  <2>3. CASE Connects \/ UnpairUnreachable \/ Authorizes \/ SetsPassword \/ FactoryResets
    BY <2>3, DeviceStagesInv
  <2>4. CASE PairsOS \/ UnpairsOS \/ OSFails
    BY <2>4, OSStagesInv
  <2>5. CASE Verifies \/ Finishes
    BY <2>5, LastStepInv
  <2>6. CASE UNCHANGED pairingVars
    BY <2>6, StutterInv
  <2> QED
    BY <2>1, <2>2, <2>3, <2>4, <2>5, <2>6 DEF PairingNext
<1> QED
  BY <1>1, <1>2, PTL DEF PairingSpec

(***************************************************************************)
(* No path through Pair or Unpair (client.go) returns with its session     *)
(* open, and none talks to a device without one.                           *)
(***************************************************************************)
THEOREM SessionIsReleased == PairingSpec => []SessionReleased
<1>1. PairingInv => SessionReleased
  BY DEF PairingInv, PlaceFacts, SessionReleased
<1> QED
  BY <1>1, PairingInvariance, PTL

\* A pairing reported as completed leaves a device that opens with the password asked for.
THEOREM PairingOpens == PairingSpec => []PairedDeviceOpens
<1>1. PairingInv => PairedDeviceOpens
  BY DEF PairingInv
<1> QED
  BY <1>1, PairingInvariance, PTL

(***************************************************************************)
(* Whatever is lost on the way, the stages of the result tell which        *)
(* passwords the device may have, and so what a retry must try.            *)
(***************************************************************************)
THEOREM ResultTellsPassword == PairingSpec => []PasswordCanBeTold
<1>1. PairingInv => PasswordCanBeTold
  BY DEF PairingInv
<1> QED
  BY <1>1, PairingInvariance, PTL

\* An unpairing reported as completed has reset the device if that was asked.
THEOREM UnpairingResets == PairingSpec => []CompletedMeansReset
<1>1. PairingInv => CompletedMeansReset
  BY DEF PairingInv
<1> QED
  BY <1>1, PairingInvariance, PTL

\* An error excludes completion, and is that of the last stage of the result.
THEOREM ErrorIsOfItsStage == PairingSpec => []ErrorNamesItsStage
<1>1. PairingInv => ErrorNamesItsStage
  BY DEF PairingInv
<1> QED
  BY <1>1, PairingInvariance, PTL

(***************************************************************************)
(* The result of Pair and Unpair is true of the device, whatever failed    *)
(* and whatever acknowledgement was lost.                                  *)
(***************************************************************************)
THEOREM TrueResult == PairingSpec => []ResultIsTrue
<1>1. PairedDeviceOpens /\ PasswordCanBeTold /\ CompletedMeansReset /\ ErrorNamesItsStage => ResultIsTrue
  BY DEF ResultIsTrue
<1> QED
  BY <1>1, PairingOpens, ResultTellsPassword, UnpairingResets, ErrorIsOfItsStage, PTL

(***************************************************************************)
(* The rest of the types: the stage a result names is one of its workflow, *)
(* and the password of the device is always one that it could be given.    *)
(***************************************************************************)
StageOfKind(kind) == IF kind = "pair" THEN PairStage ELSE UnpairStage

Kept ==
    /\ result.stage \in StageOfKind(request.kind)
    /\ secret \in Password /\ before \in Password
    /\ workflows \in 0..MaxWorkflows

\* A step of a workflow names a stage of its own kind, and counts no workflow.
LEMMA StepKeepsKept ==
    ASSUME Kept, UNCHANGED <<request, before, workflows>>,
           result'.stage \in StageOfKind(request.kind), secret' \in Password
    PROVE  Kept'
BY DEF Kept

\* Begin is the one step that changes the kind and the count.
LEMMA BeginKeepsKept == ASSUME Kept, NEW r \in Request, Begin(r) PROVE Kept'
<1>1. result'.stage = "connect"
  <2>1. CASE r.password = Malformed
    BY <2>1 DEF Begin, NoResult
  <2>2. CASE r.password # Malformed
    BY <2>2 DEF Begin, NoResult
  <2> QED
    BY <2>1, <2>2
<1>2. workflows' \in 0..MaxWorkflows
  BY PairingAssumption DEF Kept, Begin
<1>3. secret' \in Password /\ before' \in Password
  BY DEF Kept, Begin
<1> QED
  BY <1>1, <1>2, <1>3 DEF Kept, StageOfKind, PairStage, UnpairStage

LEMMA FailuresKeepKept ==
    ASSUME PairingInv, Kept, PairUnreachable \/ AuthorizeFails \/ SetPasswordFails \/ VerifyFails \/ FactoryResetFails
    PROVE  Kept'
<1> USE DEF StageOfKind, Stage, PairStage, UnpairStage
<1>1. Types /\ PlaceFacts /\ secret \in Password
  BY DEF PairingInv, Kept
<1>2. ASSUME NEW s \in Stage, Fails(s) PROVE result'.stage = s
  <2>1. Record(s, FALSE) \in Result /\ Record(s, FALSE).stage = s
    BY <1>1, RecordEffect
  <2> QED
    BY <1>2, <2>1 DEF Fails, Result
<1>3. CASE PairUnreachable
  BY <1>1, <1>2, <1>3, StepKeepsKept DEF PairUnreachable
<1>4. CASE AuthorizeFails
  BY <1>1, <1>2, <1>4, StepKeepsKept DEF AuthorizeFails
<1>5. CASE SetPasswordFails
  <2>1. request.new \in Password
    BY <1>1, <1>5 DEF SetPasswordFails, PlaceFacts, Types, Request
  <2> QED
    BY <1>1, <1>2, <1>5, <2>1, StepKeepsKept DEF SetPasswordFails, PlaceFacts
<1>6. CASE VerifyFails
  BY <1>1, <1>2, <1>6, StepKeepsKept DEF VerifyFails, PlaceFacts
<1>7. CASE FactoryResetFails
  BY <1>1, <1>2, <1>7, StepKeepsKept, PairingAssumption DEF FactoryResetFails, PlaceFacts
<1> QED
  BY <1>3, <1>4, <1>5, <1>6, <1>7

LEMMA DeviceStagesKeepKept ==
    ASSUME PairingInv, Kept, Connects \/ UnpairUnreachable \/ Authorizes \/ SetsPassword \/ FactoryResets
    PROVE  Kept'
<1> USE DEF StageOfKind, Stage, PairStage, UnpairStage
<1>1. Types /\ PlaceFacts /\ secret \in Password
  BY DEF PairingInv, Kept
<1>2. \A s \in Stage, ok \in BOOLEAN : Record(s, ok) \in Result /\ Record(s, ok).stage = s
  BY <1>1, RecordEffect
<1>3. CASE Connects
  BY <1>1, <1>2, <1>3, StepKeepsKept DEF Connects
<1>4. CASE UnpairUnreachable
  BY <1>1, <1>2, <1>4, StepKeepsKept DEF UnpairUnreachable
<1>5. CASE Authorizes
  BY <1>1, <1>2, <1>5, StepKeepsKept DEF Authorizes, Succeeds
<1>6. CASE SetsPassword
  <2>1. request.new \in Password
    BY <1>1, <1>6 DEF SetsPassword, PlaceFacts, Types, Request
  <2> QED
    BY <1>1, <1>2, <1>6, <2>1, StepKeepsKept DEF SetsPassword, Succeeds, PlaceFacts
<1>7. CASE FactoryResets
  <2>1. result'.stage = "device_reset"
    BY <1>2, <1>7 DEF FactoryResets, Result
  <2>2. request.kind \in {"pair", "unpair"} /\ request.kind # "pair"
    BY <1>1, <1>7 DEF FactoryResets, PlaceFacts, Types, Request
  <2>3. secret' \in Password /\ UNCHANGED <<request, before, workflows>>
    BY <1>7, PairingAssumption DEF FactoryResets
  <2> QED
    BY <2>1, <2>2, <2>3, StepKeepsKept
<1> QED
  BY <1>3, <1>4, <1>5, <1>6, <1>7

LEMMA LastStagesKeepKept ==
    ASSUME PairingInv, Kept, PairsOS \/ UnpairsOS \/ OSFails \/ Verifies \/ Finishes
    PROVE  Kept'
<1> USE DEF StageOfKind, Stage, PairStage, UnpairStage
<1>1. Types /\ PlaceFacts /\ secret \in Password
  BY DEF PairingInv, Kept
<1>2. \A s \in Stage, ok \in BOOLEAN : Record(s, ok) \in Result /\ Record(s, ok).stage = s
  BY <1>1, RecordEffect
<1>3. CASE PairsOS
  <2>1. result'.stage = "os_pair"
    BY <1>2, <1>3 DEF PairsOS, Result
  <2> QED
    BY <1>1, <1>3, <2>1, StepKeepsKept DEF PairsOS, PlaceFacts
<1>4. CASE UnpairsOS
  <2>1. result'.stage = "os_unpair"
    <3>1. Record("os_unpair", TRUE) \in Result /\ Record("os_unpair", FALSE) \in Result
          /\ Record("os_unpair", TRUE).stage = "os_unpair" /\ Record("os_unpair", FALSE).stage = "os_unpair"
      BY <1>2
    <3>2. PICK performed \in BOOLEAN, manual \in BOOLEAN :
                 result' = [Record("os_unpair", performed) EXCEPT !.osUnpair = performed, !.manual = manual]
      BY <1>4 DEF UnpairsOS
    <3> HIDE DEF Stage
    <3> QED
      BY <3>1, <3>2 DEF Result
  <2> QED
    BY <1>1, <1>4, <2>1, StepKeepsKept DEF UnpairsOS, PlaceFacts
<1>5. CASE OSFails
  <2>1. result'.stage = place
    BY <1>2, <1>5 DEF OSFails, Result
  <2> QED
    BY <1>1, <1>5, <2>1, StepKeepsKept DEF OSFails, PlaceFacts
<1>6. CASE Verifies
  <2>1. result'.stage = "complete"
    BY <1>2, <1>6 DEF Verifies, Result
  <2> QED
    BY <1>1, <1>6, <2>1, StepKeepsKept DEF Verifies, PlaceFacts
<1>7. CASE Finishes
  <2>1. result'.stage = "complete"
    BY <1>1, <1>7 DEF Finishes, Types, Result
  <2> QED
    BY <1>1, <1>7, <2>1, StepKeepsKept DEF Finishes, PlaceFacts
<1> QED
  BY <1>3, <1>4, <1>5, <1>6, <1>7

(***************************************************************************)
(* Every reachable state of the workflows of client.go is well typed; in   *)
(* particular the stage a result names is one of its own workflow.         *)
(***************************************************************************)
THEOREM PairingTypeCorrectness == PairingSpec => []PairingTypeOK
<1>1. PairingInit => Kept
  BY PairingAssumption DEF PairingInit, Kept, NoResult, StageOfKind, PairStage
<1>2. PairingInv /\ Kept /\ [PairingNext]_pairingVars => Kept'
  <2> SUFFICES ASSUME PairingInv, Kept, [PairingNext]_pairingVars PROVE Kept'
    OBVIOUS
  <2>1. CASE \E r \in Request : Begin(r)
    BY <2>1, BeginKeepsKept
  <2>2. CASE UNCHANGED pairingVars
    BY <2>2 DEF pairingVars, Kept
  <2> QED
    BY <2>1, <2>2, FailuresKeepKept, DeviceStagesKeepKept, LastStagesKeepKept DEF PairingNext
<1>3. PairingInv /\ Kept => PairingTypeOK
  BY DEF PairingInv, Types, Places, Kept, StageOfKind, PairingTypeOK, Stage, PairStage, UnpairStage, Result, Entry
<1> QED
  BY <1>1, <1>2, <1>3, PairingInvariance, PTL DEF PairingSpec

----------------------------------------------------------------------------
(***************************************************************************)
(* DeviceNames.  The invariant says whose names each cache keeps, and that *)
(* what the transport remembers is no older than what has been made of it. *)
(***************************************************************************)
\* A name kept for device d: none, or one that d has or has had.
NameOf(name, d) == name = NoName \/ (name \in Name /\ name.device = d /\ name.n <= naming[d])

CachesAreOwn ==
    /\ \A d \in Tracker : NameOf(discovered[d], d) /\ NameOf(known[d], d)
    /\ selectedName = IF selected = NoTracker THEN NoName ELSE known[selected]
    /\ IF session.device = NoTracker THEN session.advertised = NoName ELSE NameOf(session.advertised, session.device)

\* The transport hears every name before the demo does, though it may have forgotten it.
TransportIsAhead ==
    /\ \A d \in Tracker : discovered[d] # NoName => discovered[d].n >= known[d].n
    /\ session.device \in Tracker /\ discovered[session.device] # NoName =>
          discovered[session.device].n >= session.advertised.n

NamesInv == NamesTypeOK /\ CachesAreOwn /\ TransportIsAhead /\ NamesAreOwn /\ ShownIsRecent

LEMMA Numbering ==
    ASSUME NamesInv
    PROVE  /\ naming \in [Tracker -> Nat]
           /\ \A d \in Tracker : Current(d) \in Name /\ NameOf(Current(d), d) /\ Current(d).n = naming[d]
           /\ \A d \in Tracker : Current(d) # NoName
           /\ NoName.n = 0 /\ NoName.device = NoTracker
<1>1. naming \in [Tracker -> 1..MaxNames]
  BY DEF NamesInv, NamesTypeOK
<1>2. ASSUME NEW d \in Tracker
      PROVE  Current(d) \in Name /\ NameOf(Current(d), d) /\ Current(d).n = naming[d] /\ Current(d).n # 0
  BY <1>1, NamesAssumption DEF Current, Name, NameOf
<1> QED
  BY <1>1, <1>2, NamesAssumption DEF NoName

\* A name of a device is no newer than its present one.
LEMMA NamesAreOld ==
    ASSUME NamesInv, NEW d \in Tracker, NEW name, NameOf(name, d)
    PROVE  name \in Name \cup {NoName} /\ name.n \in Nat /\ name.n <= naming[d] /\ name.device \in {d, NoTracker}
<1>1. naming[d] \in Nat
  BY Numbering
<1>2. CASE name = NoName
  BY <1>1, <1>2 DEF NoName
<1>3. CASE name # NoName
  BY <1>3, NamesAssumption DEF NameOf, Name
<1> QED
  BY <1>2, <1>3

\* What the transport remembers after a scan.
LEMMA ScanIsRemembered ==
    ASSUME NamesInv, NEW heard \in Heard, NEW d \in Tracker
    PROVE  /\ Remembers(heard)[d] \in {discovered[d], NoName, Current(d)}
           /\ heard[d] = "named" => Remembers(heard)[d] = Current(d)
           /\ Remembers(heard) \in [Tracker -> Name \cup {NoName}]
<1>1. \A e \in Tracker : Remembers(heard)[e] \in {discovered[e], NoName, Current(e)}
  BY DEF Remembers, NameIn
<1>2. \A e \in Tracker : Current(e) \in Name /\ discovered[e] \in Name \cup {NoName}
  BY Numbering DEF NamesInv, NamesTypeOK
<1>3. Remembers(heard) \in [Tracker -> Name \cup {NoName}]
  BY <1>1, <1>2 DEF Remembers
<1> QED
  BY <1>1, <1>3 DEF Remembers, NameIn

LEMMA InitNamesInv == NamesInit => NamesInv
<1> SUFFICES ASSUME NamesInit PROVE NamesInv
  OBVIOUS
<1>1. NamesTypeOK
  BY NamesAssumption DEF NamesInit, NamesTypeOK
<1>2. CachesAreOwn /\ TransportIsAhead
  BY NamesAssumption DEF NamesInit, CachesAreOwn, NameOf, TransportIsAhead
<1>3. NamesAreOwn /\ ShownIsRecent
  BY DEF NamesInit, NamesAreOwn, ShownIsRecent, NoName
<1> QED
  BY <1>1, <1>2, <1>3 DEF NamesInv

LEMMA RenameKeepsNamesInv ==
    ASSUME NamesInv, NEW d \in Tracker, Rename(d)
    PROVE  NamesInv'
<1>1. /\ naming \in [Tracker -> 1..MaxNames] /\ naming' = [naming EXCEPT ![d] = @ + 1] /\ naming[d] < MaxNames
      /\ UNCHANGED <<discovered, known, selected, selectedName, session, shown, latest>>
  BY DEF Rename, NamesInv, NamesTypeOK
<1>2. naming' \in [Tracker -> 1..MaxNames] /\ \A e \in Tracker : naming[e] <= naming'[e]
  BY <1>1, NamesAssumption
<1>3. NamesTypeOK'
  BY <1>1, <1>2 DEF NamesInv, NamesTypeOK
<1>4. CachesAreOwn'
  <2>1. \A e \in Tracker : NameOf(discovered[e], e)' /\ NameOf(known[e], e)'
    <3> SUFFICES ASSUME NEW e \in Tracker PROVE NameOf(discovered[e], e)' /\ NameOf(known[e], e)'
      OBVIOUS
    <3>1. NameOf(discovered[e], e) /\ NameOf(known[e], e)
      BY DEF NamesInv, CachesAreOwn
    <3> QED
      BY <1>1, <1>2, <3>1, NamesAssumption DEF NameOf, Name
  <2>2. session.device # NoTracker => NameOf(session.advertised, session.device)'
    <3> SUFFICES ASSUME session.device # NoTracker PROVE NameOf(session.advertised, session.device)'
      OBVIOUS
    <3>1. session.device \in Tracker /\ NameOf(session.advertised, session.device)
      BY DEF NamesInv, CachesAreOwn, NamesTypeOK
    <3> QED
      BY <1>1, <1>2, <3>1, NamesAssumption DEF NameOf, Name
  <2> QED
    BY <1>1, <2>1, <2>2 DEF NamesInv, CachesAreOwn
<1>5. TransportIsAhead' /\ NamesAreOwn' /\ ShownIsRecent'
  BY <1>1 DEF NamesInv, TransportIsAhead, NamesAreOwn, ShownIsRecent
<1> QED
  BY <1>3, <1>4, <1>5 DEF NamesInv

(***************************************************************************)
(* A step that leaves names, session and what was shown as they are keeps  *)
(* the invariant if it leaves the caches in order.                         *)
(***************************************************************************)
LEMMA CachesKeepNamesInv ==
    ASSUME NamesInv, UNCHANGED <<naming, session, shown, latest>>,
           discovered' \in [Tracker -> Name \cup {NoName}], known' \in [Tracker -> Name \cup {NoName}],
           \A d \in Tracker : discovered'[d] \in {discovered[d], NoName, Current(d)},
           \A d \in Tracker : known'[d] = known[d] \/ (known'[d] = Current(d) /\ discovered'[d] = Current(d)),
           selected' \in Tracker \cup {NoTracker},
           selectedName' = IF selected' = NoTracker THEN NoName ELSE known'[selected']
    PROVE  NamesInv'
<1>1. ASSUME NEW d \in Tracker
      PROVE  /\ NameOf(discovered[d], d) /\ NameOf(known[d], d)
             /\ NameOf(discovered'[d], d) /\ NameOf(known'[d], d)
             /\ discovered'[d] # NoName => discovered'[d].n >= known'[d].n
  <2>1. NameOf(discovered[d], d) /\ NameOf(known[d], d) /\ NameOf(NoName, d) /\ NameOf(Current(d), d)
    BY Numbering DEF NamesInv, CachesAreOwn, NameOf
  <2>2. discovered[d] # NoName => discovered[d].n >= known[d].n
    BY DEF NamesInv, TransportIsAhead
  <2>3. known[d].n \in Nat /\ known[d].n <= naming[d] /\ Current(d).n = naming[d] /\ naming[d] \in Nat
    BY <2>1, NamesAreOld, Numbering
  <2> QED
    BY <2>1, <2>2, <2>3
<1>2. CachesAreOwn'
  <2>1. \A d \in Tracker : NameOf(discovered[d], d)' /\ NameOf(known[d], d)'
    BY <1>1 DEF NameOf
  <2>2. IF session.device = NoTracker THEN session.advertised = NoName
        ELSE NameOf(session.advertised, session.device)'
    BY DEF NamesInv, CachesAreOwn, NameOf
  <2> QED
    BY <2>1, <2>2 DEF CachesAreOwn
<1>3. NamesTypeOK'
  <2>1. selectedName' \in Name \cup {NoName}
    OBVIOUS
  <2> QED
    BY <2>1 DEF NamesInv, NamesTypeOK
<1>4. TransportIsAhead'
  <2>1. ASSUME session.device \in Tracker, discovered'[session.device] # NoName
        PROVE  discovered'[session.device].n >= session.advertised.n
    <3> DEFINE d == session.device
    <3>1. NameOf(session.advertised, d)
      BY <2>1, NamesAssumption DEF NamesInv, CachesAreOwn
    <3>2. session.advertised.n \in Nat /\ session.advertised.n <= naming[d] /\ Current(d).n = naming[d]
          /\ naming[d] \in Nat
      BY <2>1, <3>1, NamesAreOld, Numbering
    <3>3. discovered[d] # NoName => discovered[d].n >= session.advertised.n
      BY <2>1 DEF NamesInv, TransportIsAhead
    <3> QED
      BY <2>1, <3>2, <3>3
  <2> QED
    BY <1>1, <2>1 DEF TransportIsAhead
<1>5. NamesAreOwn' /\ ShownIsRecent'
  BY DEF NamesInv, NamesAreOwn, ShownIsRecent
<1> QED
  BY <1>2, <1>3, <1>4, <1>5 DEF NamesInv

LEMMA ListKeepsNamesInv ==
    ASSUME NamesInv, List
    PROVE  NamesInv'
<1>1. PICK heard \in Heard :
          /\ discovered' = Remembers(heard)
          /\ ListsDevices(heard) \/ UNCHANGED <<known, selected, selectedName>>
  BY DEF List
<1>2. UNCHANGED <<naming, session, shown, latest>>
  BY DEF List
<1>3. /\ discovered' \in [Tracker -> Name \cup {NoName}]
      /\ \A d \in Tracker : discovered'[d] \in {discovered[d], NoName, Current(d)}
      /\ \A d \in Tracker : heard[d] = "named" => discovered'[d] = Current(d)
  <2>1. ASSUME NEW d \in Tracker
        PROVE  /\ Remembers(heard)[d] \in {discovered[d], NoName, Current(d)}
               /\ heard[d] = "named" => Remembers(heard)[d] = Current(d)
    BY ScanIsRemembered
  <2>2. Remembers(heard) \in [Tracker -> Name \cup {NoName}]
    <3>1. CASE Tracker = {}
      BY <3>1 DEF Remembers
    <3>2. CASE Tracker # {}
      BY <3>2, ScanIsRemembered
    <3> QED
      BY <3>1, <3>2
  <2> QED
    BY <1>1, <2>1, <2>2
<1>4. /\ selected \in Tracker \cup {NoTracker} /\ known \in [Tracker -> Name \cup {NoName}]
      /\ selectedName = IF selected = NoTracker THEN NoName ELSE known[selected]
  BY DEF NamesInv, NamesTypeOK, CachesAreOwn
<1>5. CASE UNCHANGED <<known, selected, selectedName>>
  BY <1>2, <1>3, <1>4, <1>5, CachesKeepNamesInv
<1>6. CASE ListsDevices(heard)
  <2>1. /\ known' = RememberDevices(heard)
        /\ \A d \in Tracker : known'[d] = IF heard[d] = "named" THEN Current(d) ELSE known[d]
    BY <1>6 DEF ListsDevices, RememberDevices
  <2>2. known' \in [Tracker -> Name \cup {NoName}]
    BY <1>4, <2>1, Numbering DEF RememberDevices
  <2>3. \A d \in Tracker : known'[d] = known[d] \/ (known'[d] = Current(d) /\ discovered'[d] = Current(d))
    BY <1>3, <2>1
  <2>4. /\ selected' \in Tracker \cup {NoTracker}
        /\ selectedName' = IF selected' = NoTracker THEN NoName ELSE known'[selected']
    BY <1>4, <1>6, <2>1, NamesAssumption DEF ListsDevices, SetSelectedDevice
  <2> QED
    BY <1>2, <1>3, <2>2, <2>3, <2>4, CachesKeepNamesInv
<1> QED
  BY <1>1, <1>5, <1>6

LEMMA SelectKeepsNamesInv ==
    ASSUME NamesInv, NEW d \in Tracker, Select(d)
    PROVE  NamesInv'
<1>1. /\ UNCHANGED <<naming, discovered, known, session, shown, latest>>
      /\ selected' = d /\ selectedName' = known[d] /\ d # NoTracker
  BY NamesAssumption DEF Select, SetSelectedDevice
<1>2. discovered \in [Tracker -> Name \cup {NoName}] /\ known \in [Tracker -> Name \cup {NoName}]
  BY DEF NamesInv, NamesTypeOK
<1> QED
  BY <1>1, <1>2, CachesKeepNamesInv

LEMMA ConnectKeepsNamesInv ==
    ASSUME NamesInv, NEW d \in Tracker, Connect(d)
    PROVE  NamesInv'
<1>1. /\ UNCHANGED <<naming, known>>
      /\ selected' = d /\ selectedName' = known[d] /\ d # NoTracker
      /\ session' = [device |-> d, advertised |-> DeviceName(d)]
      /\ shown' = NoName /\ latest' = {}
  BY NamesAssumption DEF Connect, SetSelectedDevice
<1>2. DeviceName(d) = known[d]
  BY <1>1 DEF DeviceName, NamesInv, CachesAreOwn
<1>3. /\ known \in [Tracker -> Name \cup {NoName}] /\ discovered \in [Tracker -> Name \cup {NoName}]
      /\ naming \in [Tracker -> 1..MaxNames]
  BY DEF NamesInv, NamesTypeOK
<1>4. PICK heard \in Heard : discovered' = IF discovered[d] = NoName THEN Remembers(heard) ELSE discovered
  BY DEF Connect
<1>5. /\ discovered' \in [Tracker -> Name \cup {NoName}]
      /\ \A e \in Tracker : discovered'[e] \in {discovered[e], NoName, Current(e)}
  BY <1>3, <1>4, ScanIsRemembered
<1>6. ASSUME NEW e \in Tracker
      PROVE  /\ NameOf(known[e], e) /\ NameOf(discovered'[e], e)
             /\ discovered'[e] # NoName => discovered'[e].n >= known[e].n
  <2>1. NameOf(discovered[e], e) /\ NameOf(known[e], e) /\ NameOf(NoName, e) /\ NameOf(Current(e), e)
    BY Numbering DEF NamesInv, CachesAreOwn, NameOf
  <2>2. discovered[e] # NoName => discovered[e].n >= known[e].n
    BY DEF NamesInv, TransportIsAhead
  <2>3. known[e].n \in Nat /\ known[e].n <= naming[e] /\ Current(e).n = naming[e] /\ naming[e] \in Nat
    BY <2>1, NamesAreOld, Numbering
  <2> QED
    BY <1>5, <2>1, <2>2, <2>3
<1>7. CachesAreOwn'
  BY <1>1, <1>2, <1>6 DEF CachesAreOwn, NameOf
<1>8. TransportIsAhead'
  BY <1>1, <1>2, <1>6 DEF TransportIsAhead
<1>9. NamesTypeOK'
  BY <1>1, <1>2, <1>3, <1>5 DEF NamesTypeOK
<1>10. NamesAreOwn' /\ ShownIsRecent'
  <2>1. NoName.device = NoTracker /\ known[d].device \in {d, NoTracker}
    BY <1>6, NamesAreOld, Numbering
  <2> QED
    BY <1>1, <1>2, <2>1 DEF NamesAreOwn, ShownIsRecent
<1> QED
  BY <1>7, <1>8, <1>9, <1>10 DEF NamesInv

LEMMA ReadDeviceInfoKeepsNamesInv ==
    ASSUME NamesInv, ReadDeviceInfo
    PROVE  NamesInv'
<1> DEFINE d == session.device
<1>1. /\ d \in Tracker
      /\ UNCHANGED <<naming, known, selected, selectedName, session>>
      /\ latest' = {session.advertised} \cup (IF Tracing THEN {} ELSE {discovered[d]})
  BY DEF ReadDeviceInfo, NamesInv, NamesTypeOK
<1>2. /\ known \in [Tracker -> Name \cup {NoName}] /\ discovered \in [Tracker -> Name \cup {NoName}]
      /\ selected \in Tracker \cup {NoTracker}
      /\ selectedName = IF selected = NoTracker THEN NoName ELSE known[selected]
      /\ session.device \in Tracker \cup {NoTracker} /\ session.advertised \in Name \cup {NoName}
  BY DEF NamesInv, NamesTypeOK, CachesAreOwn
<1>3. NameOf(session.advertised, d) /\ NameOf(discovered[d], d)
  BY <1>1, NamesAssumption DEF NamesInv, CachesAreOwn
<1>4. /\ session.advertised.n \in Nat /\ session.advertised.n <= naming[d]
      /\ session.advertised.device \in {d, NoTracker}
      /\ discovered[d].n \in Nat /\ discovered[d].n <= naming[d]
      /\ discovered[d].device \in {d, NoTracker}
  BY <1>1, <1>3, NamesAreOld
<1>5. /\ Current(d) \in Name /\ Current(d).n = naming[d] /\ Current(d).device = d /\ Current(d) # NoName
      /\ naming[d] \in Nat /\ NoName.n = 0 /\ NoName.device = NoTracker
  BY <1>1, Numbering DEF Current
<1>6. discovered[d] # NoName => discovered[d].n >= session.advertised.n
  BY <1>1 DEF NamesInv, TransportIsAhead
<1> HIDE DEF d
<1>7. ASSUME NEW name \in Name \cup {NoName}, shown' = name, name.device \in {d, NoTracker},
             name.n \in Nat, name.n >= session.advertised.n, ~Tracing => name.n >= discovered[d].n,
             discovered' \in [Tracker -> Name \cup {NoName}],
             \A e \in Tracker : discovered'[e] \in {discovered[e], NoName, Current(e)}
      PROVE  NamesInv'
  <2>1. ASSUME NEW e \in Tracker
        PROVE  /\ NameOf(known[e], e) /\ NameOf(discovered'[e], e)
               /\ discovered'[e] # NoName => discovered'[e].n >= known[e].n
    <3>1. NameOf(discovered[e], e) /\ NameOf(known[e], e) /\ NameOf(NoName, e) /\ NameOf(Current(e), e)
      BY Numbering DEF NamesInv, CachesAreOwn, NameOf
    <3>2. discovered[e] # NoName => discovered[e].n >= known[e].n
      BY DEF NamesInv, TransportIsAhead
    <3>3. known[e].n \in Nat /\ known[e].n <= naming[e] /\ Current(e).n = naming[e] /\ naming[e] \in Nat
      BY <3>1, NamesAreOld, Numbering
    <3> QED
      BY <1>7, <3>1, <3>2, <3>3
  <2>2. CachesAreOwn'
    BY <1>1, <1>2, <1>3, <2>1, NamesAssumption DEF CachesAreOwn, NameOf, d
  <2>3. TransportIsAhead'
    <3>1. discovered'[d] # NoName => discovered'[d].n >= session.advertised.n
      BY <1>1, <1>4, <1>5, <1>6, <1>7
    <3> QED
      BY <1>1, <2>1, <3>1 DEF TransportIsAhead, d
  <2>4. latest' \subseteq Name \cup {NoName}
    BY <1>1, <1>2
  <2>5. NamesTypeOK'
    BY <1>1, <1>7, <2>4 DEF NamesInv, NamesTypeOK
  <2>6. NamesAreOwn'
    BY <1>1, <1>2, <1>4, <1>7 DEF NamesAreOwn, d
  <2>7. ShownIsRecent'
    BY <1>1, <1>7 DEF ShownIsRecent
  <2> QED
    BY <2>2, <2>3, <2>5, <2>6, <2>7 DEF NamesInv
<1>8. CASE shown' = Current(d) /\ UNCHANGED discovered
  BY <1>2, <1>4, <1>5, <1>7, <1>8
<1>9. ASSUME NEW heard \in Heard, NEW told \in {NoName, Current(d)},
             shown' = IF ReadAdvertisedName(heard, d) # NoName THEN ReadAdvertisedName(heard, d) ELSE told,
             discovered' = Remembers(heard)
      PROVE  NamesInv'
  <2>1. /\ discovered' \in [Tracker -> Name \cup {NoName}]
        /\ \A e \in Tracker : discovered'[e] \in {discovered[e], NoName, Current(e)}
    BY <1>1, <1>9, ScanIsRemembered
  <2>2. \/ shown' = Current(d)
        \/ shown' = discovered[d] /\ ~Tracing /\ discovered[d] # NoName
        \/ shown' = session.advertised /\ (Tracing \/ discovered[d] = NoName)
        \/ shown' = NoName /\ session.advertised = NoName /\ (Tracing \/ discovered[d] = NoName)
    BY <1>9 DEF ReadAdvertisedName, AdvertisedName
  <2> QED
    BY <1>1, <1>2, <1>4, <1>5, <1>6, <1>7, <2>1, <2>2
<1> QED
  BY <1>8, <1>9 DEF ReadDeviceInfo, d

LEMMA NextKeepsNamesInv == NamesInv /\ [NamesNext]_namesVars => NamesInv'
<1>1. ASSUME NamesInv, UNCHANGED namesVars PROVE NamesInv'
  BY <1>1 DEF namesVars, NamesInv, NamesTypeOK, CachesAreOwn, NameOf, TransportIsAhead, NamesAreOwn, ShownIsRecent
<1> QED
  BY <1>1, ListKeepsNamesInv, RenameKeepsNamesInv, SelectKeepsNamesInv, ConnectKeepsNamesInv,
     ReadDeviceInfoKeepsNamesInv DEF NamesNext

LEMMA NamesInvariance == NamesSpec => []NamesInv
BY InitNamesInv, NextKeepsNamesInv, PTL DEF NamesSpec

(***************************************************************************)
(* Every reachable state of the name caches is well typed.                 *)
(***************************************************************************)
THEOREM NamesTypeCorrectness == NamesSpec => []NamesTypeOK
BY NamesInvariance, PTL DEF NamesInv

(***************************************************************************)
(* For any devices, renamed as often as they like, traced or not: no       *)
(* device is shown under another one's name, and ReadDeviceInfo does not   *)
(* go back to a name older than those the session and the transport had.   *)
(***************************************************************************)
THEOREM NamesAreSound == NamesSpec => []NamesAreRight
<1>1. NamesInv => NamesAreRight
  BY DEF NamesInv, NamesAreRight
<1> QED
  BY <1>1, NamesInvariance, PTL
=============================================================================
