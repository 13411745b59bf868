------------------------------ MODULE Pairing ------------------------------
(***************************************************************************)
(* Client.Pair and Client.Unpair (client.go): staged workflows on one      *)
(* device.  Each stage is a call of the session or of the transport that   *)
(* may fail, and one that changes the device may fail before or after the  *)
(* device has done it: the acknowledgement can be lost.  A client runs one *)
(* workflow after the other; what an earlier one left on the device is     *)
(* what the next one finds.                                                *)
(***************************************************************************)
EXTENDS Naturals, Sequences

CONSTANTS
    Password,    \* six-character passwords
    Default,     \* the factory password, one of them
    NoPassword,  \* an empty password in a request, none of them
    Malformed,   \* a password that is not six characters long, another value
    MaxWorkflows \* bound on the workflows of a behaviour

ASSUME PairingAssumption ==
    /\ Default \in Password
    /\ MaxWorkflows \in Nat

VARIABLES
    place,     \* the stage in progress, "ready" before a workflow and "returned" after one
    request,   \* the request it serves
    result,    \* the result it builds
    connected, \* is its session open?
    secret,    \* the password of the device
    before,    \* that password when the workflow began
    wasReset,  \* has the device been reset by this workflow?
    workflows  \* workflows begun

pairingVars == <<place, request, result, connected, secret, before, wasReset, workflows>>

Given == Password \cup {NoPassword, Malformed}

Request ==
    [kind : {"pair"}, password : Given, new : Password \cup {NoPassword}, reset : {FALSE}, os : BOOLEAN]
    \cup [kind : {"unpair"}, password : Given, new : {NoPassword}, reset : BOOLEAN, os : BOOLEAN]

PairStage   == {"connect", "os_pair", "authorize", "set_password", "verify", "complete"}
UnpairStage == {"connect", "authorize", "device_reset", "os_unpair", "complete"}
Stage       == PairStage \cup UnpairStage

NoResult ==
    [stage |-> "connect", stages |-> <<>>, completed |-> FALSE, manual |-> FALSE,
     deviceReset |-> FALSE, osUnpair |-> FALSE, err |-> FALSE]

PairingInit ==
    /\ place = "ready"
    /\ request = [kind |-> "pair", password |-> NoPassword, new |-> NoPassword, reset |-> FALSE, os |-> FALSE]
    /\ result = NoResult
    /\ connected = FALSE
    /\ secret \in Password
    /\ before = secret
    /\ wasReset = FALSE
    /\ workflows = 0

----------------------------------------------------------------------------
(***************************************************************************)
(* The helpers of a workflow.                                              *)
(***************************************************************************)
passwordOrDefault(p) == IF p = NoPassword THEN Default ELSE p

\* The password a paired device should have.
Wanted(r) == IF r.new = NoPassword THEN passwordOrDefault(r.password) ELSE r.new

NeedsDeviceAccess(r) == r.kind = "pair" \/ r.password # NoPassword \/ r.reset

\* A stage is recorded, and result.Stage names it.
Record(s, ok) == [result EXCEPT !.stage = s, !.stages = Append(@, [stage |-> s, completed |-> ok])]

\* The deferred session.Close runs when the workflow returns.
Returning == place' = "returned" /\ connected' = FALSE

Fails(s) ==
    /\ result' = [Record(s, FALSE) EXCEPT !.err = TRUE]
    /\ Returning

Succeeds(s, next) ==
    /\ result' = Record(s, TRUE)
    /\ place' = next
    /\ UNCHANGED connected

\* Mutant of Completed: a reset that was skipped because the device is offline does not count.
CompletedOffline(r) ==
    /\ r.reset /\ connected => result.deviceReset
    /\ r.os => result.osUnpair \/ result.manual

Completed(r) ==
    /\ r.reset => result.deviceReset
    /\ r.os => result.osUnpair \/ result.manual

----------------------------------------------------------------------------
(***************************************************************************)
(* Beginning.                                                              *)
(***************************************************************************)
Begin(r) ==
    /\ place \in {"ready", "returned"}
    /\ workflows < MaxWorkflows
    /\ workflows' = workflows + 1
    /\ request' = r
    /\ before' = secret
    /\ wasReset' = FALSE
    /\ IF r.password = Malformed
       THEN \* Refused before anything is asked of the device; result.Stage still says connect.
            /\ result' = [NoResult EXCEPT !.stages = <<[stage |-> "authorize", completed |-> FALSE]>>, !.err = TRUE]
            /\ place' = "returned"
       ELSE /\ result' = NoResult
            /\ place' = IF NeedsDeviceAccess(r) THEN "connect" ELSE IF r.os THEN "os_unpair" ELSE "finish"
    /\ UNCHANGED <<connected, secret>>

Connects ==
    /\ place = "connect"
    /\ connected' = TRUE
    /\ result' = Record("connect", TRUE)
    /\ place' = IF request.kind = "pair" /\ request.os THEN "os_pair" ELSE "authorize"
    /\ UNCHANGED <<request, secret, before, wasReset, workflows>>

PairUnreachable ==
    /\ place = "connect"
    /\ request.kind = "pair"
    /\ Fails("connect")
    /\ UNCHANGED <<request, secret, before, wasReset, workflows>>

\* An unpairing goes on without the device.
UnpairUnreachable ==
    /\ place = "connect"
    /\ request.kind = "unpair"
    /\ result' = Record("connect", FALSE)
    /\ place' = IF request.os THEN "os_unpair" ELSE "finish"
    /\ UNCHANGED <<request, connected, secret, before, wasReset, workflows>>

----------------------------------------------------------------------------
(***************************************************************************)
(* The stages on the device.                                               *)
(***************************************************************************)
AfterAuthorize ==
    IF request.kind = "pair" THEN IF request.new # NoPassword THEN "set_password" ELSE "verify"
    ELSE IF request.reset THEN "device_reset"
    ELSE IF request.os THEN "os_unpair"
    ELSE "finish"

Authorizes ==
    /\ place = "authorize"
    /\ passwordOrDefault(request.password) = secret
    /\ Succeeds("authorize", AfterAuthorize)
    /\ UNCHANGED <<request, secret, before, wasReset, workflows>>

\* Mutant of AuthorizeFails: this return forgets the session.
AuthorizeFailsOpen ==
    /\ place = "authorize"
    /\ result' = [Record("authorize", FALSE) EXCEPT !.err = TRUE]
    /\ place' = "returned"
    /\ UNCHANGED <<request, connected, secret, before, wasReset, workflows>>

\* The password is wrong, or the link fails.
AuthorizeFails ==
    /\ place = "authorize"
    /\ Fails("authorize")
    /\ UNCHANGED <<request, secret, before, wasReset, workflows>>

SetsPassword ==
    /\ place = "set_password"
    /\ secret' = request.new
    /\ Succeeds("set_password", "verify")
    /\ UNCHANGED <<request, before, wasReset, workflows>>

\* Mutant of SetPasswordFails: the failed stage is not recorded.
SetPasswordFailsSilently ==
    /\ place = "set_password"
    /\ secret' \in {secret, request.new}
    /\ result' = [result EXCEPT !.err = TRUE]
    /\ Returning
    /\ UNCHANGED <<request, before, wasReset, workflows>>

\* Mutant of SetPasswordFails: the error is dropped.
SetPasswordFailsForgiven ==
    /\ place = "set_password"
    /\ secret' \in {secret, request.new}
    /\ Succeeds("set_password", "verify")
    /\ UNCHANGED <<request, before, wasReset, workflows>>

\* The command may have been executed all the same.
SetPasswordFails ==
    /\ place = "set_password"
    /\ secret' \in {secret, request.new}
    /\ Fails("set_password")
    /\ UNCHANGED <<request, before, wasReset, workflows>>

Verifies ==
    /\ place = "verify"
    /\ result' = [Record("verify", TRUE) EXCEPT !.stage = "complete", !.completed = TRUE]
    /\ Returning
    /\ UNCHANGED <<request, secret, before, wasReset, workflows>>

\* Mutant of VerifyFails: completion is reported before the verification.
VerifyFailsCompleted ==
    /\ place = "verify"
    /\ result' = [Record("verify", FALSE) EXCEPT !.completed = TRUE, !.err = TRUE]
    /\ Returning
    /\ UNCHANGED <<request, secret, before, wasReset, workflows>>

VerifyFails ==
    /\ place = "verify"
    /\ Fails("verify")
    /\ UNCHANGED <<request, secret, before, wasReset, workflows>>

FactoryResets ==
    /\ place = "device_reset"
    /\ secret' = Default
    /\ wasReset' = TRUE
    /\ result' = [Record("device_reset", TRUE) EXCEPT !.deviceReset = TRUE]
    /\ place' = IF request.os THEN "os_unpair" ELSE "finish"
    /\ UNCHANGED <<request, connected, before, workflows>>

FactoryResetFails ==
    /\ place = "device_reset"
    /\ \/ UNCHANGED <<secret, wasReset>>
       \/ secret' = Default /\ wasReset' = TRUE
    /\ Fails("device_reset")
    /\ UNCHANGED <<request, before, workflows>>

----------------------------------------------------------------------------
(***************************************************************************)
(* The stages of the operating system: performed, left to the user with a  *)
(* manual action, not performed and nothing said, or failed.               *)
(***************************************************************************)
PairsOS ==
    /\ place = "os_pair"
    /\ \E performed, manual \in BOOLEAN :
          result' = [Record("os_pair", performed) EXCEPT !.manual = manual]
    /\ place' = "authorize"
    /\ UNCHANGED <<request, connected, secret, before, wasReset, workflows>>

UnpairsOS ==
    /\ place = "os_unpair"
    /\ \E performed, manual \in BOOLEAN :
          result' = [Record("os_unpair", performed) EXCEPT !.osUnpair = performed, !.manual = manual]
    /\ place' = "finish"
    /\ UNCHANGED <<request, connected, secret, before, wasReset, workflows>>

OSFails ==
    /\ place \in {"os_pair", "os_unpair"}
    /\ \E manual \in BOOLEAN : result' = [Record(place, FALSE) EXCEPT !.err = TRUE, !.manual = manual]
    /\ Returning
    /\ UNCHANGED <<request, secret, before, wasReset, workflows>>

Finishes ==
    /\ place = "finish"
    /\ result' = [result EXCEPT !.completed = Completed(request), !.stage = "complete"]
    /\ Returning
    /\ UNCHANGED <<request, secret, before, wasReset, workflows>>

PairingNext ==
    \/ \E r \in Request : Begin(r)
    \/ Connects \/ PairUnreachable \/ UnpairUnreachable
    \/ Authorizes \/ AuthorizeFails
    \/ SetsPassword \/ SetPasswordFails
    \/ Verifies \/ VerifyFails
    \/ FactoryResets \/ FactoryResetFails
    \/ PairsOS \/ UnpairsOS \/ OSFails
    \/ Finishes

PairingSpec == PairingInit /\ [][PairingNext]_pairingVars

----------------------------------------------------------------------------
Returned(kind) == place = "returned" /\ request.kind = kind

PairingTypeOK ==
    /\ place \in {"ready", "returned", "finish"} \cup (Stage \ {"complete"})
    /\ request \in Request
    /\ result \in [stage : Stage, stages : Seq([stage : Stage, completed : BOOLEAN]),
                   completed : BOOLEAN, manual : BOOLEAN, deviceReset : BOOLEAN, osUnpair : BOOLEAN, err : BOOLEAN]
    /\ result.stage \in IF request.kind = "pair" THEN PairStage ELSE UnpairStage
    /\ connected \in BOOLEAN
    /\ secret \in Password
    /\ before \in Password
    /\ wasReset \in BOOLEAN
    /\ workflows \in 0..MaxWorkflows

(***************************************************************************)
(* No return path leaks the session, and none goes on talking to a device  *)
(* it is not connected to.                                                 *)
(***************************************************************************)
SessionReleased ==
    /\ place \in {"ready", "returned"} => ~connected
    /\ place \in {"authorize", "set_password", "verify", "device_reset"} => connected

(***************************************************************************)
(* A completed pairing leaves a device that opens with the password the    *)
(* caller asked for.                                                       *)
(***************************************************************************)
PairedDeviceOpens == Returned("pair") /\ result.completed => secret = Wanted(request)

(***************************************************************************)
(* Whatever is lost on the way, a caller can tell from the result which    *)
(* passwords the device may have, and so what a retry must try: if no      *)
(* stage that changes the password is recorded the device still has the    *)
(* old one, if one is recorded as completed it has the one that stage      *)
(* sets, and otherwise it has one of the two.                              *)
(***************************************************************************)
PasswordStage == IF request.kind = "pair" THEN "set_password" ELSE "device_reset"
PasswordSet   == IF request.kind = "pair" THEN request.new ELSE Default

RecordedAs(ok) == \E i \in 1..Len(result.stages) : result.stages[i] = [stage |-> PasswordStage, completed |-> ok]

PasswordCanBeTold ==
    place = "returned" =>
        /\ RecordedAs(TRUE) => secret = PasswordSet
        /\ RecordedAs(FALSE) => secret \in {before, PasswordSet}
        /\ ~RecordedAs(TRUE) /\ ~RecordedAs(FALSE) => secret = before

(***************************************************************************)
(* An unpairing that reports completion has reset the device if that was   *)
(* asked, even when parts of the workflow were skipped or left to the user.*)
(***************************************************************************)
CompletedMeansReset == Returned("unpair") /\ result.completed /\ request.reset => wasReset

(***************************************************************************)
(* An error and completion exclude each other, and the error of a workflow *)
(* that got past its inputs is that of the last stage recorded, which      *)
(* result.Stage names.                                                     *)
(***************************************************************************)
ErrorNamesItsStage ==
    place = "returned" /\ result.err /\ request.password # Malformed =>
        /\ ~result.completed
        /\ result.stages[Len(result.stages)] = [stage |-> result.stage, completed |-> FALSE]

(***************************************************************************)
(* The result of a workflow is true of the device: PairedDeviceOpens,      *)
(* PasswordCanBeTold, CompletedMeansReset and ErrorNamesItsStage.          *)
(***************************************************************************)
ResultIsTrue == PairedDeviceOpens /\ PasswordCanBeTold /\ CompletedMeansReset /\ ErrorNamesItsStage

=============================================================================
