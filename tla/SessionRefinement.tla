------------------------- MODULE SessionRefinement -------------------------
(***************************************************************************)
(* With a prompt transport and device, and as long as Authorize is kept    *)
(* apart, the polled command path implements CommandService.  opMu and the *)
(* position of a goroutine in its polling loops are hidden; a call counts  *)
(* as executed from the write that carried it to the device.               *)
(***************************************************************************)
EXTENDS SessionCommands

(***************************************************************************)
(* The circumstances: a prompt link, and a device that has an output for   *)
(* every command that is sent to read one.  Events and ReadHistory, which  *)
(* are not answered by one output, are left out.                           *)
(***************************************************************************)
PromptSession ==
    /\ Prompt
    /\ \A c \in Calls : c.op \in {"send", "read", "authorize"}
    /\ \A c \in Calls : c.op = "read" => Reply[c.code] # {}

\* The same, and nobody calls Authorize.
PromptCommands == PromptSession /\ \A c \in Calls : IsCommand(c)

(***************************************************************************)
(* Callers who keep Authorize apart, as the workflows of client.go do: it  *)
(* does not wait for its verdict while another call waits for its answer.  *)
(***************************************************************************)
Answering == {"status", "statusSleep", "output", "outputSleep", "verdict", "verdictSleep"}

VerdictsApart ==
    \A p, q \in Proc :
        p # q /\ pc[p] \in Answering /\ pc[q] \in Answering => IsCommand(call[p]) /\ IsCommand(call[q])

ApartSpec == Init /\ [][Next /\ VerdictsApart']_vars

ExecutedOwn(p) == \E e \in executed : e.req = RequestOf(p)

ServicePhase ==
    [p \in Proc |-> IF pc[p] = "idle" THEN "idle" ELSE IF ExecutedOwn(p) THEN "executed" ELSE "called"]

Served(p) == pc[p] # "idle" /\ ExecutedOwn(p)

ServiceServing ==
    IF \E p \in Proc : Served(p) THEN CHOOSE p \in Proc : Served(p) ELSE NoProc

\* A success or a rejection that came from another request is neither an answer nor an error.
OwnEvidence(p) ==
    /\ IsCommand(call[p]) => outcome[p].ack = RequestOf(p)
    /\ call[p].op \in {"read", "authorize"} /\ outcome[p].result = "ok" => outcome[p].from = RequestOf(p)

ServiceGot ==
    [p \in Proc |->
        IF pc[p] # "idle" \/ outcome[p].result = "none" THEN "nothing"
        ELSE IF outcome[p].result \notin {"ok", "rejected"} THEN "error"
        ELSE IF OwnEvidence(p) THEN "answer" ELSE "foreign answer"]

Service == INSTANCE CommandService WITH
              phase <- ServicePhase, serving <- ServiceServing, got <- ServiceGot

(***************************************************************************)
(* The command path of the session implements the atomic command service.  *)
(***************************************************************************)
ImplementsService == Service!Spec
=============================================================================
