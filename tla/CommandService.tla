--------------------------- MODULE CommandService ---------------------------
(***************************************************************************)
(* What a session promises the callers of its commands: the device serves  *)
(* one command at a time, executes it at most once between its call and    *)
(* its return, and the caller receives the device's answer to that command *)
(* or an error, never the answer to another one.                           *)
(***************************************************************************)
CONSTANTS
    Proc,    \* the callers
    NoProc   \* no command is being served

VARIABLES
    phase,    \* of each caller: "idle", "called", or "executed" by the device
    serving,  \* the caller whose command the device has executed and not yet answered
    got       \* what each caller's last call returned

vars == <<phase, serving, got>>

Init ==
    /\ phase = [p \in Proc |-> "idle"]
    /\ serving = NoProc
    /\ got = [p \in Proc |-> "nothing"]

Call(p) ==
    /\ phase[p] = "idle"
    /\ phase' = [phase EXCEPT ![p] = "called"]
    /\ got' = [got EXCEPT ![p] = "nothing"]
    /\ UNCHANGED serving

Execute(p) ==
    /\ phase[p] = "called"
    /\ serving = NoProc
    /\ serving' = p
    /\ phase' = [phase EXCEPT ![p] = "executed"]
    /\ UNCHANGED got

Answer(p) ==
    /\ phase[p] = "executed"
    /\ serving = p
    /\ serving' = NoProc
    /\ phase' = [phase EXCEPT ![p] = "idle"]
    /\ got' = [got EXCEPT ![p] = "answer"]

\* A call may fail before or after the device has executed its command.
Fail(p) ==
    /\ phase[p] \in {"called", "executed"}
    /\ serving' = IF serving = p THEN NoProc ELSE serving
    /\ phase' = [phase EXCEPT ![p] = "idle"]
    /\ got' = [got EXCEPT ![p] = "error"]

Next == \E p \in Proc : Call(p) \/ Execute(p) \/ Answer(p) \/ Fail(p)

Spec == Init /\ [][Next]_vars
=============================================================================
