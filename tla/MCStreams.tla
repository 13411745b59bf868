------------------------------ MODULE MCStreams ------------------------------
(***************************************************************************)
(* The event stream of a session and the demo that starts and stops such   *)
(* streams, for TLC.  The demo's model has its own account of a stream, so *)
(* the two share no state and one run checks their sum: a behaviour takes  *)
(* the steps of one of them, while the other stays as it began.            *)
(*                                                                         *)
(*   events  EventStream  two characteristics share an events channel, and *)
(*                        the device sends more notifications than the     *)
(*                        channels on their way to the consumer hold       *)
(*   demo    DemoApp      two devices, three sessions and two streams, so  *)
(*                        that each can replace another                    *)
(***************************************************************************)
EXTENDS EventStream, DemoApp

VARIABLE side

StreamsInit ==
    /\ side \in {"events", "demo"}
    /\ Init
    /\ DemoInit

StreamsNext ==
    /\ UNCHANGED side
    /\ \/ side = "events" /\ Next /\ UNCHANGED demoVars
       \/ side = "demo" /\ DemoNext /\ UNCHANGED vars

StreamsSpec ==
    /\ StreamsInit /\ [][StreamsNext]_<<side, vars, demoVars>>
    /\ Fairness /\ DemoFairness

----------------------------------------------------------------------------
\* Both models keep their types.
StreamsTypeOK == TypeOK /\ DemoTypeOK

=============================================================================
