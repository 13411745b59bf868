------------------------------ MODULE MCDemoApp ------------------------------
(***************************************************************************)
(* A user of DemoApp who does not wait: one session, and two streams, so   *)
(* that one replaces the other.                                            *)
(***************************************************************************)
EXTENDS DemoApp

CONSTANTS d1, s1, t1, t2

==============================================================================
