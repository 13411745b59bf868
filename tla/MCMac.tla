-------------------------------- MODULE MCMac --------------------------------
(***************************************************************************)
(* The two models of the macOS backend for TLC.  They share no state, so   *)
(* one run checks their sum: a behaviour takes the steps of one of them,   *)
(* while the other stays as it began.                                      *)
(*                                                                         *)
(*   connection  MacConnection  two Subscribe calls on two characteristics *)
(*   transport   MacTransport   two calls, with two devices in range       *)
(***************************************************************************)
EXTENDS MacConnection, MacTransport

VARIABLE backend

MacInit ==
    /\ backend \in {"connection", "transport"}
    /\ Init
    /\ TransportInit

MacNext ==
    /\ UNCHANGED backend
    /\ \/ backend = "connection" /\ Next /\ UNCHANGED transportVars
       \/ backend = "transport" /\ TransportNext /\ UNCHANGED vars

MacSpec ==
    /\ MacInit /\ [][MacNext]_<<backend, vars, transportVars>>
    /\ ConnectionFairness /\ TransportFairness

----------------------------------------------------------------------------
\* Both models keep their types.
MacTypeOK == TypeOK /\ TransportTypeOK

=============================================================================
