--------------------------- MODULE MCMacTransport ----------------------------
(***************************************************************************)
(* One call of MacTransport and two devices, so that one is found which is *)
(* not the one asked for.                                                  *)
(***************************************************************************)
EXTENDS MacTransport

CONSTANTS c1, d1, d2

==============================================================================
