--------------------------- MODULE MCMacConnection ---------------------------
(***************************************************************************)
(* Two Subscribe calls of MacConnection on one characteristic, so that one *)
(* replaces the other.                                                     *)
(***************************************************************************)
EXTENDS MacConnection

CONSTANTS s1, s2, facets

==============================================================================
