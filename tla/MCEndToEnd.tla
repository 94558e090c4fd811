----------------------------- MODULE MCEndToEnd -----------------------------
(***************************************************************************)
(* A small instance of EndToEnd for TLC.                                   *)
(***************************************************************************)
EXTENDS EndToEnd

CONSTANTS d1, e1
=============================================================================
