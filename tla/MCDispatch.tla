----------------------------- MODULE MCDispatch -----------------------------
(***************************************************************************)
(* A small instance of Dispatch for TLC.                                   *)
(***************************************************************************)
EXTENDS Dispatch

CONSTANT d1
=============================================================================
