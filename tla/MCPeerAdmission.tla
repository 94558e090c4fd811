--------------------------- MODULE MCPeerAdmission ---------------------------
(***************************************************************************)
(* A small instance of PeerAdmission for TLC: one worker thread, so that   *)
(* one of two connections waits for it, and a cache that one request more  *)
(* than it holds clears.                                                   *)
(***************************************************************************)
EXTENDS PeerAdmission, TLC

MCSymmetry ==
  Permutations(Conns) \cup Permutations(Rooms) \cup Permutations(Posts)
=============================================================================
