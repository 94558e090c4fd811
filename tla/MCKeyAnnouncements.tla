------------------------- MODULE MCKeyAnnouncements -------------------------
(***************************************************************************)
(* A small instance of KeyAnnouncements for TLC: two configurations, two   *)
(* commands of the window and two rotations.  The times keep the order of  *)
(* the real ones: 2 s, 5 s, 60 s, 600 s.                                   *)
(***************************************************************************)
EXTENDS KeyAnnouncements

MCConfigs == {"off", "on"}
=============================================================================
