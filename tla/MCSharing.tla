----------------------------- MODULE MCSharing ------------------------------
(***************************************************************************)
(* A small instance of Sharing for TLC: two processor shares besides 0 and *)
(* no memory limit or one.                                                 *)
(***************************************************************************)
EXTENDS Sharing

MCCpus == {0, 50, 100}
MCRams == {0, 512}
MCDefaultLimit == [cpu |-> 50, ram |-> 0]
=============================================================================
