-------------------------- MODULE DiscoveryHistory --------------------------
(***************************************************************************)
(* Discovery with a record of what has happened, to say what a peer that   *)
(* is shown verified has done to be so (src/src-tauri/src/discovery.rs).   *)
(*                                                                         *)
(* The three history variables follow the table and the rooms, never the   *)
(* probes, and restrict no step: they are the order in which a peer was    *)
(* announced from an address, the machine there was in a room, and this    *)
(* machine was in that room.                                               *)
(***************************************************************************)
EXTENDS Discovery

VARIABLES
  announced,  (* who has been announced from which address                 *)
  claimed,    (* ... whose machine was after that in which room            *)
  met         (* ... in which this machine was after that                  *)

history  == <<announced, claimed, met>>
fullVars == <<table, probe, todo, mine, there, announced, claimed, met>>

(* A peer, an address and a room.                                          *)
Grounds == Peers \X Addresses \X Rooms

(* What is the case now.                                                   *)
Announced == {x \in Targets : x[1] \in Known /\ table[x[1]].ip = x[2]}
Claimed   == {x \in Grounds : /\ <<x[1], x[2]>> \in announced
                             /\ there[x[2]] = x[3]}
Met       == {x \in claimed : x[3] = mine}

HistoryInit ==
  /\ Init
  /\ announced = {} /\ claimed = {} /\ met = {}

(* A room is noted as it is before the step, an announcement as it is      *)
(* after it.                                                               *)
HistoryNext ==
  /\ Next
  /\ announced' = announced \cup Announced'
  /\ claimed' = claimed \cup Claimed
  /\ met' = met \cup Met

HistorySpec == HistoryInit /\ [][HistoryNext]_fullVars

(* The history restricts nothing: without it this is Discovery.            *)
IsDiscovery == Spec

(* A green mark is earned: of a peer that is shown verified, some address  *)
(* it was announced from belonged to a machine that was then in a room     *)
(* this machine was in after that, whatever probes were under way, which   *)
(* addresses the peer has had, and whoever has changed rooms.              *)
VerifiedIsEarned ==
  \A p \in Peers : Shown(p) => \E x \in met : x[1] = p
=============================================================================
