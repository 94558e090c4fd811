----------------------------- MODULE Discovery ------------------------------
(***************************************************************************)
(* The table of peers of one machine and their verification                *)
(* (src/src-tauri/src/discovery.rs).                                       *)
(*                                                                         *)
(* One thread browses mDNS and is the only one that inserts and removes    *)
(* records.  Every new peer gets a probe thread, and a loop probes all     *)
(* peers again; both ask the machine at the address they read some time    *)
(* ago and write `verified` to whatever record the peer has by then.  Who  *)
(* announces what from where, who is in which room and which probes get an *)
(* answer is up to the environment.                                        *)
(***************************************************************************)
EXTENDS Naturals, FiniteSets

CONSTANTS
  Peers,      (* instance names of the other machines                      *)
  Hostnames,  (* what they announce as their hostname                      *)
  Addresses,  (* where they are                                            *)
  NoAddress,  (* an announcement without an IPv4 address                   *)
  Rooms,      (* the rooms, by their key                                   *)
  NoRoom,     (* not in a room                                             *)
  MaxPeers,   (* MAX_PEERS                                                 *)
  FirstProbes,(* bound: probe threads of new peers that run at a time      *)
  Loop,       (* the re-verification loop                                  *)
  None        (* no record, no probe                                       *)

ASSUME AddressAssumption == NoAddress \notin Addresses
ASSUME RoomAssumption == NoRoom \notin Rooms
ASSUME ThreadAssumption == Loop \notin FirstProbes
ASSUME LimitAssumption == MaxPeers \in Nat

VARIABLES
  table,   (* the record of each peer                                      *)
  probe,   (* what each verifying thread is working on                     *)
  todo,    (* the rest of the snapshot of the loop                         *)
  mine,    (* the room of this machine                                     *)
  there    (* the room of the machine at each address                      *)

vars == <<table, probe, todo, mine, there>>

Threads == FirstProbes \cup {Loop}
Targets == Peers \X Addresses

Entry == [host : Hostnames, ip : Addresses \cup {NoAddress},
          verified : BOOLEAN, conflict : BOOLEAN]

(* A request to the machine at an address about a peer; key is the room    *)
(* the answer was made with, while it is not yet compared.                 *)
Probe == [target : Targets, phase : {"ask", "answered", "yes", "no"},
          key : Rooms \cup {NoRoom}]

ASSUME NoneAssumption == None \notin Entry \cup Probe

Known == {p \in Peers : table[p] # None}

Init ==
  /\ table = [p \in Peers |-> None]
  /\ probe = [t \in Threads |-> None]
  /\ todo = {}
  /\ mine \in Rooms \cup {NoRoom}
  /\ there \in [Addresses -> Rooms \cup {NoRoom}]

-----------------------------------------------------------------------------
(* The browsing thread.  It takes the lock of the table several times per  *)
(* event, but what it reads is changed by itself only.                     *)

(* Fault: a name that was claimed once is trusted from then on.            *)
FaultConflictKept(p, h, i) ==
  IF table[p] # None THEN table[p].conflict
  ELSE \E q \in Known \ {p} : table[q].host = h /\ table[q].ip # i

(* Another peer announced this hostname from another address.              *)
HostnameConflict(p, h, i) ==
  \E q \in Known \ {p} : table[q].host = h /\ table[q].ip # i

Probing(target) == [target |-> target, phase |-> "ask", key |-> NoRoom]

(* ServiceResolved: the record is written anew, unverified.  Only a peer   *)
(* that was not in the table gets a probe, and only if it has an address.  *)
(* An announcement that comes less than two seconds after the last one of  *)
(* its peer is dropped, and so is a new peer when the table is full.       *)
Resolve(p, h, i) ==
  /\ p \in Known \/ Cardinality(Known) < MaxPeers
  /\ table' = [table EXCEPT ![p] =
       [host |-> h, ip |-> i, verified |-> FALSE,
        conflict |-> HostnameConflict(p, h, i)]]
  /\ IF p \in Known \/ i = NoAddress
     THEN UNCHANGED probe
     ELSE \E t \in FirstProbes :
            /\ probe[t] = None
            /\ probe' = [probe EXCEPT ![t] = Probing(<<p, i>>)]
  /\ UNCHANGED <<todo, mine, there>>

(* ServiceRemoved.                                                         *)
Remove(p) ==
  /\ p \in Known
  /\ table' = [table EXCEPT ![p] = None]
  /\ UNCHANGED <<probe, todo, mine, there>>

-----------------------------------------------------------------------------
(* probe_verify, in a probe thread or in the loop.                         *)

(* The machine at the address proves that it has the key of its room.      *)
Answer(t) ==
  /\ probe[t] # None /\ probe[t].phase = "ask"
  /\ there[probe[t].target[2]] # NoRoom
  /\ probe' = [probe EXCEPT ![t].phase = "answered",
                            ![t].key = there[probe[t].target[2]]]
  /\ UNCHANGED <<table, todo, mine, there>>

(* It is in no room, the answer does not parse, or none comes within three *)
(* seconds.                                                                *)
NoAnswer(t) ==
  /\ probe[t] # None /\ probe[t].phase = "ask"
  /\ probe' = [probe EXCEPT ![t].phase = "no"]
  /\ UNCHANGED <<table, todo, mine, there>>

(* The answer is compared with what the room of this machine gives now.    *)
Check(t) ==
  /\ probe[t] # None /\ probe[t].phase = "answered"
  /\ probe' = [probe EXCEPT
       ![t].phase = IF probe[t].key = mine THEN "yes" ELSE "no",
       ![t].key = NoRoom]
  /\ UNCHANGED <<table, todo, mine, there>>

(* Fault: a probe that fails leaves the record as it is.                   *)
FaultOnlySuccessCounts(p, ok) == table[p].verified \/ ok

Verified(p, ok) == ok

(* The result goes to the record the peer has by now, if it has one.       *)
Write(t) ==
  /\ probe[t] # None /\ probe[t].phase \in {"yes", "no"}
  /\ LET p == probe[t].target[1] IN
     table' = IF p \notin Known THEN table
              ELSE [table EXCEPT ![p].verified =
                      Verified(p, probe[t].phase = "yes")]
  /\ probe' = [probe EXCEPT ![t] = None]
  /\ UNCHANGED <<todo, mine, there>>

-----------------------------------------------------------------------------
(* The re-verification loop.                                               *)

(* Fault: peers that are not verified are not asked again.                 *)
FaultOnlyVerified(p) == table[p].ip # NoAddress /\ table[p].verified

(* Fault: a peer without an address is asked as well.                      *)
FaultEveryPeer(p) == TRUE

Asked(p) == table[p].ip # NoAddress

Snapshot ==
  /\ probe[Loop] = None /\ todo = {}
  /\ todo' = {<<p, table[p].ip>> : p \in {q \in Known : Asked(q)}}
  /\ UNCHANGED <<table, probe, mine, there>>

NextTarget ==
  /\ probe[Loop] = None
  /\ \E target \in todo :
       /\ todo' = todo \ {target}
       /\ probe' = [probe EXCEPT ![Loop] = Probing(target)]
  /\ UNCHANGED <<table, mine, there>>

-----------------------------------------------------------------------------
(* create_room, join_room and leave_room, here and at the peers.           *)

ChangeMine ==
  /\ mine' \in (Rooms \cup {NoRoom}) \ {mine}
  /\ UNCHANGED <<table, probe, todo, there>>

ChangeThere(i) ==
  /\ \E r \in (Rooms \cup {NoRoom}) \ {there[i]} :
       there' = [there EXCEPT ![i] = r]
  /\ UNCHANGED <<table, probe, todo, mine>>

-----------------------------------------------------------------------------
Proceed(t) == Answer(t) \/ NoAnswer(t) \/ Check(t) \/ Write(t)
LoopStep == Snapshot \/ NextTarget

Next ==
  \/ \E p \in Peers : \/ \E h \in Hostnames, i \in Addresses \cup {NoAddress} :
                           Resolve(p, h, i)
                      \/ Remove(p)
  \/ \E t \in Threads : Proceed(t)
  \/ LoopStep
  \/ ChangeMine
  \/ \E i \in Addresses : ChangeThere(i)

Spec == Init /\ [][Next]_vars

(* Probe threads and the loop run, every request ends at its timeout.      *)
Fairness ==
  WF_vars(LoopStep) /\ \A t \in Threads : WF_vars(Proceed(t))

FairSpec == Spec /\ Fairness

-----------------------------------------------------------------------------
(* Properties.                                                             *)

(* The types; the table has its limit, and no request goes to a peer that  *)
(* has no address.                                                         *)
TypeOK ==
  /\ table \in [Peers -> Entry \cup {None}]
  /\ Cardinality(Known) <= MaxPeers
  /\ probe \in [Threads -> Probe \cup {None}]
  /\ todo \subseteq Targets
  /\ mine \in Rooms \cup {NoRoom}
  /\ there \in [Addresses -> Rooms \cup {NoRoom}]

(* Of two peers that claim one hostname from different addresses at least  *)
(* one is marked, in whatever order they announced, moved, were removed    *)
(* and came back.                                                          *)
OneClaimant ==
  \A p, q \in Known :
    table[p].host = table[q].host /\ table[p].ip # table[q].ip =>
      table[p].conflict \/ table[q].conflict

(* Assumption of the two properties below: rooms stop changing.            *)
RoomsSettle == <>[][FALSE]_<<mine, there>>

HasAddress(p) == p \in Known /\ table[p].ip \in Addresses
InMyRoom(p) == HasAddress(p) /\ mine # NoRoom /\ there[table[p].ip] = mine
Outsider(p) == HasAddress(p) /\ ~InMyRoom(p)
Shown(p) == p \in Known /\ table[p].verified

(* A peer that has left the room, or whose room this machine has left, is  *)
(* not shown verified for ever, whatever probes of the time before are     *)
(* still under way and however often it announces itself.  A peer without  *)
(* an address is never asked again and keeps what its last probe said.     *)
OutsiderIsDropped ==
  RoomsSettle =>
    \A p \in Peers : <>[]Outsider(p) => <>[]~Shown(p)

(* Only what was asked or compared before the last change of a room can be *)
(* wrong about it: while rooms stay, no probe comes to favour a machine    *)
(* that is not in the room of this one, so such probes run out.            *)
Favours(t) ==
  /\ probe[t] # None
  /\ \/ probe[t].phase = "yes"
     \/ probe[t].phase = "answered" /\ probe[t].key = mine
Outside(i) == mine = NoRoom \/ there[i] # mine
Misled(t) == Favours(t) /\ Outside(probe[t].target[2])
StaleAnswersRunOut ==
  [][UNCHANGED <<mine, there>> =>
       \A t \in Threads : Misled(t)' => Misled(t)]_vars

(* A peer of the room is verified again after every announcement that      *)
(* reset it, also without a probe of its own, if probes are answered.      *)
ProbesAnswered == <>[][\A t \in Threads : ~NoAnswer(t)]_vars
MemberIsVerified ==
  RoomsSettle /\ ProbesAnswered =>
    \A p \in Peers : <>[]InMyRoom(p) => []<>Shown(p)
=============================================================================
