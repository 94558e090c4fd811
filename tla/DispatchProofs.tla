--------------------------- MODULE DispatchProofs ---------------------------
(***************************************************************************)
(* Theorems about Dispatch, for any set of dispatches and any number of    *)
(* restarts: what the user is told of a task is true and final, a dispatch *)
(* that has returned is settled, and no reference outlives its dispatch.   *)
(***************************************************************************)
EXTENDS Dispatch, TLAPS

USE DEF Queued, Running, Completed, Failed, Cancelled, Absent,
        Active, Terminal, Statuses

-----------------------------------------------------------------------------
(* The invariant.                                                          *)

PeerTypeOK ==
  /\ known \subseteq Dispatches
  /\ record \in [Dispatches -> Statuses \cup {Absent}]
  /\ outcome \in [Dispatches -> {Peer!Unsettled, Completed, Failed}]

Over == {"clear", "done"}

(* How far a dispatch is, and what its record, its reference, the answer   *)
(* it works on and the snapshot can be at that point.                      *)
Life(d) ==
  /\ pc[d] = "accepted" => d \in known
  /\ d \in refs => d \in known /\ pc[d] \in Polling \cup Ending
  /\ pc[d] = "ok" => view[d] \in Terminal
  /\ pc[d] \in Over => status[d] \notin Active
  /\ pc[d] = "idle" => status[d] = Absent /\ disk[d] = Absent
  /\ status[d] \in {Completed, Failed} => pc[d] \in Over
  /\ disk[d] \in {Completed, Failed} =>
       pc[d] \in Over /\ status[d] \in {disk[d], Cancelled, Absent}

(* Wherever Completed is written, the command has succeeded.               *)
Truth(d) ==
  Completed \in {status[d], disk[d], view[d], record[d]} =>
    outcome[d] = Completed

IInv ==
  /\ TypeOK
  /\ PeerTypeOK
  /\ \A d \in Dispatches : Life(d) /\ Truth(d)

-----------------------------------------------------------------------------
(* Steps that concern one dispatch.                                        *)

(* Everything a dispatch e is about stays as it is.                        *)
Same(e) ==
  /\ pc'[e] = pc[e] /\ status'[e] = status[e] /\ view'[e] = view[e]
  /\ disk'[e] = disk[e] /\ (e \in refs' => e \in refs)
  /\ record'[e] = record[e] /\ outcome'[e] = outcome[e]
  /\ e \in known => e \in known'

LEMMA Untouched ==
  ASSUME NEW e \in Dispatches, Life(e), Truth(e), Same(e)
  PROVE  Life(e)' /\ Truth(e)'
BY DEF Life, Truth, Same

LEMMA OneDispatch ==
  ASSUME IInv, TypeOK', PeerTypeOK', NEW d \in Dispatches,
         \A e \in Dispatches \ {d} : Same(e),
         Life(d)' /\ Truth(d)'
  PROVE  IInv'
<1> SUFFICES ASSUME NEW e \in Dispatches PROVE Life(e)' /\ Truth(e)'
  BY DEF IInv
<1>1. CASE e = d BY <1>1
<1>2. CASE e # d BY <1>2, Untouched DEF IInv
<1> QED BY <1>1, <1>2

LEMMA InitInv == Init => IInv
<1> SUFFICES ASSUME Init PROVE IInv
  OBVIOUS
<1> USE DEF Init, Peer!Init, Peer!Absent, Peer!Unsettled
<1>1. TypeOK BY RestartAssumption DEF TypeOK, Locations
<1>2. PeerTypeOK BY DEF PeerTypeOK
<1>3. ASSUME NEW d \in Dispatches PROVE Life(d) /\ Truth(d)
  BY DEF Life, Truth, Over
<1> QED BY <1>1, <1>2, <1>3 DEF IInv

(* The variables of the peer keep their types when it does not move.       *)
LEMMA PeerRests == PeerTypeOK /\ UNCHANGED peer => PeerTypeOK'
BY DEF PeerTypeOK, peer

(* The thread of a dispatch goes on, its deadline passes, or its record is *)
(* removed.                                                                *)
LEMMA ThreadKeeps ==
  ASSUME IInv, NEW d \in Dispatches,
         \/ Add(d) \/ Proceed(d) \/ Accepted(d) \/ Poll(d)
         \/ Deadline(d) \/ RemoveFinished(d)
  PROVE  IInv'
<1>0. TypeOK /\ PeerTypeOK /\ Life(d) /\ Truth(d) BY DEF IInv
<1>1. CASE Add(d)
  <2> USE DEF Add, Put, peer, wire
  <2>1. TypeOK' BY <1>0, <1>1
    DEF TypeOK, PeerTypeOK, Locations, Waiting, Polling, Ending
  <2>2. PeerTypeOK' BY <1>0, <1>1, PeerRests
  <2>3. \A e \in Dispatches \ {d} : Same(e) BY <1>0, <1>1 DEF Same, TypeOK
  <2>4. Life(d)' /\ Truth(d)'
    BY <1>0, <1>1 DEF Life, Truth, TypeOK, Over, Polling, Ending
  <2> QED BY <2>1, <2>2, <2>3, <2>4, OneDispatch
<1>2. CASE Post(d)
  <2> USE DEF Post, peer, wire
  <2>1. TypeOK' BY <1>0, <1>2
    DEF TypeOK, PeerTypeOK, Locations, Waiting, Polling, Ending
  <2>2. PeerTypeOK' BY <1>0, <1>2, PeerRests
  <2>3. \A e \in Dispatches \ {d} : Same(e) BY <1>0, <1>2 DEF Same, TypeOK
  <2>4. Life(d)' /\ Truth(d)'
    BY <1>0, <1>2 DEF Life, Truth, TypeOK, Over, Polling, Ending
  <2> QED BY <2>1, <2>2, <2>3, <2>4, OneDispatch
<1>3. CASE PostFails(d)
  <2> USE DEF PostFails, peer, wire
  <2>1. TypeOK' BY <1>0, <1>3
    DEF TypeOK, PeerTypeOK, Locations, Waiting, Polling, Ending
  <2>2. PeerTypeOK' BY <1>0, <1>3, PeerRests
  <2>3. \A e \in Dispatches \ {d} : Same(e) BY <1>0, <1>3 DEF Same, TypeOK
  <2>4. Life(d)' /\ Truth(d)'
    BY <1>0, <1>3 DEF Life, Truth, TypeOK, Over, Polling, Ending
  <2> QED BY <2>1, <2>2, <2>3, <2>4, OneDispatch
<1>4. CASE RememberRef(d)
  <2> USE DEF RememberRef, peer, wire
  <2>1. TypeOK' BY <1>0, <1>4
    DEF TypeOK, PeerTypeOK, Locations, Waiting, Polling, Ending
  <2>2. PeerTypeOK' BY <1>0, <1>4, PeerRests
  <2>3. \A e \in Dispatches \ {d} : Same(e) BY <1>0, <1>4 DEF Same, TypeOK
  <2>4. Life(d)' /\ Truth(d)'
    BY <1>0, <1>4 DEF Life, Truth, TypeOK, Over, Polling, Ending
  <2> QED BY <2>1, <2>2, <2>3, <2>4, OneDispatch
<1>5. CASE ShowRunning(d)
  <2> USE DEF ShowRunning, Put, Set, peer, wire
  <2>1. TypeOK' BY <1>0, <1>5
    DEF TypeOK, PeerTypeOK, Locations, Waiting, Polling, Ending
  <2>2. PeerTypeOK' BY <1>0, <1>5, PeerRests
  <2>3. \A e \in Dispatches \ {d} : Same(e) BY <1>0, <1>5 DEF Same, TypeOK
  <2>4. Life(d)' /\ Truth(d)'
    BY <1>0, <1>5 DEF Life, Truth, TypeOK, Over, Polling, Ending
  <2> QED BY <2>1, <2>2, <2>3, <2>4, OneDispatch
<1>6. CASE GiveUp(d)
  <2> USE DEF GiveUp, Hopeless, peer, wire
  <2>1. TypeOK' BY <1>0, <1>6
    DEF TypeOK, PeerTypeOK, Locations, Waiting, Polling, Ending
  <2>2. PeerTypeOK' BY <1>0, <1>6, PeerRests
  <2>3. \A e \in Dispatches \ {d} : Same(e) BY <1>0, <1>6 DEF Same, TypeOK
  <2>4. Life(d)' /\ Truth(d)'
    BY <1>0, <1>6 DEF Life, Truth, TypeOK, Over, Polling, Ending
  <2> QED BY <2>1, <2>2, <2>3, <2>4, OneDispatch
<1>7. CASE Mirror(d)
  <2> USE DEF Mirror, Put, Set, peer, wire
  <2>1. TypeOK' BY <1>0, <1>7
    DEF TypeOK, PeerTypeOK, Locations, Waiting, Polling, Ending
  <2>2. PeerTypeOK' BY <1>0, <1>7, PeerRests
  <2>3. \A e \in Dispatches \ {d} : Same(e) BY <1>0, <1>7 DEF Same, TypeOK
  <2>4. Life(d)' /\ Truth(d)'
    BY <1>0, <1>7 DEF Life, Truth, TypeOK, Over, Polling, Ending
  <2> QED BY <2>1, <2>2, <2>3, <2>4, OneDispatch
<1>8. CASE Replace(d)
  <2> USE DEF Replace, Put, FinalStatus, peer, wire
  <2>1. TypeOK' BY <1>0, <1>8
    DEF TypeOK, PeerTypeOK, Locations, Waiting, Polling, Ending
  <2>2. PeerTypeOK' BY <1>0, <1>8, PeerRests
  <2>3. \A e \in Dispatches \ {d} : Same(e) BY <1>0, <1>8 DEF Same, TypeOK
  <2>4. Life(d)' /\ Truth(d)'
    BY <1>0, <1>8 DEF Life, Truth, TypeOK, Over, Polling, Ending
  <2> QED BY <2>1, <2>2, <2>3, <2>4, OneDispatch
<1>9. CASE SetFailed(d)
  <2> USE DEF SetFailed, Put, Set, FailedStatus, peer, wire
  <2>1. TypeOK' BY <1>0, <1>9
    DEF TypeOK, PeerTypeOK, Locations, Waiting, Polling, Ending
  <2>2. PeerTypeOK' BY <1>0, <1>9, PeerRests
  <2>3. \A e \in Dispatches \ {d} : Same(e) BY <1>0, <1>9 DEF Same, TypeOK
  <2>4. Life(d)' /\ Truth(d)'
    BY <1>0, <1>9 DEF Life, Truth, TypeOK, Over, Polling, Ending
  <2> QED BY <2>1, <2>2, <2>3, <2>4, OneDispatch
<1>10. CASE ClearRef(d)
  <2> USE DEF ClearRef, RefsWithout, peer, wire
  <2>1. TypeOK' BY <1>0, <1>10
    DEF TypeOK, PeerTypeOK, Locations, Waiting, Polling, Ending
  <2>2. PeerTypeOK' BY <1>0, <1>10, PeerRests
  <2>3. \A e \in Dispatches \ {d} : Same(e) BY <1>0, <1>10 DEF Same, TypeOK
  <2>4. Life(d)' /\ Truth(d)'
    BY <1>0, <1>10 DEF Life, Truth, TypeOK, Over, Polling, Ending
  <2> QED BY <2>1, <2>2, <2>3, <2>4, OneDispatch
<1>11. CASE Accepted(d)
  <2> USE DEF Accepted, peer, wire
  <2>1. TypeOK' BY <1>0, <1>11
    DEF TypeOK, PeerTypeOK, Locations, Waiting, Polling, Ending
  <2>2. PeerTypeOK' BY <1>0, <1>11, PeerRests
  <2>3. \A e \in Dispatches \ {d} : Same(e) BY <1>0, <1>11 DEF Same, TypeOK
  <2>4. Life(d)' /\ Truth(d)'
    BY <1>0, <1>11 DEF Life, Truth, TypeOK, Over, Polling, Ending
  <2> QED BY <2>1, <2>2, <2>3, <2>4, OneDispatch
<1>12. CASE Poll(d)
  <2> USE DEF Poll, peer, wire
  <2>1. TypeOK' BY <1>0, <1>12
    DEF TypeOK, PeerTypeOK, Locations, Waiting, Polling, Ending
  <2>2. PeerTypeOK' BY <1>0, <1>12, PeerRests
  <2>3. \A e \in Dispatches \ {d} : Same(e) BY <1>0, <1>12 DEF Same, TypeOK
  <2>4. Life(d)' /\ Truth(d)'
    BY <1>0, <1>12 DEF Life, Truth, TypeOK, Over, Polling, Ending
  <2> QED BY <2>1, <2>2, <2>3, <2>4, OneDispatch
<1>13. CASE Deadline(d)
  <2> USE DEF Deadline, peer, wire
  <2>1. TypeOK' BY <1>0, <1>13
    DEF TypeOK, PeerTypeOK, Locations, Waiting, Polling, Ending
  <2>2. PeerTypeOK' BY <1>0, <1>13, PeerRests
  <2>3. \A e \in Dispatches \ {d} : Same(e) BY <1>0, <1>13 DEF Same, TypeOK
  <2>4. Life(d)' /\ Truth(d)'
    BY <1>0, <1>13 DEF Life, Truth, TypeOK, Over, Polling, Ending
  <2> QED BY <2>1, <2>2, <2>3, <2>4, OneDispatch
<1>14. CASE RemoveFinished(d)
  <2> USE DEF RemoveFinished, Put, RefsWithout, peer, wire
  <2>1. TypeOK' BY <1>0, <1>14
    DEF TypeOK, PeerTypeOK, Locations, Waiting, Polling, Ending
  <2>2. PeerTypeOK' BY <1>0, <1>14, PeerRests
  <2>3. \A e \in Dispatches \ {d} : Same(e) BY <1>0, <1>14 DEF Same, TypeOK
  <2>4. Life(d)' /\ Truth(d)'
    BY <1>0, <1>14 DEF Life, Truth, TypeOK, Over, Polling, Ending
  <2> QED BY <2>1, <2>2, <2>3, <2>4, OneDispatch
<1> QED
  BY <1>1, <1>2, <1>3, <1>4, <1>5, <1>6, <1>7, <1>8, <1>9,
     <1>10, <1>11, <1>12, <1>13, <1>14
     DEF Proceed

(* The cancel calls, up to the answer of the peer.                         *)
LEMMA CancelKeeps ==
  ASSUME IInv, NEW k \in Calls, LookUp(k) \/ CancelStep(k) PROVE IInv'
<1> DEFINE d == k[1]
<1>0. d \in Dispatches /\ TypeOK /\ PeerTypeOK /\ Life(d) /\ Truth(d)
  BY DEF IInv, Calls
<1>1. CASE LookUp(k)
  <2> USE DEF LookUp, peer, wire
  <2>1. TypeOK' BY <1>0, <1>1 DEF TypeOK
  <2>2. PeerTypeOK' BY <1>0, <1>1, PeerRests
  <2>3. \A e \in Dispatches \ {d} : Same(e) BY <1>0, <1>1 DEF Same, TypeOK
  <2>4. Life(d)' /\ Truth(d)' BY <1>0, <1>1 DEF Life, Truth, TypeOK
  <2> QED BY <1>0, <2>1, <2>2, <2>3, <2>4, OneDispatch
<1>2. CASE MarkLocally(k)
  <2> USE DEF MarkLocally, Put, Set, peer, wire
  <2>1. TypeOK' BY <1>0, <1>2 DEF TypeOK
  <2>2. PeerTypeOK' BY <1>0, <1>2, PeerRests
  <2>3. \A e \in Dispatches \ {d} : Same(e) BY <1>0, <1>2 DEF Same, TypeOK
  <2>4. Life(d)' /\ Truth(d)' BY <1>0, <1>2 DEF Life, Truth, TypeOK
  <2> QED BY <1>0, <2>1, <2>2, <2>3, <2>4, OneDispatch
<1>3. CASE Acknowledge(k)
  <2> USE DEF Acknowledge, Put, Set, RefsWithout, peer, wire
  <2>1. TypeOK' BY <1>0, <1>3 DEF TypeOK
  <2>2. PeerTypeOK' BY <1>0, <1>3, PeerRests
  <2>3. \A e \in Dispatches \ {d} : Same(e) BY <1>0, <1>3 DEF Same, TypeOK
  <2>4. Life(d)' /\ Truth(d)' BY <1>0, <1>3 DEF Life, Truth, TypeOK
  <2> QED BY <1>0, <2>1, <2>2, <2>3, <2>4, OneDispatch
<1>4. CASE NoAnswer(k)
  <2> USE DEF NoAnswer, peer, wire
  <2>1. TypeOK' BY <1>0, <1>4 DEF TypeOK
  <2>2. PeerTypeOK' BY <1>0, <1>4, PeerRests
  <2>3. \A e \in Dispatches \ {d} : Same(e) BY <1>0, <1>4 DEF Same, TypeOK
  <2>4. Life(d)' /\ Truth(d)' BY <1>0, <1>4 DEF Life, Truth, TypeOK
  <2> QED BY <1>0, <2>1, <2>2, <2>3, <2>4, OneDispatch
<1>5. CASE CancelFails(k)
  <2> USE DEF CancelFails, Put, Set, peer, wire
  <2>1. TypeOK' BY <1>0, <1>5 DEF TypeOK
  <2>2. PeerTypeOK' BY <1>0, <1>5, PeerRests
  <2>3. \A e \in Dispatches \ {d} : Same(e) BY <1>0, <1>5 DEF Same, TypeOK
  <2>4. Life(d)' /\ Truth(d)' BY <1>0, <1>5 DEF Life, Truth, TypeOK
  <2> QED BY <1>0, <2>1, <2>2, <2>3, <2>4, OneDispatch
<1> QED BY <1>1, <1>2, <1>3, <1>4, <1>5 DEF CancelStep

-----------------------------------------------------------------------------
(* The peer and the wire.                                                  *)

(* What the peer may do: it knows more, an outcome stays, and a record     *)
(* shows Completed only of a command that has succeeded.                   *)
PeerMoves ==
  /\ known \subseteq known'
  /\ \A d \in Dispatches :
       /\ outcome[d] = Completed => outcome'[d] = Completed
       /\ record'[d] = Completed => record[d] = Completed
                                     \/ outcome'[d] = Completed

LEMMA LedgerMoves ==
  ASSUME PeerTypeOK,
         \/ PeerStep
         \/ \E d \in Dispatches : Peer!Accept(d) \/ Peer!Cancel(d)
  PROVE  PeerTypeOK' /\ PeerMoves
<1> USE DEF PeerTypeOK, PeerMoves, Peer!Unsettled, Peer!Queued, Peer!Running,
            Peer!Completed, Peer!Failed, Peer!Cancelled, Peer!Absent,
            Peer!Active, Peer!Terminal
<1>1. ASSUME NEW d \in Dispatches, Peer!Accept(d)
      PROVE  PeerTypeOK' /\ PeerMoves
  BY <1>1 DEF Peer!Accept
<1>2. ASSUME NEW d \in Dispatches, Peer!Cancel(d)
      PROVE  PeerTypeOK' /\ PeerMoves
  BY <1>2 DEF Peer!Cancel
<1>3. ASSUME NEW d \in Dispatches, Peer!Execute(d)
      PROVE  PeerTypeOK' /\ PeerMoves
  BY <1>3 DEF Peer!Execute
<1>4. ASSUME NEW d \in Dispatches, Peer!Settle(d)
      PROVE  PeerTypeOK' /\ PeerMoves
  BY <1>4 DEF Peer!Settle
<1>5. ASSUME NEW d \in Dispatches, Peer!Report(d)
      PROVE  PeerTypeOK' /\ PeerMoves
  BY <1>5 DEF Peer!Report
<1>6. ASSUME NEW d \in Dispatches, Peer!Remove(d)
      PROVE  PeerTypeOK' /\ PeerMoves
  BY <1>6 DEF Peer!Remove
<1>7. CASE Peer!Recover BY <1>7 DEF Peer!Recover
<1> QED BY <1>1, <1>2, <1>3, <1>4, <1>5, <1>6, <1>7 DEF PeerStep

(* A step of the peer leaves this machine alone.                           *)
LEMMA PeerKeeps ==
  ASSUME IInv, TypeOK', PeerTypeOK', PeerMoves,
         UNCHANGED <<status, refs, pc, view, disk>>
  PROVE  IInv'
<1> SUFFICES ASSUME NEW d \in Dispatches PROVE Life(d)' /\ Truth(d)'
  BY DEF IInv
<1> QED BY DEF IInv, PeerMoves, Life, Truth

LEMMA WireKeeps ==
  ASSUME IInv,
         \/ PeerStep
         \/ \E d \in Dispatches : DeliverPost(d) \/ LosePost(d)
         \/ \E k \in Calls : DeliverDelete(k) \/ LoseDelete(k)
  PROVE  IInv'
<1>0. TypeOK /\ PeerTypeOK BY DEF IInv
<1>1. CASE PeerStep
  <2>1. TypeOK' BY <1>0, <1>1 DEF PeerStep, TypeOK, wire
  <2>2. PeerTypeOK' /\ PeerMoves BY <1>0, <1>1, LedgerMoves
  <2> QED BY <1>1, <2>1, <2>2, PeerKeeps DEF PeerStep
<1>2. ASSUME NEW d \in Dispatches, DeliverPost(d) PROVE IInv'
  <2>1. TypeOK' BY <1>0, <1>2 DEF DeliverPost, TypeOK
  <2>2. PeerTypeOK' /\ PeerMoves
    BY <1>0, <1>2, LedgerMoves DEF DeliverPost
  <2> QED BY <1>2, <2>1, <2>2, PeerKeeps DEF DeliverPost
<1>3. ASSUME NEW k \in Calls, DeliverDelete(k) PROVE IInv'
  <2>1. TypeOK' BY <1>0, <1>3 DEF DeliverDelete, TypeOK
  <2>2. k[1] \in Dispatches BY DEF Calls
  <2>3. PeerTypeOK' /\ PeerMoves
    BY <1>0, <1>3, <2>2, LedgerMoves DEF DeliverDelete
  <2> QED BY <1>3, <2>1, <2>3, PeerKeeps DEF DeliverDelete
<1>4. CASE \/ \E d \in Dispatches : LosePost(d)
           \/ \E k \in Calls : LoseDelete(k)
  <2> USE DEF LosePost, LoseDelete
  <2>1. TypeOK' BY <1>0, <1>4 DEF TypeOK
  <2>2. UNCHANGED peer BY <1>4
  <2>3. PeerTypeOK' /\ PeerMoves
    BY <1>0, <2>2, PeerRests DEF PeerMoves, peer
  <2> QED BY <1>4, <2>1, <2>3, PeerKeeps
<1> QED BY <1>1, <1>2, <1>3, <1>4

-----------------------------------------------------------------------------
(* The room, the snapshot and the restart.                                 *)

LEMMA MachineKeeps ==
  ASSUME IInv, ChangeRoom \/ Persist \/ Restart \/ UNCHANGED vars
  PROVE  IInv'
<1>0. TypeOK /\ PeerTypeOK /\ \A d \in Dispatches : Life(d) /\ Truth(d)
  BY DEF IInv
<1>1. CASE ChangeRoom \/ UNCHANGED vars
  <2> USE DEF ChangeRoom, vars, wire
  <2>1. TypeOK' BY <1>0, <1>1 DEF TypeOK
  <2>2. UNCHANGED peer BY <1>1
  <2>3. PeerTypeOK' /\ PeerMoves
    BY <1>0, <2>2, PeerRests DEF PeerMoves, peer
  <2> QED BY <1>1, <2>1, <2>3, PeerKeeps
<1>2. CASE Persist
  <2> USE DEF Persist, wire
  <2>1. TypeOK' BY <1>0, <1>2 DEF TypeOK
  <2>2. PeerTypeOK' BY <1>0, <1>2, PeerRests
  <2>3. ASSUME NEW d \in Dispatches PROVE Life(d)' /\ Truth(d)'
    BY <1>0, <1>2 DEF Life, Truth, TypeOK, peer
  <2> QED BY <2>1, <2>2, <2>3 DEF IInv
<1>3. CASE Restart
  <2> USE DEF Restart, wire, Loaded
  <2>1. TypeOK' BY <1>0, <1>3 DEF TypeOK, Locations
  <2>2. PeerTypeOK' BY <1>0, <1>3, PeerRests
  <2>3. ASSUME NEW d \in Dispatches PROVE Life(d)' /\ Truth(d)'
    BY <1>0, <1>3 DEF Life, Truth, TypeOK, peer, Over
  <2> QED BY <2>1, <2>2, <2>3 DEF IInv
<1> QED BY <1>1, <1>2, <1>3

LEMMA NextInv == IInv /\ [Next]_vars => IInv'
BY ThreadKeeps, CancelKeeps, WireKeeps, MachineKeeps DEF Next

-----------------------------------------------------------------------------
(* The theorems.                                                           *)

LEMMA SpecInv == Spec => []IInv
<1> QED BY InitInv, NextInv, PTL DEF Spec

(* The variables of the submitting side keep their types.                  *)
THEOREM TypeCorrect == Spec => []TypeOK
<1>1. IInv => TypeOK BY DEF IInv
<1> QED BY SpecInv, <1>1, PTL

(* Completed is shown only of a command that succeeded on the peer.        *)
THEOREM OutcomesAreTrue == Spec => []ReportedOutcomeIsTrue
<1>1. IInv => ReportedOutcomeIsTrue
  BY DEF IInv, Truth, ReportedOutcomeIsTrue
<1> QED BY SpecInv, <1>1, PTL

(* A dispatch that has returned shows nothing as active.                   *)
THEOREM ReturnedIsSettled == Spec => []DoneIsSettled
<1>1. IInv => DoneIsSettled BY DEF IInv, Life, Over, DoneIsSettled
<1> QED BY SpecInv, <1>1, PTL

(* A reference belongs to a task the peer knows and to a dispatch that has *)
(* not returned.                                                           *)
THEOREM ReferencesAreLive == Spec => []RefsAreLive
<1>1. IInv => RefsAreLive BY DEF IInv, TypeOK, Life, RefsAreLive
<1> QED BY SpecInv, <1>1, PTL

(* What is over may be cancelled or removed, and nothing else; a removed   *)
(* record does not come back as an active one.                             *)
Rewrites(d) ==
  /\ status[d] \in {Completed, Failed} =>
       status'[d] \in {status[d], Cancelled, Absent}
  /\ status[d] = Absent /\ pc[d] # "idle" => status'[d] \notin Active

LEMMA NoRewrite ==
  ASSUME IInv, Next, NEW d \in Dispatches PROVE Rewrites(d)
<1>0. TypeOK /\ Life(d) BY DEF IInv
<1> USE DEF Rewrites, Life, TypeOK, Put, Set
<1>1. ASSUME NEW e \in Dispatches,
             \/ Add(e) \/ Proceed(e) \/ Accepted(e) \/ Poll(e)
             \/ Deadline(e) \/ RemoveFinished(e)
             \/ DeliverPost(e) \/ LosePost(e)
      PROVE  Rewrites(d)
  BY <1>0, <1>1
     DEF Add, Proceed, Accepted, Poll, Deadline, RemoveFinished, DeliverPost,
         LosePost, Post, PostFails, RememberRef, ShowRunning, GiveUp, Mirror,
         Replace, FinalStatus, SetFailed, FailedStatus, ClearRef, Over
<1>2. ASSUME NEW k \in Calls,
             \/ LookUp(k) \/ CancelStep(k)
             \/ DeliverDelete(k) \/ LoseDelete(k)
      PROVE  Rewrites(d)
  BY <1>0, <1>2
     DEF LookUp, CancelStep, MarkLocally, Acknowledge, NoAnswer, CancelFails,
         DeliverDelete, LoseDelete
<1>3. CASE ChangeRoom \/ PeerStep \/ Persist
  BY <1>0, <1>3 DEF ChangeRoom, PeerStep, Persist
<1>4. CASE Restart BY <1>0, <1>4 DEF Restart, Loaded
<1> QED BY <1>1, <1>2, <1>3, <1>4 DEF Next

(* The history the user has seen is not rewritten.                         *)
THEOREM HistoryStays == Spec => HistoryIsFinal
<1>1. IInv /\ [Next]_vars =>
        [\A d \in Dispatches :
           /\ status[d] \in {Completed, Failed} =>
                status'[d] \in {status[d], Cancelled, Absent}
           /\ status[d] = Absent /\ pc[d] # "idle" =>
                status'[d] \notin Active]_vars
  BY NoRewrite DEF Rewrites
<1> QED BY SpecInv, <1>1, PTL DEF Spec, HistoryIsFinal

=============================================================================
