------------------------------ MODULE Dispatch ------------------------------
(***************************************************************************)
(* The tasks this machine submitted to its peers: the mirror of module     *)
(* outgoing.rs, dispatch_task_blocking and run_remote_blocking that drive  *)
(* it (one thread per dispatch), and cancel_outgoing_task, which the UI    *)
(* and the local HTTP API call from threads of their own.                  *)
(*                                                                         *)
(* The peer is the ledger of module TaskLedger, which IncomingTasks        *)
(* implements, behind a network that loses requests and answers and        *)
(* delivers a request after its sender stopped waiting.  A dispatch sends  *)
(* one POST, so its task on the peer goes by the name of the dispatch.     *)
(***************************************************************************)
EXTENDS Naturals, TaskStatus

CONSTANTS
  Dispatches,  (* local ids (a fresh UUID per dispatch)                    *)
  MaxRestarts  (* bound: how many times the application is restarted       *)

ASSUME RestartAssumption == MaxRestarts \in Nat

(* Who cancels: POST /api/cancel or the command of the UI.  At most one    *)
(* call of each kind is under way for a dispatch.                          *)
Calls == Dispatches \X {"http", "ui"}

VARIABLES
  status,    (* the local record, Absent if there is none                  *)
  refs,      (* the dispatches with an entry in remote_refs                *)
  pc,        (* the thread of each dispatch                                *)
  view,      (* the status in the poll answer it is working on, if any     *)
  late,      (* the dispatches polling after their local deadline          *)
  joined,    (* this machine is in a room                                  *)
  cancelling,(* the cancel calls                                           *)
  posts,     (* the POSTs on the wire                                      *)
  deletes,   (* the DELETEs on the wire                                    *)
  disk,      (* the records in outgoing-tasks.json                         *)
  restarts,  (* how many restarts there were                               *)
  known, record, executed, outcome  (* the peer, see TaskLedger            *)

wire == <<posts, deletes>>
peer == <<known, record, executed, outcome>>
vars == <<status, refs, pc, view, late, joined, cancelling, wire, disk,
          restarts, peer>>

Peer == INSTANCE TaskLedger WITH TaskId <- Dispatches

Waiting  == {"post", "waiting"}                    (* no answer of the peer *)
Polling  == {"flip", "poll", "got"}
Ending   == {"ok", "failed", "clear"}
Locations == {"idle", "accepted", "done"} \cup Waiting \cup Polling \cup Ending

Init ==
  /\ status = [d \in Dispatches |-> Absent]
  /\ refs = {}
  /\ pc = [d \in Dispatches |-> "idle"]
  /\ view = [d \in Dispatches |-> Absent]
  /\ late = {}
  /\ joined = TRUE
  /\ cancelling = [k \in Calls |-> "none"]
  /\ posts = {}
  /\ deletes = {}
  /\ disk = [d \in Dispatches |-> Absent]
  /\ restarts = 0
  /\ Peer!Init

-----------------------------------------------------------------------------
(* The record.  Only add and replace insert one: what sets the status of a *)
(* record that has been removed does nothing.                              *)

Put(d, s) == status' = [status EXCEPT ![d] = s]

(* Fault: a status update inserts the record.                              *)
FaultSetInserts(d, s) == Put(d, s)

Set(d, s) == Put(d, IF status[d] = Absent THEN Absent ELSE s)

-----------------------------------------------------------------------------
(* The dispatch: dispatch_task_blocking and run_remote_blocking.           *)

Add(d) ==
  /\ pc[d] = "idle"
  /\ joined
  /\ Put(d, Queued)
  /\ pc' = [pc EXCEPT ![d] = "post"]
  /\ UNCHANGED <<refs, view, late, joined, cancelling, wire, disk, restarts,
                 peer>>

(* A machine that has left its room cannot sign.                           *)
Post(d) ==
  /\ pc[d] = "post"
  /\ \/ /\ joined
        /\ posts' = posts \cup {d}
        /\ pc' = [pc EXCEPT ![d] = "waiting"]
     \/ /\ ~joined
        /\ pc' = [pc EXCEPT ![d] = "failed"]
        /\ UNCHANGED posts
  /\ UNCHANGED <<status, refs, view, late, joined, cancelling, deletes, disk,
                 restarts, peer>>

(* The answer of the peer with the id of its task.                         *)
Accepted(d) ==
  /\ pc[d] = "waiting"
  /\ d \in known
  /\ pc' = [pc EXCEPT ![d] = "accepted"]
  /\ UNCHANGED <<status, refs, view, late, joined, cancelling, wire, disk,
                 restarts, peer>>

(* A refusal, a lost request or answer, or no answer within 15 seconds.    *)
PostFails(d) ==
  /\ pc[d] = "waiting"
  /\ pc' = [pc EXCEPT ![d] = "failed"]
  /\ UNCHANGED <<status, refs, view, late, joined, cancelling, wire, disk,
                 restarts, peer>>

RememberRef(d) ==
  /\ pc[d] = "accepted"
  /\ refs' = refs \cup {d}
  /\ pc' = [pc EXCEPT ![d] = "flip"]
  /\ UNCHANGED <<status, view, late, joined, cancelling, wire, disk, restarts,
                 peer>>

ShowRunning(d) ==
  /\ pc[d] = "flip"
  /\ Set(d, Running)
  /\ pc' = [pc EXCEPT ![d] = "poll"]
  /\ UNCHANGED <<refs, view, late, joined, cancelling, wire, disk, restarts,
                 peer>>

(* The answer to a GET that arrives and decrypts; any other poll is tried  *)
(* again and is not a step.                                                *)
Poll(d) ==
  /\ pc[d] = "poll"
  /\ d \notin late
  /\ joined
  /\ \/ /\ record[d] # Absent
        /\ view' = [view EXCEPT ![d] = record[d]]
        /\ pc' = [pc EXCEPT ![d] = "got"]
     \/ /\ record[d] = Absent
        /\ pc' = [pc EXCEPT ![d] = "failed"]
        /\ UNCHANGED view
  /\ UNCHANGED <<status, refs, late, joined, cancelling, wire, disk, restarts,
                 peer>>

(* Fault: the deadline is not looked at.                                   *)
FaultNoDeadline(d) == ~joined

Hopeless(d) == d \in late \/ ~joined

GiveUp(d) ==
  /\ pc[d] = "poll"
  /\ Hopeless(d)
  /\ pc' = [pc EXCEPT ![d] = "failed"]
  /\ UNCHANGED <<status, refs, view, late, joined, cancelling, wire, disk,
                 restarts, peer>>

(* What the answer showed may be old by the time it is mirrored.           *)
Mirror(d) ==
  /\ pc[d] = "got"
  /\ \/ /\ view[d] \in Active
        /\ Set(d, Running)
        /\ view' = [view EXCEPT ![d] = Absent]
        /\ pc' = [pc EXCEPT ![d] = "poll"]
     \/ /\ view[d] \in Terminal
        /\ pc' = [pc EXCEPT ![d] = "ok"]
        /\ UNCHANGED <<status, view>>
  /\ UNCHANGED <<refs, late, joined, cancelling, wire, disk, restarts,
                 peer>>

(* Fault: a dispatch that returns without an error counts as completed.    *)
FaultOkMeansCompleted(d) == Completed

(* Fault: what is stored is how the command ended, not the status.         *)
FaultStoresOutcome(d) == outcome[d]

FinalStatus(d) == view[d]

Replace(d) ==
  /\ pc[d] = "ok"
  /\ Put(d, FinalStatus(d))
  /\ view' = [view EXCEPT ![d] = Absent]
  /\ pc' = [pc EXCEPT ![d] = "clear"]
  /\ UNCHANGED <<refs, late, joined, cancelling, wire, disk, restarts,
                 peer>>

(* Fault: only a record that was running is marked.                        *)
FaultFailsRunningOnly(d) == IF status[d] = Running THEN Failed ELSE status[d]

(* An error overwrites whatever the record says.                           *)
FailedStatus(d) == Failed

SetFailed(d) ==
  /\ pc[d] = "failed"
  /\ Set(d, FailedStatus(d))
  /\ pc' = [pc EXCEPT ![d] = "clear"]
  /\ UNCHANGED <<refs, view, late, joined, cancelling, wire, disk, restarts,
                 peer>>

(* Fault: the reference outlives a dispatch that failed.                   *)
FaultRefKept(d) == IF status[d] = Failed THEN refs ELSE refs \ {d}

RefsWithout(d) == refs \ {d}

ClearRef(d) ==
  /\ pc[d] = "clear"
  /\ refs' = RefsWithout(d)
  /\ late' = late \ {d}
  /\ pc' = [pc EXCEPT ![d] = "done"]
  /\ UNCHANGED <<status, view, joined, cancelling, wire, disk, restarts,
                 peer>>

(* The timeout of the task plus 30 seconds, counted from the first poll.   *)
Deadline(d) ==
  /\ pc[d] \in {"poll", "got"}
  /\ d \notin late
  /\ late' = late \cup {d}
  /\ UNCHANGED <<status, refs, pc, view, joined, cancelling, wire, disk,
                 restarts, peer>>

-----------------------------------------------------------------------------
(* cancel_outgoing_task and remove_finished.  A cancel may even be ahead   *)
(* of its dispatch: the Python client chooses the local id.                *)

LookUp(k) ==
  LET d == k[1] IN
  /\ cancelling[k] = "none"
  /\ k \notin deletes                               (* one DELETE at a time *)
  /\ \/ /\ d \notin refs
        /\ cancelling' = [cancelling EXCEPT ![k] = "local"]
        /\ UNCHANGED deletes
     \/ /\ d \in refs /\ joined
        /\ cancelling' = [cancelling EXCEPT ![k] = "sent"]
        /\ deletes' = deletes \cup {k}
     \/ /\ d \in refs /\ ~joined
        /\ cancelling' = [cancelling EXCEPT ![k] = "error"]
        /\ UNCHANGED deletes
  /\ UNCHANGED <<status, refs, pc, view, late, joined, posts, disk, restarts,
                 peer>>

MarkLocally(k) ==
  /\ cancelling[k] = "local"
  /\ Set(k[1], Cancelled)
  /\ cancelling' = [cancelling EXCEPT ![k] = "none"]
  /\ UNCHANGED <<refs, pc, view, late, joined, wire, disk, restarts, peer>>

Acknowledge(k) ==
  /\ cancelling[k] = "acked"
  /\ Set(k[1], Cancelled)
  /\ refs' = RefsWithout(k[1])
  /\ cancelling' = [cancelling EXCEPT ![k] = "none"]
  /\ UNCHANGED <<pc, view, late, joined, wire, disk, restarts, peer>>

(* The peer answers 404, or its answer does not arrive within 10 seconds.  *)
NoAnswer(k) ==
  /\ cancelling[k] \in {"sent", "acked"}
  /\ cancelling' = [cancelling EXCEPT ![k] = "error"]
  /\ UNCHANGED <<status, refs, pc, view, late, joined, wire, disk, restarts,
                 peer>>

(* On an error handle_cancel marks the record, the command of the UI does  *)
(* not.                                                                    *)
CancelFails(k) ==
  /\ cancelling[k] = "error"
  /\ IF k[2] = "http" THEN Set(k[1], Cancelled) ELSE UNCHANGED status
  /\ cancelling' = [cancelling EXCEPT ![k] = "none"]
  /\ UNCHANGED <<refs, pc, view, late, joined, wire, disk, restarts, peer>>

RemoveFinished(d) ==
  /\ status[d] \in Terminal
  /\ Put(d, Absent)
  /\ refs' = RefsWithout(d)
  /\ UNCHANGED <<pc, view, late, joined, cancelling, wire, disk, restarts,
                 peer>>

(* create_room, join_room and leave_room, as far as dispatches notice.     *)
ChangeRoom ==
  /\ joined' = ~joined
  /\ UNCHANGED <<status, refs, pc, view, late, cancelling, wire, disk,
                 restarts, peer>>

-----------------------------------------------------------------------------
(* The wire and the peer.                                                  *)

DeliverPost(d) ==
  /\ d \in posts
  /\ posts' = posts \ {d}
  /\ Peer!Accept(d)
  /\ UNCHANGED <<status, refs, pc, view, late, joined, cancelling, deletes,
                 disk, restarts>>

(* The peer refuses the task, or never sees the request.                   *)
LosePost(d) ==
  /\ d \in posts
  /\ posts' = posts \ {d}
  /\ UNCHANGED <<status, refs, pc, view, late, joined, cancelling, deletes,
                 disk, restarts, peer>>

(* The peer cancels the task.  The caller may have stopped waiting.        *)
DeliverDelete(k) ==
  /\ k \in deletes
  /\ deletes' = deletes \ {k}
  /\ Peer!Cancel(k[1])
  /\ cancelling' = IF cancelling[k] = "sent"
                   THEN [cancelling EXCEPT ![k] = "acked"] ELSE cancelling
  /\ UNCHANGED <<status, refs, pc, view, late, joined, posts, disk, restarts>>

(* The task is not active, or the peer never sees the request.             *)
LoseDelete(k) ==
  /\ k \in deletes
  /\ deletes' = deletes \ {k}
  /\ UNCHANGED <<status, refs, pc, view, late, joined, cancelling, posts, disk,
                 restarts, peer>>

(* What the peer does with its tasks on its own.                           *)
PeerStep ==
  /\ \/ \E d \in Dispatches : \/ Peer!Execute(d) \/ Peer!Settle(d)
                              \/ Peer!Report(d) \/ Peer!Cancel(d)
                              \/ Peer!Remove(d)
     \/ Peer!Recover
  /\ UNCHANGED <<status, refs, pc, view, late, joined, cancelling, wire, disk,
                 restarts>>

-----------------------------------------------------------------------------
(* Persistence and restart.                                                *)

(* Taken only while a restart that reads it may still come (bound).        *)
Persist ==
  /\ restarts < MaxRestarts
  /\ disk' = status
  /\ UNCHANGED <<status, refs, pc, view, late, joined, cancelling, wire,
                 restarts, peer>>

Loaded(s) == IF s \in Active THEN Cancelled ELSE s

(* The references are saved but not loaded; the room is (module auth.rs).  *)
Restart ==
  /\ restarts < MaxRestarts
  /\ restarts' = restarts + 1
  /\ status' = [d \in Dispatches |-> Loaded(disk[d])]
  /\ refs' = {}
  /\ view' = [d \in Dispatches |-> Absent]
  /\ late' = {}
  /\ pc' = [d \in Dispatches |-> IF pc[d] = "idle" THEN "idle" ELSE "done"]
  /\ cancelling' = [k \in Calls |-> "none"]
  /\ UNCHANGED <<joined, wire, disk, peer>>

-----------------------------------------------------------------------------
(* What the thread of a dispatch does without waiting for the peer.        *)
Proceed(d) == Post(d) \/ PostFails(d) \/ RememberRef(d) \/ ShowRunning(d)
                \/ GiveUp(d) \/ Mirror(d) \/ Replace(d) \/ SetFailed(d)
                \/ ClearRef(d)

CancelStep(k) == MarkLocally(k) \/ Acknowledge(k) \/ NoAnswer(k)
                   \/ CancelFails(k)

Next ==
  \/ \E d \in Dispatches : \/ Add(d) \/ Proceed(d) \/ Accepted(d) \/ Poll(d)
                           \/ Deadline(d) \/ RemoveFinished(d)
                           \/ DeliverPost(d) \/ LosePost(d)
  \/ \E k \in Calls : \/ LookUp(k) \/ CancelStep(k)
                      \/ DeliverDelete(k) \/ LoseDelete(k)
  \/ ChangeRoom
  \/ PeerStep
  \/ Persist
  \/ Restart

Spec == Init /\ [][Next]_vars

(* The threads of this machine run and its clock advances.  Nothing is     *)
(* assumed of the peer or the network.                                     *)
FairSpec == Spec /\ \A d \in Dispatches : /\ WF_vars(Proceed(d))
                                          /\ WF_vars(Deadline(d))

-----------------------------------------------------------------------------
(* Properties.                                                             *)

TypeOK ==
  /\ status \in [Dispatches -> Statuses \cup {Absent}]
  /\ refs \subseteq Dispatches
  /\ pc \in [Dispatches -> Locations]
  /\ view \in [Dispatches -> Statuses \cup {Absent}]
  /\ late \subseteq Dispatches
  /\ joined \in BOOLEAN
  /\ cancelling \in [Calls -> {"none", "local", "sent", "acked", "error"}]
  /\ posts \subseteq Dispatches
  /\ deletes \subseteq Calls
  /\ disk \in [Dispatches -> Statuses \cup {Absent}]
  /\ restarts \in Nat

(* The user is never told Completed of a command that did not succeed on   *)
(* the peer, whatever was cancelled, lost, reordered or restarted, on      *)
(* either machine.                                                         *)
ReportedOutcomeIsTrue ==
  \A d \in Dispatches : status[d] = Completed => outcome[d] = Completed

(* A dispatch that has returned leaves no record behind that looks active, *)
(* although cancels and polls overwrite each other's status on the way.    *)
DoneIsSettled ==
  \A d \in Dispatches : pc[d] \in {"clear", "done"} => status[d] \notin Active

(* The map of references holds what a cancel may still need: tasks of the  *)
(* peer whose dispatch has not returned.                                   *)
RefsAreLive ==
  \A d \in refs : d \in known /\ pc[d] \in Polling \cup Ending

(* History is not rewritten: Completed and Failed are left only for a late *)
(* cancel or a removal, and a removed record comes back only with the      *)
(* peer's last word.                                                       *)
HistoryIsFinal ==
  [][\A d \in Dispatches :
       /\ status[d] \in {Completed, Failed} =>
            status'[d] \in {status[d], Cancelled, Absent}
       /\ status[d] = Absent /\ pc[d] # "idle" => status'[d] \notin Active]_vars

(* The caller of a dispatch is not kept waiting by a peer that has gone    *)
(* silent.                                                                 *)
DispatchReturns == \A d \in Dispatches : (pc[d] = "post") ~> (pc[d] = "done")

-----------------------------------------------------------------------------
(* What a comment says and the code does not do.                           *)

(* http_api.rs:425, of a cancel that finds no reference: "Either never     *)
(* reached the peer, or already finished."                                 *)
NoRefMeansOver ==
  \A k \in Calls : cancelling[k] = "local" => record[k[1]] \notin Active
=============================================================================
