------------------------------ MODULE EndToEnd ------------------------------
(***************************************************************************)
(* Two machines: the submitting side of module Dispatch and, as its peer,  *)
(* the threads, queue, maps and processes of module IncomingTasks instead  *)
(* of the ledger Dispatch assumes.  The store also runs the tasks of other *)
(* machines, which compete for its slots.                                  *)
(*                                                                         *)
(* A step is one of the store, one of the submitting machine, or one of    *)
(* both: the arrival of a POST (handle_submit, which calls create_and_run) *)
(* or of a DELETE (handle_cancel_task, which calls cancel).  A poll only   *)
(* reads the store.                                                        *)
(***************************************************************************)
EXTENDS IncomingTasks

CONSTANT Elsewhere  (* the tasks that other machines submit to the store   *)

Dispatches == TaskId \ Elsewhere

VARIABLES  (* of the submitting machine, see Dispatch                      *)
  status, refs, view, late, joined, posts, deletes,
  thread,    (* the threads of its dispatches                              *)
  calls,     (* its cancel calls                                           *)
  saved,     (* its file                                                   *)
  reboots    (* its restarts                                               *)

rest == <<status, refs, view, late, joined, thread, saved, reboots>>
submitter == <<rest, posts, deletes, calls>>
system == <<vars, submitter>>

(* What the submitting machine sees of the store.                          *)
Submitter == INSTANCE Dispatch WITH
  pc         <- thread,
  cancelling <- calls,
  disk       <- saved,
  restarts   <- reboots,
  known      <- {d \in Dispatches : pc[d] # "idle"},
  record     <- [d \in Dispatches |-> tasks[d]],
  executed   <- {d \in Dispatches : launches[d] > 0},
  outcome    <- [d \in Dispatches |-> result[d]]

SystemInit == Init /\ Submitter!Init

-----------------------------------------------------------------------------
(* The store alone: everything but a submission of the submitting machine. *)
(* Its own user, or a DELETE nobody here remembers, may cancel any task.   *)
StoreStep ==
  /\ \/ \E t \in TaskId \ Dispatches : Submit(t)
     \/ \E t \in TaskId : \/ SubmitStep(t) \/ ExecuteStep(t) \/ Cancel(t)
                          \/ CancelStep(t) \/ RemoveFinished(t) \/ Exit(t)
     \/ \E a \in Threads : StartStep(a) \/ PullStep(a)
     \/ \E n \in Caps : SetMaxConcurrent(n)
     \/ Persist
     \/ Restart
  /\ UNCHANGED submitter

(* The submitting machine alone, the loss of its messages included.        *)
SubmitterStep ==
  /\ UNCHANGED vars
  /\ \/ \E d \in Dispatches :
          \/ Submitter!Add(d) \/ Submitter!Proceed(d) \/ Submitter!Accepted(d)
          \/ Submitter!Poll(d) \/ Submitter!Deadline(d)
          \/ Submitter!RemoveFinished(d) \/ Submitter!LosePost(d)
     \/ \E k \in Submitter!Calls :
          Submitter!LookUp(k) \/ Submitter!CancelStep(k)
            \/ Submitter!LoseDelete(k)
     \/ Submitter!ChangeRoom
     \/ Submitter!Persist
     \/ Submitter!Restart

(* The peer accepts the task: its connection thread enters the store.      *)
DeliverPost(d) ==
  /\ d \in posts
  /\ posts' = posts \ {d}
  /\ Submit(d)
  /\ UNCHANGED <<rest, deletes, calls>>

(* The peer cancels the task.  The caller may have stopped waiting.        *)
DeliverDelete(k) ==
  /\ k \in deletes
  /\ deletes' = deletes \ {k}
  /\ Cancel(k[1])
  /\ calls' = IF calls[k] = "sent" THEN [calls EXCEPT ![k] = "acked"]
              ELSE calls
  /\ UNCHANGED <<rest, posts>>

SystemNext ==
  \/ StoreStep
  \/ SubmitterStep
  \/ \E d \in Dispatches : DeliverPost(d)
  \/ \E k \in Submitter!Calls : DeliverDelete(k)

SystemSpec == SystemInit /\ [][SystemNext]_system

-----------------------------------------------------------------------------
(* Properties.                                                             *)

(* Completed, shown to the user here, means that the peer gave the command *)
(* to its sandbox, once, that there was a process, which is gone, and that *)
(* the sandbox returned exit code zero, whatever was cancelled, lost,      *)
(* reordered or restarted on either machine and whatever the tasks of      *)
(* other machines did to its queue.                                        *)
CompletedMeansRan ==
  \A d \in Dispatches :
    status[d] = Completed =>
      result[d] = Completed /\ launches[d] = 1 /\ proc[d] = "gone"

(* A task of this machine that the peer knows, runs, or still has in its   *)
(* file was dispatched here, and neither restart brings one back that was  *)
(* not.                                                                    *)
NothingUnasked ==
  \A d \in Dispatches :
    (tasks[d] # Absent \/ disk[d] # Absent \/ launches[d] > 0)
      => thread[d] # "idle" /\ d \notin posts

(* A reference a cancel may use names a task the store has accepted, of a  *)
(* dispatch that has not returned.                                         *)
RefsAreAccepted ==
  \A d \in refs : pc[d] # "idle"
                    /\ thread[d] \in Submitter!Polling \cup Submitter!Ending

(* When both machines are quiet, with nothing parked, neither shows one of *)
(* the tasks as active and no process of theirs is alive: no loss, restart *)
(* or cancel leaves two machines with different ideas of what is going on. *)
Quiet == /\ AtRest /\ pending = <<>>
         /\ \A d \in Dispatches : thread[d] \in {"idle", "done"}
QuietMeansSettled ==
  Quiet => \A d \in Dispatches : /\ status[d] \notin Active
                                 /\ tasks[d] \notin Active
                                 /\ proc[d] # "alive"

-----------------------------------------------------------------------------
(* What a comment says and the code does not do.                           *)

(* http_api.rs:425, of a cancel that finds no reference: "Either never     *)
(* reached the peer, or already finished."                                 *)
NoRefMeansOver == Submitter!NoRefMeansOver
=============================================================================
