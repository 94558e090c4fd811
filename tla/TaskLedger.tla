----------------------------- MODULE TaskLedger -----------------------------
(***************************************************************************)
(* What a peer may rely on when it submits tasks to this machine, without  *)
(* the threads, queue, maps and processes of module IncomingTasks that     *)
(* provide it: the record a poll shows it, whether its command has been    *)
(* run, and how it ended.                                                  *)
(***************************************************************************)
EXTENDS TaskStatus

CONSTANT TaskId

VARIABLES
  known,     (* the accepted tasks                                          *)
  record,    (* what a poll of the task shows                               *)
  executed,  (* the tasks whose command was handed to the sandbox           *)
  outcome    (* how the command ended: Completed, Failed or not yet         *)

Unsettled == "unsettled"

vars == <<known, record, executed, outcome>>

Init ==
  /\ known = {}
  /\ record = [t \in TaskId |-> Absent]
  /\ executed = {}
  /\ outcome = [t \in TaskId |-> Unsettled]

Accept(t) ==
  /\ t \notin known
  /\ known' = known \cup {t}
  /\ record' = [record EXCEPT ![t] = Queued]
  /\ UNCHANGED <<executed, outcome>>

(* A command is handed to the sandbox at most once.  A record cancelled at *)
(* that very moment shows Running again; a removed one does not reappear.  *)
Execute(t) ==
  /\ t \in known \ executed
  /\ executed' = executed \cup {t}
  /\ \/ /\ record[t] \in {Queued, Cancelled}
        /\ record' = [record EXCEPT ![t] = Running]
     \/ /\ record[t] = Absent
        /\ UNCHANGED record
  /\ UNCHANGED <<known, outcome>>

(* The sandbox has returned.                                               *)
Settle(t) ==
  /\ t \in executed
  /\ outcome[t] = Unsettled
  /\ \E o \in {Completed, Failed} : outcome' = [outcome EXCEPT ![t] = o]
  /\ UNCHANGED <<known, record, executed>>

(* Only a running task gets its outcome, and only the one of its command.  *)
Report(t) ==
  /\ record[t] = Running
  /\ outcome[t] # Unsettled
  /\ record' = [record EXCEPT ![t] = outcome[t]]
  /\ UNCHANGED <<known, executed, outcome>>

Cancel(t) ==
  /\ record[t] \in Active
  /\ record' = [record EXCEPT ![t] = Cancelled]
  /\ UNCHANGED <<known, executed, outcome>>

Remove(t) ==
  /\ record[t] \in Terminal
  /\ record' = [record EXCEPT ![t] = Absent]
  /\ UNCHANGED <<known, executed, outcome>>

(* After a restart a record is missing, cancelled or the true outcome,     *)
(* whatever it was before; nothing is active.                              *)
Recover ==
  /\ record' \in [TaskId -> Terminal \cup {Absent}]
  /\ \A t \in TaskId :
       /\ record'[t] # Absent => t \in known
       /\ record'[t] \in {Completed, Failed} => record'[t] = outcome[t]
  /\ UNCHANGED <<known, executed, outcome>>

Next ==
  \/ \E t \in TaskId : \/ Accept(t) \/ Execute(t) \/ Settle(t) \/ Report(t)
                       \/ Cancel(t) \/ Remove(t)
  \/ Recover

Spec == Init /\ [][Next]_vars
=============================================================================
