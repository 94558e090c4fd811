---------------------------- MODULE SandboxCall -----------------------------
(***************************************************************************)
(* What the task store relies on when one of its execution threads calls   *)
(* the sandbox, without the readers, pipes, deadline, workspace and cgroup *)
(* of module SandboxExec that provide it: there is at most one process,    *)
(* its PID is handed over before the call goes on, and whatever happens to *)
(* the process the call does not return while it is alive.                 *)
(***************************************************************************)
VARIABLES
  stage,    (* where the call is                                           *)
  process,  (* the bwrap process                                           *)
  answer    (* what the call has returned                                  *)

vars == <<stage, process, answer>>

(* The caller may not have come to the call yet, or have just entered it.  *)
Init ==
  /\ stage \in {"idle", "entered"}
  /\ process = "none"
  /\ answer = "none"

Enter ==
  /\ stage = "idle"
  /\ stage' = "entered"
  /\ UNCHANGED <<process, answer>>

Launch ==
  /\ stage = "entered"
  /\ stage' = "launched"
  /\ process' = "alive"
  /\ UNCHANGED answer

(* An error before there is a process.                                     *)
Refuse ==
  /\ stage = "entered"
  /\ stage' = "returned"
  /\ answer' = "error"
  /\ UNCHANGED process

(* on_pid: from now on the caller can have the process killed.             *)
HandOverPid ==
  /\ stage = "launched"
  /\ stage' = "told"
  /\ UNCHANGED <<process, answer>>

(* The process ends, by itself or because of a signal, and for good.       *)
End ==
  /\ process = "alive"
  /\ process' = "gone"
  /\ UNCHANGED <<stage, answer>>

(* Only the exit of a process can be answered with an exit code.           *)
Return ==
  /\ stage = "told"
  /\ process = "gone"
  /\ stage' = "returned"
  /\ answer' \in {"exit code", "error"}
  /\ UNCHANGED process

(* The application dies, and its process with it: nobody gets an answer.   *)
Crash ==
  /\ stage \in {"entered", "launched", "told"}
  /\ stage' = "lost"
  /\ process' = IF process = "none" THEN "none" ELSE "gone"
  /\ UNCHANGED answer

Next == Enter \/ Launch \/ Refuse \/ HandOverPid \/ End \/ Return \/ Crash

Spec == Init /\ [][Next]_vars
=============================================================================
