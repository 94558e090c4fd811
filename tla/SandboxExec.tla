---------------------------- MODULE SandboxExec -----------------------------
(***************************************************************************)
(* One execution of a command in the sandbox                               *)
(* (execute_with_callbacks_and_sink in src/src-tauri/src/sandbox/exec.rs). *)
(*                                                                         *)
(* Four parties: the executor, which is the execution thread of the task   *)
(* store; the two reader threads that drain the pipes; the sandboxed       *)
(* program, which writes, closes its streams and ends when it likes; and   *)
(* the `kill` commands of a cancel.  Time is one event: the deadline of    *)
(* the task passes.                                                        *)
(***************************************************************************)
EXTENDS DrainStream

CONSTANTS
  Streams,    (* stdout and stderr                                         *)
  Outputs,    (* what a program may write: functions from Streams to bytes *)
  Cap,        (* MAX_STDOUT_BYTES, MAX_STDERR_BYTES                        *)
  Chunk,      (* size of the read buffer (4096 in the code)                *)
  PipeSize    (* bytes a pipe holds before the writer blocks               *)

ASSUME OutputAssumption == Outputs \subseteq [Streams -> Seq(Bytes)]
ASSUME SizeAssumption ==
  Cap \in [Streams -> Nat] /\ Chunk \in Nat \ {0} /\ PipeSize \in Nat \ {0}

VARIABLES
  pc,         (* the executor                                              *)
  child,      (* the bwrap process                                         *)
  killed,     (* SIGKILL has been sent to it                               *)
  output,     (* what this program writes if it is let run                 *)
  sent,       (* how many bytes of it have been written                    *)
  pipe,       (* the bytes in each pipe                                    *)
  open,       (* the streams the program has not closed                    *)
  reader,     (* the reader threads                                        *)
  buf,        (* the captured text (the live sink of the task)             *)
  leftover,   (* the bytes a reader carries to its next round              *)
  late,       (* the deadline has passed                                   *)
  waited,     (* what wait_with_timeout returned                           *)
  collected,  (* the artifacts have been read from the workspace           *)
  workspace,  (* the host directory bound at /workspace                    *)
  cgroup      (* the sub-cgroup of the task                                *)

program == <<output, sent, open>>
capture == <<buf, leftover>>
host    == <<workspace, cgroup>>
vars == <<pc, child, killed, program, pipe, reader, capture, late, waited,
          collected, host>>

Locations == {"validate", "prepare", "spawn", "callback", "drain", "wait",
              "join", "collect", "kill", "reap", "cleanup", "returned"}

Init ==
  /\ pc = "validate"
  /\ child = "none"
  /\ killed = FALSE
  /\ output \in Outputs
  /\ sent = [s \in Streams |-> 0]
  /\ pipe = [s \in Streams |-> <<>>]
  /\ open = {}
  /\ reader = [s \in Streams |-> "none"]
  /\ buf = [s \in Streams |-> <<>>]
  /\ leftover = [s \in Streams |-> <<>>]
  /\ late = FALSE
  /\ waited = "nothing"
  /\ collected = FALSE
  /\ workspace = "absent"
  /\ cgroup = "absent"

-----------------------------------------------------------------------------
(* The executor.                                                           *)

(* The command is not allowed, or bwrap is not installed.                  *)
Validate ==
  /\ pc = "validate"
  /\ pc' \in {"prepare", "returned"}
  /\ UNCHANGED <<child, killed, program, pipe, reader, capture, late, waited,
                 collected, host>>

(* The directory is made first; a file of the request that cannot be       *)
(* written ends the call before the guard that would remove it exists.     *)
Prepare ==
  /\ pc = "prepare"
  /\ \/ workspace' = "guarded" /\ pc' = "spawn"
     \/ workspace' = "stray"   /\ pc' = "returned"
     \/ workspace' = "absent"  /\ pc' = "returned"
  /\ UNCHANGED <<child, killed, program, pipe, reader, capture, late, waited,
                 collected, cgroup>>

(* The deadline of wait_with_timeout counts from its call, see StartWait.  *)
Spawn ==
  /\ pc = "spawn"
  /\ \/ /\ child' = "running"
        /\ open' = Streams
        /\ pc' = "callback"
        /\ UNCHANGED workspace
     \/ /\ workspace' = "removed"
        /\ pc' = "returned"
        /\ UNCHANGED <<child, open>>
  /\ UNCHANGED <<killed, output, sent, pipe, reader, capture, late, waited,
                 collected, cgroup>>

(* on_pid, then the sub-cgroup, which may be refused.                      *)
Callback ==
  /\ pc = "callback"
  /\ cgroup' \in {"present", "absent"}
  /\ pc' = "drain"
  /\ UNCHANGED <<child, killed, program, pipe, reader, capture, late, waited,
                 collected, workspace>>

StartReaders ==
  /\ pc = "drain"
  /\ reader' = [s \in Streams |-> "reading"]
  /\ pc' = "wait"
  /\ UNCHANGED <<child, killed, program, pipe, capture, late, waited,
                 collected, host>>

(* Fault: the wait has no deadline.                                        *)
FaultWaitsForever == FALSE

GivesUp == late

(* One try_wait of wait_with_timeout: an exit is seen before the deadline. *)
Wait ==
  /\ pc = "wait"
  /\ \/ /\ child = "exited"
        /\ child' = "reaped"
        /\ waited' = "exit"
     \/ /\ child = "running" /\ GivesUp
        /\ waited' = "timeout"
        /\ UNCHANGED child
  /\ pc' = "join"
  /\ UNCHANGED <<killed, program, pipe, reader, capture, late, collected,
                 host>>

(* Fault: the reader threads are not joined.                               *)
FaultNotJoined == TRUE

ReadersDone == \A s \in Streams : reader[s] = "done"

Join ==
  /\ pc = "join"
  /\ ReadersDone
  /\ pc' = "collect"
  /\ UNCHANGED <<child, killed, program, pipe, reader, capture, late, waited,
                 collected, host>>

(* Fault: a child that missed the deadline is left alone.                  *)
FaultNeverKilled == "cleanup"

AfterCollect == IF waited = "exit" THEN "cleanup" ELSE "kill"

(* The artifacts are read before a child that missed the deadline dies.    *)
(* The notices about artifacts that are too large, which go to stderr even *)
(* above its cap, are not part of buf.                                     *)
Collect ==
  /\ pc = "collect"
  /\ collected' = TRUE
  /\ pc' = AfterCollect
  /\ UNCHANGED <<child, killed, program, pipe, reader, capture, late, waited,
                 host>>

Kill ==
  /\ pc = "kill"
  /\ killed' = TRUE
  /\ pc' = "reap"
  /\ UNCHANGED <<child, program, pipe, reader, capture, late, waited,
                 collected, host>>

Reap ==
  /\ pc = "reap"
  /\ child = "exited"
  /\ child' = "reaped"
  /\ pc' = "cleanup"
  /\ UNCHANGED <<killed, program, pipe, reader, capture, late, waited,
                 collected, host>>

Cleanup ==
  /\ pc = "cleanup"
  /\ cgroup' = IF cgroup = "present" THEN "removed" ELSE cgroup
  /\ workspace' = "removed"
  /\ pc' = "returned"
  /\ UNCHANGED <<child, killed, program, pipe, reader, capture, late, waited,
                 collected>>

Executor == Validate \/ Prepare \/ Spawn \/ Callback \/ StartReaders \/ Wait
              \/ Join \/ Collect \/ Kill \/ Reap \/ Cleanup

-----------------------------------------------------------------------------
(* The reader of stream s.                                                 *)

Available(s) == SubSeq(pipe[s], 1, IF Len(pipe[s]) < Chunk THEN Len(pipe[s])
                                   ELSE Chunk)

(* The bytes of one round.                                                 *)
Round(s) == leftover[s] \o Available(s)

(* Fault: a reader stops at the cap.                                       *)
FaultStopsAtCap(s) == reader[s] = "reading" /\ Len(buf[s]) < Cap[s]

(* A full buffer does not stop a reader, it only drops what follows.       *)
Reading(s) == reader[s] = "reading"

Read(s) ==
  /\ Reading(s)
  /\ pipe[s] # <<>>
  /\ buf' = [buf EXCEPT ![s] = Capped(@, Valid(Round(s)), Cap[s])]
  /\ leftover' = [leftover EXCEPT ![s] = Rest(Round(s))]
  /\ pipe' = [pipe EXCEPT ![s] = SubSeq(@, Len(Available(s)) + 1, Len(@))]
  /\ UNCHANGED <<pc, child, killed, program, reader, late, waited, collected,
                 host>>

(* read() returns 0: the pipe is empty and nobody can write to it.         *)
EndOfFile(s) ==
  /\ Reading(s)
  /\ pipe[s] = <<>>
  /\ s \notin open
  /\ reader' = [reader EXCEPT ![s] = "done"]
  /\ UNCHANGED <<pc, child, killed, program, pipe, capture, late, waited,
                 collected, host>>

Reader(s) == Read(s) \/ EndOfFile(s)

-----------------------------------------------------------------------------
(* The sandboxed program, its signals and the clock.                       *)

(* Fault: a pipe takes one byte more than it holds.                        *)
FaultRoom(s) == Len(pipe[s]) <= PipeSize

Room(s) == Len(pipe[s]) < PipeSize

Write(s) ==
  /\ child = "running"
  /\ s \in open
  /\ sent[s] < Len(output[s])
  /\ Room(s)
  /\ sent' = [sent EXCEPT ![s] = @ + 1]
  /\ pipe' = [pipe EXCEPT ![s] = Append(@, output[s][sent[s] + 1])]
  /\ UNCHANGED <<pc, child, killed, output, open, reader, capture, late,
                 waited, collected, host>>

Close(s) ==
  /\ child = "running"
  /\ s \in open
  /\ open' = open \ {s}
  /\ UNCHANGED <<pc, child, killed, output, sent, pipe, reader, capture,
                 late, waited, collected, host>>

(* Fault: what the program started outlives it and keeps its streams open. *)
FaultOrphans == open

(* With --unshare-pid everything the program started ends with it.         *)
OpenAfterExit == {}

Exit ==
  /\ child = "running"
  /\ child' = "exited"
  /\ open' = OpenAfterExit
  /\ UNCHANGED <<pc, killed, output, sent, pipe, reader, capture, late,
                 waited, collected, host>>

Killed == killed /\ Exit

(* The SIGKILL of a cancel: possible while the PID is registered, from     *)
(* on_pid to the return.  Its SIGTERM is one more reason for an Exit.      *)
Signal ==
  /\ pc \notin {"validate", "prepare", "spawn", "callback", "returned"}
  /\ child = "running"
  /\ killed' = TRUE
  /\ UNCHANGED <<pc, child, program, pipe, reader, capture, late, waited,
                 collected, host>>

Deadline ==
  /\ pc \in {"wait", "join"}
  /\ ~late
  /\ late' = TRUE
  /\ UNCHANGED <<pc, child, killed, program, pipe, reader, capture, waited,
                 collected, host>>

-----------------------------------------------------------------------------
Next ==
  \/ Executor
  \/ \E s \in Streams : Reader(s) \/ Write(s) \/ Close(s)
  \/ Exit
  \/ Signal
  \/ Deadline

Spec == Init /\ [][Next]_vars

(* The threads run, the clock advances, SIGKILL is delivered; nothing is   *)
(* assumed of the program.                                                 *)
Fairness ==
  /\ WF_vars(Executor) /\ WF_vars(Deadline) /\ WF_vars(Killed)
  /\ \A s \in Streams : WF_vars(Reader(s))

FairSpec == Spec /\ Fairness

-----------------------------------------------------------------------------
(* Properties.                                                             *)

TypeOK ==
  /\ pc \in Locations
  /\ child \in {"none", "running", "exited", "reaped"}
  /\ killed \in BOOLEAN
  /\ output \in Outputs
  /\ \A s \in Streams : sent[s] \in 0..Len(output[s])
  /\ pipe \in [Streams -> Seq(Bytes)]
  /\ \A s \in Streams : Len(pipe[s]) <= PipeSize
  /\ open \subseteq Streams
  /\ reader \in [Streams -> {"none", "reading", "done"}]
  /\ buf \in [Streams -> Seq(Bytes)]
  /\ leftover \in [Streams -> Seq(Bytes)]
  /\ late \in BOOLEAN
  /\ waited \in {"nothing", "exit", "timeout"}
  /\ collected \in BOOLEAN
  /\ workspace \in {"absent", "guarded", "stray", "removed"}
  /\ cgroup \in {"absent", "present", "removed"}

(* What the readers capture, which is what a poll shows, is whole          *)
(* characters and within the cap, at every moment and however the          *)
(* program's writes fall into chunks.                                      *)
CaptureIsText ==
  \A s \in Streams : Whole(buf[s]) /\ Len(buf[s]) <= Cap[s]

Written(s) == SubSeq(output[s], 1, sent[s])

(* A result is complete: when the call returns an exit code, the text up   *)
(* to the first byte that belongs to no character is in the result if it   *)
(* is within the cap, also what was still in the pipes when the program    *)
(* ended, and nothing else is: the capture does not depend on how the      *)
(* writes fell into chunks.                                                *)
ResultIsComplete ==
  pc = "returned" /\ waited = "exit" =>
    \A s \in Streams :
      Len(Valid(Written(s))) <= Cap[s] => buf[s] = Valid(Written(s))

(* When the call returns, whatever failed or was signalled on the way, the *)
(* process is gone and waited for, and so are its sub-cgroup and its       *)
(* workspace, but for a workspace whose preparation failed.                *)
NothingStays ==
  pc = "returned" => /\ child \in {"none", "reaped"}
                     /\ cgroup # "present"
                     /\ workspace # "guarded"

(* What the executor can be made to wait for.                              *)
CanGoOn ==
  \/ pc \in Locations \ {"wait", "join", "reap", "returned"}
  \/ pc = "wait" /\ (child = "exited" \/ GivesUp)
  \/ pc = "join" /\ \/ ReadersDone
                     \/ \E s \in Streams :
                          Reading(s) /\ (pipe[s] # <<>> \/ s \notin open)
  \/ pc = "reap" /\ child = "exited"

(* Executor, readers and pipes never wait for each other in a circle: when *)
(* nothing on this side can go on it is because of a program that is       *)
(* alive, either before the deadline, or because it has a stream open, or  *)
(* because it has not noticed its SIGKILL yet.                             *)
OnlyTheProgramBlocks ==
  pc # "returned" /\ ~CanGoOn =>
    /\ child = "running"
    /\ \/ pc = "wait" /\ ~late
       \/ pc = "join" /\ open # {}
       \/ pc = "reap" /\ killed

(* Refinement: the execution keeps the promise of module SandboxCall, on   *)
(* which the task store relies.                                            *)
Stage ==
  CASE pc \in {"validate", "prepare", "spawn"} -> "entered"
    [] pc = "callback" -> "launched"
    [] pc = "returned" -> "returned"
    [] OTHER -> "told"

Process ==
  CASE child = "none" -> "none"
    [] child = "running" -> "alive"
    [] OTHER -> "gone"

Answer ==
  IF pc # "returned" THEN "none"
  ELSE IF waited = "exit" THEN "exit code" ELSE "error"

Call == INSTANCE SandboxCall WITH
  stage <- Stage, process <- Process, answer <- Answer
KeepsCall == Call!Spec

(* A program is never blocked for good on a full pipe, not even after the  *)
(* cap has been reached: readers go on reading.                            *)
PipesAreDrained ==
  \A s \in Streams : (Len(pipe[s]) = PipeSize) ~> (Len(pipe[s]) < PipeSize)

(* The call returns once the process is gone.                              *)
ReturnsAfterExit == (child = "exited") ~> (pc = "returned")

(* The timeout ends a program that has closed its streams.                 *)
TimeoutEndsSilent == (late /\ open = {}) ~> (pc = "returned")

-----------------------------------------------------------------------------
(* What documents say and the code does not do.                            *)

(* SECURITY.en.md:205, "Each task has a maximum wall-clock budget (default *)
(* 1 hour). Exceeded -> killed."                                           *)
TimeoutKills == (late /\ child = "running") ~> (child # "running")
=============================================================================
