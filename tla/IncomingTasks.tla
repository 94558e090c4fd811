--------------------------- MODULE IncomingTasks ----------------------------
(***************************************************************************)
(* The tasks this machine runs for its peers                               *)
(* (src/src-tauri/src/task_runner/incoming.rs).                            *)
(*                                                                         *)
(* Every request of a peer is served by a thread of its own, every task    *)
(* that starts gets an execution thread, and the user interface calls in   *)
(* from the main thread.  They share a handful of maps, each behind its    *)
(* own mutex, and no lock is ever held from one map access to the next: an *)
(* action below is what one thread does between two such accesses.  The    *)
(* sandboxed process of a task and the `kill` commands that reach it are   *)
(* part of the model; what the process computes is not.                    *)
(***************************************************************************)
EXTENDS Naturals, Sequences, FiniteSets, TaskStatus

CONSTANTS
  TaskId,       (* identifiers (a fresh UUID per accepted submission)      *)
  UI,           (* the main thread of the application                      *)
  Caps,         (* the values the user may ask for as a concurrency cap    *)
  DefaultCap,   (* DEFAULT_MAX_CONCURRENT                                  *)
  MaxRestarts,  (* bound: how many times the application is restarted      *)
  MaxCapChanges (* bound: how many times the user changes the cap          *)

ASSUME UIAssumption == UI \notin TaskId
ASSUME CapAssumption == Caps \subseteq Nat /\ DefaultCap \in Nat \ {0}
ASSUME BoundAssumption == MaxRestarts \in Nat /\ MaxCapChanges \in Nat

(* A thread of the store is named after the task whose submission or whose *)
(* execution it carries out; the remaining one is the user interface.      *)
Threads == TaskId \cup {UI}

NoJob == "no job"

ASSUME JobAssumption == NoJob \notin TaskId

VARIABLES
  tasks,          (* status of each record, Absent if there is none        *)
  ended,          (* the tasks whose record has an ended_at                *)
  pids,           (* the tasks with an entry in the PID map                *)
  sinks,          (* the tasks with a live sink, start time and timeout    *)
  pending,        (* the FIFO of parked tasks                              *)
  max_concurrent, (* the current cap                                       *)
  pc,             (* where each thread stands                              *)
  job,            (* the task a thread is about to start                   *)
  result,         (* what the sandbox returned to the execution thread     *)
  proc,           (* the bwrap process of each task                        *)
  signals,        (* the signals sent to that process                      *)
  cancelling,     (* the tasks with a cancel() call after its first step   *)
  timers,         (* the tasks with a sleeping SIGKILL thread              *)
  launches,       (* history: how often each task was given to the sandbox *)
  disk,           (* the status of each task in incoming-tasks.json        *)
  restarts,       (* how many restarts there were                          *)
  capChanges      (* how many times the cap was changed                    *)

records == <<tasks, ended>>
process == <<proc, signals>>
threads == <<pc, job>>
killers == <<cancelling, timers>>
bounds  == <<restarts, capChanges>>
vars == <<records, pids, sinks, pending, max_concurrent, threads, result,
          process, killers, launches, disk, bounds>>

-----------------------------------------------------------------------------
(* Where a thread can stand.                                               *)

Submitting == {"admit", "park"}                  (* create_and_run         *)
Pulling    == {"pull", "pop", "verify"}          (* try_start_pending      *)
Starting   == {"spawn", "start"}                 (* spawn_execution        *)
Executing  == {"workspace", "launched", "waiting", "complete"}
Locations  == {"idle", "none"}
                \cup Submitting \cup Pulling \cup Starting \cup Executing

Unsettled == "unsettled"

running_count == Cardinality({t \in TaskId : tasks[t] = Running})
SlotFree      == running_count < max_concurrent

Init ==
  /\ tasks = [t \in TaskId |-> Absent]
  /\ ended = {}
  /\ pids = {}
  /\ sinks = {}
  /\ pending = <<>>
  /\ max_concurrent = DefaultCap
  /\ pc = [a \in Threads |-> IF a = UI THEN "none" ELSE "idle"]
  /\ job = [a \in Threads |-> NoJob]
  /\ result = [t \in TaskId |-> Unsettled]
  /\ proc = [t \in TaskId |-> "none"]
  /\ signals = [t \in TaskId |-> {}]
  /\ cancelling = {}
  /\ timers = {}
  /\ launches = [t \in TaskId |-> 0]
  /\ disk = [t \in TaskId |-> Absent]
  /\ restarts = 0
  /\ capChanges = 0

-----------------------------------------------------------------------------
(* create_and_run: the submission of task t by a connection thread.        *)

(* The record is inserted as Queued before the cap is looked at.           *)
Submit(t) ==
  /\ pc[t] = "idle"
  /\ tasks' = [tasks EXCEPT ![t] = Queued]
  /\ pc' = [pc EXCEPT ![t] = "admit"]
  /\ UNCHANGED <<ended, pids, sinks, pending, max_concurrent, job, result,
                 process, killers, launches, disk, bounds>>

(* The cap is compared with the number of Running records; nothing is      *)
(* reserved, so the answer may be out of date when the thread acts on it.  *)
Admit(t) ==
  /\ pc[t] = "admit"
  /\ \/ /\ SlotFree
        /\ pc' = [pc EXCEPT ![t] = "spawn"]
        /\ job' = [job EXCEPT ![t] = t]
     \/ /\ ~SlotFree
        /\ pc' = [pc EXCEPT ![t] = "park"]
        /\ UNCHANGED job
  /\ UNCHANGED <<records, pids, sinks, pending, max_concurrent, result,
                 process, killers, launches, disk, bounds>>

Park(t) ==
  /\ pc[t] = "park"
  /\ pending' = Append(pending, t)
  /\ pc' = [pc EXCEPT ![t] = "none"]
  /\ UNCHANGED <<records, pids, sinks, max_concurrent, job, result, process,
                 killers, launches, disk, bounds>>

-----------------------------------------------------------------------------
(* spawn_execution(job[a]), called by the submitting thread itself or by   *)
(* any thread that pulled the task from the queue.                         *)

(* What thread a does when spawn_execution returns: the user interface     *)
(* pulls again (set_max_concurrent loops on the result true), the others   *)
(* are finished.                                                           *)
AfterSpawn(a) == IF a = UI THEN "pull" ELSE "none"

(* The arguments are read from the record and the live sink, the start     *)
(* time and the timeout are registered; without a record the call returns. *)
Prepare(a) ==
  /\ pc[a] = "spawn"
  /\ \/ /\ tasks[job[a]] # Absent
        /\ sinks' = sinks \cup {job[a]}
        /\ pc' = [pc EXCEPT ![a] = "start"]
        /\ UNCHANGED job
     \/ /\ tasks[job[a]] = Absent
        /\ pc' = [pc EXCEPT ![a] = AfterSpawn(a)]
        /\ job' = [job EXCEPT ![a] = NoJob]
        /\ UNCHANGED sinks
  /\ UNCHANGED <<records, pids, pending, max_concurrent, result, process,
                 killers, launches, disk, bounds>>

(* Fault: a missing record is inserted again.                            *)
FaultStartInserts(s) == Running

StartedStatus(s) == IF s = Absent THEN Absent ELSE Running

(* The status becomes Running, whatever it was, and the execution thread   *)
(* is created, whether or not there is still a record.                     *)
Start(a) ==
  LET t == job[a] IN
  /\ pc[a] = "start"
  /\ tasks' = [tasks EXCEPT ![t] = StartedStatus(@)]
  /\ pc' = [pc EXCEPT ![a] = AfterSpawn(a), ![t] = "workspace"]
  /\ job' = [job EXCEPT ![a] = NoJob]
  /\ launches' = [launches EXCEPT ![t] = @ + 1]
  /\ UNCHANGED <<ended, pids, sinks, pending, max_concurrent, result, process,
                 killers, disk, bounds>>

-----------------------------------------------------------------------------
(* The execution thread of task t.                                         *)

(* The sandbox launches bwrap, or refuses before there is a process.       *)
Launch(t) ==
  /\ pc[t] = "workspace"
  /\ \/ /\ proc' = [proc EXCEPT ![t] = "alive"]
        /\ pc' = [pc EXCEPT ![t] = "launched"]
        /\ UNCHANGED result
     \/ /\ pc' = [pc EXCEPT ![t] = "complete"]
        /\ result' = [result EXCEPT ![t] = Failed]
        /\ UNCHANGED proc
  /\ UNCHANGED <<records, pids, sinks, pending, max_concurrent, job, signals,
                 killers, launches, disk, bounds>>

(* The on_pid callback.                                                    *)
RegisterPid(t) ==
  /\ pc[t] = "launched"
  /\ pids' = pids \cup {t}
  /\ pc' = [pc EXCEPT ![t] = "waiting"]
  /\ UNCHANGED <<records, sinks, pending, max_concurrent, job, result, process,
                 killers, launches, disk, bounds>>

(* The sandbox returns once the process is gone, with exit code zero       *)
(* (Completed), another code or an error (Failed; module SandboxExec says  *)
(* when), and the PID entry is dropped.                                    *)
Return(t) ==
  /\ pc[t] = "waiting"
  /\ proc[t] = "gone"
  /\ \E r \in {Completed, Failed} : result' = [result EXCEPT ![t] = r]
  /\ pids' = pids \ {t}
  /\ pc' = [pc EXCEPT ![t] = "complete"]
  /\ UNCHANGED <<records, sinks, pending, max_concurrent, job, process,
                 killers, launches, disk, bounds>>

(* Fault: the outcome overwrites a cancellation.                         *)
FaultCompleteOverwrites(t) == IF tasks[t] = Absent THEN Absent ELSE result[t]

(* Fault: an error of the sandbox leaves the status as it is.            *)
FaultCompleteIgnoresErrors(t) ==
  IF tasks[t] = Running /\ result[t] = Completed THEN Completed ELSE tasks[t]

(* A record that was cancelled or removed meanwhile keeps its state.       *)
FinalStatus(t) ==
  IF tasks[t] \in {Absent, Cancelled} THEN tasks[t] ELSE result[t]

(* Fault: the sink is kept when the record is gone.                      *)
FaultSinkKept(t) == IF tasks[t] = Absent THEN sinks ELSE sinks \ {t}

(* The live sink, the start time and the timeout go with the execution.    *)
SinksWithout(t) == sinks \ {t}

(* Fault: the thread of a cancelled task does not pull.                  *)
FaultCancelledDoesNotPull(t) ==
  IF tasks[t] = Cancelled THEN "none" ELSE "pull"

(* Whatever became of its task, the thread then looks for work.            *)
AfterComplete(t) == "pull"

Complete(t) ==
  /\ pc[t] = "complete"
  /\ tasks' = [tasks EXCEPT ![t] = FinalStatus(t)]
  /\ ended' = IF tasks[t] = Absent THEN ended ELSE ended \cup {t}
  /\ sinks' = SinksWithout(t)
  /\ pc' = [pc EXCEPT ![t] = AfterComplete(t)]
  /\ UNCHANGED <<pids, pending, max_concurrent, job, result, process, killers,
                 launches, disk, bounds>>

-----------------------------------------------------------------------------
(* try_start_pending, called once by an execution thread that ends and in  *)
(* a loop by the user interface.                                           *)

CheckSlot(a) ==
  /\ pc[a] = "pull"
  /\ pc' = [pc EXCEPT ![a] = IF SlotFree THEN "pop" ELSE "none"]
  /\ UNCHANGED <<records, pids, sinks, pending, max_concurrent, job, result,
                 process, killers, launches, disk, bounds>>

(* Fault: the head of the queue is read but not removed.                 *)
FaultQueuePeeked == pending

RestOfQueue == Tail(pending)

PopFront(a) ==
  /\ pc[a] = "pop"
  /\ \/ /\ pending # <<>>
        /\ job' = [job EXCEPT ![a] = Head(pending)]
        /\ pending' = RestOfQueue
        /\ pc' = [pc EXCEPT ![a] = "verify"]
     \/ /\ pending = <<>>
        /\ pc' = [pc EXCEPT ![a] = "none"]
        /\ UNCHANGED <<pending, job>>
  /\ UNCHANGED <<records, pids, sinks, max_concurrent, result, process,
                 killers, launches, disk, bounds>>

(* Fault: the entry is dropped when the slot was taken meanwhile.        *)
FaultSlotRechecked(t) == tasks[t] = Queued /\ SlotFree

StillWanted(t) == tasks[t] = Queued

(* An entry cancelled while it waited is dropped and the search goes on.   *)
StillQueued(a) ==
  /\ pc[a] = "verify"
  /\ \/ /\ StillWanted(job[a])
        /\ pc' = [pc EXCEPT ![a] = "spawn"]
        /\ UNCHANGED job
     \/ /\ ~StillWanted(job[a])
        /\ pc' = [pc EXCEPT ![a] = "pull"]
        /\ job' = [job EXCEPT ![a] = NoJob]
  /\ UNCHANGED <<records, pids, sinks, pending, max_concurrent, result,
                 process, killers, launches, disk, bounds>>

(* Fault: a cap of zero is accepted.                                     *)
FaultCapOfZero(n) == n

NewCap(n) == IF n = 0 THEN 1 ELSE n

SetMaxConcurrent(n) ==
  /\ pc[UI] = "none"
  /\ capChanges < MaxCapChanges
  /\ max_concurrent' = NewCap(n)
  /\ capChanges' = capChanges + 1
  /\ pc' = [pc EXCEPT ![UI] = "pull"]
  /\ UNCHANGED <<records, pids, sinks, pending, job, result, process, killers,
                 launches, disk, restarts>>

-----------------------------------------------------------------------------
(* cancel and remove_finished, called by a peer's connection thread or by  *)
(* the user interface.  At most one cancel() of a task is under way at a   *)
(* time; an error return changes nothing and is not a step.                *)

Cancel(t) ==
  /\ tasks[t] \in Active
  /\ t \notin cancelling
  /\ tasks' = [tasks EXCEPT ![t] = Cancelled]
  /\ ended' = ended \cup {t}
  /\ cancelling' = cancelling \cup {t}
  /\ UNCHANGED <<pids, sinks, pending, max_concurrent, threads, result,
                 process, timers, launches, disk, bounds>>

(* `kill` with the PID of t; a process that is gone does not notice.       *)
Signalled(t, s) ==
  IF proc[t] = "alive" THEN [signals EXCEPT ![t] = @ \cup {s}] ELSE signals

(* The PID is looked up only now: SIGTERM and a SIGKILL thread if there is *)
(* one, nothing otherwise.                                                 *)
Terminate(t) ==
  /\ t \in cancelling
  /\ cancelling' = cancelling \ {t}
  /\ \/ /\ t \in pids
        /\ signals' = Signalled(t, "TERM")
        /\ timers' = timers \cup {t}
     \/ /\ t \notin pids
        /\ UNCHANGED <<signals, timers>>
  /\ UNCHANGED <<records, pids, sinks, pending, max_concurrent, threads,
                 result, proc, launches, disk, bounds>>

(* Fault: SIGKILL goes only to a task that still says Running.           *)
FaultStatusLooked(t) == tasks[t] = Running

StillRegistered(t) == t \in pids

KillTimer(t) ==
  /\ t \in timers
  /\ timers' = timers \ {t}
  /\ signals' = IF StillRegistered(t) THEN Signalled(t, "KILL") ELSE signals
  /\ UNCHANGED <<records, pids, sinks, pending, max_concurrent, threads,
                 result, proc, cancelling, launches, disk, bounds>>

RemoveFinished(t) ==
  /\ tasks[t] \in Terminal
  /\ tasks' = [tasks EXCEPT ![t] = Absent]
  /\ ended' = ended \ {t}
  /\ UNCHANGED <<pids, sinks, pending, max_concurrent, threads, result,
                 process, killers, launches, disk, bounds>>

-----------------------------------------------------------------------------
(* The sandboxed process: it exits on its own or dies of a signal.         *)

Exit(t) ==
  /\ proc[t] = "alive"
  /\ proc' = [proc EXCEPT ![t] = "gone"]
  /\ signals' = [signals EXCEPT ![t] = {}]
  /\ UNCHANGED <<records, pids, sinks, pending, max_concurrent, threads,
                 result, killers, launches, disk, bounds>>

(* SIGTERM may be ignored by the process, SIGKILL may not.                 *)
Killed(t) == "KILL" \in signals[t] /\ Exit(t)

-----------------------------------------------------------------------------
(* Persistence and restart.                                                *)

(* The snapshot of the persistence thread.  It is taken only while a       *)
(* restart that reads it may still come (bound).                           *)
Persist ==
  /\ restarts < MaxRestarts
  /\ disk' = tasks
  /\ UNCHANGED <<records, pids, sinks, pending, max_concurrent, threads,
                 result, process, killers, launches, bounds>>

(* Fault: only Queued tasks are marked on load.                          *)
FaultLoadedKeepsRunning(s) == IF s = Queued THEN Cancelled ELSE s

(* load_from_disk: what was active when the snapshot was taken is dead.    *)
Loaded(s) == IF s \in Active THEN Cancelled ELSE s

(* The application dies and starts again: its threads, queue and maps are  *)
(* gone, and bwrap dies with its parent (--die-with-parent).               *)
Restart ==
  /\ restarts < MaxRestarts
  /\ restarts' = restarts + 1
  /\ tasks' = [t \in TaskId |-> Loaded(disk[t])]
  /\ ended' = {t \in TaskId : disk[t] # Absent}
  /\ pids' = {}
  /\ sinks' = {}
  /\ pending' = <<>>
  /\ max_concurrent' = DefaultCap
  /\ pc' = [a \in Threads |-> IF pc[a] = "idle" THEN "idle" ELSE "none"]
  /\ job' = [a \in Threads |-> NoJob]
  /\ proc' = [t \in TaskId |-> IF proc[t] = "none" THEN "none" ELSE "gone"]
  /\ signals' = [t \in TaskId |-> {}]
  /\ cancelling' = {}
  /\ timers' = {}
  /\ UNCHANGED <<result, launches, disk, capChanges>>

-----------------------------------------------------------------------------
SubmitStep(t)  == Admit(t) \/ Park(t)
ExecuteStep(t) == Launch(t) \/ RegisterPid(t) \/ Return(t) \/ Complete(t)
StartStep(a)   == Prepare(a) \/ Start(a)
PullStep(a)    == CheckSlot(a) \/ PopFront(a) \/ StillQueued(a)
CancelStep(t)  == Terminate(t) \/ KillTimer(t)

Next ==
  \/ \E t \in TaskId : \/ Submit(t) \/ SubmitStep(t) \/ ExecuteStep(t)
                       \/ Cancel(t) \/ CancelStep(t) \/ RemoveFinished(t)
                       \/ Exit(t)
  \/ \E a \in Threads : StartStep(a) \/ PullStep(a)
  \/ \E n \in Caps : SetMaxConcurrent(n)
  \/ Persist
  \/ Restart

Spec == Init /\ [][Next]_vars

(* A thread that can take a step takes one, a `kill -KILL` arrives.        *)
(* Nothing forces a sandboxed program to end, a peer to submit or cancel,  *)
(* or the user to act.                                                     *)
Fairness ==
  /\ \A t \in TaskId : /\ WF_vars(SubmitStep(t)) /\ WF_vars(ExecuteStep(t))
                       /\ WF_vars(Terminate(t)) /\ WF_vars(KillTimer(t))
                       /\ WF_vars(Killed(t))
  /\ \A a \in Threads : WF_vars(StartStep(a)) /\ WF_vars(PullStep(a))

FairSpec == Spec /\ Fairness
-----------------------------------------------------------------------------
(* Properties.                                                             *)

TypeOK ==
  /\ tasks \in [TaskId -> Statuses \cup {Absent}]
  /\ ended \subseteq TaskId
  /\ pids \subseteq TaskId
  /\ sinks \subseteq TaskId
  /\ pending \in Seq(TaskId)
  /\ max_concurrent \in Nat \ {0}
  /\ pc \in [Threads -> Locations]
  /\ job \in [Threads -> TaskId \cup {NoJob}]
  /\ result \in [TaskId -> {Completed, Failed, Unsettled}]
  /\ proc \in [TaskId -> {"none", "alive", "gone"}]
  /\ signals \in [TaskId -> SUBSET {"TERM", "KILL"}]
  /\ cancelling \subseteq TaskId
  /\ timers \subseteq TaskId
  /\ launches \in [TaskId -> Nat]
  /\ disk \in [TaskId -> Statuses \cup {Absent}]
  /\ restarts \in Nat
  /\ capChanges \in Nat

(* However submissions, pulls by finished tasks, pulls by a raised cap,    *)
(* cancels and restarts interleave, a peer's command runs at most once.    *)
ExecutedAtMostOnce == \A t \in TaskId : launches[t] <= 1

(* A task is in the hands of one party at most: the thread that submits    *)
(* it, one entry of the queue, one thread that pulled it, or its own       *)
(* execution thread.  This is what makes the unlocked hand-overs between   *)
(* create_and_run, try_start_pending and spawn_execution safe.             *)
InQueue(t) == \E i \in 1..Len(pending) : pending[i] = t
Holds(a, t) == job[a] = t
OneOwner ==
  \A t \in TaskId :
    /\ \A i, j \in 1..Len(pending) : pending[i] = t /\ pending[j] = t => i = j
    /\ \A a, b \in Threads : Holds(a, t) /\ Holds(b, t) => a = b
    /\ InQueue(t) => \A a \in Threads : ~Holds(a, t)
    /\ pc[t] \in Submitting \cup Executing =>
         ~InQueue(t) /\ \A a \in Threads : ~Holds(a, t)

(* A slot is never leaked: a record says Running only while an execution   *)
(* thread will still replace that status.                                  *)
RunningIsExecuted ==
  \A t \in TaskId : tasks[t] = Running => pc[t] \in Executing

(* A task is never forgotten: a Queued record is being admitted, in the    *)
(* queue, or in the hands of a thread that is about to start it.           *)
QueuedIsOwned ==
  \A t \in TaskId : tasks[t] = Queued =>
    pc[t] \in Submitting \/ InQueue(t) \/ \E a \in Threads : Holds(a, t)

(* When the store is at rest nothing is left behind in the PID and sink    *)
(* maps and no sandboxed process is alive, whatever was cancelled, removed *)
(* or refused on the way.                                                  *)
AtRest == \A a \in Threads : pc[a] \in {"idle", "none"}
NothingLeaks ==
  AtRest => /\ pids = {} /\ sinks = {}
            /\ \A t \in TaskId : proc[t] # "alive"

(* An outcome a poll has shown is final: within one run of the application *)
(* a Completed or Failed record changes only by being removed, and a       *)
(* cancelled task never acquires an outcome directly.                      *)
OutcomeIsFinal ==
  [][restarts' = restarts => \A t \in TaskId :
       /\ tasks[t] \in {Completed, Failed} => tasks'[t] \in {tasks[t], Absent}
       /\ tasks[t] = Cancelled => tasks'[t] \notin {Queued, Completed, Failed}]_vars

(* No process gets away in the two seconds between SIGTERM and SIGKILL:    *)
(* when the SIGKILL thread of a cancel has looked the PID up again, the    *)
(* process is gone or has been sent SIGKILL, whatever its execution thread *)
(* and other cancels did to the entry meanwhile.                           *)
EscalationReaches ==
  [][restarts' = restarts => \A t \in timers \ timers' :
       proc[t] = "alive" => "KILL" \in signals'[t]]_vars

(* Refinement: the store keeps the promise of module TaskLedger.           *)
Ledger == INSTANCE TaskLedger WITH
  known    <- {t \in TaskId : pc[t] # "idle"},
  record   <- tasks,
  executed <- {t \in TaskId : launches[t] > 0},
  outcome  <- result
KeepsLedger == Ledger!Spec

(* Refinement: for every task the store makes one call of the sandbox, and *)
(* assumes of it no more than module SandboxCall promises.  A command that *)
(* failed and a sandbox that refused are the same to the store, Failed.    *)
Stage(t) ==
  CASE pc[t] = "workspace" -> "entered"
    [] pc[t] = "launched" -> "launched"
    [] pc[t] = "waiting" -> "told"
    [] OTHER -> IF launches[t] = 0 THEN "idle"
                ELSE IF result[t] = Unsettled THEN "lost" ELSE "returned"

Answer(t) ==
  CASE result[t] = Completed -> "exit code"
    [] result[t] = Failed -> "error"
    [] OTHER -> "none"

Call(t) == INSTANCE SandboxCall WITH
  stage   <- Stage(t),
  process <- proc[t],
  answer  <- Answer(t)
CallsSandbox == \A t \in TaskId : Call(t)!Spec

-----------------------------------------------------------------------------
(* Liveness.                                                               *)

(* SIGKILL reaches every process that was registered when cancel() looked, *)
(* even a program that ignores SIGTERM: no program has to end by itself.   *)
CancelKills ==
  \A t \in TaskId : (t \in cancelling /\ t \in pids) ~> (proc[t] # "alive")

(* A slot whose process is gone is always given back: the record does not  *)
(* keep saying Running.                                                    *)
SlotReturns ==
  \A t \in TaskId :
    (tasks[t] = Running /\ proc[t] = "gone") ~> (tasks[t] # Running)

(* Assumptions of the two properties on the queue: sandboxed programs end, *)
(* and no record is removed.                                               *)
ProgramsEnd == \A t \in TaskId : (proc[t] = "alive") ~> (proc[t] # "alive")
RecordsStay == [](\A t \in TaskId : pc[t] # "idle" => tasks[t] # Absent)

(* A finished task hands its slot on: as long as no record is removed, a   *)
(* task parked while some task executes leaves the queue, although every   *)
(* finished task pulls only once and the cap may be lowered meanwhile.     *)
SomeExecuting == \E u \in TaskId : pc[u] \in Executing
SlotIsHandedOn ==
  ProgramsEnd /\ RecordsStay =>
    \A t \in TaskId : (InQueue(t) /\ SomeExecuting) ~> ~InQueue(t)

-----------------------------------------------------------------------------
(* What comments and documents say and the code does not do.               *)

(* incoming.rs:375, "the task stays Queued and will be started by          *)
(* `try_start_pending` when a slot frees": if programs end, every parked   *)
(* task leaves the queue.                                                  *)
ParkedStarts == ProgramsEnd => \A t \in TaskId : InQueue(t) ~> ~InQueue(t)

(* incoming.rs:525, "Mark a task as Cancelled and SIGTERM its bwrap        *)
(* process": the process of a cancelled task eventually stays dead.        *)
CancelStops == \A t \in TaskId : (t \in cancelling) ~> [](proc[t] # "alive")
=============================================================================
