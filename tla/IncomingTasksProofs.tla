------------------------- MODULE IncomingTasksProofs ------------------------
(***************************************************************************)
(* What holds of module IncomingTasks for every set of tasks, every cap    *)
(* and any number of restarts, with its proofs.                            *)
(*                                                                         *)
(* The argument has three layers, each inductive once the ones before it   *)
(* are known: the types (TypeInv), who has a task in hand (OwnerInv), and  *)
(* what the records say of it (StatusInv).  The properties of the module   *)
(* follow from their conjunction without another induction.                *)
(***************************************************************************)
EXTENDS IncomingTasks, TLAPS, SequenceTheorems

(* A status of a record that has an outcome of its command.                *)
Outcomes == {Completed, Failed}

Holding == {"verify", "spawn", "start"}

(* Types alone are not inductive: Complete copies the result into the      *)
(* record, and Prepare and Start index the maps with the job in hand.      *)
TypeInv ==
  /\ TypeOK
  /\ \A t \in TaskId : pc[t] = "complete" => result[t] \in Outcomes
  /\ \A a \in Threads : pc[a] \in Holding => job[a] # NoJob

QueueDistinct ==
  \A i, j \in 1..Len(pending) : pending[i] = pending[j] => i = j

(* A parked task has not been launched, its submitter is gone and nobody   *)
(* holds it.                                                               *)
QueuedApart(t) ==
  InQueue(t) => /\ pc[t] = "none"
                /\ launches[t] = 0
                /\ \A a \in Threads : ~Holds(a, t)

(* A task in hand has not been launched, is in one hand only, and if that  *)
(* is not its submitter's then its submitter is gone.                      *)
HeldApart(t) ==
  \A a \in Threads : Holds(a, t) =>
    /\ launches[t] = 0
    /\ \A b \in Threads : Holds(b, t) => b = a
    /\ a # t => pc[t] = "none"

LaunchesCounted(t) ==
  /\ launches[t] \in {0, 1}
  /\ pc[t] \in {"idle"} \cup Submitting => launches[t] = 0
  /\ pc[t] \in Executing => launches[t] = 1

OwnerInv ==
  /\ QueueDistinct
  /\ \A a \in Threads : job[a] # NoJob => pc[a] \in Holding
  /\ \A t \in TaskId : QueuedApart(t) /\ HeldApart(t) /\ LaunchesCounted(t)

(* What the record and its snapshot say agrees with who has the task.      *)
RecordFits(t) ==
  /\ pc[t] = "idle" => tasks[t] = Absent /\ disk[t] = Absent
  /\ launches[t] = 0 => /\ {tasks[t], disk[t]} \subseteq
                              {Absent, Queued, Cancelled}
                        /\ result[t] = Unsettled
  /\ pc[t] \in Executing => tasks[t] \in {Running, Cancelled, Absent}
  /\ pc[t] \in Executing \ {"complete"} => result[t] = Unsettled
  /\ tasks[t] = Running => pc[t] \in Executing
  /\ tasks[t] \in Outcomes => tasks[t] = result[t]
  /\ disk[t] \in Outcomes => disk[t] = result[t]

InHand(t) ==
  pc[t] \in Submitting \/ InQueue(t) \/ \E a \in Threads : Holds(a, t)

StatusInv ==
  \A t \in TaskId : RecordFits(t) /\ (tasks[t] = Queued => InHand(t))

IInv == TypeInv /\ OwnerInv /\ StatusInv

-----------------------------------------------------------------------------
(* Types.                                                                  *)

USE DEF records, process, threads, killers, bounds

LEMMA TypeInit == Init => TypeInv
  BY UIAssumption, CapAssumption, EmptySeq
  DEF Init, TypeInv, TypeOK, Threads, Locations, Statuses, Active, Terminal,
      Absent, Unsettled, Holding, Outcomes

LEMMA LocationNames ==
  {"idle", "none", "admit", "park", "pull", "pop", "verify", "spawn", "start",
   "workspace", "launched", "waiting", "complete"} = Locations
  BY DEF Locations, Submitting, Pulling, Starting, Executing

LEMMA StatusNames ==
  /\ Queued \in Statuses /\ Running \in Statuses /\ Cancelled \in Statuses
  /\ Outcomes \subseteq Statuses
  /\ Unsettled \notin Outcomes
  BY DEF Statuses, Active, Terminal, Outcomes, Unsettled, Queued, Running,
         Completed, Failed, Cancelled

LEMMA QueueHead ==
  ASSUME TypeOK, pending # <<>>
  PROVE  Head(pending) \in TaskId /\ Tail(pending) \in Seq(TaskId)
  BY HeadTailProperties DEF TypeOK

LEMMA OwnJob ==
  ASSUME job \in [Threads -> TaskId \cup {NoJob}], NEW t \in TaskId
  PROVE  [job EXCEPT ![t] = t] \in [Threads -> TaskId \cup {NoJob}]
  OBVIOUS

LEMMA TypeStep == TypeInv /\ [Next]_vars => TypeInv'
  <1> SUFFICES ASSUME TypeInv, [Next]_vars
               PROVE  TypeInv'
    OBVIOUS
  <1> USE UIAssumption, CapAssumption, JobAssumption, LocationNames,
          StatusNames
  <1> USE DEF TypeInv, TypeOK, Threads, Holding
  <1>1. ASSUME NEW t \in TaskId, Submit(t)
       PROVE  TypeInv'
    BY <1>1 DEF Submit
  <1>2. ASSUME NEW t \in TaskId, Admit(t)
       PROVE  TypeInv'
    <2>1. pc' \in [Threads -> Locations]
      <3>1. \E l \in Locations : pc' = [pc EXCEPT ![t] = l]
        BY <1>2, Zenon DEF Admit
      <3> QED
        BY <3>1
    <2>2. job' \in [Threads -> TaskId \cup {NoJob}]
      <3>1. CASE SlotFree
        BY <1>2, <3>1, OwnJob, SMTT(30) DEF Admit
      <3>2. CASE ~SlotFree
        BY <1>2, <3>2 DEF Admit
      <3> QED
        BY <3>1, <3>2
    <2>3. (\A b \in Threads : pc[b] \in Holding => job[b] # NoJob)'
      <3> SUFFICES ASSUME NEW b \in Threads
                   PROVE  pc'[b] \in Holding => job'[b] # NoJob
        OBVIOUS
      <3>1. CASE b = t
        BY <1>2, <3>1 DEF Admit
      <3>2. CASE b # t
        BY <1>2, <3>2 DEF Admit
      <3> QED
        BY <3>1, <3>2
    <2>4. (\A u \in TaskId : pc[u] = "complete" => result[u] \in Outcomes)'
      BY <1>2 DEF Admit
    <2> QED
      BY <1>2, <2>1, <2>2, <2>3, <2>4 DEF Admit
  <1>3. ASSUME NEW t \in TaskId, Park(t)
       PROVE  TypeInv'
    BY <1>3 DEF Park
  <1>4. ASSUME NEW a \in Threads, Prepare(a)
       PROVE  TypeInv'
    <2>1. pc' \in [Threads -> Locations]
      BY <1>4, SMTT(30) DEF Prepare, AfterSpawn
    <2>2. job' \in [Threads -> TaskId \cup {NoJob}]
      BY <1>4, SMTT(30) DEF Prepare
    <2>3. sinks' \subseteq TaskId
      BY <1>4 DEF Prepare
    <2>4. (\A b \in Threads : pc[b] \in Holding => job[b] # NoJob)'
      BY <1>4 DEF Prepare, AfterSpawn
    <2>5. (\A u \in TaskId : pc[u] = "complete" => result[u] \in Outcomes)'
      BY <1>4 DEF Prepare, AfterSpawn
    <2> QED
      BY <1>4, <2>1, <2>2, <2>3, <2>4, <2>5 DEF Prepare
  <1>5. ASSUME NEW a \in Threads, Start(a)
       PROVE  TypeInv'
    <2>1. pc' \in [Threads -> Locations]
      BY <1>5 DEF Start, AfterSpawn
    <2>2. job' \in [Threads -> TaskId \cup {NoJob}]
      BY <1>5 DEF Start
    <2>3. tasks' \in [TaskId -> Statuses \cup {Absent}]
      BY <1>5 DEF Start, StartedStatus
    <2>4. launches' \in [TaskId -> Nat]
      BY <1>5 DEF Start
    <2>5. (\A b \in Threads : pc[b] \in Holding => job[b] # NoJob)'
      <3> SUFFICES ASSUME NEW b \in Threads
                   PROVE  pc'[b] \in Holding => job'[b] # NoJob
        OBVIOUS
      <3>1. CASE b = a
        BY <1>5, <3>1 DEF Start, AfterSpawn
      <3>2. CASE b # a
        BY <1>5, <3>2 DEF Start, AfterSpawn
      <3> QED
        BY <3>1, <3>2
    <2>6. (\A u \in TaskId : pc[u] = "complete" => result[u] \in Outcomes)'
      BY <1>5 DEF Start, AfterSpawn
    <2> QED
      BY <1>5, <2>1, <2>2, <2>3, <2>4, <2>5, <2>6 DEF Start
  <1>6. ASSUME NEW t \in TaskId, Launch(t)
       PROVE  TypeInv'
    <2>1. pc' \in [Threads -> Locations]
      BY <1>6 DEF Launch
    <2>2. proc' \in [TaskId -> {"none", "alive", "gone"}]
      BY <1>6 DEF Launch
    <2>3. result' \in [TaskId -> {Completed, Failed, Unsettled}]
      BY <1>6 DEF Launch
    <2>4. (\A u \in TaskId : pc[u] = "complete" => result[u] \in Outcomes)'
      BY <1>6 DEF Launch, Outcomes
    <2>5. (\A b \in Threads : pc[b] \in Holding => job[b] # NoJob)'
      BY <1>6 DEF Launch
    <2> QED
      BY <1>6, <2>1, <2>2, <2>3, <2>4, <2>5 DEF Launch
  <1>7. ASSUME NEW t \in TaskId, RegisterPid(t)
       PROVE  TypeInv'
    BY <1>7 DEF RegisterPid
  <1>8. ASSUME NEW t \in TaskId, Return(t)
       PROVE  TypeInv'
    BY <1>8 DEF Return, Outcomes
  <1>9. ASSUME NEW t \in TaskId, Complete(t)
       PROVE  TypeInv'
    BY <1>9 DEF Complete, FinalStatus, SinksWithout, AfterComplete, Outcomes
  <1>10. ASSUME NEW a \in Threads, CheckSlot(a)
        PROVE  TypeInv'
    BY <1>10 DEF CheckSlot
  <1>11. ASSUME NEW a \in Threads, PopFront(a)
        PROVE  TypeInv'
    <2>1. pending' \in Seq(TaskId) /\ (pending # <<>> => Head(pending) \in TaskId)
      BY <1>11, QueueHead DEF PopFront, RestOfQueue
    <2>2. pc' = [pc EXCEPT ![a] = "verify"] \/ pc' = [pc EXCEPT ![a] = "none"]
      BY <1>11 DEF PopFront
    <2>3. job' \in [Threads -> TaskId \cup {NoJob}]
      BY <1>11, <2>1, SMTT(30) DEF PopFront
    <2>4. (\A b \in Threads : pc[b] \in Holding => job[b] # NoJob)'
      <3> SUFFICES ASSUME NEW b \in Threads
                   PROVE  pc'[b] \in Holding => job'[b] # NoJob
        OBVIOUS
      <3>1. CASE b = a
        BY <1>11, <3>1, <2>1 DEF PopFront
      <3>2. CASE b # a
        BY <1>11, <3>2, <2>1 DEF PopFront
      <3> QED
        BY <3>1, <3>2
    <2>5. (\A u \in TaskId : pc[u] = "complete" => result[u] \in Outcomes)'
      BY <1>11, <2>1 DEF PopFront
    <2> QED
      BY <1>11, <2>1, <2>2, <2>3, <2>4, <2>5 DEF PopFront
  <1>12. ASSUME NEW a \in Threads, StillQueued(a)
        PROVE  TypeInv'
    <2>1. pc' \in [Threads -> Locations]
      BY <1>12, SMTT(30) DEF StillQueued
    <2>2. job' \in [Threads -> TaskId \cup {NoJob}]
      BY <1>12 DEF StillQueued
    <2>3. (\A b \in Threads : pc[b] \in Holding => job[b] # NoJob)'
      BY <1>12 DEF StillQueued
    <2>4. (\A u \in TaskId : pc[u] = "complete" => result[u] \in Outcomes)'
      BY <1>12 DEF StillQueued
    <2> QED
      BY <1>12, <2>1, <2>2, <2>3, <2>4 DEF StillQueued
  <1>13. ASSUME NEW n \in Caps, SetMaxConcurrent(n)
        PROVE  TypeInv'
    <2>1. NewCap(n) \in Nat \ {0}
      BY DEF NewCap
    <2> QED
      BY <1>13, <2>1 DEF SetMaxConcurrent
  <1>14. ASSUME NEW t \in TaskId, Cancel(t)
        PROVE  TypeInv'
    BY <1>14 DEF Cancel
  <1>15. ASSUME NEW t \in TaskId, RemoveFinished(t)
        PROVE  TypeInv'
    BY <1>15 DEF RemoveFinished
  <1>16. ASSUME NEW t \in TaskId, Terminate(t)
        PROVE  TypeInv'
    <2>1. signals' \in [TaskId -> SUBSET {"TERM", "KILL"}]
      <3>1. CASE signals' = signals
        BY <3>1
      <3>2. CASE signals' = [signals EXCEPT ![t] = @ \cup {"TERM"}]
        BY <3>2
      <3> QED
        BY <1>16, <3>1, <3>2 DEF Terminate, Signalled
    <2>2. timers' \subseteq TaskId /\ cancelling' \subseteq TaskId
      BY <1>16 DEF Terminate
    <2> QED
      BY <1>16, <2>1, <2>2 DEF Terminate
  <1>17. ASSUME NEW t \in TaskId, KillTimer(t)
        PROVE  TypeInv'
    BY <1>17 DEF KillTimer, Signalled
  <1>18. ASSUME NEW t \in TaskId, Exit(t)
        PROVE  TypeInv'
    BY <1>18 DEF Exit
  <1>19. CASE Persist
    BY <1>19 DEF Persist
  <1>20. CASE Restart
    BY <1>20, EmptySeq, BoundAssumption
    DEF Restart, Loaded, Active, Queued, Running
  <1>21. CASE UNCHANGED vars
    BY <1>21 DEF vars
  <1> QED
    BY <1>1, <1>2, <1>3, <1>4, <1>5, <1>6, <1>7, <1>8, <1>9, <1>10, <1>11,
       <1>12, <1>13, <1>14, <1>15, <1>16, <1>17, <1>18, <1>19, <1>20, <1>21
    DEF Next, SubmitStep, ExecuteStep, StartStep, PullStep, CancelStep

(* Type correctness of the store, for any set of tasks and any caps.       *)
THEOREM TypeCorrect == Spec => []TypeOK
  <1>1. TypeInv => TypeOK
    BY DEF TypeInv
  <1> QED
    BY <1>1, TypeInit, TypeStep, PTL DEF Spec

-----------------------------------------------------------------------------
(* Who has a task in hand.                                                 *)

NotLaunched == {"idle"} \cup Submitting

LEMMA OwnerInit == Init => OwnerInv
  BY JobAssumption, EmptySeq
  DEF Init, OwnerInv, QueueDistinct, QueuedApart, HeldApart, LaunchesCounted,
      InQueue, Holds, Holding, Executing, Submitting, Threads

(* A thread moves on without taking, queueing or launching a task.         *)
LEMMA ThreadMoves ==
  ASSUME TypeInv, OwnerInv, NEW x \in Threads, NEW q,
         pc' = [pc EXCEPT ![x] = q],
         UNCHANGED <<job, pending, launches>>,
         pc[x] # "none" \/ x = UI,
         pc[x] \in Holding => q \in Holding,
         q \in NotLaunched => pc[x] \in NotLaunched,
         q \in Executing => pc[x] \in Executing
  PROVE  OwnerInv'
  <1> USE UIAssumption DEF TypeInv, TypeOK, OwnerInv
  <1>1. \A u \in TaskId : InQueue(u)' <=> InQueue(u)
    BY DEF InQueue
  <1>2. \A u \in TaskId : u # x => pc'[u] = pc[u]
    BY DEF Threads
  <1>3. QueueDistinct'
    BY DEF QueueDistinct
  <1>4. (\A a \in Threads : job[a] # NoJob => pc[a] \in Holding)'
    OBVIOUS
  <1>5. ASSUME NEW u \in TaskId
        PROVE  QueuedApart(u)'
    BY <1>1, <1>2 DEF QueuedApart, Holds
  <1>6. ASSUME NEW u \in TaskId
        PROVE  HeldApart(u)'
    BY <1>2 DEF HeldApart, Holds
  <1>7. ASSUME NEW u \in TaskId
        PROVE  LaunchesCounted(u)'
    BY <1>2 DEF LaunchesCounted, NotLaunched
  <1> QED
    BY <1>3, <1>4, <1>5, <1>6, <1>7

(* A thread gives up the task it has in hand.                              *)
LEMMA ThreadDrops ==
  ASSUME TypeInv, OwnerInv, NEW x \in Threads, NEW q \in {"none", "pull"},
         pc[x] \in Holding,
         pc' = [pc EXCEPT ![x] = q],
         job' = [job EXCEPT ![x] = NoJob],
         UNCHANGED <<pending, launches>>
  PROVE  OwnerInv'
  <1> USE JobAssumption DEF TypeInv, TypeOK, OwnerInv, Holding
  <1>1. \A u \in TaskId : InQueue(u)' <=> InQueue(u)
    BY DEF InQueue
  <1>2. \A u \in TaskId : u # x => pc'[u] = pc[u]
    BY DEF Threads
  <1>3. QueueDistinct'
    BY DEF QueueDistinct
  <1>4. (\A a \in Threads : job[a] # NoJob => pc[a] \in Holding)'
    OBVIOUS
  <1>5. ASSUME NEW u \in TaskId
        PROVE  QueuedApart(u)'
    BY <1>1, <1>2 DEF QueuedApart, Holds
  <1>6. ASSUME NEW u \in TaskId
        PROVE  HeldApart(u)'
    BY <1>2 DEF HeldApart, Holds
  <1>7. ASSUME NEW u \in TaskId
        PROVE  LaunchesCounted(u)'
    BY <1>2 DEF LaunchesCounted, Submitting, Executing
  <1> QED
    BY <1>3, <1>4, <1>5, <1>6, <1>7

(* What the hand-over through the queue does to its entries.               *)
LEMMA QueueAppend ==
  ASSUME TypeOK, NEW t \in TaskId, pending' = Append(pending, t)
  PROVE  /\ Len(pending') = Len(pending) + 1
         /\ \A i \in 1..Len(pending) : pending'[i] = pending[i]
         /\ pending'[Len(pending) + 1] = t
         /\ \A u \in TaskId : InQueue(u)' <=> InQueue(u) \/ u = t
  <1>1. /\ Len(pending) \in Nat
        /\ Len(pending') = Len(pending) + 1
        /\ \A i \in 1..Len(pending) : pending'[i] = pending[i]
        /\ pending'[Len(pending) + 1] = t
    BY DEF TypeOK
  <1> QED
    BY <1>1 DEF InQueue

LEMMA QueueTail ==
  ASSUME TypeOK, pending # <<>>, pending' = Tail(pending)
  PROVE  /\ Len(pending) \in Nat \ {0}
         /\ Len(pending') = Len(pending) - 1
         /\ \A i \in 1..Len(pending') : pending'[i] = pending[i + 1]
         /\ Head(pending) = pending[1]
         /\ InQueue(Head(pending))
         /\ \A u \in TaskId : InQueue(u)' => InQueue(u)
         /\ \A u \in TaskId : InQueue(u) => InQueue(u)' \/ u = Head(pending)
  <1>1. /\ Len(pending) \in Nat \ {0}
        /\ Len(pending') = Len(pending) - 1
        /\ \A i \in 1..Len(pending') : pending'[i] = pending[i + 1]
        /\ Head(pending) = pending[1]
    BY HeadTailProperties, EmptySeq DEF TypeOK
  <1>2. ASSUME NEW u \in TaskId, NEW i \in 1..Len(pending), pending[i] = u,
               u # pending[1]
        PROVE  InQueue(u)'
    <2>1. i - 1 \in 1..Len(pending') /\ pending'[i - 1] = u
      BY <1>1, <1>2
    <2> QED
      BY <2>1 DEF InQueue
  <1> QED
    BY <1>1, <1>2 DEF InQueue

LEMMA OwnerAdmit ==
  ASSUME TypeInv, OwnerInv, NEW t \in TaskId, Admit(t)
  PROVE  OwnerInv'
  <1> USE UIAssumption, JobAssumption DEF TypeInv, TypeOK, OwnerInv
  <1>1. CASE ~SlotFree
    <2>1. pc' = [pc EXCEPT ![t] = "park"]
      BY <1>1 DEF Admit
    <2> QED
      BY <1>1, <2>1, ThreadMoves
      DEF Admit, Threads, NotLaunched, Submitting, Executing, Holding
  <1>2. CASE SlotFree
    <2>1. /\ pc' = [pc EXCEPT ![t] = "spawn"]
          /\ job' = [job EXCEPT ![t] = t]
          /\ UNCHANGED <<pending, launches>>
          /\ t \in Threads
          /\ pc[t] = "admit"
      BY <1>2 DEF Admit, Threads
    <2>2. /\ launches[t] = 0
          /\ ~InQueue(t)
          /\ \A a \in Threads : ~Holds(a, t)
          /\ job[t] = NoJob
      <3>1. launches[t] = 0
        BY <2>1 DEF LaunchesCounted, Submitting
      <3>2. ~InQueue(t)
        BY <2>1 DEF QueuedApart
      <3>3. job[t] = NoJob
        BY <2>1 DEF Holding
      <3>4. \A a \in Threads : ~Holds(a, t)
        BY <2>1, <3>3 DEF HeldApart, Holds
      <3> QED
        BY <3>1, <3>2, <3>3, <3>4
    <2>3. \A u \in TaskId : InQueue(u)' <=> InQueue(u)
      BY <2>1 DEF InQueue
    <2>4. \A u \in TaskId : u # t => pc'[u] = pc[u]
      BY <2>1 DEF Threads
    <2>5. QueueDistinct'
      BY <2>1 DEF QueueDistinct
    <2>6. (\A a \in Threads : job[a] # NoJob => pc[a] \in Holding)'
      BY <2>1 DEF Holding
    <2>7. ASSUME NEW u \in TaskId
          PROVE  QueuedApart(u)'
      BY <2>1, <2>2, <2>3, <2>4 DEF QueuedApart, Holds
    <2>8. ASSUME NEW u \in TaskId
          PROVE  HeldApart(u)'
      <3>1. CASE u = t
        BY <2>1, <2>2, <3>1 DEF HeldApart, Holds
      <3>2. CASE u # t
        BY <2>1, <2>4, <3>2 DEF HeldApart, Holds
      <3> QED
        BY <3>1, <3>2
    <2>9. ASSUME NEW u \in TaskId
          PROVE  LaunchesCounted(u)'
      BY <2>1, <2>2, <2>4 DEF LaunchesCounted, Submitting, Executing
    <2> QED
      BY <2>5, <2>6, <2>7, <2>8, <2>9
  <1> QED
    BY <1>1, <1>2

LEMMA OwnerPark ==
  ASSUME TypeInv, OwnerInv, NEW t \in TaskId, Park(t)
  PROVE  OwnerInv'
  <1> USE JobAssumption DEF TypeInv, OwnerInv
  <1>1. /\ pc' = [pc EXCEPT ![t] = "none"]
        /\ pending' = Append(pending, t)
        /\ UNCHANGED <<job, launches>>
        /\ pc \in [Threads -> Locations]
        /\ t \in Threads
        /\ pc[t] = "park"
    BY DEF Park, Threads, TypeOK
  <1>2. /\ launches[t] = 0
        /\ ~InQueue(t)
        /\ \A a \in Threads : ~Holds(a, t)
        /\ job[t] = NoJob
    BY <1>1 DEF LaunchesCounted, Submitting, QueuedApart, HeldApart, Holds,
                Holding
  <1>3. \A u \in TaskId : u # t => pc'[u] = pc[u]
    BY <1>1 DEF Threads
  <1>4. /\ Len(pending) \in Nat
        /\ Len(pending') = Len(pending) + 1
        /\ \A i \in 1..Len(pending) : pending'[i] = pending[i]
        /\ pending'[Len(pending) + 1] = t
        /\ \A u \in TaskId : InQueue(u)' <=> InQueue(u) \/ u = t
    BY <1>1, QueueAppend DEF TypeOK
  <1>5. QueueDistinct'
    BY <1>2, <1>4 DEF QueueDistinct, InQueue
  <1>6. (\A a \in Threads : job[a] # NoJob => pc[a] \in Holding)'
    BY <1>1, <1>2
  <1>7. ASSUME NEW u \in TaskId
        PROVE  QueuedApart(u)'
    BY <1>1, <1>2, <1>3, <1>4 DEF QueuedApart, Holds
  <1>8. ASSUME NEW u \in TaskId
        PROVE  HeldApart(u)'
    BY <1>1, <1>3 DEF HeldApart, Holds
  <1>9. ASSUME NEW u \in TaskId
        PROVE  LaunchesCounted(u)'
    BY <1>1, <1>3 DEF LaunchesCounted, Submitting, Executing
  <1> QED
    BY <1>5, <1>6, <1>7, <1>8, <1>9

LEMMA OwnerPopFront ==
  ASSUME TypeInv, OwnerInv, NEW a \in Threads, PopFront(a)
  PROVE  OwnerInv'
  <1> USE UIAssumption, JobAssumption DEF TypeInv, TypeOK, OwnerInv
  <1>1. CASE pending = <<>>
    <2>1. pc' = [pc EXCEPT ![a] = "none"] /\ UNCHANGED <<job, pending, launches>>
      BY <1>1 DEF PopFront
    <2> QED
      BY <2>1, ThreadMoves
      DEF PopFront, NotLaunched, Submitting, Executing, Holding
  <1>2. CASE pending # <<>>
    <2>0. PICK t \in TaskId : t = Head(pending)
      BY <1>2, QueueHead
    <2>1. /\ pc' = [pc EXCEPT ![a] = "verify"]
          /\ job' = [job EXCEPT ![a] = t]
          /\ pending' = Tail(pending)
          /\ UNCHANGED launches
          /\ pc[a] = "pop"
      BY <1>2, <2>0 DEF PopFront, RestOfQueue
    <2>2. /\ Len(pending) \in Nat \ {0}
          /\ Len(pending') = Len(pending) - 1
          /\ \A i \in 1..Len(pending') : pending'[i] = pending[i + 1]
          /\ t = pending[1]
          /\ InQueue(t)
          /\ \A u \in TaskId : InQueue(u)' => InQueue(u)
      BY <1>2, <2>0, <2>1, QueueTail
    <2>3. /\ pc[t] = "none" /\ launches[t] = 0 /\ t # a
          /\ \A b \in Threads : ~Holds(b, t)
      BY <2>1, <2>2 DEF QueuedApart
    <2>4. ~InQueue(t)'
      <3> SUFFICES ASSUME NEW i \in 1..Len(pending'), pending'[i] = t
                   PROVE  FALSE
        BY DEF InQueue
      <3>1. i + 1 \in 1..Len(pending) /\ 1 \in 1..Len(pending)
        BY <2>2
      <3>2. pending[i + 1] = pending[1]
        BY <2>2
      <3> QED
        BY <3>1, <3>2, SMTT(30) DEF QueueDistinct
    <2>5. \A u \in TaskId : u # a => pc'[u] = pc[u]
      BY <2>1 DEF Threads
    <2>6. QueueDistinct'
      <3> SUFFICES ASSUME NEW i \in 1..Len(pending'), NEW j \in 1..Len(pending'),
                          pending'[i] = pending'[j]
                   PROVE  i = j
        BY DEF QueueDistinct
      <3>1. /\ i + 1 \in 1..Len(pending) /\ j + 1 \in 1..Len(pending)
            /\ pending[i + 1] = pending[j + 1]
        BY <2>2
      <3> QED
        BY <3>1 DEF QueueDistinct
    <2>7. (\A b \in Threads : job[b] # NoJob => pc[b] \in Holding)'
      BY <2>1 DEF Holding
    <2>8. ASSUME NEW u \in TaskId
          PROVE  QueuedApart(u)'
      <3> SUFFICES ASSUME InQueue(u)'
                   PROVE  /\ pc'[u] = "none" /\ launches'[u] = 0
                          /\ \A b \in Threads : job'[b] # u
        BY DEF QueuedApart, Holds
      <3>1. /\ InQueue(u) /\ u # t
            /\ pc[u] = "none" /\ launches[u] = 0
            /\ \A b \in Threads : job[b] # u
        BY <2>2, <2>4 DEF QueuedApart, Holds
      <3>2. u # a
        BY <2>1, <3>1
      <3> QED
        BY <2>1, <2>5, <3>1, <3>2
    <2>9. ASSUME NEW u \in TaskId
          PROVE  HeldApart(u)'
      <3>1. CASE u = t
        BY <2>1, <2>3, <2>5, <3>1 DEF HeldApart, Holds
      <3>2. CASE u # t
        BY <2>1, <2>5, <3>2 DEF HeldApart, Holds
      <3> QED
        BY <3>1, <3>2
    <2>10. ASSUME NEW u \in TaskId
           PROVE  LaunchesCounted(u)'
      BY <2>1, <2>5 DEF LaunchesCounted, Submitting, Executing
    <2> QED
      BY <2>6, <2>7, <2>8, <2>9, <2>10
  <1> QED
    BY <1>1, <1>2

LEMMA OwnerStart ==
  ASSUME TypeInv, OwnerInv, NEW a \in Threads, Start(a)
  PROVE  OwnerInv'
  <1> USE JobAssumption DEF TypeInv, TypeOK, OwnerInv
  <1> DEFINE t == job[a]
  <1>1. /\ pc[a] = "start"
        /\ pc' = [pc EXCEPT ![a] = AfterSpawn(a), ![t] = "workspace"]
        /\ job' = [job EXCEPT ![a] = NoJob]
        /\ launches' = [launches EXCEPT ![t] = launches[t] + 1]
        /\ UNCHANGED pending
        /\ t \in TaskId /\ t \in Threads
    BY DEF Start, Holding, Threads
  <1>2. /\ launches[t] = 0 /\ ~InQueue(t)
        /\ \A b \in Threads : Holds(b, t) => b = a
        /\ a # t => job[t] = NoJob
    BY <1>1 DEF HeldApart, QueuedApart, Holds, Holding
  <1> HIDE DEF t
  <1>3. \A u \in TaskId : InQueue(u)' <=> InQueue(u)
    BY <1>1 DEF InQueue
  <1>4. /\ \A u \in TaskId : u # a /\ u # t => pc'[u] = pc[u]
        /\ pc'[t] = "workspace"
        /\ a # t => pc'[a] \in {"pull", "none"}
    BY <1>1 DEF Threads, AfterSpawn
  <1>5. QueueDistinct'
    BY <1>1 DEF QueueDistinct
  <1>6. (\A b \in Threads : job[b] # NoJob => pc[b] \in Holding)'
    <2> SUFFICES ASSUME NEW b \in Threads, job'[b] # NoJob
                 PROVE  pc'[b] \in Holding
      OBVIOUS
    <2>1. b # a /\ b # t /\ job[b] # NoJob
      BY <1>1, <1>2
    <2> QED
      BY <1>1, <2>1
  <1>7. ASSUME NEW u \in TaskId
        PROVE  QueuedApart(u)'
    <2> SUFFICES ASSUME InQueue(u)
                 PROVE  /\ pc'[u] = "none" /\ launches'[u] = 0
                        /\ \A b \in Threads : job'[b] # u
      BY <1>3 DEF QueuedApart, Holds
    <2>1. /\ u # t /\ pc[u] = "none" /\ launches[u] = 0
          /\ \A b \in Threads : job[b] # u
      BY <1>2 DEF QueuedApart, Holds
    <2>2. u # a
      BY <1>1, <2>1
    <2> QED
      BY <1>1, <1>4, <2>1, <2>2
  <1>8. ASSUME NEW u \in TaskId
        PROVE  HeldApart(u)'
    <2> SUFFICES ASSUME NEW b \in Threads, job'[b] = u
                 PROVE  /\ launches'[u] = 0
                        /\ \A c \in Threads : job'[c] = u => c = b
                        /\ b # u => pc'[u] = "none"
      BY DEF HeldApart, Holds
    <2>1. b # a /\ job[b] = u /\ u # t
      BY <1>1, <1>2 DEF Holds
    <2>2. /\ launches[u] = 0
          /\ \A c \in Threads : job[c] = u => c = b
          /\ b # u => pc[u] = "none" /\ u # a
      BY <1>1, <2>1 DEF HeldApart, Holds
    <2> QED
      BY <1>1, <1>4, <2>1, <2>2
  <1>9. ASSUME NEW u \in TaskId
        PROVE  LaunchesCounted(u)'
    <2>1. CASE u = t
      BY <1>1, <1>2, <1>4, <2>1 DEF LaunchesCounted, Submitting, Executing
    <2>2. CASE u # t
      <3>1. /\ launches'[u] = launches[u]
            /\ pc'[u] = pc[u] \/ pc'[u] \in {"pull", "none"}
        <4>1. CASE u = a
          BY <1>1, <1>4, <2>2, <4>1
        <4>2. CASE u # a
          BY <1>1, <1>4, <2>2, <4>2
        <4> QED
          BY <4>1, <4>2
      <3> QED
        BY <3>1 DEF LaunchesCounted, Submitting, Executing
    <2> QED
      BY <2>1, <2>2
  <1> QED
    BY <1>5, <1>6, <1>7, <1>8, <1>9

LEMMA OwnerRestart == ASSUME TypeInv, OwnerInv, Restart PROVE OwnerInv'
  <1> USE JobAssumption DEF TypeInv, TypeOK, OwnerInv
  <1>1. /\ pending' = <<>> /\ Len(<<>>) = 0
        /\ \A a \in Threads : job'[a] = NoJob
        /\ \A a \in Threads : pc'[a] = IF pc[a] = "idle" THEN "idle" ELSE "none"
        /\ launches' = launches
    BY EmptySeq DEF Restart
  <1> QED
    BY <1>1 DEF QueueDistinct, QueuedApart, HeldApart, LaunchesCounted,
                InQueue, Holds, Submitting, Executing, Threads


LEMMA OwnerStep == TypeInv /\ OwnerInv /\ [Next]_vars => OwnerInv'
  <1> SUFFICES ASSUME TypeInv, OwnerInv, [Next]_vars
               PROVE  OwnerInv'
    OBVIOUS
  <1> USE DEF Threads, NotLaunched, Submitting, Executing, Holding
  <1>1. ASSUME NEW t \in TaskId, Submit(t)
        PROVE  OwnerInv'
    BY <1>1, ThreadMoves DEF Submit
  <1>2. ASSUME NEW t \in TaskId,
               Launch(t) \/ RegisterPid(t) \/ Return(t) \/ Complete(t)
        PROVE  OwnerInv'
    <2>1. \E q \in {"launched", "waiting", "complete", "pull"} :
             pc' = [pc EXCEPT ![t] = q]
      BY <1>2 DEF Launch, RegisterPid, Return, Complete, AfterComplete
    <2>2. /\ pc[t] \in Executing
          /\ UNCHANGED <<job, pending, launches>>
      BY <1>2 DEF Launch, RegisterPid, Return, Complete
    <2> QED
      BY <2>1, <2>2, ThreadMoves
  <1>3. ASSUME NEW a \in Threads, CheckSlot(a)
        PROVE  OwnerInv'
    <2>1. \E q \in {"pop", "none"} : pc' = [pc EXCEPT ![a] = q]
      BY <1>3 DEF CheckSlot
    <2>2. pc[a] = "pull" /\ UNCHANGED <<job, pending, launches>>
      BY <1>3 DEF CheckSlot
    <2> QED
      BY <2>1, <2>2, ThreadMoves
  <1>4. ASSUME NEW n \in Caps, SetMaxConcurrent(n)
        PROVE  OwnerInv'
    BY <1>4, ThreadMoves DEF SetMaxConcurrent
  <1>5. ASSUME NEW a \in Threads, Prepare(a)
        PROVE  OwnerInv'
    <2>1. CASE tasks[job[a]] # Absent
      BY <1>5, <2>1, ThreadMoves DEF Prepare
    <2>2. CASE tasks[job[a]] = Absent
      BY <1>5, <2>2, ThreadDrops DEF Prepare, AfterSpawn
    <2> QED
      BY <2>1, <2>2
  <1>6. ASSUME NEW a \in Threads, StillQueued(a)
        PROVE  OwnerInv'
    <2>1. CASE StillWanted(job[a])
      BY <1>6, <2>1, ThreadMoves DEF StillQueued
    <2>2. CASE ~StillWanted(job[a])
      BY <1>6, <2>2, ThreadDrops DEF StillQueued
    <2> QED
      BY <2>1, <2>2
  <1>7. CASE UNCHANGED <<pc, job, pending, launches>>
    BY <1>7 DEF OwnerInv, QueueDistinct, QueuedApart, HeldApart,
                LaunchesCounted, InQueue, Holds
  <1>8. ASSUME NEW t \in TaskId,
               \/ Cancel(t) \/ Terminate(t) \/ KillTimer(t)
               \/ RemoveFinished(t) \/ Exit(t)
        PROVE  UNCHANGED <<pc, job, pending, launches>>
    BY <1>8 DEF Cancel, Terminate, KillTimer, RemoveFinished, Exit
  <1>9. Persist \/ UNCHANGED vars => UNCHANGED <<pc, job, pending, launches>>
    BY DEF Persist, vars
  <1> QED
    BY <1>1, <1>2, <1>3, <1>4, <1>5, <1>6, <1>7, <1>8, <1>9, OwnerAdmit,
       OwnerPark, OwnerPopFront, OwnerStart, OwnerRestart
    DEF Next, SubmitStep, ExecuteStep, StartStep, PullStep, CancelStep

(* Who holds a task, and how often it was launched, for any interleaving.  *)
LEMMA Owners == Spec => [](TypeInv /\ OwnerInv)
  BY TypeInit, TypeStep, OwnerInit, OwnerStep, PTL DEF Spec

(* A peer's command runs at most once, however submissions, pulls, cap     *)
(* changes, cancels and restarts interleave.                               *)
THEOREM AtMostOnce == Spec => []ExecutedAtMostOnce
  <1>1. OwnerInv => ExecutedAtMostOnce
    BY DEF OwnerInv, LaunchesCounted, ExecutedAtMostOnce
  <1> QED
    BY <1>1, Owners, PTL

(* The hand-overs between create_and_run, try_start_pending and            *)
(* spawn_execution never leave a task in two hands.                        *)
THEOREM OneOwnerAlways == Spec => []OneOwner
  <1>1. ASSUME TypeInv, OwnerInv
        PROVE  OneOwner
    <2> SUFFICES ASSUME NEW t \in TaskId
                 PROVE  OneOwner!(t)
      BY DEF OneOwner
    <2>1. /\ \A i, j \in 1..Len(pending) :
               pending[i] = t /\ pending[j] = t => i = j
          /\ \A a, b \in Threads : Holds(a, t) /\ Holds(b, t) => a = b
          /\ InQueue(t) => \A a \in Threads : ~Holds(a, t)
      BY <1>1 DEF OwnerInv, QueueDistinct, QueuedApart, HeldApart
    <2>2. ASSUME pc[t] \in Submitting \cup Executing
          PROVE  ~InQueue(t) /\ \A a \in Threads : ~Holds(a, t)
      <3>1. ~InQueue(t)
        BY <1>1, <2>2 DEF OwnerInv, QueuedApart, Submitting, Executing
      <3>2. ASSUME NEW a \in Threads, Holds(a, t)
            PROVE  FALSE
        <4>1. a = t
          BY <1>1, <2>2, <3>2 DEF OwnerInv, HeldApart, Submitting, Executing
        <4> QED
          BY <1>1, <2>2, <3>2, <4>1, JobAssumption
          DEF OwnerInv, Holds, Holding, Submitting, Executing
      <3> QED
        BY <3>1, <3>2
    <2> QED
      BY <2>1, <2>2
  <1> QED
    BY <1>1, Owners, PTL


-----------------------------------------------------------------------------
(* What the records say.                                                   *)

LEMMA StatusInit == Init => StatusInv
  BY DEF Init, StatusInv, RecordFits, InHand, Executing, Outcomes, Threads,
         Absent, Queued, Running, Completed, Failed

(* A thread moves on without touching a record, a result or a snapshot.    *)
LEMMA RecordsFitMove ==
  ASSUME TypeInv, NEW u \in TaskId, RecordFits(u), NEW x \in Threads, NEW q,
         pc' = [pc EXCEPT ![x] = q],
         UNCHANGED <<tasks, disk, result, launches>>,
         q # "idle",
         pc[x] \in Executing => q \in Executing,
         q \in Executing => pc[x] \in Executing,
         q \in Executing \ {"complete"} => pc[x] \in Executing \ {"complete"}
  PROVE  RecordFits(u)'
  BY DEF TypeInv, TypeOK, RecordFits

LEMMA RecordsFitStart ==
  ASSUME TypeInv, OwnerInv, NEW u \in TaskId, RecordFits(u),
         NEW a \in Threads, Start(a)
  PROVE  RecordFits(u)'
  <1> USE DEF TypeInv, TypeOK
  <1>0. PICK t \in TaskId : t = job[a]
    BY DEF Start, Holding
  <1>1. /\ pc[a] = "start"
        /\ tasks' = [tasks EXCEPT ![t] = StartedStatus(tasks[t])]
        /\ pc' = [pc EXCEPT ![a] = AfterSpawn(a), ![t] = "workspace"]
        /\ launches' = [launches EXCEPT ![t] = launches[t] + 1]
        /\ UNCHANGED <<disk, result>>
        /\ t \in Threads
        /\ launches[t] = 0
    BY <1>0 DEF Start, OwnerInv, HeldApart, Holds, Threads
  <1>2. CASE u = t
    BY <1>1, <1>2
    DEF RecordFits, StartedStatus, Executing, Outcomes, Absent, Queued,
        Running, Completed, Failed, Cancelled
  <1>3. CASE u # t
    <2>1. /\ tasks'[u] = tasks[u] /\ launches'[u] = launches[u]
          /\ \/ pc'[u] = pc[u]
             \/ pc[u] = "start" /\ pc'[u] \in {"pull", "none"}
      <3>1. CASE u = a
        BY <1>1, <1>3, <3>1 DEF AfterSpawn
      <3>2. CASE u # a
        BY <1>1, <1>3, <3>2 DEF Threads
      <3> QED
        BY <3>1, <3>2
    <2> QED
      BY <1>1, <2>1 DEF RecordFits, Executing
  <1> QED
    BY <1>2, <1>3

LEMMA RecordsFitStep ==
  ASSUME TypeInv, OwnerInv, StatusInv, [Next]_vars, NEW u \in TaskId
  PROVE  RecordFits(u)'
  <1>0. RecordFits(u) /\ LaunchesCounted(u)
    BY DEF StatusInv, OwnerInv
  <1> USE DEF TypeInv, TypeOK, Threads
  <1>1. ASSUME NEW t \in TaskId, Submit(t)
        PROVE  RecordFits(u)'
    BY <1>0, <1>1 DEF Submit, RecordFits, LaunchesCounted, Executing, Outcomes,
         Absent, Queued, Running, Completed, Failed
  <1>2. ASSUME NEW t \in TaskId, Admit(t) \/ Park(t) \/ RegisterPid(t)
        PROVE  RecordFits(u)'
    <2>1. \E q \in {"spawn", "park", "none", "waiting"} :
            /\ pc' = [pc EXCEPT ![t] = q]
            /\ q = "waiting" <=> pc[t] \in Executing
            /\ pc[t] # "complete"
      BY <1>2 DEF Admit, Park, RegisterPid, Executing
    <2>2. UNCHANGED <<tasks, disk, result, launches>>
      BY <1>2 DEF Admit, Park, RegisterPid
    <2> QED
      BY <1>0, <2>1, <2>2, RecordsFitMove DEF Executing
  <1>3. ASSUME NEW a \in Threads,
               Prepare(a) \/ CheckSlot(a) \/ PopFront(a) \/ StillQueued(a)
        PROVE  RecordFits(u)'
    <2>1. \E q \in {"start", "pull", "none", "pop", "verify", "spawn"} :
            pc' = [pc EXCEPT ![a] = q]
      BY <1>3 DEF Prepare, AfterSpawn, CheckSlot, PopFront, StillQueued
    <2>2. /\ pc[a] \notin Executing
          /\ UNCHANGED <<tasks, disk, result, launches>>
      BY <1>3 DEF Prepare, CheckSlot, PopFront, StillQueued, Executing
    <2> QED
      BY <1>0, <2>1, <2>2, RecordsFitMove DEF Executing
  <1>4. ASSUME NEW n \in Caps, SetMaxConcurrent(n)
        PROVE  RecordFits(u)'
    BY <1>0, <1>4, RecordsFitMove DEF SetMaxConcurrent, Executing
  <1>5. ASSUME NEW t \in TaskId, Launch(t) \/ Return(t)
        PROVE  RecordFits(u)'
    <2>1. /\ \E q \in {"launched", "complete"} : pc' = [pc EXCEPT ![t] = q]
          /\ pc[t] \in {"workspace", "waiting"}
          /\ UNCHANGED <<tasks, disk, launches>>
          /\ \A v \in TaskId \ {t} : result'[v] = result[v]
          /\ pc'[t] = "launched" => result' = result
      BY <1>5 DEF Launch, Return
    <2>2. CASE u = t
      BY <1>0, <2>1, <2>2 DEF RecordFits, LaunchesCounted, Executing, Outcomes,
           Absent, Queued, Running, Completed, Failed, Cancelled, Unsettled
    <2>3. CASE u # t
      BY <1>0, <2>1, <2>3 DEF RecordFits
    <2> QED
      BY <2>2, <2>3
  <1>6. ASSUME NEW t \in TaskId, Complete(t)
        PROVE  RecordFits(u)'
    <2>1. CASE u = t
      BY <1>0, <1>6, <2>1
      DEF Complete, FinalStatus, AfterComplete, RecordFits, LaunchesCounted,
          Executing, Outcomes, Absent, Queued, Running, Completed, Failed,
          Cancelled
    <2>2. CASE u # t
      BY <1>0, <1>6, <2>2 DEF Complete, RecordFits
    <2> QED
      BY <2>1, <2>2
  <1>7. ASSUME NEW t \in TaskId, Cancel(t)
        PROVE  RecordFits(u)'
    BY <1>0, <1>7 DEF Cancel, RecordFits, Executing, Outcomes, Active,
         Absent, Queued, Running, Completed, Failed, Cancelled
  <1>8. ASSUME NEW t \in TaskId, RemoveFinished(t)
        PROVE  RecordFits(u)'
    BY <1>0, <1>8 DEF RemoveFinished, RecordFits, Outcomes,
         Absent, Queued, Running, Completed, Failed, Cancelled
  <1>9. ASSUME NEW t \in TaskId, Terminate(t) \/ KillTimer(t) \/ Exit(t)
        PROVE  RecordFits(u)'
    BY <1>0, <1>9 DEF Terminate, KillTimer, Exit, RecordFits
  <1>10. CASE Persist
    BY <1>0, <1>10 DEF Persist, RecordFits
  <1>11. CASE Restart
    BY <1>0, <1>11 DEF Restart, RecordFits, Loaded, Executing, Outcomes, Active,
         Absent, Queued, Running, Completed, Failed, Cancelled
  <1>12. CASE UNCHANGED vars
    BY <1>0, <1>12 DEF vars, RecordFits
  <1> QED
    BY <1>0, <1>1, <1>2, <1>3, <1>4, <1>5, <1>6, <1>7, <1>8, <1>9, <1>10,
       <1>11, <1>12, RecordsFitStart
    DEF Next, SubmitStep, ExecuteStep, StartStep, PullStep, CancelStep

(* A Queued record stays in somebody's hand as long as nothing happens to  *)
(* its submitter, its queue entry and its holder.                          *)
LEMMA HandKept ==
  ASSUME NEW u \in TaskId, InHand(u),
         pc'[u] = pc[u] \/ pc[u] \notin Submitting,
         InQueue(u) => InQueue(u)',
         \A a \in Threads : job[a] = u => job'[a] = u
  PROVE  InHand(u)'
  BY DEF InHand, Holds

LEMMA QueuedStaysInHand ==
  ASSUME TypeInv, OwnerInv, StatusInv, [Next]_vars, NEW u \in TaskId,
         tasks'[u] = Queued
  PROVE  InHand(u)'
  <1> USE DEF TypeInv, TypeOK, Threads
  <1>0. /\ tasks[u] = Queued => InHand(u)
        /\ RecordFits(u)
        /\ pending' = pending => (InQueue(u) => InQueue(u)')
    BY DEF StatusInv, InQueue
  <1>1. ASSUME NEW t \in TaskId, Submit(t)
        PROVE  InHand(u)'
    <2>1. CASE u = t
      BY <1>1, <2>1 DEF Submit, InHand, Submitting
    <2>2. CASE u # t
      BY <1>0, <1>1, <2>2, HandKept DEF Submit
    <2> QED
      BY <2>1, <2>2
  <1>2. ASSUME NEW t \in TaskId, Admit(t)
        PROVE  InHand(u)'
    <2>1. CASE u = t
      BY <1>2, <2>1 DEF Admit, InHand, Submitting, Holds
    <2>2. CASE u # t
      <3>1. \A a \in Threads : job[a] = u => job'[a] = u
        BY <1>2, JobAssumption DEF Admit, OwnerInv, Holding
      <3> QED
        BY <1>0, <1>2, <2>2, <3>1, HandKept, JobAssumption DEF Admit
    <2> QED
      BY <2>1, <2>2
  <1>3. ASSUME NEW t \in TaskId, Park(t)
        PROVE  InHand(u)'
    <2>1. \A v \in TaskId : InQueue(v)' <=> InQueue(v) \/ v = t
      BY <1>3, QueueAppend DEF Park
    <2>2. CASE u = t
      BY <2>1, <2>2 DEF InHand
    <2>3. CASE u # t
      BY <1>0, <1>3, <2>1, <2>3, HandKept DEF Park
    <2> QED
      BY <2>2, <2>3
  <1>4. ASSUME NEW a \in Threads, Prepare(a)
        PROVE  InHand(u)'
    <2>1. \A b \in Threads : job[b] = u => job'[b] = u
      <3>1. u # job[a] \/ job' = job
        BY <1>4 DEF Prepare, Absent, Queued
      <3> QED
        BY <1>4, <3>1 DEF Prepare
    <2> QED
      BY <1>0, <1>4, <2>1, HandKept DEF Prepare, Submitting
  <1>5. ASSUME NEW a \in Threads, Start(a)
        PROVE  InHand(u)'
    <2>0. PICK t \in TaskId : t = job[a]
      BY <1>5 DEF Start, Holding
    <2>1. u # t
      BY <1>5, <2>0 DEF Start, StartedStatus, Running, Queued, Absent
    <2>2. \A b \in Threads : job[b] = u => job'[b] = u
      BY <1>5, <2>0, <2>1 DEF Start
    <2>3. pc'[u] = pc[u] \/ pc[u] = "start"
      BY <1>5, <2>0, <2>1 DEF Start
    <2>4. tasks[u] = Queued /\ pending' = pending
      BY <1>5, <2>0, <2>1 DEF Start
    <2> QED
      BY <1>0, <2>2, <2>3, <2>4, HandKept DEF Submitting
  <1>6. ASSUME NEW t \in TaskId,
               Launch(t) \/ RegisterPid(t) \/ Return(t) \/ Complete(t)
        PROVE  InHand(u)'
    <2>1. /\ pc[t] \in Executing
          /\ \A v \in TaskId \ {t} : pc'[v] = pc[v] /\ tasks'[v] = tasks[v]
          /\ UNCHANGED <<job, pending>>
      BY <1>6 DEF Launch, RegisterPid, Return, Complete, Executing
    <2>2. u # t
      <3>1. tasks[t] # Queued
        BY <2>1 DEF StatusInv, RecordFits, Running, Cancelled, Absent, Queued
      <3>2. tasks'[t] # Queued
        BY <1>6, <3>1
        DEF Launch, RegisterPid, Return, Complete, FinalStatus, Outcomes,
            Completed, Failed, Cancelled, Absent, Queued
      <3> QED
        BY <3>2
    <2> QED
      BY <1>0, <2>1, <2>2, HandKept
  <1>7. ASSUME NEW a \in Threads, PopFront(a)
        PROVE  InHand(u)'
    <2>1. CASE pending = <<>>
      BY <1>0, <1>7, <2>1, HandKept DEF PopFront, Submitting
    <2>2. CASE pending # <<>>
      <3>1. InQueue(u) => InQueue(u)' \/ u = Head(pending)
        BY <1>7, <2>2, QueueTail DEF PopFront, RestOfQueue
      <3>2. CASE u = Head(pending)
        BY <1>7, <2>2, <3>2 DEF PopFront, InHand, Holds
      <3>3. CASE u # Head(pending)
        <4>1. \A b \in Threads : job[b] = u => job'[b] = u
          BY <1>7, <2>2, JobAssumption DEF PopFront, OwnerInv, Holding
        <4>2. tasks[u] = Queued /\ (pc'[u] = pc[u] \/ pc[u] \notin Submitting)
          BY <1>7, <2>2 DEF PopFront, Submitting
        <4> QED
          BY <1>0, <3>1, <3>3, <4>1, <4>2, HandKept
      <3> QED
        BY <3>2, <3>3
    <2> QED
      BY <2>1, <2>2
  <1>8. ASSUME NEW a \in Threads, StillQueued(a)
        PROVE  InHand(u)'
    <2>1. \A b \in Threads : job[b] = u => job'[b] = u
      <3>1. u # job[a] \/ job' = job
        BY <1>8 DEF StillQueued, StillWanted
      <3> QED
        BY <1>8, <3>1 DEF StillQueued
    <2> QED
      BY <1>0, <1>8, <2>1, HandKept DEF StillQueued, Submitting
  <1>9. ASSUME NEW a \in Threads, CheckSlot(a)
        PROVE  InHand(u)'
    BY <1>0, <1>9, HandKept DEF CheckSlot, Submitting
  <1>10. ASSUME NEW n \in Caps, SetMaxConcurrent(n)
         PROVE  InHand(u)'
    BY <1>0, <1>10, UIAssumption, HandKept DEF SetMaxConcurrent
  <1>11. ASSUME NEW t \in TaskId,
                \/ Cancel(t) \/ RemoveFinished(t) \/ Terminate(t)
                \/ KillTimer(t) \/ Exit(t)
         PROVE  InHand(u)'
    <2>1. tasks[u] = Queued /\ UNCHANGED <<pc, job, pending>>
      BY <1>11
      DEF Cancel, RemoveFinished, Terminate, KillTimer, Exit, Cancelled,
          Absent, Queued
    <2> QED
      BY <1>0, <2>1, HandKept
  <1>12. CASE Persist
    BY <1>0, <1>12, HandKept DEF Persist
  <1>13. CASE Restart
    BY <1>13 DEF Restart, Loaded, Active, Queued, Cancelled
  <1>14. CASE UNCHANGED vars
    BY <1>0, <1>14, HandKept DEF vars
  <1> QED
    BY <1>1, <1>2, <1>3, <1>4, <1>5, <1>6, <1>7, <1>8, <1>9, <1>10, <1>11,
       <1>12, <1>13, <1>14
    DEF Next, SubmitStep, ExecuteStep, StartStep, PullStep, CancelStep

LEMMA Invariance == Spec => []IInv
  <1>1. TypeInv /\ OwnerInv /\ StatusInv /\ [Next]_vars => StatusInv'
    BY RecordsFitStep, QueuedStaysInHand DEF StatusInv
  <1> QED
    BY <1>1, TypeInit, TypeStep, OwnerInit, OwnerStep, StatusInit, PTL
    DEF Spec, IInv

(* A record says Running only while an execution thread will replace that  *)
(* status: a slot of the cap is never leaked.                              *)
THEOREM SlotsAreNotLeaked == Spec => []RunningIsExecuted
  <1>1. IInv => RunningIsExecuted
    BY DEF IInv, StatusInv, RecordFits, RunningIsExecuted
  <1> QED
    BY <1>1, Invariance, PTL

(* A Queued record is always in somebody's hand: no task is forgotten.     *)
THEOREM QueuedAlwaysOwned == Spec => []QueuedIsOwned
  <1>1. IInv => QueuedIsOwned
    BY DEF IInv, StatusInv, InHand, QueuedIsOwned
  <1> QED
    BY <1>1, Invariance, PTL

-----------------------------------------------------------------------------
(* What a poll has shown stays true.                                       *)

LEMMA OutcomeStep ==
  ASSUME IInv, [Next]_vars, restarts' = restarts, NEW u \in TaskId
  PROVE  /\ tasks[u] \in Outcomes => tasks'[u] \in {tasks[u], Absent}
         /\ tasks[u] = Cancelled => tasks'[u] \notin {Queued, Completed, Failed}
  <1> DEFINE Final ==
        /\ tasks[u] \in Outcomes => tasks'[u] \in {tasks[u], Absent}
        /\ tasks[u] = Cancelled => tasks'[u] \notin {Queued, Completed, Failed}
  <1> USE DEF Outcomes, Absent, Queued, Running, Completed, Failed, Cancelled
  <1>0. /\ RecordFits(u) /\ tasks \in [TaskId -> Statuses \cup {Absent}]
        /\ restarts \in Nat
    BY DEF IInv, StatusInv, TypeInv, TypeOK
  <1>1. ASSUME NEW t \in TaskId, Submit(t)
        PROVE  Final
    BY <1>0, <1>1 DEF Submit, RecordFits
  <1>2. ASSUME NEW a \in Threads, Start(a)
        PROVE  Final
    <2>1. PICK t \in TaskId : t = job[a] /\ launches[t] = 0
      BY <1>2 DEF Start, IInv, TypeInv, TypeOK, OwnerInv, HeldApart, Holds,
                  Holding
    <2>2. CASE u = t
      BY <1>0, <1>2, <2>1, <2>2 DEF Start, StartedStatus, RecordFits
    <2>3. CASE u # t
      BY <1>0, <1>2, <2>1, <2>3 DEF Start
    <2> QED
      BY <2>2, <2>3
  <1>3. ASSUME NEW t \in TaskId, Complete(t)
        PROVE  Final
    <2>1. CASE u = t
      BY <1>0, <1>3, <2>1 DEF Complete, FinalStatus, RecordFits, Executing
    <2>2. CASE u # t
      BY <1>0, <1>3, <2>2 DEF Complete
    <2> QED
      BY <2>1, <2>2
  <1>4. ASSUME NEW t \in TaskId, Cancel(t) \/ RemoveFinished(t)
        PROVE  Final
    BY <1>0, <1>4 DEF Cancel, RemoveFinished, Active
  <1>5. CASE Restart
    BY <1>0, <1>5 DEF Restart
  <1>6. CASE tasks' = tasks
    BY <1>6
  <1>7. ASSUME NEW t \in TaskId,
               \/ Admit(t) \/ Park(t) \/ Launch(t) \/ RegisterPid(t)
               \/ Return(t) \/ Terminate(t) \/ KillTimer(t) \/ Exit(t)
        PROVE  tasks' = tasks
    BY <1>7 DEF Admit, Park, Launch, RegisterPid, Return, Terminate, KillTimer,
                Exit
  <1>8. ASSUME NEW a \in Threads,
               Prepare(a) \/ CheckSlot(a) \/ PopFront(a) \/ StillQueued(a)
        PROVE  tasks' = tasks
    BY <1>8 DEF Prepare, CheckSlot, PopFront, StillQueued
  <1>9. ASSUME NEW n \in Caps, SetMaxConcurrent(n)
        PROVE  tasks' = tasks
    BY <1>9 DEF SetMaxConcurrent
  <1>10. Persist \/ UNCHANGED vars => tasks' = tasks
    BY DEF Persist, vars
  <1>11. Final
    BY <1>1, <1>2, <1>3, <1>4, <1>5, <1>6, <1>7, <1>8, <1>9, <1>10
    DEF Next, SubmitStep, ExecuteStep, StartStep, PullStep, CancelStep
  <1> QED
    BY <1>11

(* Within one run of the application a poll never shows two outcomes, nor  *)
(* an outcome right after a cancellation.                                  *)
THEOREM OutcomesAreFinal == Spec => OutcomeIsFinal
  <1>1. IInv /\ [Next]_vars =>
          [restarts' = restarts => \A t \in TaskId :
             /\ tasks[t] \in {Completed, Failed} =>
                  tasks'[t] \in {tasks[t], Absent}
             /\ tasks[t] = Cancelled =>
                  tasks'[t] \notin {Queued, Completed, Failed}]_vars
    BY OutcomeStep DEF Outcomes
  <1> QED
    BY <1>1, Invariance, PTL DEF Spec, OutcomeIsFinal

-----------------------------------------------------------------------------
(* What is left in the maps.                                               *)

(* A live sink belongs to an execution or to a thread that is about to     *)
(* create one.                                                             *)
SinkOwned(t) ==
  \/ pc[t] \in Executing
  \/ \E a \in Threads : pc[a] = "start" /\ Holds(a, t)

(* A PID is registered only while its execution thread waits, a process is *)
(* alive only under a thread that has not returned from the sandbox.       *)
LeakInv ==
  \A t \in TaskId :
    /\ t \in pids => pc[t] = "waiting"
    /\ proc[t] = "alive" => pc[t] \in {"launched", "waiting"}
    /\ t \in sinks => SinkOwned(t)

LEMMA LeakInit == Init => LeakInv
  BY DEF Init, LeakInv

(* A step of one thread that neither ends an execution nor gives up a task *)
(* it was about to start.                                                  *)
LEMMA LeakMove ==
  ASSUME TypeInv, OwnerInv, LeakInv, NEW x \in Threads, NEW q,
         pc' = [pc EXCEPT ![x] = q],
         pc[x] \notin Executing \cup {"start"},
         \A a \in Threads \ {x} : job'[a] = job[a],
         UNCHANGED <<pids, proc, sinks>>
  PROVE  LeakInv'
  <1>1. \A a \in Threads : a # x => pc'[a] = pc[a]
    BY DEF TypeInv, TypeOK
  <1>2. ASSUME NEW t \in TaskId, t \in sinks
        PROVE  SinkOwned(t)'
    <2>1. CASE pc[t] \in Executing
      BY <1>1, <2>1 DEF SinkOwned, Threads
    <2>2. CASE \E a \in Threads : pc[a] = "start" /\ Holds(a, t)
      BY <1>1, <2>2 DEF SinkOwned, Holds
    <2> QED
      BY <1>2, <2>1, <2>2 DEF LeakInv, SinkOwned
  <1> QED
    BY <1>1, <1>2 DEF LeakInv, Executing, Threads

LEMMA LeakStep == TypeInv /\ OwnerInv /\ LeakInv /\ [Next]_vars => LeakInv'
  <1> SUFFICES ASSUME TypeInv, OwnerInv, LeakInv, [Next]_vars
               PROVE  LeakInv'
    OBVIOUS
  <1> USE DEF Threads, TypeInv, TypeOK
  <1>1. ASSUME NEW t \in TaskId, Submit(t) \/ Admit(t) \/ Park(t)
        PROVE  LeakInv'
    <2>1. /\ \E q : pc' = [pc EXCEPT ![t] = q]
          /\ pc[t] \notin Executing \cup {"start"}
          /\ \A a \in Threads \ {t} : job'[a] = job[a]
          /\ UNCHANGED <<pids, proc, sinks>>
      BY <1>1 DEF Submit, Admit, Park, Executing
    <2> QED
      BY <2>1, LeakMove
  <1>2. ASSUME NEW a \in Threads, CheckSlot(a) \/ PopFront(a) \/ StillQueued(a)
        PROVE  LeakInv'
    <2>1. /\ \E q : pc' = [pc EXCEPT ![a] = q]
          /\ pc[a] \notin Executing \cup {"start"}
          /\ \A b \in Threads \ {a} : job'[b] = job[b]
          /\ UNCHANGED <<pids, proc, sinks>>
      BY <1>2 DEF CheckSlot, PopFront, StillQueued, Executing
    <2> QED
      BY <2>1, LeakMove
  <1>3. ASSUME NEW n \in Caps, SetMaxConcurrent(n)
        PROVE  LeakInv'
    BY <1>3, LeakMove DEF SetMaxConcurrent, Executing
  <1>4. ASSUME NEW a \in Threads, Prepare(a)
        PROVE  LeakInv'
    <2>1. CASE tasks[job[a]] = Absent
      BY <1>4, <2>1, LeakMove DEF Prepare, Executing
    <2>2. CASE tasks[job[a]] # Absent
      <3>1. /\ pc' = [pc EXCEPT ![a] = "start"]
            /\ pc[a] = "spawn"
            /\ sinks' = sinks \cup {job[a]}
            /\ UNCHANGED <<pids, proc, job>>
        BY <1>4, <2>2 DEF Prepare
      <3>2. \A b \in Threads : b # a => pc'[b] = pc[b]
        BY <3>1
      <3>3. ASSUME NEW t \in TaskId, t \in sinks'
            PROVE  SinkOwned(t)'
        <4>1. CASE t = job[a]
          BY <3>1, <4>1 DEF SinkOwned, Holds
        <4>2. CASE pc[t] \in Executing
          BY <3>1, <3>2, <4>2 DEF SinkOwned, Executing
        <4>3. CASE \E b \in Threads : pc[b] = "start" /\ Holds(b, t)
          BY <3>1, <3>2, <4>3 DEF SinkOwned, Holds
        <4> QED
          BY <3>1, <3>3, <4>1, <4>2, <4>3 DEF LeakInv, SinkOwned
      <3> QED
        BY <3>1, <3>2, <3>3 DEF LeakInv
    <2> QED
      BY <2>1, <2>2
  <1>5. ASSUME NEW a \in Threads, Start(a)
        PROVE  LeakInv'
    <2>0. PICK t \in TaskId : t = job[a]
      BY <1>5 DEF Start, Holding
    <2>1. /\ pc[a] = "start"
          /\ pc' = [pc EXCEPT ![a] = AfterSpawn(a), ![t] = "workspace"]
          /\ job' = [job EXCEPT ![a] = NoJob]
          /\ UNCHANGED <<pids, proc, sinks>>
      BY <1>5, <2>0 DEF Start
    <2>2. a # t => pc[t] = "none"
      BY <2>0 DEF OwnerInv, HeldApart, Holds
    <2>3. /\ pc'[t] = "workspace"
          /\ \A b \in Threads : b # a /\ b # t => pc'[b] = pc[b]
          /\ \A b \in Threads : b # a => job'[b] = job[b]
      BY <2>1
    <2>4. ASSUME NEW u \in TaskId, u \in sinks
          PROVE  SinkOwned(u)'
      <3>1. CASE u = t
        BY <2>3, <3>1 DEF SinkOwned, Executing
      <3>2. CASE u # t /\ pc[u] \in Executing
        BY <2>1, <2>3, <3>2 DEF SinkOwned, Executing
      <3>3. CASE u # t /\ \E b \in Threads : pc[b] = "start" /\ Holds(b, u)
        <4>1. PICK b \in Threads : pc[b] = "start" /\ Holds(b, u)
          BY <3>3
        <4>2. b # a /\ b # t
          BY <2>0, <2>1, <2>2, <3>3, <4>1 DEF Holds
        <4> QED
          BY <2>3, <4>1, <4>2 DEF SinkOwned, Holds
      <3> QED
        BY <2>4, <3>1, <3>2, <3>3 DEF LeakInv, SinkOwned
    <2>5. ASSUME NEW u \in TaskId
          PROVE  pc'[u] = pc[u] \/ pc[u] \in {"start", "none"}
      BY <2>1, <2>2, <2>3
    <2> QED
      BY <2>1, <2>4, <2>5 DEF LeakInv
  <1>6. ASSUME NEW t \in TaskId,
               Launch(t) \/ RegisterPid(t) \/ Return(t) \/ Complete(t)
        PROVE  LeakInv'
    <2>1. /\ pc[t] \in Executing
          /\ \A a \in Threads : a # t => pc'[a] = pc[a]
          /\ job' = job
          /\ sinks' \subseteq sinks
          /\ t \in sinks' => pc'[t] \in Executing
      BY <1>6 DEF Launch, RegisterPid, Return, Complete, SinksWithout, Executing
    <2>2. ASSUME NEW u \in TaskId, u \in sinks'
          PROVE  SinkOwned(u)'
      <3>1. CASE u = t
        BY <2>1, <2>2, <3>1 DEF SinkOwned
      <3>2. CASE u # t /\ pc[u] \in Executing
        BY <2>1, <3>2 DEF SinkOwned
      <3>3. CASE \E b \in Threads : pc[b] = "start" /\ Holds(b, u)
        <4>1. PICK b \in Threads : pc[b] = "start" /\ Holds(b, u)
          BY <3>3
        <4>2. b # t
          BY <2>1, <4>1 DEF Executing
        <4> QED
          BY <2>1, <4>1, <4>2 DEF SinkOwned, Holds
      <3> QED
        BY <2>1, <2>2, <3>1, <3>2, <3>3 DEF LeakInv, SinkOwned
    <2>3. ASSUME NEW u \in TaskId
          PROVE  /\ u \in pids' => pc'[u] = "waiting"
                 /\ proc'[u] = "alive" => pc'[u] \in {"launched", "waiting"}
      <3>1. CASE u = t
        BY <1>6, <3>1
        DEF Launch, RegisterPid, Return, Complete, AfterComplete, LeakInv
      <3>2. CASE u # t
        BY <1>6, <3>2
        DEF Launch, RegisterPid, Return, Complete, AfterComplete, LeakInv
      <3> QED
        BY <3>1, <3>2
    <2> QED
      BY <2>2, <2>3 DEF LeakInv
  <1>7. ASSUME NEW t \in TaskId, Exit(t)
        PROVE  LeakInv'
    BY <1>7 DEF Exit, LeakInv, SinkOwned, Holds
  <1>8. CASE Restart
    BY <1>8 DEF Restart, LeakInv
  <1>9. CASE UNCHANGED <<pc, job, pids, proc, sinks>>
    BY <1>9 DEF LeakInv, SinkOwned, Holds
  <1>10. ASSUME NEW t \in TaskId,
                Cancel(t) \/ Terminate(t) \/ KillTimer(t) \/ RemoveFinished(t)
         PROVE  UNCHANGED <<pc, job, pids, proc, sinks>>
    BY <1>10 DEF Cancel, Terminate, KillTimer, RemoveFinished
  <1>11. Persist \/ UNCHANGED vars => UNCHANGED <<pc, job, pids, proc, sinks>>
    BY DEF Persist, vars
  <1> QED
    BY <1>1, <1>2, <1>3, <1>4, <1>5, <1>6, <1>7, <1>8, <1>9, <1>10, <1>11
    DEF Next, SubmitStep, ExecuteStep, StartStep, PullStep, CancelStep

(* When all threads are done no PID, no live sink and no process is left,  *)
(* whatever was cancelled, removed or refused on the way.                  *)
THEOREM NothingIsLeft == Spec => []NothingLeaks
  <1>1. ASSUME TypeInv, LeakInv
        PROVE  NothingLeaks
    <2> SUFFICES ASSUME AtRest
                 PROVE  \A t \in TaskId : /\ t \notin pids /\ t \notin sinks
                                          /\ proc[t] # "alive"
      BY <1>1 DEF NothingLeaks, TypeInv, TypeOK
    <2> QED
      BY <1>1 DEF AtRest, LeakInv, SinkOwned, Executing, Threads
  <1> QED
    BY <1>1, LeakInit, LeakStep, TypeInit, TypeStep, OwnerInit, OwnerStep, PTL
    DEF Spec

-----------------------------------------------------------------------------
(* The store keeps the promise of module TaskLedger.                       *)

USE DEF Ledger!vars

LEMMA LedgerInit == Init => Ledger!Init
  BY UIAssumption
  DEF Init, Ledger!Init, Absent, Ledger!Absent, Unsettled, Ledger!Unsettled,
         Threads

LEMMA LedgerStep ==
  ASSUME IInv, [Next]_vars
  PROVE  [Ledger!Next]_(Ledger!vars)
  <1> USE DEF TypeOK, Threads
  <1> DEFINE known == {t \in TaskId : pc[t] # "idle"}
             executed == {t \in TaskId : launches[t] > 0}
  <1>0. TypeOK /\ TypeInv /\ OwnerInv
        /\ \A t \in TaskId : RecordFits(t)
    BY DEF IInv, TypeInv, StatusInv
  <1>1. ASSUME NEW t \in TaskId, Submit(t)
        PROVE  Ledger!Accept(t)
    BY <1>0, <1>1 DEF Submit, Ledger!Accept, Queued, Ledger!Queued
  <1>2. ASSUME NEW a \in Threads, Start(a)
        PROVE  \E t \in TaskId : Ledger!Execute(t)
    <2>1. PICK t \in TaskId : t = job[a] /\ launches[t] = 0
      BY <1>0, <1>2 DEF Start, TypeInv, OwnerInv, HeldApart, Holds, Holding
    <2>2. /\ pc[t] # "idle"
          /\ pc[a] = "start"
          /\ pc'[a] # "idle" /\ \A b \in Threads \ {a, t} : pc'[b] = pc[b]
          /\ pc'[t] # "idle"
      <3>1. a # t => pc[t] = "none"
        BY <1>0, <1>2, <2>1 DEF OwnerInv, HeldApart, Holds
      <3> QED
        BY <1>0, <1>2, <2>1, <3>1 DEF Start, AfterSpawn
    <2>3. known' = known
      BY <2>2
    <2>4. executed' = executed \cup {t} /\ t \notin executed
      BY <1>0, <1>2, <2>1 DEF Start
    <2>5. tasks[t] \in {Queued, Cancelled, Absent} /\ result' = result
      BY <1>0, <1>2, <2>1 DEF RecordFits, Start
    <2>6. tasks' = [tasks EXCEPT ![t] = StartedStatus(tasks[t])]
      BY <1>2, <2>1 DEF Start
    <2>7. CASE tasks[t] = Absent
      <3>1. tasks' = tasks
        BY <1>0, <2>6, <2>7 DEF StartedStatus
      <3> QED
        BY <2>2, <2>3, <2>4, <2>5, <2>7, <3>1
        DEF Ledger!Execute, Absent, Ledger!Absent
    <2>8. CASE tasks[t] # Absent
      BY <2>2, <2>3, <2>4, <2>5, <2>6, <2>8
      DEF Ledger!Execute, StartedStatus, Ledger!Queued, Ledger!Cancelled,
          Ledger!Running, Queued, Cancelled, Running
    <2> QED
      BY <2>7, <2>8
  <1>3. ASSUME NEW t \in TaskId, Launch(t) \/ Return(t)
        PROVE  UNCHANGED Ledger!vars \/ Ledger!Settle(t)
    <2>1. /\ launches[t] = 1 /\ result[t] = Unsettled
          /\ known' = known /\ UNCHANGED <<tasks, launches>>
      BY <1>0, <1>3 DEF Launch, Return, RecordFits, OwnerInv, LaunchesCounted,
                        Executing
    <2>2. \/ result' = result
          \/ \E o \in {Completed, Failed} : result' = [result EXCEPT ![t] = o]
      BY <1>3 DEF Launch, Return
    <2> QED
      BY <2>1, <2>2
      DEF Ledger!Settle, Unsettled, Ledger!Unsettled, Completed, Failed,
          Ledger!Completed, Ledger!Failed
  <1>4. ASSUME NEW t \in TaskId, Complete(t)
        PROVE  UNCHANGED Ledger!vars \/ Ledger!Report(t)
    <2>1. known' = known /\ UNCHANGED <<launches, result>>
      BY <1>0, <1>4 DEF Complete, AfterComplete
    <2>2. /\ tasks[t] \in {Running, Cancelled, Absent}
          /\ result[t] \in Outcomes
          /\ tasks' = [tasks EXCEPT ![t] = FinalStatus(t)]
      BY <1>0, <1>4 DEF Complete, RecordFits, Executing, TypeInv
    <2>3. CASE tasks[t] = Running
      BY <2>1, <2>2, <2>3
      DEF Ledger!Report, FinalStatus, Running, Cancelled, Absent, Outcomes,
          Completed, Failed, Ledger!Running, Ledger!Unsettled
    <2>4. CASE tasks[t] # Running
      <3>1. tasks' = tasks
        BY <1>0, <2>2, <2>4 DEF FinalStatus
      <3> QED
        BY <2>1, <3>1
    <2> QED
      BY <2>3, <2>4
  <1>5. ASSUME NEW t \in TaskId, Cancel(t)
        PROVE  Ledger!Cancel(t)
    BY <1>5 DEF Cancel, Ledger!Cancel, Active, Ledger!Active, Queued, Running,
         Ledger!Queued, Ledger!Running, Cancelled, Ledger!Cancelled
  <1>6. ASSUME NEW t \in TaskId, RemoveFinished(t)
        PROVE  Ledger!Remove(t)
    BY <1>6 DEF RemoveFinished, Ledger!Remove, Terminal, Ledger!Terminal,
         Completed, Failed, Cancelled, Ledger!Completed, Ledger!Failed,
         Ledger!Cancelled, Absent, Ledger!Absent
  <1>7. CASE Restart
    <2>1. known' = known /\ UNCHANGED <<launches, result>>
      BY <1>0, <1>7 DEF Restart
    <2>2. tasks' = [t \in TaskId |-> Loaded(disk[t])]
      BY <1>7 DEF Restart
    <2>3. ASSUME NEW t \in TaskId
          PROVE  /\ tasks'[t] \in Terminal \cup {Absent}
                 /\ tasks'[t] # Absent => pc[t] # "idle"
                 /\ tasks'[t] \in Outcomes => tasks'[t] = result[t]
      <3>1. RecordFits(t) /\ disk[t] \in Statuses \cup {Absent}
        BY <1>0
      <3>2. tasks'[t] = Loaded(disk[t])
        BY <2>2
      <3> QED
        BY <3>1, <3>2
        DEF RecordFits, Loaded, Outcomes, Statuses, Active, Terminal, Absent,
            Queued, Running, Completed, Failed, Cancelled
    <2>4. Ledger!Recover
      BY <2>1, <2>2, <2>3
      DEF Ledger!Recover, Outcomes, Terminal, Ledger!Terminal, Absent,
          Ledger!Absent, Completed, Failed, Cancelled, Ledger!Completed,
          Ledger!Failed, Ledger!Cancelled
    <2> QED
      BY <2>4 DEF Ledger!Next
  <1>8. ASSUME NEW t \in TaskId,
               \/ Admit(t) \/ Park(t) \/ RegisterPid(t) \/ Terminate(t)
               \/ KillTimer(t) \/ Exit(t)
        PROVE  UNCHANGED Ledger!vars
    <2>1. known' = known /\ UNCHANGED <<tasks, launches, result>>
      BY <1>0, <1>8 DEF Admit, Park, RegisterPid, Terminate, KillTimer, Exit
    <2> QED
      BY <2>1
  <1>9. ASSUME NEW a \in Threads,
               Prepare(a) \/ CheckSlot(a) \/ PopFront(a) \/ StillQueued(a)
        PROVE  UNCHANGED Ledger!vars
    <2>1. known' = known /\ UNCHANGED <<tasks, launches, result>>
      BY <1>0, <1>9 DEF Prepare, AfterSpawn, CheckSlot, PopFront, StillQueued
    <2> QED
      BY <2>1
  <1>10. ASSUME NEW n \in Caps, SetMaxConcurrent(n)
         PROVE  UNCHANGED Ledger!vars
    BY <1>0, <1>10, UIAssumption DEF SetMaxConcurrent
  <1>11. Persist \/ UNCHANGED vars => UNCHANGED Ledger!vars
    BY DEF Persist, vars
  <1> QED
    BY <1>1, <1>2, <1>3, <1>4, <1>5, <1>6, <1>7, <1>8, <1>9, <1>10, <1>11
    DEF Next, SubmitStep, ExecuteStep, StartStep, PullStep, CancelStep,
        Ledger!Next

(* The threaded store implements the ledger, whatever the number of tasks, *)
(* the caps and the restarts.                                              *)
THEOREM StoreKeepsLedger == Spec => KeepsLedger
  <1>1. IInv /\ [Next]_vars => [Ledger!Next]_(Ledger!vars)
    BY LedgerStep
  <1> QED
    BY <1>1, LedgerInit, Invariance, PTL DEF Spec, KeepsLedger, Ledger!Spec
-----------------------------------------------------------------------------
(* The store uses the sandbox as module SandboxCall has it.                *)

InCall == {"workspace", "launched", "waiting"}

(* A process exists from the launch on, and Completed is only what a       *)
(* process that is gone has left.                                          *)
ProcessFits(t) ==
  /\ launches[t] = 0 => proc[t] = "none"
  /\ pc[t] = "workspace" => proc[t] = "none"
  /\ pc[t] \in {"launched", "waiting"} => proc[t] # "none"
  /\ result[t] = Completed => proc[t] = "gone"

ProcessInv == \A t \in TaskId : ProcessFits(t)

LEMMA ProcessInit == Init => ProcessInv
  BY UIAssumption
  DEF Init, ProcessInv, ProcessFits, Threads, Unsettled, Completed

(* The steps that have no part in a call of the sandbox.                   *)
Apart ==
  /\ UNCHANGED <<proc, result, launches>>
  /\ \A t \in TaskId : pc[t] \in InCall \/ pc'[t] \in InCall => pc'[t] = pc[t]

LEMMA CallActions ==
  ASSUME TypeInv, [Next]_vars
  PROVE  \/ Apart
         \/ \E a \in Threads : Start(a)
         \/ \E t \in TaskId :
              Launch(t) \/ RegisterPid(t) \/ Return(t) \/ Exit(t)
         \/ Restart
  <1> USE DEF Apart, InCall, TypeInv, TypeOK, Threads
  <1>1. ASSUME NEW t \in TaskId,
               Submit(t) \/ Admit(t) \/ Park(t) \/ Complete(t)
        PROVE  Apart
    BY <1>1 DEF Submit, Admit, Park, Complete, AfterComplete
  <1>2. ASSUME NEW a \in Threads, CheckSlot(a) \/ PopFront(a) \/ StillQueued(a)
        PROVE  Apart
    BY <1>2 DEF CheckSlot, PopFront, StillQueued
  <1>3. ASSUME NEW a \in Threads, Prepare(a)
        PROVE  Apart
    BY <1>3 DEF Prepare, AfterSpawn
  <1>4. ASSUME NEW n \in Caps, SetMaxConcurrent(n)
        PROVE  Apart
    BY <1>4 DEF SetMaxConcurrent
  <1>5. ASSUME NEW t \in TaskId,
               Cancel(t) \/ Terminate(t) \/ KillTimer(t) \/ RemoveFinished(t)
        PROVE  Apart
    BY <1>5 DEF Cancel, Terminate, KillTimer, RemoveFinished
  <1>6. Persist \/ UNCHANGED vars => Apart
    BY DEF Persist, vars
  <1> QED
    BY <1>1, <1>2, <1>3, <1>4, <1>5, <1>6
    DEF Next, SubmitStep, ExecuteStep, StartStep, PullStep, CancelStep

(* What the creation of an execution thread does to the task it starts and *)
(* to the others.                                                          *)
LEMMA CallEntered ==
  ASSUME TypeInv, OwnerInv, NEW a \in Threads, Start(a)
  PROVE  \E t \in TaskId :
           /\ launches[t] = 0 /\ pc[t] \notin InCall
           /\ launches'[t] = 1 /\ pc'[t] = "workspace"
           /\ \A u \in TaskId \ {t} :
                /\ launches'[u] = launches[u]
                /\ pc[u] \in InCall \/ pc'[u] \in InCall => pc'[u] = pc[u]
           /\ UNCHANGED <<proc, result>>
  <1> USE DEF TypeInv, TypeOK, Threads, InCall
  <1>1. PICK t \in TaskId : t = job[a]
    BY DEF Start, Holding
  <1>2. /\ pc[a] = "start"
        /\ pc' = [pc EXCEPT ![a] = AfterSpawn(a), ![t] = "workspace"]
        /\ launches' = [launches EXCEPT ![t] = launches[t] + 1]
        /\ UNCHANGED <<proc, result>>
    BY <1>1 DEF Start
  <1>3. launches[t] = 0 /\ (a # t => pc[t] = "none")
    BY <1>1 DEF OwnerInv, HeldApart, Holds
  <1>4. launches'[t] = 1 /\ pc'[t] = "workspace" /\ pc[t] \notin InCall
    BY <1>2, <1>3
  <1>5. ASSUME NEW u \in TaskId \ {t}
        PROVE  /\ launches'[u] = launches[u]
               /\ pc[u] \in InCall \/ pc'[u] \in InCall => pc'[u] = pc[u]
    BY <1>2 DEF AfterSpawn
  <1> QED
    BY <1>2, <1>3, <1>4, <1>5

LEMMA ProcessStep ==
  ASSUME IInv, ProcessInv, [Next]_vars
  PROVE  ProcessInv'
  <1> USE DEF IInv, TypeInv, TypeOK, Threads, ProcessInv
  <1>1. CASE Apart
    BY <1>1 DEF Apart, InCall, ProcessFits
  <1>2. ASSUME NEW a \in Threads, Start(a)
        PROVE  ProcessInv'
    <2>1. PICK t \in TaskId :
            /\ launches[t] = 0
            /\ launches'[t] = 1 /\ pc'[t] = "workspace"
            /\ \A u \in TaskId \ {t} :
                 /\ launches'[u] = launches[u]
                 /\ pc[u] \in InCall \/ pc'[u] \in InCall => pc'[u] = pc[u]
            /\ UNCHANGED <<proc, result>>
      BY <1>2, CallEntered
    <2> QED
      BY <2>1 DEF ProcessFits, InCall
  <1>3. ASSUME NEW t \in TaskId, Launch(t)
        PROVE  ProcessInv'
    <2>1. launches[t] = 1 /\ result[t] = Unsettled
      BY <1>3 DEF Launch, OwnerInv, LaunchesCounted, StatusInv, RecordFits,
                  Executing
    <2>2. ASSUME NEW u \in TaskId \ {t}
          PROVE  ProcessFits(u)'
      BY <1>3 DEF Launch, ProcessFits
    <2>3. ProcessFits(t)'
      BY <1>3, <2>1 DEF Launch, ProcessFits, Completed, Failed, Unsettled
    <2> QED
      BY <2>2, <2>3
  <1>4. ASSUME NEW t \in TaskId, RegisterPid(t) \/ Return(t)
        PROVE  ProcessInv'
    <2>1. ASSUME NEW u \in TaskId \ {t}
          PROVE  ProcessFits(u)'
      BY <1>4 DEF RegisterPid, Return, ProcessFits
    <2>2. ProcessFits(t)'
      BY <1>4 DEF RegisterPid, Return, ProcessFits
    <2> QED
      BY <2>1, <2>2
  <1>5. ASSUME NEW t \in TaskId, Exit(t)
        PROVE  ProcessInv'
    BY <1>5 DEF Exit, ProcessFits
  <1>6. CASE Restart
    BY <1>6 DEF Restart, ProcessFits
  <1> QED
    BY <1>1, <1>2, <1>3, <1>4, <1>5, <1>6, CallActions

LEMMA Processes == Spec => [](LeakInv /\ ProcessInv)
  <1>1. Init => LeakInv /\ ProcessInv
    BY LeakInit, ProcessInit
  <1>2. IInv /\ (LeakInv /\ ProcessInv) /\ [Next]_vars =>
          (LeakInv /\ ProcessInv)'
    BY LeakStep, ProcessStep DEF IInv
  <1> QED
    BY <1>1, <1>2, Invariance, PTL DEF Spec

LEMMA CallInit == ASSUME NEW t \in TaskId PROVE Init => Call(t)!Init
  BY UIAssumption
  DEF Init, Call!Init, Stage, Answer, Threads, Unsettled, Completed, Failed

LEMMA CallStep ==
  ASSUME IInv, LeakInv, ProcessInv, [Next]_vars, NEW t \in TaskId
  PROVE  [Call(t)!Next]_(Call(t)!vars)
  <1> USE DEF IInv, TypeInv, TypeOK, Threads, Stage, Answer, InCall
  <1>0. Completed # Unsettled /\ Failed # Unsettled /\ Completed # Failed
    BY DEF Completed, Failed, Unsettled
  <1>1. CASE Apart
    BY <1>1 DEF Apart, Call!vars
  <1>2. ASSUME NEW a \in Threads, Start(a)
        PROVE  [Call(t)!Next]_(Call(t)!vars)
    <2>1. PICK u \in TaskId :
            /\ launches[u] = 0 /\ pc[u] \notin InCall
            /\ launches'[u] = 1 /\ pc'[u] = "workspace"
            /\ \A v \in TaskId \ {u} :
                 /\ launches'[v] = launches[v]
                 /\ pc[v] \in InCall \/ pc'[v] \in InCall => pc'[v] = pc[v]
            /\ UNCHANGED <<proc, result>>
      BY <1>2, CallEntered
    <2>2. CASE u = t
      BY <2>1, <2>2 DEF Call!Next, Call!Enter
    <2>3. CASE u # t
      BY <2>1, <2>3 DEF Call!vars
    <2> QED
      BY <2>2, <2>3
  <1>3. ASSUME NEW u \in TaskId,
               Launch(u) \/ RegisterPid(u) \/ Return(u) \/ Exit(u), u # t
        PROVE  UNCHANGED Call(t)!vars
    <2>1. UNCHANGED <<pc[t], proc[t], result[t], launches[t]>>
      BY <1>3 DEF Launch, RegisterPid, Return, Exit
    <2> QED
      BY <2>1 DEF Call!vars
  <1>4. CASE Launch(t)
    <2>1. /\ launches[t] = 1 /\ result[t] = Unsettled
          /\ UNCHANGED launches
      BY <1>4 DEF Launch, OwnerInv, LaunchesCounted, StatusInv, RecordFits,
                  Executing
    <2>2. /\ pc[t] = "workspace"
          /\ \/ /\ pc'[t] = "launched" /\ proc'[t] = "alive"
                /\ UNCHANGED result
             \/ /\ pc'[t] = "complete" /\ result'[t] = Failed
                /\ UNCHANGED proc
      BY <1>4 DEF Launch
    <2>3. CASE pc'[t] = "launched"
      BY <2>1, <2>2, <2>3 DEF Call!Next, Call!Launch
    <2>4. CASE pc'[t] = "complete"
      BY <1>0, <2>1, <2>2, <2>4 DEF Call!Next, Call!Refuse
    <2> QED
      BY <2>2, <2>3, <2>4
  <1>5. CASE RegisterPid(t)
    BY <1>5 DEF RegisterPid, Call!Next, Call!HandOverPid
  <1>6. CASE Return(t)
    <2>1. /\ launches[t] = 1 /\ result[t] = Unsettled
          /\ UNCHANGED launches
      BY <1>6 DEF Return, OwnerInv, LaunchesCounted, StatusInv, RecordFits,
                  Executing
    <2> QED
      BY <1>0, <1>6, <2>1 DEF Return, Call!Next, Call!Return
  <1>7. CASE Exit(t)
    BY <1>7 DEF Exit, Call!Next, Call!End
  <1>8. CASE Restart
    <2>1. /\ proc'[t] = IF proc[t] = "none" THEN "none" ELSE "gone"
          /\ pc'[t] \notin InCall
          /\ UNCHANGED <<result, launches>>
      BY <1>8 DEF Restart
    <2>2. CASE pc[t] \in InCall
      <3>1. launches[t] = 1 /\ result[t] = Unsettled
        BY <2>2 DEF OwnerInv, LaunchesCounted, StatusInv, RecordFits, Executing
      <3> QED
        BY <2>1, <2>2, <3>1 DEF Call!Next, Call!Crash
    <2>3. CASE pc[t] \notin InCall
      <3>1. proc[t] # "alive"
        BY <2>3 DEF LeakInv
      <3> QED
        BY <2>1, <2>3, <3>1 DEF Call!vars
    <2> QED
      BY <2>2, <2>3
  <1> QED
    BY <1>1, <1>2, <1>3, <1>4, <1>5, <1>6, <1>7, <1>8, CallActions

(* For every task, and whatever the other threads, the cancels, the kills  *)
(* and the restarts do meanwhile, the execution thread makes one call of   *)
(* the sandbox, and takes from it nothing SandboxCall does not promise.    *)
THEOREM StoreCallsSandbox == Spec => CallsSandbox
  <1> SUFFICES ASSUME NEW t \in TaskId
               PROVE  Spec => Call(t)!Spec
    BY DEF CallsSandbox
  <1>1. Init => Call(t)!Init
    BY CallInit
  <1>2. IInv /\ (LeakInv /\ ProcessInv) /\ [Next]_vars =>
          [Call(t)!Next]_(Call(t)!vars)
    BY CallStep
  <1> QED
    BY <1>1, <1>2, Invariance, Processes, PTL DEF Spec, Call!Spec

-----------------------------------------------------------------------------
(* The escalation of a cancel.                                             *)

(* A SIGKILL thread sleeps for a task that has been launched and has had   *)
(* its PID registered, so the entry is gone only if the process is.        *)
TimerFits(t) ==
  t \in timers => /\ launches[t] = 1
                  /\ pc[t] \notin {"workspace", "launched"}
                  /\ proc[t] = "alive" => t \in pids

TimerInv == \A t \in TaskId : TimerFits(t)

LEMMA TimerInit == Init => TimerInv
  BY DEF Init, TimerInv, TimerFits

LEMMA TimerStep ==
  ASSUME IInv, LeakInv, TimerInv, [Next]_vars
  PROVE  TimerInv'
  <1> USE DEF IInv, TypeInv, TypeOK, Threads, TimerInv
  <1> DEFINE Launching == {"workspace", "launched"}
             Quietly == /\ UNCHANGED <<pids, timers, proc, launches>>
                        /\ \A u \in TaskId :
                             pc'[u] \in Launching => pc'[u] = pc[u]
  <1>1. Quietly => TimerInv'
    BY DEF TimerFits
  <1>2. ASSUME NEW t \in TaskId,
               \/ Submit(t) \/ Admit(t) \/ Park(t) \/ Complete(t)
               \/ Cancel(t) \/ RemoveFinished(t)
        PROVE  Quietly
    BY <1>2
    DEF Submit, Admit, Park, Complete, AfterComplete, Cancel, RemoveFinished
  <1>3. ASSUME NEW a \in Threads, Prepare(a) \/ PullStep(a)
        PROVE  Quietly
    BY <1>3
    DEF Prepare, AfterSpawn, PullStep, CheckSlot, PopFront, StillQueued
  <1>4. ASSUME NEW n \in Caps, SetMaxConcurrent(n)
        PROVE  Quietly
    BY <1>4 DEF SetMaxConcurrent
  <1>5. ASSUME Persist \/ UNCHANGED vars
        PROVE  Quietly
    BY <1>5 DEF Persist, vars
  <1>6. ASSUME NEW a \in Threads, Start(a)
        PROVE  TimerInv'
    <2>1. PICK t \in TaskId :
            /\ launches[t] = 0
            /\ \A u \in TaskId \ {t} :
                 /\ launches'[u] = launches[u]
                 /\ pc[u] \in InCall \/ pc'[u] \in InCall => pc'[u] = pc[u]
            /\ UNCHANGED proc
      BY <1>6, CallEntered
    <2>2. UNCHANGED <<pids, timers>>
      BY <1>6 DEF Start
    <2>3. t \notin timers
      BY <2>1 DEF TimerFits
    <2> QED
      BY <2>1, <2>2, <2>3 DEF TimerFits, InCall
  <1>7. ASSUME NEW t \in TaskId, Launch(t) \/ RegisterPid(t)
        PROVE  TimerInv'
    <2>1. t \notin timers
      BY <1>7 DEF Launch, RegisterPid, TimerFits
    <2> QED
      BY <1>7, <2>1 DEF Launch, RegisterPid, TimerFits
  <1>8. ASSUME NEW t \in TaskId, Return(t)
        PROVE  TimerInv'
    BY <1>8 DEF Return, TimerFits
  <1>9. ASSUME NEW t \in TaskId, Exit(t)
        PROVE  TimerInv'
    BY <1>9 DEF Exit, TimerFits
  <1>10. ASSUME NEW t \in TaskId, Terminate(t)
         PROVE  TimerInv'
    <2>1. t \in pids => launches[t] = 1 /\ pc[t] = "waiting"
      BY DEF LeakInv, OwnerInv, LaunchesCounted, Executing
    <2> QED
      BY <1>10, <2>1 DEF Terminate, TimerFits
  <1>11. ASSUME NEW t \in TaskId, KillTimer(t)
         PROVE  TimerInv'
    BY <1>11 DEF KillTimer, TimerFits
  <1>12. CASE Restart
    BY <1>12 DEF Restart, TimerFits
  <1> HIDE DEF Quietly
  <1> QED
    BY <1>1, <1>2, <1>3, <1>4, <1>5, <1>6, <1>7, <1>8, <1>9, <1>10, <1>11,
       <1>12
    DEF Next, SubmitStep, ExecuteStep, StartStep, CancelStep

(* A cancel that found a process gets it: two seconds later the process is *)
(* gone, or has a SIGKILL no program can ignore.                           *)
THEOREM CancelEscalates == Spec => EscalationReaches
  <1>1. IInv /\ LeakInv /\ TimerInv /\ [Next]_vars
          => [restarts' = restarts => \A t \in timers \ timers' :
                proc[t] = "alive" => "KILL" \in signals'[t]]_vars
    <2> SUFFICES ASSUME IInv, LeakInv, TimerInv, Next, restarts' = restarts,
                        NEW t \in timers \ timers', proc[t] = "alive"
                 PROVE  "KILL" \in signals'[t]
      BY DEF vars
    <2>1. t \in TaskId /\ signals \in [TaskId -> SUBSET {"TERM", "KILL"}]
      BY DEF IInv, TypeInv, TypeOK
    <2>2. KillTimer(t)
      <3>1. ~Restart
        BY DEF Restart, IInv, TypeInv, TypeOK
      <3>2. ASSUME NEW u \in TaskId, u # t, KillTimer(u)
            PROVE  FALSE
        BY <3>2 DEF KillTimer
      <3>3. ASSUME NEW u \in TaskId,
                   \/ Submit(u) \/ SubmitStep(u) \/ ExecuteStep(u)
                   \/ Cancel(u) \/ Terminate(u) \/ RemoveFinished(u)
                   \/ Exit(u)
            PROVE  FALSE
        BY <3>3
        DEF Submit, SubmitStep, Admit, Park, ExecuteStep, Launch, RegisterPid,
            Return, Complete, Cancel, Terminate, RemoveFinished, Exit
      <3>4. ASSUME NEW a \in Threads, StartStep(a) \/ PullStep(a)
            PROVE  FALSE
        BY <3>4
        DEF StartStep, Prepare, Start, PullStep, CheckSlot, PopFront,
            StillQueued
      <3>5. ASSUME NEW n \in Caps, SetMaxConcurrent(n)
            PROVE  FALSE
        BY <3>5 DEF SetMaxConcurrent
      <3>6. ~Persist
        BY DEF Persist
      <3> QED
        BY <3>1, <3>2, <3>3, <3>4, <3>5, <3>6 DEF Next, CancelStep
    <2>3. t \in pids
      BY <2>1 DEF TimerInv, TimerFits
    <2> QED
      BY <2>1, <2>2, <2>3 DEF KillTimer, StillRegistered, Signalled
  <1>2. Spec => [](LeakInv /\ TimerInv)
    <2>1. IInv /\ (LeakInv /\ TimerInv) /\ [Next]_vars =>
            (LeakInv /\ TimerInv)'
      BY LeakStep, TimerStep DEF IInv
    <2> QED
      BY <2>1, LeakInit, TimerInit, Invariance, PTL DEF Spec
  <1> QED
    BY <1>1, <1>2, Invariance, PTL DEF Spec, EscalationReaches
=============================================================================
