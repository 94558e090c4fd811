--------------------------- MODULE EndToEndProofs ---------------------------
(***************************************************************************)
(* What holds of module EndToEnd, two machines, for every set of           *)
(* dispatches and of tasks from elsewhere, every cap and any number of     *)
(* restarts of either, with its proofs.                                    *)
(*                                                                         *)
(* Nothing is proved a second time: the system is a store (StoreInside),   *)
(* so the theorems of IncomingTasksProofs hold of it; and the store, seen  *)
(* through the dispatches, is a ledger (PeerView), so the system is a      *)
(* dispatch (SystemIsDispatch) and the theorems of DispatchProofs hold of  *)
(* it as well.  Only what lies between the machines (AskedInv) needs an    *)
(* induction of its own.                                                   *)
(***************************************************************************)
EXTENDS EndToEnd, IncomingTasksProofs

(* The invariants of the submitting machine, and their proofs, on the real *)
(* store.                                                                  *)
SubmitterProofs == INSTANCE DispatchProofs WITH
  pc         <- thread,
  cancelling <- calls,
  disk       <- saved,
  restarts   <- reboots,
  known      <- {d \in Dispatches : pc[d] # "idle"},
  record     <- [d \in Dispatches |-> tasks[d]],
  executed   <- {d \in Dispatches : launches[d] > 0},
  outcome    <- [d \in Dispatches |-> result[d]]

USE DEF records, process, threads, killers, bounds

-----------------------------------------------------------------------------
(* Module Dispatch and the module of its proofs, which extends it, are two *)
(* instances with the same substitutions: their definitions say the same.  *)

LEMMA SameVars ==
  UNCHANGED Submitter!vars => UNCHANGED SubmitterProofs!vars
  BY DEF Submitter!vars, Submitter!wire, Submitter!peer,
         SubmitterProofs!vars, SubmitterProofs!wire, SubmitterProofs!peer

LEMMA SameInit == Submitter!Init => SubmitterProofs!Init
  BY DEF Submitter!Init, Submitter!Calls, Submitter!Absent,
         Submitter!Peer!Init, Submitter!Peer!Absent, Submitter!Peer!Unsettled,
         SubmitterProofs!Init, SubmitterProofs!Calls, SubmitterProofs!Absent,
         SubmitterProofs!Peer!Init, SubmitterProofs!Peer!Absent,
         SubmitterProofs!Peer!Unsettled

LEMMA SameNext == Submitter!Next => SubmitterProofs!Next
  BY DEF Submitter!Next, SubmitterProofs!Next,
    Submitter!Calls, Submitter!wire, Submitter!peer, Submitter!vars,
    Submitter!Waiting, Submitter!Polling, Submitter!Ending,
    Submitter!Locations, Submitter!Put, Submitter!Set, Submitter!Add,
    Submitter!Post, Submitter!Accepted, Submitter!PostFails,
    Submitter!RememberRef, Submitter!ShowRunning, Submitter!Poll,
    Submitter!Hopeless, Submitter!GiveUp, Submitter!Mirror,
    Submitter!FinalStatus, Submitter!Replace, Submitter!FailedStatus,
    Submitter!SetFailed, Submitter!RefsWithout, Submitter!ClearRef,
    Submitter!Deadline, Submitter!LookUp, Submitter!MarkLocally,
    Submitter!Acknowledge, Submitter!NoAnswer, Submitter!CancelFails,
    Submitter!RemoveFinished, Submitter!ChangeRoom, Submitter!DeliverPost,
    Submitter!LosePost, Submitter!DeliverDelete, Submitter!LoseDelete,
    Submitter!PeerStep, Submitter!Persist, Submitter!Loaded,
    Submitter!Restart, Submitter!Proceed, Submitter!CancelStep,
    Submitter!Absent, Submitter!Queued, Submitter!Running,
    Submitter!Completed, Submitter!Failed, Submitter!Cancelled,
    Submitter!Active, Submitter!Terminal, Submitter!Statuses,
    Submitter!Peer!Execute, Submitter!Peer!Settle, Submitter!Peer!Report,
    Submitter!Peer!Cancel, Submitter!Peer!Remove, Submitter!Peer!Recover,
    Submitter!Peer!Accept, Submitter!Peer!Unsettled,
    Submitter!Peer!Absent, Submitter!Peer!Queued, Submitter!Peer!Running,
    Submitter!Peer!Completed, Submitter!Peer!Failed,
    Submitter!Peer!Cancelled, Submitter!Peer!Active,
    Submitter!Peer!Terminal, Submitter!Peer!Statuses,
    SubmitterProofs!Calls, SubmitterProofs!wire, SubmitterProofs!peer,
    SubmitterProofs!vars, SubmitterProofs!Waiting,
    SubmitterProofs!Polling, SubmitterProofs!Ending,
    SubmitterProofs!Locations, SubmitterProofs!Put, SubmitterProofs!Set,
    SubmitterProofs!Add, SubmitterProofs!Post, SubmitterProofs!Accepted,
    SubmitterProofs!PostFails, SubmitterProofs!RememberRef,
    SubmitterProofs!ShowRunning, SubmitterProofs!Poll,
    SubmitterProofs!Hopeless, SubmitterProofs!GiveUp,
    SubmitterProofs!Mirror, SubmitterProofs!FinalStatus,
    SubmitterProofs!Replace, SubmitterProofs!FailedStatus,
    SubmitterProofs!SetFailed, SubmitterProofs!RefsWithout,
    SubmitterProofs!ClearRef, SubmitterProofs!Deadline,
    SubmitterProofs!LookUp, SubmitterProofs!MarkLocally,
    SubmitterProofs!Acknowledge, SubmitterProofs!NoAnswer,
    SubmitterProofs!CancelFails, SubmitterProofs!RemoveFinished,
    SubmitterProofs!ChangeRoom, SubmitterProofs!DeliverPost,
    SubmitterProofs!LosePost, SubmitterProofs!DeliverDelete,
    SubmitterProofs!LoseDelete, SubmitterProofs!PeerStep,
    SubmitterProofs!Persist, SubmitterProofs!Loaded,
    SubmitterProofs!Restart, SubmitterProofs!Proceed,
    SubmitterProofs!CancelStep, SubmitterProofs!Absent,
    SubmitterProofs!Queued, SubmitterProofs!Running,
    SubmitterProofs!Completed, SubmitterProofs!Failed,
    SubmitterProofs!Cancelled, SubmitterProofs!Active,
    SubmitterProofs!Terminal, SubmitterProofs!Statuses,
    SubmitterProofs!Peer!Execute, SubmitterProofs!Peer!Settle,
    SubmitterProofs!Peer!Report, SubmitterProofs!Peer!Cancel,
    SubmitterProofs!Peer!Remove, SubmitterProofs!Peer!Recover,
    SubmitterProofs!Peer!Accept, SubmitterProofs!Peer!Unsettled,
    SubmitterProofs!Peer!Absent, SubmitterProofs!Peer!Queued,
    SubmitterProofs!Peer!Running, SubmitterProofs!Peer!Completed,
    SubmitterProofs!Peer!Failed, SubmitterProofs!Peer!Cancelled,
    SubmitterProofs!Peer!Active, SubmitterProofs!Peer!Terminal,
    SubmitterProofs!Peer!Statuses

LEMMA SameSpec == Submitter!Spec => SubmitterProofs!Spec
  <1>1. [Submitter!Next]_(Submitter!vars)
          => [SubmitterProofs!Next]_(SubmitterProofs!vars)
    BY SameNext, SameVars
  <1> QED
    BY <1>1, SameInit, PTL DEF Submitter!Spec, SubmitterProofs!Spec

-----------------------------------------------------------------------------
(* The system is a store.                                                  *)

USE DEF Submitter!Absent, Submitter!Peer!Absent, Ledger!Absent, Absent,
        Submitter!Peer!Unsettled, Ledger!Unsettled, Unsettled,
        Submitter!Peer!Active, Ledger!Active, Active,
        Submitter!Peer!Terminal, Ledger!Terminal, Terminal,
        Submitter!Peer!Queued, Ledger!Queued, Queued,
        Submitter!Peer!Running, Ledger!Running, Running,
        Submitter!Peer!Cancelled, Ledger!Cancelled, Cancelled,
        Submitter!Peer!Completed, Ledger!Completed, Completed,
        Submitter!Peer!Failed, Ledger!Failed, Failed

LEMMA StoreMoves == [SystemNext]_system => [Next]_vars
  <1>1. StoreStep => [Next]_vars
    BY DEF StoreStep, Next
  <1>2. SubmitterStep \/ UNCHANGED system => [Next]_vars
    BY DEF SubmitterStep, system
  <1>3. ASSUME NEW d \in Dispatches, DeliverPost(d)
        PROVE  Next
    BY <1>3 DEF DeliverPost, Next, Dispatches
  <1>4. ASSUME NEW k \in Submitter!Calls, DeliverDelete(k)
        PROVE  Next
    <2>1. k[1] \in TaskId
      BY DEF Submitter!Calls, Dispatches
    <2> QED
      BY <1>4, <2>1 DEF DeliverDelete, Next
  <1> QED
    BY <1>1, <1>2, <1>3, <1>4 DEF SystemNext

(* The store of the composed system behaves as module IncomingTasks says,  *)
(* whoever submits and cancels: all its theorems hold here.                *)
THEOREM StoreInside == SystemSpec => Spec
  <1>1. SystemInit => Init
    BY DEF SystemInit
  <1> QED
    BY <1>1, StoreMoves, PTL DEF SystemSpec, Spec

-----------------------------------------------------------------------------
(* The system is a dispatch towards a ledger.                              *)

(* Only the arrival of its POST makes a dispatch known to the store.       *)
LEMMA KnownStays ==
  ASSUME IInv, StoreStep, NEW d \in Dispatches
  PROVE  pc'[d] = "idle" <=> pc[d] = "idle"
  <1> USE DEF TypeOK, Threads, Dispatches
  <1>0. TypeOK /\ TypeInv /\ OwnerInv
    BY DEF IInv, TypeInv
  <1>1. ASSUME NEW t \in TaskId \ Dispatches, Submit(t)
        PROVE  pc'[d] = pc[d]
    BY <1>0, <1>1 DEF Submit
  <1>2. ASSUME NEW t \in TaskId, SubmitStep(t) \/ ExecuteStep(t)
        PROVE  pc'[d] = "idle" <=> pc[d] = "idle"
    <2>1. PICK q : /\ pc[t] # "idle" /\ q # "idle"
                   /\ pc' = [pc EXCEPT ![t] = q]
      <3>1. CASE SubmitStep(t)
        BY <3>1 DEF SubmitStep, Admit, Park
      <3>2. CASE ExecuteStep(t)
        BY <3>2
        DEF ExecuteStep, Launch, RegisterPid, Return, Complete, AfterComplete
      <3> QED
        BY <1>2, <3>1, <3>2
    <2> QED
      BY <1>0, <2>1
  <1>7. ASSUME NEW t \in TaskId,
               Cancel(t) \/ CancelStep(t) \/ RemoveFinished(t) \/ Exit(t)
        PROVE  pc'[d] = pc[d]
    BY <1>7
    DEF CancelStep, Cancel, Terminate, KillTimer, RemoveFinished, Exit
  <1>3. ASSUME NEW a \in Threads, Start(a)
        PROVE  pc'[d] = "idle" <=> pc[d] = "idle"
    <2>1. PICK t \in TaskId : t = job[a]
      BY <1>0, <1>3 DEF Start, TypeInv, Holding
    <2>2. a # t => pc[t] = "none"
      BY <1>0, <2>1 DEF OwnerInv, HeldApart, Holds
    <2> QED
      BY <1>0, <1>3, <2>1, <2>2 DEF Start, AfterSpawn
  <1>4. ASSUME NEW a \in Threads, Prepare(a) \/ PullStep(a)
        PROVE  pc'[d] = "idle" <=> pc[d] = "idle"
    BY <1>0, <1>4
    DEF Prepare, AfterSpawn, PullStep, CheckSlot, PopFront, StillQueued
  <1>5. ASSUME NEW n \in Caps, SetMaxConcurrent(n)
        PROVE  pc'[d] = pc[d]
    BY <1>0, <1>5, UIAssumption DEF SetMaxConcurrent
  <1>6. CASE Persist \/ Restart
    BY <1>0, <1>6 DEF Persist, Restart
  <1> QED
    BY <1>1, <1>2, <1>3, <1>4, <1>5, <1>6, <1>7 DEF StoreStep, StartStep

(* A function of all tasks, seen through the dispatches only.              *)
LEMMA Restricted ==
  ASSUME NEW D, NEW S, D \subseteq S, NEW f, DOMAIN f = S, NEW t \in S, NEW v
  PROVE  /\ t \in D => [d \in D |-> [f EXCEPT ![t] = v][d]]
                         = [[d \in D |-> f[d]] EXCEPT ![t] = v]
         /\ t \notin D => [d \in D |-> [f EXCEPT ![t] = v][d]]
                            = [d \in D |-> f[d]]
  OBVIOUS

(* What the store does between two messages is, seen through the           *)
(* dispatches, a step of the ledger or none.                               *)
LEMMA PeerView ==
  ASSUME IInv, [Next]_vars,
         \A d \in Dispatches : pc'[d] = "idle" <=> pc[d] = "idle"
  PROVE  \/ UNCHANGED Submitter!peer
         \/ \E d \in Dispatches :
              \/ Submitter!Peer!Execute(d) \/ Submitter!Peer!Settle(d)
              \/ Submitter!Peer!Report(d) \/ Submitter!Peer!Cancel(d)
              \/ Submitter!Peer!Remove(d)
         \/ Submitter!Peer!Recover
  <1> DEFINE known == {d \in Dispatches : pc[d] # "idle"}
             executed == {d \in Dispatches : launches[d] > 0}
             record == [d \in Dispatches |-> tasks[d]]
             outcome == [d \in Dispatches |-> result[d]]
  <1>0. /\ DOMAIN tasks = TaskId /\ DOMAIN result = TaskId
        /\ Dispatches \subseteq TaskId
    BY DEF IInv, TypeInv, TypeOK, Dispatches
  <1>1. known' = known
    OBVIOUS
  <1>2. ASSUME {t \in TaskId : launches'[t] > 0}
                 = {t \in TaskId : launches[t] > 0}
        PROVE  executed' = executed
    BY <1>0, <1>2
  <1>3. tasks' = tasks => record' = record
    OBVIOUS
  <1>4. result' = result => outcome' = outcome
    OBVIOUS
  <1>5. ASSUME NEW t \in TaskId, NEW v, tasks' = [tasks EXCEPT ![t] = v]
        PROVE  /\ t \in Dispatches => record' = [record EXCEPT ![t] = v]
               /\ t \notin Dispatches => record' = record
    BY <1>0, <1>5, Restricted
  <1>6. ASSUME NEW t \in TaskId, NEW v, result' = [result EXCEPT ![t] = v]
        PROVE  /\ t \in Dispatches => outcome' = [outcome EXCEPT ![t] = v]
               /\ t \notin Dispatches => outcome' = outcome
    BY <1>0, <1>6, Restricted
  <1>7. \A d \in Dispatches : record[d] = tasks[d] /\ outcome[d] = result[d]
    OBVIOUS
  <1>8. [Ledger!Next]_(Ledger!vars)
    BY LedgerStep
  <1>10. CASE UNCHANGED Ledger!vars
    BY <1>1, <1>2, <1>3, <1>4, <1>10 DEF Ledger!vars, Submitter!peer
  <1>11. ASSUME NEW t \in TaskId, Ledger!Accept(t)
         PROVE  UNCHANGED Submitter!peer
    <2>1. pc[t] = "idle" /\ pc'[t] # "idle"
      BY <1>11 DEF Ledger!Accept
    <2>2. t \notin Dispatches
      BY <2>1
    <2> QED
      BY <1>1, <1>2, <1>4, <1>5, <1>11, <2>2 DEF Ledger!Accept, Submitter!peer
  <1>12. ASSUME NEW t \in TaskId, Ledger!Execute(t)
         PROVE  \/ UNCHANGED Submitter!peer
                \/ /\ t \in Dispatches
                   /\ Submitter!Peer!Execute(t)
    <2>1. /\ t \in Dispatches => executed' = executed \cup {t}
          /\ t \notin Dispatches => executed' = executed
      BY <1>0, <1>12 DEF Ledger!Execute
    <2>2. pc[t] # "idle" /\ ~(launches[t] > 0) /\ result' = result
      BY <1>12 DEF Ledger!Execute
    <2>3. CASE /\ tasks[t] \in {Queued, Cancelled}
               /\ tasks' = [tasks EXCEPT ![t] = Running]
      BY <1>1, <1>4, <1>5, <1>7, <2>1, <2>2, <2>3
      DEF Submitter!Peer!Execute, Submitter!peer
    <2>4. CASE tasks[t] = Absent /\ tasks' = tasks
      BY <1>1, <1>3, <1>4, <1>7, <2>1, <2>2, <2>4
      DEF Submitter!Peer!Execute, Submitter!peer
    <2> QED
      BY <1>12, <2>3, <2>4 DEF Ledger!Execute
  <1>13. ASSUME NEW t \in TaskId, Ledger!Settle(t)
         PROVE  \/ UNCHANGED Submitter!peer
                \/ /\ t \in Dispatches
                   /\ Submitter!Peer!Settle(t)
    <2>1. PICK o \in {Completed, Failed} : result' = [result EXCEPT ![t] = o]
      BY <1>13 DEF Ledger!Settle
    <2>2. launches[t] > 0 /\ result[t] = Unsettled /\ tasks' = tasks
          /\ executed' = executed
      BY <1>2, <1>13 DEF Ledger!Settle
    <2> QED
      BY <1>1, <1>3, <1>6, <1>7, <2>1, <2>2
      DEF Submitter!Peer!Settle, Submitter!peer
  <1>14. ASSUME NEW t \in TaskId, NEW v, tasks' = [tasks EXCEPT ![t] = v],
                UNCHANGED <<{u \in TaskId : launches[u] > 0}, result>>
         PROVE  /\ executed' = executed /\ outcome' = outcome
                /\ t \notin Dispatches => UNCHANGED Submitter!peer
                /\ t \in Dispatches => record' = [record EXCEPT ![t] = v]
    BY <1>1, <1>2, <1>4, <1>5, <1>14 DEF Submitter!peer
  <1>15. ASSUME NEW t \in TaskId, Ledger!Report(t)
         PROVE  \/ UNCHANGED Submitter!peer
                \/ /\ t \in Dispatches
                   /\ Submitter!Peer!Report(t)
    <2>1. PICK v : v = result[t]
      OBVIOUS
    <2> QED
      BY <1>1, <1>7, <1>14, <1>15, <2>1
      DEF Ledger!Report, Submitter!Peer!Report
  <1>16. ASSUME NEW t \in TaskId, Ledger!Cancel(t)
         PROVE  \/ UNCHANGED Submitter!peer
                \/ /\ t \in Dispatches
                   /\ Submitter!Peer!Cancel(t)
    BY <1>1, <1>7, <1>14, <1>16 DEF Ledger!Cancel, Submitter!Peer!Cancel
  <1>17. ASSUME NEW t \in TaskId, Ledger!Remove(t)
         PROVE  \/ UNCHANGED Submitter!peer
                \/ /\ t \in Dispatches
                   /\ Submitter!Peer!Remove(t)
    BY <1>1, <1>7, <1>14, <1>17 DEF Ledger!Remove, Submitter!Peer!Remove
  <1>18. ASSUME Ledger!Recover
         PROVE  Submitter!Peer!Recover
    <2>1. tasks' \in [TaskId -> Terminal \cup {Absent}]
          /\ executed' = executed /\ outcome' = outcome
      BY <1>2, <1>4, <1>18 DEF Ledger!Recover
    <2>2. record' \in [Dispatches -> Terminal \cup {Absent}]
      BY <1>0, <2>1
    <2>3. \A d \in Dispatches : /\ record'[d] # Absent => d \in known
                                /\ record'[d] \in {Completed, Failed} =>
                                     record'[d] = outcome[d]
      BY <1>0, <1>18 DEF Ledger!Recover
    <2> QED
      BY <1>1, <2>1, <2>2, <2>3 DEF Submitter!Peer!Recover
  <1> QED
    BY <1>8, <1>10, <1>11, <1>12, <1>13, <1>15, <1>16, <1>17, <1>18
    DEF Ledger!Next

(* Every step of the system is one of module Dispatch or none.             *)
LEMMA Serves ==
  ASSUME IInv, [SystemNext]_system
  PROVE  [Submitter!Next]_(Submitter!vars)
  <1> USE DEF Submitter!vars, Submitter!wire, rest, submitter
  <1>1. CASE StoreStep
    <2>1. [Next]_vars /\ UNCHANGED submitter
      BY <1>1, StoreMoves DEF StoreStep
    <2>2. \A d \in Dispatches : pc'[d] = "idle" <=> pc[d] = "idle"
      BY <1>1, KnownStays
    <2>3. UNCHANGED Submitter!peer \/ Submitter!PeerStep
      BY <2>1, <2>2, PeerView DEF Submitter!PeerStep
    <2> QED
      BY <2>1, <2>3 DEF Submitter!Next
  <1>2. CASE SubmitterStep
    BY <1>2 DEF SubmitterStep, Submitter!Next
  <1>3. ASSUME NEW d \in Dispatches, DeliverPost(d)
        PROVE  Submitter!DeliverPost(d)
    <2>1. Submit(d) /\ d \in TaskId /\ TypeOK
      BY <1>3 DEF DeliverPost, Dispatches, IInv, TypeInv
    <2>2. Submitter!Peer!Accept(d)
      <3>1. /\ pc[d] = "idle" /\ pc' = [pc EXCEPT ![d] = "admit"]
            /\ tasks' = [tasks EXCEPT ![d] = Queued]
            /\ UNCHANGED <<launches, result>>
        BY <2>1 DEF Submit
      <3>2. {e \in Dispatches : pc'[e] # "idle"}
              = {e \in Dispatches : pc[e] # "idle"} \cup {d}
        BY <2>1, <3>1 DEF TypeOK, Threads, Dispatches
      <3>3. [e \in Dispatches |-> tasks'[e]]
              = [[e \in Dispatches |-> tasks[e]] EXCEPT ![d] = Queued]
        BY <2>1, <3>1, Restricted DEF TypeOK, Dispatches
      <3> QED
        BY <3>1, <3>2, <3>3 DEF Submitter!Peer!Accept
    <2> QED
      BY <1>3, <2>2 DEF DeliverPost, Submitter!DeliverPost
  <1>4. ASSUME NEW k \in Submitter!Calls, DeliverDelete(k)
        PROVE  Submitter!DeliverDelete(k)
    <2>1. PICK d \in Dispatches : d = k[1]
      BY DEF Submitter!Calls
    <2>2. Cancel(d) /\ d \in TaskId /\ TypeOK
      BY <1>4, <2>1 DEF DeliverDelete, Dispatches, IInv, TypeInv
    <2>3. Submitter!Peer!Cancel(d)
      <3>1. /\ tasks[d] \in Active
            /\ tasks' = [tasks EXCEPT ![d] = Cancelled]
            /\ UNCHANGED <<pc, launches, result>>
        BY <2>2 DEF Cancel
      <3>2. [e \in Dispatches |-> tasks'[e]]
              = [[e \in Dispatches |-> tasks[e]] EXCEPT ![d] = Cancelled]
        BY <2>2, <3>1, Restricted DEF TypeOK, Dispatches
      <3> QED
        BY <3>1, <3>2 DEF Submitter!Peer!Cancel
    <2> QED
      BY <1>4, <2>1, <2>3 DEF DeliverDelete, Submitter!DeliverDelete
  <1>5. CASE UNCHANGED system
    BY <1>5 DEF system, vars, Submitter!peer
  <1> QED
    BY <1>1, <1>2, <1>3, <1>4, <1>5 DEF SystemNext, Submitter!Next

(* The submitting side with the real store behind it implements module     *)
(* Dispatch: what that module assumes of its peer, the store provides.     *)
THEOREM SystemIsDispatch == SystemSpec => Submitter!Spec
  <1>1. SystemInit => Submitter!Init
    BY DEF SystemInit
  <1>2. IInv /\ [SystemNext]_system => [Submitter!Next]_(Submitter!vars)
    BY Serves
  <1> QED
    BY <1>1, <1>2, StoreInside, Invariance, PTL DEF SystemSpec, Submitter!Spec

LEMMA SubmitterInv ==
  SystemSpec => [](SubmitterProofs!IInv)
  <1>1. SubmitterProofs!Spec => [](SubmitterProofs!IInv)
    BY SubmitterProofs!SpecInv, BoundAssumption
  <1> QED
    BY <1>1, SystemIsDispatch, SameSpec, PTL

-----------------------------------------------------------------------------
(* What lies between the two machines.                                     *)

(* Before it has sent its POST a dispatch is unknown to the peer, and a    *)
(* POST on the wire is one the peer has not seen.                          *)
Asked(d) ==
  /\ thread[d] \in {"idle", "post"} => pc[d] = "idle" /\ d \notin posts
  /\ pc[d] # "idle" => d \notin posts

AskedInv == \A d \in Dispatches : Asked(d)

LEMMA AskedInit == SystemInit => AskedInv
  BY UIAssumption
  DEF SystemInit, Init, Submitter!Init, AskedInv, Asked, Dispatches, Threads

(* No dispatch goes back to before its POST, and a POST is sent by a       *)
(* dispatch that is about to send it.                                      *)
LEMMA ThreadsAdvance ==
  ASSUME Submitter!TypeOK, SubmitterStep, NEW d \in Dispatches
  PROVE  /\ thread'[d] \in {"idle", "post"} =>
              thread[d] \in {"idle", "post"} /\ (d \in posts' => d \in posts)
         /\ d \in posts' => d \in posts \/ thread[d] = "post"
  <1> USE DEF Submitter!TypeOK, Submitter!Calls, Submitter!wire
  <1>1. ASSUME NEW e \in Dispatches, Submitter!Add(e)
        PROVE  /\ posts' = posts /\ thread[e] = "idle"
               /\ thread' = [thread EXCEPT ![e] = "post"]
    BY <1>1 DEF Submitter!Add
  <1>2. ASSUME NEW e \in Dispatches, Submitter!Post(e)
        PROVE  /\ thread[e] = "post" /\ posts' \subseteq posts \cup {e}
               /\ \E q \in {"waiting", "failed"} :
                    thread' = [thread EXCEPT ![e] = q]
    BY <1>2 DEF Submitter!Post
  <1>3. ASSUME NEW e \in Dispatches,
               \/ Submitter!PostFails(e) \/ Submitter!RememberRef(e)
               \/ Submitter!ShowRunning(e) \/ Submitter!GiveUp(e)
               \/ Submitter!Mirror(e) \/ Submitter!Replace(e)
               \/ Submitter!SetFailed(e) \/ Submitter!ClearRef(e)
               \/ Submitter!Accepted(e) \/ Submitter!Poll(e)
        PROVE  /\ posts' = posts
               /\ \E q : /\ q \notin {"idle", "post"}
                         /\ thread' = [thread EXCEPT ![e] = q]
    BY <1>3
    DEF Submitter!PostFails, Submitter!RememberRef, Submitter!ShowRunning,
        Submitter!GiveUp, Submitter!Mirror, Submitter!Replace,
        Submitter!SetFailed, Submitter!ClearRef, Submitter!Accepted,
        Submitter!Poll
  <1>4. ASSUME NEW e \in Dispatches,
               \/ Submitter!Deadline(e) \/ Submitter!RemoveFinished(e)
               \/ Submitter!LosePost(e)
        PROVE  posts' \subseteq posts /\ thread' = thread
    BY <1>4
    DEF Submitter!Deadline, Submitter!RemoveFinished, Submitter!LosePost
  <1>5. ASSUME NEW k \in Submitter!Calls,
               \/ Submitter!LookUp(k) \/ Submitter!CancelStep(k)
               \/ Submitter!LoseDelete(k)
        PROVE  posts' = posts /\ thread' = thread
    BY <1>5
    DEF Submitter!LookUp, Submitter!CancelStep, Submitter!MarkLocally,
        Submitter!Acknowledge, Submitter!NoAnswer, Submitter!CancelFails,
        Submitter!LoseDelete
  <1>6. CASE Submitter!ChangeRoom \/ Submitter!Persist
    BY <1>6 DEF Submitter!ChangeRoom, Submitter!Persist
  <1>7. CASE Submitter!Restart
    BY <1>7 DEF Submitter!Restart
  <1> QED
    BY <1>1, <1>2, <1>3, <1>4, <1>5, <1>6, <1>7
    DEF SubmitterStep, Submitter!Proceed

LEMMA AskedStep ==
  ASSUME IInv, Submitter!TypeOK, AskedInv, [SystemNext]_system
  PROVE  AskedInv'
  <1> SUFFICES ASSUME NEW d \in Dispatches
               PROVE  Asked(d)'
    BY DEF AskedInv
  <1>0. Asked(d) /\ TypeOK
    BY DEF AskedInv, IInv, TypeInv
  <1>1. CASE StoreStep
    BY <1>0, <1>1, KnownStays DEF StoreStep, submitter, rest, Asked
  <1>2. CASE SubmitterStep
    <2>1. pc' = pc
      BY <1>2 DEF SubmitterStep, vars
    <2> QED
      BY <1>0, <1>2, <2>1, ThreadsAdvance DEF Asked
  <1>3. ASSUME NEW e \in Dispatches, DeliverPost(e)
        PROVE  Asked(d)'
    <2>1. /\ e \in posts /\ posts' = posts \ {e} /\ thread' = thread
          /\ pc' = [pc EXCEPT ![e] = "admit"] /\ Asked(e)
      BY <1>3 DEF DeliverPost, rest, Submit, AskedInv
    <2> QED
      BY <1>0, <2>1 DEF Asked, TypeOK, Threads, Dispatches
  <1>4. ASSUME NEW k \in Submitter!Calls, DeliverDelete(k)
        PROVE  Asked(d)'
    BY <1>0, <1>4 DEF DeliverDelete, rest, Cancel, Asked
  <1>5. CASE UNCHANGED system
    BY <1>0, <1>5 DEF system, submitter, rest, vars, Asked
  <1> QED
    BY <1>1, <1>2, <1>3, <1>4, <1>5 DEF SystemNext

(* The pieces together: what holds of the store, of the submitting side    *)
(* and of what lies between them.                                          *)
LEMMA SystemInv ==
  SystemSpec => []((IInv /\ ProcessInv) /\ SubmitterProofs!IInv /\ AskedInv)
  <1>1. SubmitterProofs!IInv => Submitter!TypeOK
    BY DEF SubmitterProofs!IInv, SubmitterProofs!TypeOK, Submitter!TypeOK,
           SubmitterProofs!Calls, Submitter!Calls,
           SubmitterProofs!Statuses, Submitter!Statuses,
           SubmitterProofs!Locations, Submitter!Locations,
           SubmitterProofs!Waiting, Submitter!Waiting,
           SubmitterProofs!Polling, Submitter!Polling,
           SubmitterProofs!Ending, Submitter!Ending,
           SubmitterProofs!Active, Submitter!Active,
           SubmitterProofs!Terminal, Submitter!Terminal,
           SubmitterProofs!Queued, Submitter!Queued,
           SubmitterProofs!Running, Submitter!Running,
           SubmitterProofs!Completed, Submitter!Completed,
           SubmitterProofs!Failed, Submitter!Failed,
           SubmitterProofs!Cancelled, Submitter!Cancelled,
           SubmitterProofs!Absent, Submitter!Absent
  <1>2. IInv /\ SubmitterProofs!IInv /\ AskedInv /\ [SystemNext]_system
          => AskedInv'
    BY <1>1, AskedStep
  <1> QED
    BY <1>2, AskedInit, StoreInside, Invariance, Processes, SubmitterInv, PTL
    DEF SystemSpec

-----------------------------------------------------------------------------
(* The properties of the composition.                                      *)

(* A dispatch that shows Completed has run, once, in a process that has    *)
(* ended, on the other machine.                                            *)
THEOREM CompletedRan == SystemSpec => []CompletedMeansRan
  <1>1. ASSUME IInv, ProcessInv, SubmitterProofs!IInv
        PROVE  CompletedMeansRan
    <2> SUFFICES ASSUME NEW d \in Dispatches, status[d] = Completed
                 PROVE  /\ result[d] = Completed
                        /\ launches[d] = 1 /\ proc[d] = "gone"
      BY DEF CompletedMeansRan
    <2>1. [e \in Dispatches |-> result[e]][d] = Completed
      BY <1>1
      DEF SubmitterProofs!IInv, SubmitterProofs!Truth,
          SubmitterProofs!Completed
    <2>2. RecordFits(d) /\ LaunchesCounted(d) /\ ProcessFits(d)
      BY <1>1 DEF IInv, StatusInv, OwnerInv, ProcessInv, Dispatches
    <2> QED
      BY <2>1, <2>2 DEF RecordFits, LaunchesCounted, ProcessFits
  <1> QED
    BY <1>1, SystemInv, PTL

(* Nothing of this machine is known to the peer, runs there or is in its   *)
(* file that was not dispatched, and a POST is not on the wire any more    *)
(* once the peer has taken it.                                             *)
THEOREM NothingRunsUnasked == SystemSpec => []NothingUnasked
  <1>1. ASSUME IInv, AskedInv
        PROVE  NothingUnasked
    <2> SUFFICES ASSUME NEW d \in Dispatches,
                        \/ tasks[d] # Absent \/ disk[d] # Absent
                        \/ launches[d] > 0
                 PROVE  thread[d] # "idle" /\ d \notin posts
      BY DEF NothingUnasked
    <2>1. RecordFits(d) /\ LaunchesCounted(d)
      BY <1>1 DEF IInv, StatusInv, OwnerInv, Dispatches
    <2>2. pc[d] # "idle"
      BY <2>1 DEF RecordFits, LaunchesCounted
    <2> QED
      BY <1>1, <2>2 DEF AskedInv, Asked
  <1> QED
    BY <1>1, SystemInv, PTL

(* A cancel never sends a reference the store does not know.               *)
THEOREM ReferencesAreAccepted == SystemSpec => []RefsAreAccepted
  <1>1. ASSUME SubmitterProofs!IInv
        PROVE  RefsAreAccepted
    BY <1>1
    DEF RefsAreAccepted, SubmitterProofs!IInv, SubmitterProofs!TypeOK,
        SubmitterProofs!Life, SubmitterProofs!Polling,
        SubmitterProofs!Ending, Submitter!Polling, Submitter!Ending
  <1> QED
    BY <1>1, SystemInv, PTL

(* When nothing moves on either machine and nothing is parked, neither     *)
(* shows a dispatch as active and no process is left.                      *)
THEOREM QuietIsSettled == SystemSpec => []QuietMeansSettled
  <1>1. ASSUME IInv, SubmitterProofs!IInv, NothingLeaks
        PROVE  QuietMeansSettled
    <2> SUFFICES ASSUME NEW d \in Dispatches, Quiet
                 PROVE  /\ status[d] \notin Active
                        /\ tasks[d] \notin Active
                        /\ proc[d] # "alive"
      BY DEF QuietMeansSettled
    <2>1. d \in TaskId
      BY DEF Dispatches
    <2>2. status[d] \notin Active
      BY <1>1
      DEF Quiet, SubmitterProofs!IInv, SubmitterProofs!Life,
          SubmitterProofs!Over, SubmitterProofs!Active,
          SubmitterProofs!Queued, SubmitterProofs!Running,
          SubmitterProofs!Absent
    <2>3. tasks[d] # Running
      BY <1>1, <2>1
      DEF Quiet, AtRest, Threads, IInv, StatusInv, RecordFits, Executing
    <2>4. tasks[d] # Queued
      <3>1. SUFFICES ASSUME tasks[d] = Queued
                     PROVE  FALSE
        OBVIOUS
      <3>2. ~InQueue(d)
        BY DEF Quiet, InQueue
      <3>3. PICK a \in Threads : Holds(a, d)
        BY <1>1, <2>1, <3>1, <3>2
        DEF Quiet, AtRest, Threads, IInv, StatusInv, InHand, Submitting
      <3> QED
        BY <1>1, <2>1, <3>3, JobAssumption
        DEF Quiet, AtRest, IInv, OwnerInv, Holds, Holding
    <2> QED
      BY <1>1, <2>1, <2>2, <2>3, <2>4 DEF NothingLeaks, Quiet
  <1> QED
    BY <1>1, SystemInv, StoreInside, NothingIsLeft, PTL
=============================================================================
