----------------------------- MODULE TaskStatus -----------------------------
(***************************************************************************)
(* The life-cycle states of a task record (task_runner/mod.rs, enum        *)
(* TaskStatus), shared by the store of tasks this machine runs for its     *)
(* peers and by the store of tasks it submitted to them.                   *)
(***************************************************************************)
Queued    == "Queued"
Running   == "Running"
Completed == "Completed"
Failed    == "Failed"
Cancelled == "Cancelled"

(* Not a status of the code: the identifier has no entry in the map.       *)
Absent    == "Absent"

Active   == {Queued, Running}
Terminal == {Completed, Failed, Cancelled}
Statuses == Active \cup Terminal
=============================================================================
