----------------------------- MODULE TaskStates -----------------------------
(***************************************************************************)
(* The life cycle of a task: internal/core/domain/task/state_machine.go.   *)
(* The Go enumeration is kept as its String() names.                       *)
(***************************************************************************)

State == {"Pending", "Creating", "Scheduled", "Starting", "Running",
          "Stopping", "Completed", "Failed"}

stateTransitionMap ==
  [Pending   |-> {"Pending", "Creating", "Scheduled"},
   Creating  |-> {"Creating", "Scheduled", "Failed"},
   Scheduled |-> {"Scheduled", "Starting", "Failed"},
   Starting  |-> {"Starting", "Running", "Failed"},
   Running   |-> {"Running", "Stopping", "Completed", "Failed", "Scheduled"},
   Stopping  |-> {"Stopping", "Completed", "Failed"},
   Completed |-> {},
   Failed    |-> {"Scheduled"}]

ValidStateTransition(src, dst) == dst \in stateTransitionMap[src]

\* Task.IsComplete, and the test AddTask makes before it enqueues a task.
IsComplete(s) == s \in {"Completed", "Failed"}
=============================================================================
