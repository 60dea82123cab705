---------------------------- MODULE WorkerService ----------------------------
(***************************************************************************)
(* WorkerService from submission to execution: the loop of Dispatcher      *)
(* feeds runTask goroutines whose createContainer is the one of            *)
(* TaskLifecycle.  A slot is taken by the loop, held while createContainer *)
(* runs and given back when it returns (worker_service.go:86-134); what    *)
(* happens to the task afterwards goes on without a slot.                  *)
(*                                                                         *)
(* StopTask accepts only tasks that have left createContainer and touches  *)
(* neither queue nor slots; it, and the restart after a crash, are the     *)
(* subject of TaskLifecycle alone.                                         *)
(***************************************************************************)
EXTENDS Integers, Sequences, FiniteSets, TaskStates

CONSTANTS Tasks, queueSize, maxConcurrent,
          NoID, maxRetries, ReportsID, MaxFaults, MaxChecks

ASSUME ServiceAssumption == IsFiniteSet(Tasks) /\ maxConcurrent \in Nat

VARIABLES
  caller, pendingTasks, loop, hand, requeue, running, finished,
  currentRunning, cancelled,
  state, cid, live, run, worker, attempts, reg, breaks, workers, exec, copy,
  launched, health, stop, faults, up, restarts,
  submitted    \* the state in each copy on its way from AddTask to runTask

D == INSTANCE Dispatcher
L == INSTANCE TaskLifecycle WITH MaxRestarts <- 0, Stoppers <- {}

queueVars == <<caller, pendingTasks, loop, hand, requeue, running, finished,
               currentRunning, cancelled>>
taskVars == <<state, cid, live, run, worker, attempts, reg, breaks, workers,
              exec, copy, launched, health, stop, faults, up, restarts>>
vars == <<queueVars, taskVars, submitted>>

Init ==
  /\ D!Init
  /\ L!Init
  /\ submitted = [t \in Tasks |-> "None"]

\* AddTask puts a copy of the task, with its state, in the queue.
AddTask(t, s) ==
  /\ up
  /\ D!AddTask(t, s)
  /\ submitted' = [submitted EXCEPT ![t] = s]
  /\ UNCHANGED taskVars

\* The steps of the dispatcher that do not touch a task.
DispatcherStep ==
  /\ up
  /\ \/ D!Receive \/ D!NoSlot \/ D!Requeue \/ D!TakeSlot
     \/ D!Shutdown \/ D!ExitLoop
     \/ \E t \in Tasks : D!RequeueSend(t)
  /\ UNCHANGED <<taskVars, submitted>>

\* runTask: createContainer with the task as it was submitted, in a slot.
RunTask(t) ==
  /\ t \in running
  /\ L!CreateContainer(t, submitted[t])
  /\ submitted' = [submitted EXCEPT ![t] = "None"]
  /\ UNCHANGED queueVars

\* Slip: the slot is given back without waiting for createContainer.
FreeSlotAtOnce(t) ==
  /\ up /\ run[t] # "idle"
  /\ D!RunTaskReturn(t)
  /\ UNCHANGED <<taskVars, submitted>>

\* Slip: the slot is given back only when the task was scheduled.
FreeSlotOnSuccess(t) ==
  /\ up /\ run[t] = "done" /\ state[t] \notin {"None", "Failed"}
  /\ D!RunTaskReturn(t)
  /\ UNCHANGED <<taskVars, submitted>>

\* createContainer has returned; the deferred function of runTask.
FreeSlot(t) ==
  /\ up /\ run[t] = "done"
  /\ D!RunTaskReturn(t)
  /\ UNCHANGED <<taskVars, submitted>>

\* UpdateTasks ends when the service is shut down.
UpdateTasks ==
  /\ ~cancelled
  /\ L!UpdateTasks
  /\ UNCHANGED <<queueVars, submitted>>

\* Everything that runs without a slot or inside createContainer.
TaskStep(t) ==
  /\ L!TaskStep(t)
  /\ UNCHANGED <<queueVars, submitted>>

\* The queue, the loop and the slots are in memory, and are lost.
Crash ==
  /\ L!Crash
  /\ caller' = [t \in Tasks |-> "none"]
  /\ pendingTasks' = <<>>
  /\ loop' = "select" /\ hand' = {}
  /\ requeue' = {} /\ running' = {} /\ finished' = {}
  /\ currentRunning' = 0 /\ cancelled' = FALSE
  /\ submitted' = [t \in Tasks |-> "None"]

Next ==
  \/ \E t \in Tasks :
       \/ \E s \in State : AddTask(t, s)
       \/ RunTask(t) \/ FreeSlot(t) \/ TaskStep(t)
  \/ DispatcherStep \/ UpdateTasks \/ Crash

Spec == Init /\ [][Next]_vars

\* As in the two components: goroutines run and the container runtime answers.
Fairness ==
  /\ WF_vars(up /\ D!Receive /\ UNCHANGED <<taskVars, submitted>>)
  /\ WF_vars(up /\ (D!NoSlot \/ D!Requeue \/ D!TakeSlot)
                /\ UNCHANGED <<taskVars, submitted>>)
  /\ \A t \in Tasks :
       /\ WF_vars(up /\ D!RequeueSend(t) /\ UNCHANGED <<taskVars, submitted>>)
       /\ WF_vars(RunTask(t)) /\ WF_vars(FreeSlot(t))
       /\ WF_vars(L!CreateStep(t) /\ UNCHANGED <<queueVars, submitted>>)

FairSpec == Spec /\ Fairness

-----------------------------------------------------------------------------
\* Seen from a task, the service is its life cycle: the queue and the slots
\* only delay CreateContainer (worker_service.go:86-203).
LifecycleSpec == L!Spec

\* Seen from the queue it is the dispatcher, up to a crash, which leaves what a
\* new service begins with (worker_service.go:49-66, 86-134).
DispatchesOrForgets == [][D!Next \/ D!Init']_queueVars

\* A container is being created only inside a slot, so there are never more
\* than maxConcurrent creations at a time (worker_service.go:92, 107, 131).
CreationInSlot ==
  /\ \A t \in Tasks : run[t] \in {"creating", "created"} => t \in running
  /\ Cardinality({t \in Tasks : run[t] \in {"creating", "created"}})
       <= maxConcurrent

\* A task that is not final when it is submitted gets its container or its
\* failure recorded, however long it waits for a slot, unless it was submitted
\* in a state createContainer refuses, the store fails, the service is shut
\* down or dies
\* (worker_service.go:86-203).
AcceptedTaskSettles ==
  \A t \in Tasks :
    (submitted[t] \in {"Pending", "Creating"}) ~>
      (state[t] \in State \ {"Pending", "Creating"} \/ faults > 0 \/ cancelled \/ ~up)
=============================================================================
