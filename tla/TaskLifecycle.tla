---------------------------- MODULE TaskLifecycle ----------------------------
(***************************************************************************)
(* The life of a task in WorkerService: createContainer, RegisterWorker,   *)
(* StartTask, updateTaskStatus, StopTask, failTask, CheckTaskHealth and    *)
(* UpdateTasks (internal/adapters/worker/worker_service.go), with the      *)
(* registration client of the worker in the container (worker/main.go) and *)
(* the registration server between them.                                   *)
(*                                                                         *)
(* A worker calls RegisterWorker once per attempt.  The call carries no    *)
(* deadline and the handler does not look at its context, so a connection  *)
(* that breaks makes the worker try again while the first handler goes on: *)
(* the handlers, and what they start, are indexed by the attempt.          *)
(*                                                                         *)
(* Every operation reads a COPY of a task, and writes it back later: an    *)
(* action is the code between two accesses to the store.  The container    *)
(* of task t is named t; a task creates at most one.  A task's ContainerID *)
(* never changes once it is stored, so a copy is a state.                  *)
(***************************************************************************)
EXTENDS Integers, FiniteSets, TaskStates

CONSTANTS Tasks,
          Stoppers,      \* callers of StopTask, one call each
          NoID,          \* the empty ContainerID
          maxRetries,    \* registration attempts of a worker (5 in the code)
          ReportsID,     \* may CreateContainerSandbox return the id, may it not?
          MaxFaults,     \* bound: errors of the store and broken connections
          MaxChecks,     \* bound: health checks under way per task
          MaxRestarts    \* bound: restarts of the service

ASSUME LifecycleAssumption ==
  /\ NoID \notin Tasks
  /\ maxRetries \in Nat \ {0}
  /\ MaxChecks \in Nat
  /\ MaxRestarts \in Nat
  /\ MaxFaults \in Nat
  /\ ReportsID \subseteq BOOLEAN

VARIABLES
  state,      \* Db: Status.State of each task, "None" when not stored
  cid,        \* Db: Status.ContainerID
  live,       \* containers that exist
  run,        \* where createContainer is
  worker,     \* the registration client in each container
  attempts,   \* its failed attempts
  reg,        \* the RegisterWorker handlers, by attempt
  breaks,     \* connections broken under a handler at work
  workers,    \* the map of registered workers
  exec,       \* the goroutines a handler's StartTask has started
  copy,       \* the state their updateTaskStatus is about to write
  launched,   \* history: how often the command was started
  health,     \* CheckTaskHealth goroutines holding a Running copy
  stop,       \* the StopTask calls
  faults,     \* errors of the store so far
  up,         \* the service process is alive
  restarts

vars == <<state, cid, live, run, worker, attempts, reg, breaks, workers, exec,
          copy, launched, health, stop, faults, up, restarts>>

db == <<state, cid, faults>>
registration == <<worker, attempts, reg, breaks, workers>>
process == <<up, restarts>>

Attempts == 1..maxRetries

NoCall == [pc |-> "idle", task |-> NoID, copy |-> "None"]
Returned == [NoCall EXCEPT !.pc = "end"]

Init ==
  /\ state = [t \in Tasks |-> "None"]
  /\ cid = [t \in Tasks |-> NoID]
  /\ live = {}
  /\ run = [t \in Tasks |-> "idle"]
  /\ worker = [t \in Tasks |-> "off"]
  /\ attempts = [t \in Tasks |-> 0]
  /\ reg = [t \in Tasks |-> [a \in Attempts |-> "idle"]]
  /\ breaks = 0
  /\ workers = {}
  /\ exec = [t \in Tasks |-> [a \in Attempts |-> "none"]]
  /\ copy = [t \in Tasks |-> [a \in Attempts |-> "None"]]
  /\ launched = [t \in Tasks |-> 0]
  /\ health = [t \in Tasks |-> 0]
  /\ stop = [c \in Stoppers |-> NoCall]
  /\ faults = 0
  /\ up = TRUE
  /\ restarts = 0

-----------------------------------------------------------------------------
\* w.Db.Put of a copy of t in state s.
Put(t, s) == state' = [state EXCEPT ![t] = s] /\ UNCHANGED <<cid, faults>>

\* w.Db.Put or List has returned an error: nothing is stored.
StoreError ==
  /\ faults + breaks < MaxFaults
  /\ faults' = faults + 1
  /\ UNCHANGED <<state, cid>>

\* failTask with a copy in state s: the only check is on the copy, and an
\* error of the store is only logged.
failTask(t, s) ==
  IF ValidStateTransition(s, "Failed")
    THEN Put(t, "Failed") \/ StoreError
    ELSE UNCHANGED db

\* CreateContainerSandbox has started container t, with the worker in it.  On
\* every other path it returns an error; a container that was created but did
\* not start is removed.
SandboxCreated(t) ==
  /\ live' = live \cup {t}
  /\ worker' = [worker EXCEPT ![t] = "trying"]

\* What it may return then: the Docker service returns an empty string, the
\* others an address; RegisterWorker expects the id the worker will give.
sandboxIDs(t) == {IF b THEN t ELSE NoID : b \in ReportsID}

\* DeleteContainerSandbox removes container id, and the worker in it.
SandboxDeleted(id) ==
  /\ id \in live
  /\ live' = live \ {id}
  /\ worker' = [worker EXCEPT ![id] = "off"]
  /\ attempts' = [attempts EXCEPT ![id] = 0]

-----------------------------------------------------------------------------
\* runTask calls createContainer on a task that was submitted in state s.
CreateContainer(t, s) ==
  /\ up /\ run[t] = "idle" /\ ~IsComplete(s)
  /\ \/ /\ ValidStateTransition(s, "Creating")
        /\ Put(t, "Creating")
        /\ run' = [run EXCEPT ![t] = "creating"]
     \/ /\ ~ValidStateTransition(s, "Creating")
        /\ UNCHANGED db
        /\ run' = [run EXCEPT ![t] = "done"]
     \/ /\ ValidStateTransition(s, "Creating")
        /\ StoreError
        /\ run' = [run EXCEPT ![t] = "done"]
  /\ UNCHANGED <<live, registration, exec, copy, launched, health, stop,
                 process>>

\* Slip: no return after the error of CreateContainerSandbox.
CreateSandboxGoesOn(t) ==
  /\ up /\ run[t] = "creating"
  /\ run' = [run EXCEPT ![t] = "created"]
  /\ \/ /\ SandboxCreated(t)
        /\ UNCHANGED db
     \/ failTask(t, "Creating") /\ UNCHANGED <<live, worker>>
  /\ UNCHANGED <<attempts, reg, breaks, workers, exec, copy, launched, health,
                 stop, process>>

\* Slip: the error is returned without failTask.
CreateSandboxSilent(t) ==
  /\ up /\ run[t] = "creating"
  /\ \/ /\ SandboxCreated(t)
        /\ run' = [run EXCEPT ![t] = "created"]
     \/ /\ run' = [run EXCEPT ![t] = "done"]
        /\ UNCHANGED <<live, worker>>
  /\ UNCHANGED <<db, attempts, reg, breaks, workers, exec, copy, launched,
                 health, stop, process>>

\* The sandbox service creates and starts the container, or fails.
CreateSandbox(t) ==
  /\ up /\ run[t] = "creating"
  /\ \/ /\ SandboxCreated(t)
        /\ run' = [run EXCEPT ![t] = "created"]
        /\ UNCHANGED db
     \/ /\ failTask(t, "Creating")
        /\ run' = [run EXCEPT ![t] = "done"]
        /\ UNCHANGED <<live, worker>>
  /\ UNCHANGED <<attempts, reg, breaks, workers, exec, copy, launched, health,
                 stop, process>>

\* The last store of createContainer: Scheduled, with the ContainerID the
\* sandbox service returned.
StoreScheduled(t) ==
  /\ up /\ run[t] = "created"
  /\ run' = [run EXCEPT ![t] = "done"]
  /\ \/ /\ state' = [state EXCEPT ![t] = "Scheduled"]
        /\ \E id \in sandboxIDs(t) : cid' = [cid EXCEPT ![t] = id]
        /\ UNCHANGED faults
     \/ StoreError
  /\ UNCHANGED <<live, registration, exec, copy, launched, health, stop,
                 process>>

-----------------------------------------------------------------------------
\* The number of the attempt the worker of t is making.
attempt(t) == attempts[t] + 1

\* The worker's loop registerToManager: another attempt or the end.
Retry(t) ==
  /\ attempts' = [attempts EXCEPT ![t] = @ + 1]
  /\ worker' = [worker EXCEPT ![t] =
       IF attempts[t] + 1 < maxRetries THEN "trying" ELSE "gaveup"]

\* tryRegisterToManager reaches the service, or the service is down.
CallRegister(t) ==
  /\ worker[t] = "trying"
  /\ \/ /\ up
        /\ reg' = [reg EXCEPT ![t][attempt(t)] = "called"]
        /\ worker' = [worker EXCEPT ![t] = "waiting"]
        /\ UNCHANGED attempts
     \/ ~up /\ Retry(t) /\ UNCHANGED reg
  /\ UNCHANGED <<db, live, run, breaks, workers, exec, copy, launched, health,
                 stop, process>>

\* The connection breaks while the handler is at work: the worker sees an
\* error and tries again, the handler goes on.
ConnectionBreaks(t) ==
  /\ up /\ worker[t] = "waiting" /\ faults + breaks < MaxFaults
  /\ reg[t][attempt(t)] \notin {"ok", "error"}
  /\ breaks' = breaks + 1
  /\ Retry(t)
  /\ UNCHANGED <<db, live, run, reg, workers, exec, copy, launched, health,
                 stop, process>>

\* RegisterWorker up to its decision, when it takes a task in one of states.
FindTaskIn(t, a, isHealthy, states) ==
  /\ up /\ reg[t][a] = "called"
  /\ workers' = workers \cup {t}
  /\ reg' = [reg EXCEPT ![t][a] =
       IF ~\E u \in Tasks : cid[u] = t /\ state[u] \in states THEN "ok"
       ELSE IF isHealthy THEN "healthy" ELSE "unhealthy"]
  /\ UNCHANGED <<db, live, run, worker, attempts, breaks, exec, copy,
                 launched, health, stop, process>>

\* Slip: the state of the task is not checked.
FindTaskUnchecked(t, a, isHealthy) == FindTaskIn(t, a, isHealthy, State)

\* Slip: a failed task is taken for one to be started again.
FindTaskFailed(t, a, isHealthy) ==
  FindTaskIn(t, a, isHealthy, {"Scheduled", "Failed"})

\* RegisterWorker up to the decision: store the worker, list the tasks and
\* look for the one whose ContainerID is the worker's id.
FindTask(t, a, isHealthy) ==
  /\ up /\ reg[t][a] = "called"
  /\ workers' = workers \cup {t}
  /\ \/ /\ ~\E u \in Tasks : cid[u] = t /\ state[u] = "Scheduled"
        /\ reg' = [reg EXCEPT ![t][a] = "ok"]
        /\ UNCHANGED db
     \/ /\ \E u \in Tasks : cid[u] = t /\ state[u] = "Scheduled"
        /\ reg' = [reg EXCEPT ![t][a] =
             IF isHealthy THEN "healthy" ELSE "unhealthy"]
        /\ UNCHANGED db
     \/ /\ StoreError
        /\ reg' = [reg EXCEPT ![t][a] = "error"]
  /\ UNCHANGED <<live, run, worker, attempts, breaks, exec, copy, launched,
                 health, stop, process>>

\* The worker is not healthy: failTask with the Scheduled copy.
RejectWorker(t, a) ==
  /\ up /\ reg[t][a] = "unhealthy"
  /\ failTask(t, "Scheduled")
  /\ reg' = [reg EXCEPT ![t][a] = "error"]
  /\ UNCHANGED <<live, run, worker, attempts, breaks, workers, exec, copy,
                 launched, health, stop, process>>

\* Scheduled -> Starting; the error of this Put is discarded.
StoreStarting(t, a) ==
  /\ up /\ reg[t][a] = "healthy"
  /\ Put(t, "Starting") \/ StoreError
  /\ reg' = [reg EXCEPT ![t][a] = "starting"]
  /\ UNCHANGED <<live, run, worker, attempts, breaks, workers, exec, copy,
                 launched, health, stop, process>>

\* StartTask: Starting -> Running, then the command and output goroutines.
StartTask(t, a) ==
  /\ up /\ reg[t][a] = "starting"
  /\ \/ /\ Put(t, "Running")
        /\ exec' = [exec EXCEPT ![t][a] = "calling"]
        /\ launched' = [launched EXCEPT ![t] = @ + 1]
        /\ reg' = [reg EXCEPT ![t][a] = "ok"]
     \/ /\ StoreError
        /\ reg' = [reg EXCEPT ![t][a] = "error"]
        /\ UNCHANGED <<exec, launched>>
  /\ UNCHANGED <<live, run, worker, attempts, breaks, workers, copy, health,
                 stop, process>>

\* The handler's reply reaches the worker, or is lost, if it is still the
\* answer the worker waits for.
Reply(t, a) ==
  LET awaited == worker[t] = "waiting" /\ attempt(t) = a
  IN /\ up /\ reg[t][a] \in {"ok", "error"}
     /\ \/ /\ awaited /\ reg[t][a] = "ok"
           /\ worker' = [worker EXCEPT ![t] = "registered"]
           /\ UNCHANGED attempts
        \/ awaited /\ Retry(t)
        \/ ~awaited /\ UNCHANGED <<worker, attempts>>
     /\ reg' = [reg EXCEPT ![t][a] = "idle"]
     /\ UNCHANGED <<db, live, run, breaks, workers, exec, copy, launched,
                    health, stop, process>>

-----------------------------------------------------------------------------
\* GrpcClient.ExecuteCommand returns an error: failTask with the copy that
\* StartTask stored as Running.
ExecuteError(t, a) ==
  /\ up /\ exec[t][a] = "calling"
  /\ failTask(t, "Running")
  /\ exec' = [exec EXCEPT ![t][a] = "none"]
  /\ UNCHANGED <<live, run, registration, copy, launched, health, stop,
                 process>>

\* ExecuteCommand returns nil: the deferred cancel and close run while the
\* client's receiving goroutine is at work (module CommandStream).
ExecuteReturns(t, a) ==
  /\ up /\ exec[t][a] = "calling"
  /\ exec' = [exec EXCEPT ![t][a] = "closing"]
  /\ UNCHANGED <<db, live, run, registration, copy, launched, health, stop,
                 process>>

\* processTaskOutput receives the client's "failed"; updateTaskStatus reads
\* the task.  The states the worker sends are unknown to updateTaskStatus,
\* which ignores them.
ReadForUpdate(t, a) ==
  /\ up /\ exec[t][a] = "closing"
  /\ exec' = [exec EXCEPT ![t][a] = "updating"]
  /\ copy' = [copy EXCEPT ![t][a] =
       IF ValidStateTransition(state[t], "Failed") THEN "Failed" ELSE state[t]]
  /\ UNCHANGED <<db, live, run, registration, launched, health, stop,
                 process>>

\* updateTaskStatus writes its copy back.
WriteUpdate(t, a) ==
  /\ up /\ exec[t][a] = "updating"
  /\ Put(t, copy[t][a]) \/ StoreError
  /\ exec' = [exec EXCEPT ![t][a] = "none"]
  /\ copy' = [copy EXCEPT ![t][a] = "None"]
  /\ UNCHANGED <<live, run, registration, launched, health, stop,
                 process>>

-----------------------------------------------------------------------------
\* UpdateTasks: a health check for every task that is Running now, whether or
\* not an earlier one is still under way.
UpdateTasks ==
  /\ up
  /\ \E t \in Tasks : state[t] = "Running" /\ health[t] < MaxChecks
  /\ health' = [t \in Tasks |->
       IF state[t] = "Running" /\ health[t] < MaxChecks
         THEN health[t] + 1 ELSE health[t]]
  /\ UNCHANGED <<db, live, run, registration, exec, copy, launched, stop,
                 process>>

\* CheckTaskHealth: an unhealthy answer or the timeout fails the task, with
\* the copy that was Running when UpdateTasks listed it; the end of the
\* stream only ends the check.
CheckTaskHealth(t) ==
  /\ up /\ health[t] > 0
  /\ health' = [health EXCEPT ![t] = @ - 1]
  /\ failTask(t, "Running") \/ UNCHANGED db
  /\ UNCHANGED <<live, run, registration, exec, copy, launched, stop,
                 process>>

-----------------------------------------------------------------------------
\* A caller reads task t from the store in order to stop it.
ReadForStop(c, t) ==
  /\ up /\ stop[c].pc = "idle" /\ state[t] # "None"
  /\ stop' = [stop EXCEPT ![c] =
                [pc |-> "got", task |-> t, copy |-> state[t]]]
  /\ UNCHANGED <<db, live, run, registration, exec, copy, launched, health,
                 process>>

\* StopTask: refuse, or store Stopping.
StopTask(c) ==
  LET t == stop[c].task
      valid == ValidStateTransition(stop[c].copy, "Stopping")
  IN /\ up /\ stop[c].pc = "got"
     /\ \/ /\ valid
           /\ Put(t, "Stopping")
           /\ stop' = [stop EXCEPT ![c].pc = "deleting"]
        \/ /\ (~valid /\ UNCHANGED db) \/ (valid /\ StoreError)
           /\ stop' = [stop EXCEPT ![c] = Returned]
     /\ UNCHANGED <<live, run, registration, exec, copy, launched, health,
                    process>>

\* Slip: the error of DeleteContainerSandbox is ignored.
DeleteSandboxUnchecked(c) ==
  LET id == cid[stop[c].task]
  IN /\ up /\ stop[c].pc = "deleting"
     /\ stop' = [stop EXCEPT ![c].pc = "deleted"]
     /\ SandboxDeleted(id) \/ UNCHANGED <<live, worker, attempts>>
     /\ UNCHANGED <<db, run, reg, breaks, workers, exec, copy,
                    launched, health, process>>

\* DeleteContainerSandbox with the stored ContainerID: removes the container,
\* and the worker in it, or fails; it fails when there is none of that id.
DeleteSandbox(c) ==
  LET id == cid[stop[c].task]
  IN /\ up /\ stop[c].pc = "deleting"
     /\ \/ /\ SandboxDeleted(id)
           /\ stop' = [stop EXCEPT ![c].pc = "deleted"]
        \/ /\ stop' = [stop EXCEPT ![c].pc = "failing"]
           /\ UNCHANGED <<live, worker, attempts>>
     /\ UNCHANGED <<db, run, reg, breaks, workers, exec, copy,
                    launched, health, process>>

\* Slip: the error is returned without failTask.
StopFailedSilent(c) ==
  /\ up /\ stop[c].pc = "failing"
  /\ stop' = [stop EXCEPT ![c] = Returned]
  /\ UNCHANGED <<db, live, run, registration, exec, copy, launched, health,
                 process>>

\* The deletion failed: failTask with the Stopping copy.
StopFailed(c) ==
  /\ up /\ stop[c].pc = "failing"
  /\ failTask(stop[c].task, "Stopping")
  /\ stop' = [stop EXCEPT ![c] = Returned]
  /\ UNCHANGED <<live, run, registration, exec, copy, launched, health,
                 process>>

\* Stopping -> Completed, and the worker leaves the map.
StopCompleted(c) ==
  /\ up /\ stop[c].pc = "deleted"
  /\ \/ /\ Put(stop[c].task, "Completed")
        /\ workers' = workers \ {cid[stop[c].task]}
     \/ StoreError /\ UNCHANGED workers
  /\ stop' = [stop EXCEPT ![c] = Returned]
  /\ UNCHANGED <<live, run, worker, attempts, reg, breaks, exec, copy,
                 launched, health, process>>

-----------------------------------------------------------------------------
\* The process ends: killed, or by the panic in the goroutines of StartTask
\* that module CommandStream shows.  Goroutines and maps are lost; the store
\* and the containers stay.  A waiting worker sees its connection break.
Crash ==
  /\ up
  /\ up' = FALSE
  /\ run' = [t \in Tasks |-> IF run[t] = "idle" THEN "idle" ELSE "done"]
  /\ reg' = [t \in Tasks |-> [a \in Attempts |-> "idle"]]
  /\ workers' = {}
  /\ exec' = [t \in Tasks |-> [a \in Attempts |-> "none"]]
  /\ copy' = [t \in Tasks |-> [a \in Attempts |-> "None"]]
  /\ health' = [t \in Tasks |-> 0]
  /\ stop' = [c \in Stoppers |->
       IF stop[c].pc = "idle" THEN NoCall ELSE Returned]
  /\ attempts' = [t \in Tasks |->
       IF worker[t] = "waiting" THEN attempts[t] + 1 ELSE attempts[t]]
  /\ worker' = [t \in Tasks |->
       IF worker[t] # "waiting" THEN worker[t]
       ELSE IF attempts[t] + 1 < maxRetries THEN "trying" ELSE "gaveup"]
  /\ UNCHANGED <<db, live, breaks, launched, restarts>>

\* NewWorkerService on the same store: nothing is recovered from it.
Restart ==
  /\ ~up /\ restarts < MaxRestarts
  /\ up' = TRUE
  /\ restarts' = restarts + 1
  /\ UNCHANGED <<db, live, run, registration, exec, copy, launched, health,
                 stop>>

\* createContainer once it has stored Creating.
CreateStep(t) == CreateSandbox(t) \/ StoreScheduled(t)

\* A RegisterWorker handler.
HandlerStep(t, a) ==
  \/ \E isHealthy \in BOOLEAN : FindTask(t, a, isHealthy)
  \/ RejectWorker(t, a) \/ StoreStarting(t, a) \/ StartTask(t, a)
  \/ Reply(t, a)

\* The goroutines it has started.
ExecuteStep(t, a) ==
  \/ ExecuteError(t, a) \/ ExecuteReturns(t, a)
  \/ ReadForUpdate(t, a) \/ WriteUpdate(t, a)

TaskStep(t) ==
  \/ CreateStep(t)
  \/ CallRegister(t) \/ ConnectionBreaks(t)
  \/ \E a \in Attempts : HandlerStep(t, a) \/ ExecuteStep(t, a)
  \/ CheckTaskHealth(t)

\* StopTask once its caller has read the task.
StopStep(c) ==
  StopTask(c) \/ DeleteSandbox(c) \/ StopFailed(c) \/ StopCompleted(c)

Next ==
  \/ \E t \in Tasks :
       \/ \E s \in State : CreateContainer(t, s)
       \/ TaskStep(t)
  \/ \E c \in Stoppers :
       \/ \E t \in Tasks : ReadForStop(c, t)
       \/ StopStep(c)
  \/ UpdateTasks \/ Crash \/ Restart

Spec == Init /\ [][Next]_vars

\* The goroutines of the service run, the container runtime and the network
\* answer, and a worker keeps trying to register; nobody has to submit or
\* stop a task, and the process need not crash.
Fairness ==
  /\ \A t \in Tasks :
       /\ WF_vars(CreateStep(t))
       /\ WF_vars(CallRegister(t))
       /\ \A a \in Attempts : WF_vars(HandlerStep(t, a))
  /\ \A c \in Stoppers : WF_vars(StopStep(c))

FairSpec == Spec /\ Fairness

-----------------------------------------------------------------------------
\* Where each goroutine and each worker may be.
CreationPC == {"idle", "creating", "created", "done"}
WorkerPC == {"off", "trying", "waiting", "registered", "gaveup"}
HandlerPC == {"idle", "called", "healthy", "unhealthy", "starting", "ok", "error"}
ExecutePC == {"none", "calling", "closing", "updating"}
StopPC == {"idle", "got", "deleting", "deleted", "failing", "end"}

\* What is stored of a task, or held as a copy of it.
StateOrNone == State \cup {"None"}
StopCall == [pc : StopPC, task : Tasks \cup {NoID}, copy : StateOrNone]

\* The type of every variable.
TypeOK ==
  /\ state \in [Tasks -> StateOrNone]
  /\ cid \in [Tasks -> Tasks \cup {NoID}]
  /\ live \in SUBSET Tasks
  /\ run \in [Tasks -> CreationPC]
  /\ worker \in [Tasks -> WorkerPC]
  /\ attempts \in [Tasks -> 0..maxRetries]
  /\ reg \in [Tasks -> [Attempts -> HandlerPC]]
  /\ breaks \in 0..MaxFaults
  /\ workers \in SUBSET Tasks
  /\ exec \in [Tasks -> [Attempts -> ExecutePC]]
  /\ copy \in [Tasks -> [Attempts -> StateOrNone]]
  /\ launched \in [Tasks -> Nat]
  /\ health \in [Tasks -> 0..MaxChecks]
  /\ stop \in [Stoppers -> StopCall]
  /\ faults \in 0..MaxFaults
  /\ up \in BOOLEAN
  /\ restarts \in 0..MaxRestarts

\* A task the store shows as Scheduled, Starting or Running has its container:
\* no late writer - a retried registration, a health check, an output update,
\* another StopTask - puts such a state back once the container is gone.  The
\* exception is a handler that overlaps the one that started the task, after
\* a connection broke: its Starting may come last
\* (worker_service.go:189-194, 250-275, 408).
ActiveHasContainer ==
  breaks = 0 => \A t \in Tasks :
    state[t] \in {"Scheduled", "Starting", "Running"} => t \in live

\* A task stored as Completed has no container left, also when two callers
\* stop it, one of them fails, or the service crashes half way
\* (worker_service.go:408-425).
CompletedMeansRemoved ==
  \A t \in Tasks : state[t] = "Completed" => t \notin live

\* The command of a task is started at most once, although a worker registers
\* again whenever the answer is lost, the service was down or the store failed.
\* Only a second handler that overlaps the first one, both having read
\* Scheduled before either stores Starting, starts it again: that takes a
\* connection broken under a handler, and one such connection starts it at
\* most once more (worker_service.go:235-257, worker/main.go:41-48).
CommandLaunchedOnce == \A t \in Tasks : launched[t] <= 1 + breaks

\* Once a task is being stopped or is over it never becomes active again,
\* whatever stale copies are still written back, unless two registrations
\* overlap (worker_service.go:164-459).
NoResurrection ==
  [][breaks = 0 => \A t \in Tasks :
       state[t] \in {"Stopping", "Completed", "Failed"} =>
         state'[t] \in {"Stopping", "Completed", "Failed"}]_vars

\* The store has failed or the service has crashed.
disturbed == faults > 0 \/ ~up \/ restarts > 0

\* A task does not stay in Creating: its container is created or it fails,
\* unless the store or the service does (worker_service.go:164-194).
CreatingSettles ==
  \A t \in Tasks :
    (state[t] = "Creating") ~> (state[t] # "Creating" \/ disturbed)

\* A task does not stay in Stopping, even if an update that was under way, a
\* health check or a second StopTask writes in between
\* (worker_service.go:394-425, 444-453).
StoppingSettles ==
  \A t \in Tasks :
    (state[t] = "Stopping") ~>
      (state[t] \in {"Completed", "Failed"} \/ disturbed)

-----------------------------------------------------------------------------
\* "Container created, waiting for worker registration": a task that waits
\* for its worker is started or failed when the worker registers
\* (worker_service.go:191, 206).
ScheduledTaskStarts ==
  \A t \in Tasks : (state[t] = "Scheduled") ~> (state[t] # "Scheduled" \/ ~up)
=============================================================================
