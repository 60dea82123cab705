# A TLA+ model of the DevOps platform

This directory models the core of the platform: the worker service that queues
tasks, creates their containers and drives their life; the gRPC client and the
server that run a task's command inside the container; the health checks; the
scheduler and the manager; the stores; and the pools and sandboxes that share a
Docker host.  TLC checks the modules on small instances; TLAPS proves the
safety properties of every one of these components for all instances, and
liveness stays with TLC.

    tlc -config Dispatcher.cfg Dispatcher         # one run; PROJECT.json lists all
    tlapm DispatcherProofs.tla                    # one of the eight modules of proofs

## The system and its parts

| Part | Source (under `internal/` unless a path is given) | State | Operations |
|---|---|---|---|
| Task state machine | `core/domain/task` | eight states, transition map | `ValidStateTransition`, `IsComplete` |
| Dispatcher | `adapters/worker/worker_service.go:55-154` | channel `pendingTasks`, `currentRunning` under `mu`, context | `AddTask`, `dispatchLoop`, `runTask`, `Shutdown` |
| Task life | `worker_service.go:159-547` | tasks in the store, containers, map of workers | `createContainer`, `RegisterWorker`, `StartTask`, `updateTaskStatus`, `StopTask`, `failTask`, `CheckTaskHealth`, `UpdateTasks` |
| Registration | `worker/main.go`, `adapters/grpc/server/manager_registry_server.go` | attempts | `registerToManager`, `RegisterWorker` |
| Command stream | `adapters/grpc/client/worker_client.go:30-95`, `worker_service.go:265-384` | stream, channel `outputChan`, context | `ExecuteCommand`, `processTaskOutput` |
| Process server | `adapters/grpc/server/worker_process_server.go` | flag `busy`, process, pipes | `ExecuteCommand`, `HealthCheck`, `TerminateProcess` |
| Health check | `worker_service.go:489-521`, `worker_client.go:114-159` | stream, channel `healthChan`, context | `CheckTaskHealth`, `StartHealthCheck` |
| Scheduler, node | `adapters/scheduler`, `adapters/node` | `LastWorker`, disk and `Stats` of the nodes | `SelectCandidateNodes`, `Score`, `Pick`, `GetStats` |
| Manager | `adapters/manager` | queue, two stores, two maps | `New`, `AddTask`, `SendWork`, `updateTasks`, `doHealthChecks` |
| Sandboxes | `adapters/sandbox` | containers, by name | `CreateContainerSandbox`, `DeleteContainerSandbox` |
| Observers | `worker_service.go:465-484` | map of observers | `RegisterObserver`, `NotifyObservers` |
| Stores | `adapters/store` | key to task or event | `Put`, `Get`, `List`, `Count`, `Delete` |
| Docker pool | `adapters/resource/docker` | network, manager and worker containers | `NewDockerHostPool`, `GetHealthStatus`, `Cleanup` |

How they interact.  A submission goes through a channel to one dispatch loop,
which starts `runTask` goroutines inside a limit.  `createContainer` stores the
task, starts a container and stores it again; the worker in the container
registers over gRPC, in its own time; the registration starts the command in
two more goroutines, which share a channel with a third one in the gRPC client.
`UpdateTasks` starts health checks, and anyone may call `StopTask`.  All of these
read a copy of the task from the store and write it back later, without a lock.
The manager runs three loops over its own store and talks to workers over HTTP.

What is hard here: stale copies written back; a worker that registers too early
or twice; slots and queue at their limits; channels with several owners; a
context that ends while a message is under way; goroutines nobody joins; a
crash between two stores; pools and sandboxes that are built by many calls to a
daemon they share, each of which may fail or lose its answer.  `PROJECT.json` lists each hazard at its line, with
the properties that watch it.

## Modules

| Module | Models | Notes |
|---|---|---|
| `TaskStates` | state machine | states by name |
| `Dispatcher` | queue, loop, slots | the channel is a sequence: buffer first, then blocked senders in order of arrival |
| `SlotPool` | what the dispatcher promises | abstract: wait, start within the limit, finish |
| `TaskLifecycle` | life of tasks, registration, crash and restart | an action is the code between two accesses to the store |
| `WorkerService` | `Dispatcher` and `TaskLifecycle` composed, from submission to execution | the slot is held from `RunTask` to `FreeSlot`; `StopTask` and restarts stay with `TaskLifecycle` |
| `CommandStream` | `ExecuteCommand`, the users of its channel, the observers they tell, and a `StopTask` that writes the same task | `inStartTask`, chosen in `Init`, says who the caller is |
| `ProcessServer` | the worker's `ExecuteCommand` | one reader per pipe, with the bytes its buffer holds |
| `HealthCheck` | one health check | |
| `Scheduler` | choice of a node | a step is an answer of a node or a read of a counter; scores are fractions |
| `Manager` | queue, loops, maps, and the managers that follow one another on a `tasks.db` | the HTTP server of a worker is external |
| `Docker` | the Docker daemon | external: named containers, networks, the host port; a call that fails may have had its effect |
| `DockerPool` | the pool of a Docker host | an action is one call to the daemon |
| `DockerSandbox` | sandboxes as Docker containers | likewise |
| `DockerHost` | pools and sandboxes on one daemon | they meet in names, networks and the port |
| `KeyValue` | what a store promises | abstract: a write takes effect once, between its call and its answer, or not at all |
| `Store` | the in-memory and the bolt stores | objects on a heap, so that aliases are visible |
| `DispatcherProofs`, `TaskLifecycleProofs`, `WorkerServiceProofs`, `CommandStreamProofs`, `StoreProofs`, `DockerHostProofs` | theorems on the module they are named for | TLAPS |
| `ProcessServerProofs` | theorems on `ProcessServer` and `HealthCheck`, the two calls of a worker's server | TLAPS |
| `ManagerProofs` | theorems on `Manager` and on the `Scheduler` that chooses its workers | TLAPS |
| `MCProcessServer`, `MCDockerHost`, `MCScheduler` | symmetry, and a value that a .cfg cannot express, for TLC | symmetry only where a run checks safety |

Variables have the names of the fields they stand for; the comment of an action
names its function, and `map` in `PROJECT.json` gives the lines.  Definitions
whose comment begins with *Slip* are wrong versions of an operation; each shows
that a property notices that mistake.  No specification uses them.
`TypeOK` says which values each variable takes; it is the first conjunct of each
inductive invariant (`WorkerServiceProofs` has its own, `Types`), and proved.  Only
the run of the dispatcher spends a property on it.  `HealthCheck` and `Scheduler`
prefix the names of their specification, since their theorems share a module
with those of another component; these proofs do not need their type invariants.

### Decisions worth knowing

* `Dispatcher`: one element of `Tasks` is one call of `AddTask`.  `createContainer`
  is between `TakeSlot` and `RunTaskReturn`.
* `TaskLifecycle`: a task's `ContainerID` never changes once stored, so a copy of
  a task is its state.  A worker makes one registration call after another, but
  the call has no deadline and the handler does not look at its context: when
  the connection breaks (`ConnectionBreaks`) the next handler overlaps the first,
  so handlers and what they start are indexed by the attempt.  `ReportsID`
  says whether the sandbox may return the container's id, as `RegisterWorker`
  expects, and whether it may not, as the present services do; `MaxFaults` bounds
  how often `Put` and `List` fail and connections break, together.  The registration server always reports a healthy worker;
  `RegisterWorker` is modelled with both values, because it tests the flag.
  `Get` errors in `updateTaskStatus` have the effect of an ignored output, that
  is, of no step.  The panic that `CommandStream` finds is one cause of `Crash`.
* `CommandStream` keeps the names of the states as they are on the wire: the
  worker's in upper case, the client's in lower case.  A panic ends every step.
  `StartTask` tells the observers after it has started its goroutines, and these
  tell them before they update the store.  A notification is a goroutine, so that
  `told` is the set of the calls of `Notify` that are made, in any order.  The
  errors of the store that `updateTaskStatus`, `failTask` and `StopTask` only log
  are steps: a `Get` that fails loses the output's state, a `Put` that fails
  leaves the stored one.  `StopTask` is the one other writer here: its copy of
  the task is Running and may be older than what is stored; it deletes the
  container, which breaks the stream (`StreamBreaks`) or silences the worker.
  `TaskLifecycle` has all the writers.  A plain user of the client passes
  a context of his own: he may end it (`UserCancels`), read no more
  (`UserLeaves`), or wait for ever.
* `DockerHost`: a pool is one call of `NewDockerHostPool`; ids may be equal.  The
  sandbox has the name of a manager's container, the only case in which the two
  components meet by name; it publishes no port, since its host configuration
  never reaches Docker (`publishes`).  `steady` is history, for `HealthReport`: nothing
  of the pool changed during the check.  Removal is by container id, so a
  container carries its owner, who stands for the id.  `docker_pool.go` imports
  two packages under the name `client` and uses fields `Task` does not have, so
  it does not compile at this commit; it is modelled as it reads.
* `Store`: the content of an object is a pair of fields that a client writes one
  after the other; a store's value is finished when they agree.  A `Put` in a
  bolt store encodes inside its transaction.  A kind is "unknown" for "redis" and
  every other type that the factory has no case for: a nil store without an
  error.  In the in-memory store a map
  operation takes two steps, and two that overlap, one of them a write, may end
  the process, which is what the Go run-time does when it notices.  `List` is a
  `Get` of each key; `Close` is never called.
* `Scheduler`: `GetStats` returns the address of the node's own `Stats`
  (`node.go:71`), so the two readings of `calculateCpuUsage` are one struct.  It
  is read after the second answer (`ReadCounter`, idle counters first), and differs between
  two reads only if `UpdateNodeStats`, in its own goroutine, answers in between:
  `refreshed` is history and says that it did.  The several counters that make up
  a busy or idle time are read as one, and a node always has its `CpuStats`.
  Unsigned arithmetic is modulo `Word`.
  The loops of `Pick` and `selectCandidateNodes` are functions of the index, the
  form in which they can be proved about.  In Epvm's cost the powers of the CPU load cancel
  (`scheduler.go:146`), which leaves memory and the number of tasks: an input.
* `WorkerService`: `submitted` is the state in the copy that travels from `AddTask`
  to `runTask`.  A crash loses the queue with everything else in memory.
* `HealthCheck`: `Answers` are both values, though this worker answers TRUE only.
  A check ends at the task's timeout by failing the task, unless the closed
  channel is seen first: the properties accept both.
* `Manager`: `Init` is a host without a `tasks.db` and without a manager; `New`
  starts one, and `Crash` or a panic (`Ends`) ends it.  So the state that a `New`
  finds is always one that earlier managers have left: with a bolt store the
  stored tasks, at the workers their tasks, in the maps and the queue nothing.
  With the in-memory store `TaskDb.Put` keeps the address of the event's task,
  and the answer 201 is decoded into that task: `PostCreated` clears it and
  `Decoded` fills it, while `updateTasks` may store a state in between.  An
  unknown `dbType` gives nil stores (`opened`).  `m.worker` is nil, because nothing sets it.  Queue operations are
  atomic; reading and writing a task in `updateTasks` is one step, because what it
  writes is the answer's state whatever it has read; a `RestartCount` stored in
  between would be lost, but `restartTask`, which stores one, ends the process.
  `assigned` is history: how often a task was given to a worker, over all
  managers.  `TaskCount`, which only enters the
  scores, and `EventDb`, which nothing reads, are left out.  The package does not compile at this
  commit (field names of an older `Task`); it is modelled as it reads.

## Runs

Passing runs, with what they show:

| Run | Instance | Shows |
|---|---|---|
| `dispatcher` | 4 tasks, buffer 1, 2 slots | counter equals goroutines and respects the limit; each accepted task in one place; callers blocked exactly beyond the buffer; refinement of `SlotPool`; each accepted task gets a slot; Shutdown ends the loop |
| `task_lifecycle` | 1 task, 2 stoppers, 2 attempts, 1 store error or broken connection, 1 check, 1 restart | an active task has its container and there is no way back from Stopping or the end, unless registrations overlap; Completed means removed; the command starts once, and once more per broken connection; Creating and Stopping are left |
| `worker_service` | 2 tasks, buffer 1, 1 slot, 1 store error | containers are created inside a slot; a submitted task settles |
| `command_stream` | up to 2 messages and an error, either caller, 1 observer, 1 `StopTask`, 1 store error | order; all output or an error; a plain caller sees one close, and the end of the channel once the stream or his context ended, if he reads on; a refused command does not leave its task Running; an observer misses nothing once it was told of an output; a task of whose failure it was told comes to its end in the store, unless the store returned an error or the process panicked |
| `process_server` | 2 calls, 2 lines each over both pipes | busy flag owned; order per pipe |
| `health_check` | one check | failures justified; both goroutines end |
| `scheduler` | 3 nodes, 2 costs, counters that stand, advance or go back, words of 4 bits | fair turns; which load decides: with Epvm the cost, a node that does not answer counting as 0; with Greedy none |
| `manager` | 1 task, 2 workers, 3 events, 2 managers one after the other, 1 store error, each kind of store | maps agree; of a task assigned once, stops reach the right worker, and the view does not go back, but for the 201 with the store in memory; it catches up |
| `docker_host` | 2 pools of 2 workers, 2 ids, 1 sandbox, 1 deletion at a time, 1 failing call, 1 container that stops | a pool in use knows exactly its containers; one pool per id; Cleanup goes on after an error and its order frees the network; a failed sandbox leaves nothing; nobody removes what is another's; the health report is right if nothing changed meanwhile |
| `store` | 2 goroutines, 1 key, 2 values, 1 file error, 1 restart | a bolt store implements `KeyValue`; a nil pointer ends the process only if the file could not be opened or the type is unknown |

The other runs refute what a comment or a test of the repository says; each is a
finding in `PROJECT.json`:

| Run | What the code does |
|---|---|
| `start_task_panic` | closes the output channel twice |
| `early_registration` | forgets a worker that registers before its task is stored |

### Observations without a run

The models contain these behaviours too; they were met while modelling, and no
run is spent on them:

* `runTask` gives its slot back when the container exists, not when the task
  ends (`worker_service.go:126`, although `:121` says so), so that more than
  `maxConcurrent` tasks are under way (`FreeSlot`).
* `busy` is tested and set in two steps without a lock
  (`worker_process_server.go:25`, `:36`): two calls may run a process each
  (`PassCheck`, `SetBusy`).
* Two handlers of one worker that overlap after a broken connection both start
  the command, and the second may bring back a task that was stopped meanwhile,
  without a container (`worker_service.go:235-257`).
* Notifications run in goroutines of their own, so that an observer may see the
  outputs in any order, and a failure before `Running`
  (`worker_service.go:313`, `:480`).
* The in-memory store keeps and hands out pointers: a task changes in the store
  while its owner edits it, half of an update may be read, and concurrent calls
  race (`store.go:28`).  Deleting a missing key is an error there and none in the
  bolt stores (`store.go:53`, `:232`).
* A file that cannot be opened gives a nil store: `NewStore` logs the error and
  returns nil (`factory.go:26`), and the manager overwrites the error of the task
  store by that of the event store (`manager.go:79`).  `RedisStore` is declared
  and has no case; it and every unknown type give a nil store and no error
  (`factory.go:16`, `manager.go:73`).
* With the in-memory store the 201 of a worker is decoded into the stored task:
  a Running, or an end, that `updateTasks` has stored meanwhile is overwritten, and what a
  failed decoding leaves is a cleared task (`manager.go:316`, `:343`).
* A manager that opens an existing `tasks.db` has forgotten which worker has
  which task (`manager.go:39`, `:77`).  A repeated event assigns the task a second time,
  both workers report it, and a stop goes to the second one on the word of the
  first (`assigned` in `StopReachesHome` and `ViewNeverGoesBack`).
* The errors of `Get` and `Put` in `updateTaskStatus` and of `Put` in `failTask`
  are logged and dropped (`worker_service.go:345`, `:378`, `:451`): observers hear
  of a failure, and the task stays Running.
* `StopTask` deletes the container, which breaks the stream: observers hear
  `failed` and then `completed`, and the store may get Completed, Failed or both
  in turn (`worker_service.go:334`, `:389`).
* A plain user who stops reading before the error of his stream arrives leaves
  the receiver blocked for ever: that send has no case for the context
  (`worker_client.go:83`).
* `calculateCpuUsage` compares a struct with itself, so that Greedy gives every
  node the usage 0 and takes the first candidate (`node.go:71`,
  `scheduler.go:207`).
* A construction of a pool that fails leaves its containers and network behind,
  and the next one under the same id fails on the names they hold
  (`docker_pool.go:167`); `Cleanup` returns nil whatever failed (`:396`).  Every
  manager publishes port 50051 of the host, so that a host runs one pool
  (`:152`).
* A sandbox's host configuration, with its port and its limits, is not passed to
  Docker (`docker_sandbox.go:185`).  Listing the sandboxes lists every container
  of the host and panics on one without ports (`:235`).
* The worker ends a command with `COMPLETED` (`worker_process_server.go:128`),
  while the client and `updateTaskStatus` know only `completed`
  (`worker_client.go:88`): no task becomes Completed by finishing
  (`AfterSend`, `updateTaskStatus` in `CommandStream`).
* The Docker service returns an empty string for the id of the container
  (`docker_sandbox.go:196`), the other services an address; `RegisterWorker`
  looks the task up by the worker's id and finds none (`sandboxIDs`), and
  `DeleteContainerSandbox` inspects no container with it: the deletions of
  `DockerSandbox` are those of a caller that knows the id.
* `failTask`, `StopTask` and `updateTaskStatus` check the transition on a copy and
  write over what was stored since, so that for instance Completed becomes
  Failed, which `stateTransitionMap` excludes.  `NoResurrection` is what holds.
* The goroutines that send the output are not joined: the result may overtake
  output (`worker_process_server.go:140`), and `cmd.Wait` may close a pipe before
  its reader has read it (`:126`).
* `Pick` reads the missing score of a node that did not answer as 0 and takes
  that node (`scheduler.go:107`), as `ChoiceFollowsCost` says.
* An event for which no node qualifies is taken off the queue and dropped
  (`manager.go:306`, `NoCandidate`).  A health check of a task is started every
  15 seconds whether or not the last one has ended (`worker_service.go:539`).
* After a connection error the manager queues a `Task` where it expects a
  `TaskEvent`, and panics on it (`manager.go:327`, `:273`; action `Dequeue`); its
  health loop uses a worker service that `New` never sets (`manager.go:220`,
  `:234`; `checkTaskHealth`, `restartTask`).

Deadlock checking is off where the system may come to rest: all tasks handled,
all calls returned, the process gone.

### Bounds

`MaxMessages` (what the worker sends), `MaxLines` (per call, both pipes together), `MaxChecks` (under way
per task), `MaxFaults` (errors of a store, broken connections, failing
calls to Docker), `MaxStops` (containers that stop), `MaxRestarts`, `MaxStarts` (managers), `MaxEvents`
and the sets of tasks, callers and calls.  `maxRetries` and `count` are smaller
than in the code or equal to it.  Four tasks with two slots and a buffer of one
reach every mixture of buffered, blocked, held, re-queued and running tasks.  In
the life of a task all shared state is per task, so one task with two stoppers, a
health check and an update already has every pair of writers; two tasks meet in
`WorkerService`, through the slots.  Two attempts make one repeated registration,
before, while or after the first one starts the command.  One store error can hit any of the
stores an operation makes.  One task with two workers, three events and two managers gives
the manager a repeated event, a stop of it, and a second assignment after a
restart; tasks meet only in the queue and in the order of an answer.  Two
messages and the client's error let one be delivered while the next is held and
the stream breaks; `Final` is one name, since the client and the service treat
all the worker's names alike, as unknown.  Two pools under
one id or two, with one failing call, give every pair of constructions and
cleanups that meet in a name or a network; one failure can hit any call.  Two
goroutines on one key are every pair of operations of a store.

### Fairness

Goroutines that can run do run (weak fairness on their steps), contexts with a
timeout end, and the container runtime answers, with success or an error.
`select` chooses at random between ready cases, hence strong fairness for the
exit of the dispatch loop.  In `Manager`, a worker asked again and again answers
some time (strong fairness).  The one context with a
timeout in `CommandStream` is `StartTask`'s (`worker_service.go:282`).  Nothing is
assumed of clients, of a plain user's context, of the command, of
the worker's side of a stream, or of the network otherwise; crashes and
shutdowns may but need not happen.

## Proofs

TLAPS proves every invariant and every action property that a passing run
checks, and two refinements, for all values of the constants.  A theorem has the
form `Spec => []Inv`: it needs an invariant `IInv` that implies `Inv`, holds
initially and is kept by every step, and `IInv` of each module is defined at its
head, as a conjunction of named parts.

| Module | Theorem | States |
|---|---|---|
| `DispatcherProofs` | `TypeCorrect` | `TypeOK` |
| | `SlotsRespected` | `ConcurrencyLimit` |
| | `NoTaskLost` | `OnePlace` |
| | `CallersHeldBack` | `BackPressure` |
| | `ImplementsPool` | `PoolSpec`: `Dispatcher` implements `SlotPool` |
| `TaskLifecycleProofs` | `TypeCorrect` | `TypeOK` |
| | `RemovedWhenCompleted` | `CompletedMeansRemoved` |
| | `LaunchedOnce` | `CommandLaunchedOnce` |
| | `ContainerWhileActive` | `ActiveHasContainer` |
| | `OverIsOver` | `NoResurrection` |
| `WorkerServiceProofs` | `CreationsBounded` | `CreationInSlot` |
| | `ImplementsLifecycle` | `LifecycleSpec`: seen from its tasks, the service is `TaskLifecycle` |
| | `QueueIsDispatcher` | `DispatchesOrForgets`: seen from its queue, it is `Dispatcher` between two crashes |
| `CommandStreamProofs` | `TypeCorrect` | `TypeOK` |
| | `OutputsInOrder` | `OutputOrder` |
| | `WholeOrFailed` | `AllOrError` |
| | `PlainUserSafe` | `ClosedOnce` |
| | `ObserversHearAll` | `ObserversMissNothing` |
| `ProcessServerProofs` | `TypeCorrect` | `TypeOK` |
| | `NeverLeftBusy` | `BusyHasOwner` |
| | `LinesInOrder` | `PipeOrder` |
| | `HealthFailsJustly` | `FailureJustified` of `HealthCheck` |
| `ManagerProofs` | `TypeCorrect` | `TypeOK` |
| | `OneWorkerPerTask` | `MapsAgree` |
| | `StopsAtHome` | `StopReachesHome` |
| | `PictureGoesForward` | `ViewNeverGoesBack` |
| | `TurnsAreFair` | `RoundRobinFair` of `Scheduler` |
| | `CostDecides` | `ChoiceFollowsCost` of `Scheduler` |
| `DockerHostProofs` | `TypeCorrect` | `TypeOK` |
| | `PoolKnowsItsContainers` | `ReadyTracksAll` |
| | `PoolsDiffer` | `OnePoolPerID` |
| | `CleanupIsThorough` | `CleanupRemovesAll` |
| | `SandboxCleansUp` | `FailedCreateLeavesNothing` |
| | `NobodyElseRemoves` | `OnlyOwnersRemove` |
| | `HealthIsTrue` | `HealthReport` |
| `StoreProofs` | `TypeCorrect` | `TypeOK` |
| | `PanicJustifiedAlways` | `PanicJustified` |
| | `ImplementsKeyValue` | `KVSpec`: a bolt store implements `KeyValue` |

`ConcurrencyLimit`, `OnePlace`, `BusyHasOwner`, `ObserversMissNothing`,
`FailedCreateLeavesNothing`, `MapsAgree` and `StopReachesHome` are conjuncts of
their invariants; the others are not inductive and follow from more.

### The arguments

**Dispatcher.**  The counter matches the goroutines only if the task in the
loop's hand is not already running, which needs `OnePlace`, and `OnePlace` needs
to know when the hand is empty (`HandInv`).  `BackPressure` comes from
`SendersWait`: a caller that is `sending` stands beyond the buffer, which a step
of the channel keeps, because it releases whom it moves into the buffer.
`PoolStep` maps each action to `Accept`, `Start`, `Finish` or no step of the pool.

**Life of a task.**  `CompletedInv` follows the removal of a container through
every copy: whoever holds Completed comes after it.  For the command, what counts
is not how often it was started but how often it still may be: `LaunchInv` bounds
the handlers that have not decided by the connections that broke, and the
commands started plus the handlers about to start one by these and one more.
`SingleInv` says what a single registration looks like from the store: which
copies, late writers and calls of StopTask can exist beside each state; without
a broken connection none of them writes an active state back (`CopyInv`,
`LateWriter`), hence `ActiveHasContainer` and `NoResurrection`.
`UnlaunchedInv` says that nobody checks, updates or stops a task before its
command was started; `CreationInv` and `CallsInv` are the bookkeeping.

**The service as a whole.**  A task on its way carries the state it was
submitted in (`SubmittedInv`), the counted slots cover those taken (`SlotInv`),
and creation is under way in a slot only (`HeldInv`).  The two refinements are
step by step: an action of `WorkerService` is an action of `TaskLifecycle` or
leaves it alone, and an action of `Dispatcher`, leaves it alone, or, for a crash,
starts it afresh.  So the theorems on the task life speak of the composed service
too, and so do those on the dispatcher until a crash.

**Command stream.**  `FlowInv` ties the channel to the stream at each place of
the receiver: it has delivered what it received, but for the message it holds
and the error it may add.  `CloseInv` counts who has closed the channel, `LeftInv`
says why the receiver left its loop.  `SentInv` numbers the messages, so that an
observer told of one is told of that one only, and what the service tells on its
own is none of them (`OwnReports`).

**Process server and health check.**  The reader of a pipe sends a line after
those before it (`PipeInv`): on the stream, a line of a pipe comes behind all
earlier ones, and what was handled is there until the handler returns.  In the
health check the context ends by the deadline only, as long as the checker waits
(`HealthInv`).

**Manager and scheduler.**  `PictureInv` orders three pictures of a task that was
assigned once: what is stored is not ahead of an answer on its way, and that is
not ahead of the one worker that has the task.  It holds across the end of a
manager, which is why `StopsAtHome` and `PictureGoesForward` speak of every
manager that opens the `tasks.db`; of a task assigned twice it says nothing, since there
the code does go wrong.  `SendInv` ties what is being posted to the maps, and says
that only a task in memory is cleared for an answer.  For the scheduler, `TurnsInv` says
that the picks are the last turns, and turns repeat after `numNodes` only.  `ChoiceInv`
says that the counters read so far are those of one struct unless it was
refreshed, so that every score of Greedy is 0 (`NoUsage`).  That
`Pick` and `selectCandidateNodes` compute what they should is proved from the
loop: lemma `PickLoop` (`CandidatesLoop`) says that the loop's function exists,
and the first index at which it would be wrong does not (`First`, from the
library's fact that the order of the naturals is well-founded).
`LessTransitive` is the order of fractions.

**Docker host.**  What a pool keeps is what it made, in the order of the code
(`StartedInv`, `MadeInv`), what Cleanup leaves is counted by the failed calls
(`TodoInv`), and a container belongs to the owner it names (`DaemonInv`,
`SandboxInv`).  Two pools in use differ because each has a manager under the name
of its id; the network outlives a Cleanup without a failed call only for another
pool on it (`NetworkInv`), which needs to know what failed constructions leave
(`StrandedInv`).  A health check has gone past running containers only
(`CheckInv`).  What others do to a pool is one lemma, `Frame`.

**Stores.**  With a bolt store every client has an object of its own, and what is
stored is finished (`ObjectInv`); a call's client leaves its object alone
(`CallInv`), so a transaction stores what the caller passed.  With the in-memory
store nothing of the kind holds, and `KVSpec` says nothing of it.  A nil store
needs an earlier error or an unknown type, a missing bucket an earlier error
(`BucketInv`).  `ObjectSteps`,
`BeginStep`, `CommitStep`, `ReturnStep` and `ReadStep` map the steps to those of
`KeyValue`.

### Assumptions

The proofs use the named assumptions of the modules and nothing else:
`DispatcherAssumption` and `ServiceAssumption` (finitely many submissions, limits
that are naturals), `LifecycleAssumption` (a worker tries at least once),
`StreamAssumption`, `ServerAssumption`, `AnswersAssumption`, `ManagerAssumption` (at
least one worker), `SchedulerAssumption` (at least one node; what it reports are naturals, and costs are positive),
`DockerAssumption`, `PoolAssumption`, `HostAssumption` (a pool's network has a name
of its own, and pools are not sandboxes) and `StoreAssumption` (more objects than
can be referred to, so that a new one can always be made).  The bounds on faults,
restarts, checks, lines and events are constants like others: the theorems hold
for each value of them, so they bound nothing.  TLC evaluates the assumptions in
the runs.

### Only model-checked

Liveness, which is out of the prover's reach: `AcceptedTaskRuns`,
`ShutdownEndsLoop`, `CreatingSettles`, `StoppingSettles`, `AcceptedTaskSettles`,
`ChannelCloses`, `RefusedCommandSettles`, `ToldFailureSettles`, `CheckEnds` and
`ViewCatchesUp`.  The two findings are counterexamples, which only TLC gives.

## Not modelled

Epvm's memory cost, whose values are inputs; the Kubernetes and Hyper-V
sandboxes, which are single calls to external systems; listing of sandboxes and
statistics, which only read; `ExecuteTask` of the pool, which is the client's
`ExecuteCommand` followed by a change of its caller's task, and the stubs
`GetTaskStatus`, `GetTaskLogs` and `StopTask`; the process store use case, a map
nothing uses; logging, wiring and data types; a data race inside the queue
library, and simultaneous sends on one gRPC stream, which `ProcessServer` and
`CommandStream` put in some order (`worker_process_server.go:95`); a node without
`CpuStats`, on which `calculateCpuUsage` panics.

## Plan

Next: a specification of the platform's promise to the submitter of a task, from
`AddTask` to its end, that `WorkerService` and `TaskLifecycle` implement; that the
manager's picture of a worker, an external part of `Manager`, allows what
`WorkerService` does; lemmas shared by the cases of `LaunchStep` and `SingleStep`,
which are the longest proofs.
