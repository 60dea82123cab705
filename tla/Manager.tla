------------------------------- MODULE Manager -------------------------------
(***************************************************************************)
(* The manager (internal/adapters/manager/manager.go): a queue of task     *)
(* events, the loop that sends tasks to workers (ProcessTasks), the loop   *)
(* that copies their states back (UpdateTasks) and the health checks       *)
(* (DoHealthChecks).  The loops are goroutines without a common lock.      *)
(*                                                                         *)
(* The manager talks to a worker over HTTP; that server is not in the      *)
(* repository, and its task list is modelled from how the manager uses it. *)
(* The choice of a worker is the subject of module Scheduler; TaskCount    *)
(* only enters its scores, and EventDb, which is only written, nothing.    *)
(***************************************************************************)
EXTENDS Integers, Sequences, TaskStates

CONSTANTS Tasks,
          numWorkers,     \* length of the slice Workers
          MaxEvents,      \* bound: calls of AddTask
          MaxStarts,      \* bound: calls of New, each after the end of a manager
          MaxFaults       \* bound: errors of the bolt stores

ASSUME ManagerAssumption ==
  /\ numWorkers \in Nat \ {0}
  /\ MaxEvents \in Nat /\ MaxStarts \in Nat /\ MaxFaults \in Nat

Workers == 1..numWorkers
NoWorker == 0

\* The states that a worker reports for a task.
Reported == {"Scheduled", "Running", "Completed", "Failed"}

VARIABLES
  dbType,          \* the stores that New is asked for
  starts,          \* calls of New so far
  up,              \* a manager runs
  opened,          \* New has got a TaskDb: without one it is nil
  Pending,         \* the queue: events, and tasks put back by SendWork
  added,           \* calls of AddTask so far
  TaskDb,          \* stored state of each task, "None" when absent
  RestartCount,    \* its stored RestartCount
  TaskWorkerMap,   \* worker of each task
  WorkerTaskMap,   \* tasks of each worker, in order of assignment
  send,            \* SendWork: where it is, its event and worker
  update,          \* updateTasks: its worker and what is left of the answer
  remote,          \* the state of each task at each worker
  assigned,        \* history: how often each task was assigned, 2 for more
  faults           \* errors of the stores so far

process == <<dbType, starts, up, opened>>
queue == <<Pending, added>>
db == <<TaskDb, RestartCount, faults>>
maps == <<TaskWorkerMap, WorkerTaskMap, assigned>>
vars == <<process, queue, db, maps, send, update, remote>>

\* A queued item: a TaskEvent, or the bare Task that SendWork puts back.
Item == [kind : {"event", "task"}, task : Tasks,
         state : {"Scheduled", "Completed"}]

\* SendWork has returned.
idle == [pc |-> "idle", item |-> <<>>, worker |-> NoWorker]

\* Neither a tasks.db nor a manager; workers without tasks.  What a later New
\* finds is what the managers before it have left.
Init ==
  /\ dbType \in {"memory", "persistent", "other"}
  /\ starts = 0 /\ up = FALSE /\ opened = FALSE
  /\ Pending = <<>> /\ added = 0
  /\ TaskWorkerMap = [t \in Tasks |-> NoWorker]
  /\ WorkerTaskMap = [w \in Workers |-> <<>>]
  /\ send = idle
  /\ update = [at |-> 1, todo |-> {}]
  /\ TaskDb = [t \in Tasks |-> "None"]
  /\ RestartCount = [t \in Tasks |-> 0]
  /\ remote = [w \in Workers |-> [t \in Tasks |-> "None"]]
  /\ assigned = [t \in Tasks |-> 0]
  /\ faults = 0

\* A bolt store returns an error; the one in memory never does here.
StoreError == dbType = "persistent" /\ faults < MaxFaults /\ faults' = faults + 1

\* New: empty maps beside whatever tasks.db holds.  The error of its TaskDb is
\* overwritten by the result for EventDb; a dbType that the switch does not
\* know leaves both nil without an error.
New ==
  /\ ~up /\ starts < MaxStarts
  /\ up' = TRUE /\ starts' = starts + 1
  /\ \/ opened' = (dbType # "other") /\ UNCHANGED faults
     \/ opened' = FALSE /\ StoreError
  /\ UNCHANGED <<dbType, queue, TaskDb, RestartCount, maps, send, update, remote>>

\* The process ends, and what it holds in memory is lost; tasks.db stays as
\* stored and counts say.
Ends(stored, counts) ==
  /\ up' = FALSE /\ opened' = FALSE
  /\ Pending' = <<>>
  /\ TaskWorkerMap' = [t \in Tasks |-> NoWorker]
  /\ WorkerTaskMap' = [w \in Workers |-> <<>>]
  /\ send' = idle
  /\ update' = [at |-> 1, todo |-> {}]
  /\ TaskDb' = IF dbType = "persistent" THEN stored ELSE [t \in Tasks |-> "None"]
  /\ RestartCount' = IF dbType = "persistent" THEN counts ELSE [t \in Tasks |-> 0]
  /\ UNCHANGED <<dbType, starts, added, assigned, remote>>

\* A crash, or a panic that leaves the stores alone.
Crash == up /\ Ends(TaskDb, RestartCount) /\ UNCHANGED faults

\* TaskDb.Put; callers ignore its error.
Put(t, s) == \/ TaskDb' = [TaskDb EXCEPT ![t] = s] /\ UNCHANGED faults
             \/ StoreError /\ UNCHANGED TaskDb

-----------------------------------------------------------------------------
\* AddTask: an event that asks to run or, with state Completed, to stop t.
AddTask(t, s) ==
  /\ up /\ added < MaxEvents
  /\ added' = added + 1
  /\ Pending' = Append(Pending, [kind |-> "event", task |-> t, state |-> s])
  /\ UNCHANGED <<process, db, maps, send, update, remote>>

\* SendWork takes an item and puts an event into EventDb (nil with an unknown
\* dbType: a Crash); the type assertion panics on a bare task.
Dequeue ==
  /\ up /\ send.pc = "idle" /\ Pending # <<>>
  /\ \/ /\ Head(Pending).kind = "event" /\ dbType # "other"
        /\ Pending' = Tail(Pending)
        /\ send' = [send EXCEPT !.pc = "deciding", !.item = Head(Pending)]
        /\ UNCHANGED <<process, added, db, maps, update, remote>>
     \/ /\ Head(Pending).kind = "task"
        /\ Ends(TaskDb, RestartCount) /\ UNCHANGED faults

\* Slip: the stored state of the task is not looked at.
DecideAssignedUnchecked ==
  LET t == send.item.task
      w == TaskWorkerMap[t]
  IN /\ up /\ opened /\ send.pc = "deciding" /\ w # NoWorker
     /\ send' = IF send.item.state = "Completed"
                  THEN [send EXCEPT !.pc = "stopping", !.worker = w] ELSE idle
     /\ UNCHANGED <<process, queue, db, maps, update, remote>>

\* The task has a worker: stop it there, if that is asked for and the stored
\* state allows it; every other event is dropped.
DecideAssigned ==
  LET t == send.item.task
      w == TaskWorkerMap[t]
  IN /\ up /\ opened /\ send.pc = "deciding" /\ w # NoWorker
     /\ \/ /\ send' = IF /\ TaskDb[t] # "None"
                         /\ send.item.state = "Completed"
                         /\ ValidStateTransition(TaskDb[t], "Completed")
                        THEN [send EXCEPT !.pc = "stopping", !.worker = w]
                        ELSE idle
           /\ UNCHANGED faults
        \/ StoreError /\ send' = idle
     /\ UNCHANGED <<process, queue, TaskDb, RestartCount, maps, update, remote>>

\* The request DELETE /tasks/t: the worker stops the task, or nothing happens.
stopTask ==
  LET t == send.item.task
      w == send.worker
  IN /\ up /\ send.pc = "stopping"
     /\ send' = idle
     /\ \/ /\ remote[w][t] \in {"Scheduled", "Running"}
           /\ remote' = [remote EXCEPT ![w][t] = "Completed"]
        \/ UNCHANGED remote
     /\ UNCHANGED <<process, queue, db, maps, update>>

\* SelectWorker finds no candidate: the event is dropped.
NoCandidate ==
  /\ up /\ send.pc = "deciding"
  /\ TaskWorkerMap[send.item.task] = NoWorker
  /\ send' = idle
  /\ UNCHANGED <<process, queue, db, maps, update, remote>>

\* The task's entries in both maps; the task of an event has no restarts yet,
\* and its address is what a store in memory keeps.
Assignment(t, w) ==
  /\ TaskWorkerMap' = [TaskWorkerMap EXCEPT ![t] = w]
  /\ WorkerTaskMap' = [WorkerTaskMap EXCEPT ![w] = Append(@, t)]
  /\ assigned' = [assigned EXCEPT ![t] = IF @ = 0 THEN 1 ELSE 2]
  /\ \/ /\ TaskDb' = [TaskDb EXCEPT ![t] = "Scheduled"]
        /\ RestartCount' = [RestartCount EXCEPT ![t] = 0]
        /\ UNCHANGED faults
     \/ StoreError /\ UNCHANGED <<TaskDb, RestartCount>>
  /\ send' = [send EXCEPT !.pc = "posting", !.worker = w]
  /\ UNCHANGED <<process, queue, update, remote>>

\* Slip: a task that has a worker is assigned once more.
AssignAgain(w) == up /\ opened /\ send.pc = "deciding" /\ Assignment(send.item.task, w)

\* SelectWorker returns w: both maps, then the store, then the request.
Assign(w) ==
  /\ up /\ opened /\ send.pc = "deciding"
  /\ TaskWorkerMap[send.item.task] = NoWorker
  /\ Assignment(send.item.task, w)

\* The worker accepts POST /tasks, before the end of a manager that has sent it
\* or never; whether it already had the task or not, it begins anew.
WorkerAccepts ==
  /\ up /\ send.pc = "posting"
  /\ remote' = [remote EXCEPT ![send.worker][send.item.task] = "Scheduled"]
  /\ send' = [send EXCEPT !.pc = "accepted"]
  /\ UNCHANGED <<process, queue, db, maps, update>>

\* Slip: the task is stored as Scheduled when the worker has answered.
PostCreatedStores ==
  /\ up /\ send.pc = "accepted"
  /\ Put(send.item.task, "Scheduled")
  /\ send' = idle
  /\ UNCHANGED <<process, queue, RestartCount, maps, update, remote>>

\* The answer 201 arrives and t is cleared to receive it: a copy of the stored
\* task, or with the store in memory that task itself.
PostCreated ==
  LET t == send.item.task
  IN /\ up /\ send.pc = "accepted"
     /\ IF dbType = "memory"
          THEN /\ TaskDb' = [TaskDb EXCEPT ![t] = "Pending"]
               /\ RestartCount' = [RestartCount EXCEPT ![t] = 0]
               /\ send' = [send EXCEPT !.pc = "decoding"]
          ELSE UNCHANGED <<TaskDb, RestartCount>> /\ send' = idle
     /\ UNCHANGED <<process, queue, faults, maps, update, remote>>

\* The answer is decoded into t: the task as it was posted or accepted; after
\* an error of Decode what is left is a cleared task.
Decoded ==
  LET t == send.item.task
  IN /\ up /\ send.pc = "decoding"
     /\ \E s \in {TaskDb[t], "Pending", "Scheduled"} :
          TaskDb' = [TaskDb EXCEPT ![t] = s]
     /\ send' = idle
     /\ UNCHANGED <<process, queue, RestartCount, faults, maps, update, remote>>

\* Another answer: the task stays assigned and Scheduled in the store.
PostRefused ==
  /\ up /\ send.pc = "posting"
  /\ send' = idle
  /\ UNCHANGED <<process, queue, db, maps, update, remote>>

\* The connection fails, before or after the worker took the task: the task,
\* not the event, goes back to the queue.
PostError ==
  /\ up /\ send.pc \in {"posting", "accepted"}
  /\ Pending' = Append(Pending, [send.item EXCEPT !.kind = "task"])
  /\ send' = idle
  /\ UNCHANGED <<process, added, db, maps, update, remote>>

-----------------------------------------------------------------------------
\* A task goes on at a worker, which keeps it for good; while no manager runs
\* nobody sees it, and the step may as well come later.
WorkerRuns(w, t) ==
  /\ up
  /\ \/ remote[w][t] = "Scheduled" /\ \E s \in {"Running", "Failed"} :
          remote' = [remote EXCEPT ![w][t] = s]
     \/ remote[w][t] = "Running" /\ \E s \in {"Completed", "Failed"} :
          remote' = [remote EXCEPT ![w][t] = s]
  /\ UNCHANGED <<process, queue, db, maps, send, update>>

\* Slip: the last worker of the slice is never asked.
nextWorkerShort == IF update.at + 1 < numWorkers THEN update.at + 1 ELSE 1

\* The worker after the present one; after the last one a new round begins.
nextWorker == IF update.at < numWorkers THEN update.at + 1 ELSE 1

\* updateTasks asks its next worker, and gets all its tasks with their states.
FetchTasks(w) ==
  /\ up /\ update.at = w /\ update.todo = {}
  /\ update' = [at |-> nextWorker,
                todo |-> {<<t, remote[w][t]>> :
                            t \in {u \in Tasks : remote[w][u] # "None"}}]
  /\ UNCHANGED <<process, queue, db, maps, send, remote>>

\* The worker cannot be reached or answers with an error: on to the next one.
FetchError ==
  /\ up /\ update.todo = {}
  /\ update' = [update EXCEPT !.at = nextWorker]
  /\ UNCHANGED <<process, queue, db, maps, send, remote>>

\* One task of the answer: Get, copy the state, Put.  What it puts as the state
\* does not depend on what it got.  (A RestartCount that another loop stores
\* between Get and Put would be lost.)
UpdateTask(t, s) ==
  /\ up /\ opened /\ <<t, s>> \in update.todo
  /\ update' = [update EXCEPT !.todo = @ \ {<<t, s>>}]
  /\ IF TaskDb[t] = "None" THEN UNCHANGED <<TaskDb, faults>> ELSE Put(t, s)
  /\ UNCHANGED <<process, queue, RestartCount, maps, send, remote>>

-----------------------------------------------------------------------------
\* doHealthChecks of a Running task: m.worker, which New leaves nil, is used.
checkTaskHealth(t) ==
  /\ up /\ opened
  /\ TaskDb[t] = "Running" /\ RestartCount[t] < 3
  /\ Ends(TaskDb, RestartCount) /\ UNCHANGED faults

\* restartTask of a Failed task: it is stored as Scheduled before m.worker is
\* used.
restartTask(t) ==
  /\ up /\ opened
  /\ TaskDb[t] = "Failed" /\ RestartCount[t] < 3
  /\ \/ /\ Ends([TaskDb EXCEPT ![t] = "Scheduled"],
                [RestartCount EXCEPT ![t] = @ + 1])
        /\ UNCHANGED faults
     \/ Ends(TaskDb, RestartCount) /\ StoreError

SendWork ==
  \/ Dequeue \/ DecideAssigned \/ stopTask \/ NoCandidate
  \/ \E w \in Workers : Assign(w)
  \/ WorkerAccepts \/ PostCreated \/ Decoded \/ PostRefused \/ PostError

updateTasks ==
  \/ FetchError
  \/ \E w \in Workers : FetchTasks(w)
  \/ \E t \in Tasks, s \in Reported : UpdateTask(t, s)

Next ==
  \/ New \/ Crash \/ SendWork \/ updateTasks
  \/ \E t \in Tasks :
       \/ \E s \in {"Scheduled", "Completed"} : AddTask(t, s)
       \/ \E w \in Workers : WorkerRuns(w, t)
       \/ checkTaskHealth(t) \/ restartTask(t)

Spec == Init /\ [][Next]_vars

\* Both loops run, and a worker that is asked again and again answers some
\* time; nothing is asked of the tasks, nor that a manager is started again.
Fairness ==
  /\ WF_vars(SendWork) /\ WF_vars(updateTasks)
  /\ \A w \in Workers : SF_vars(FetchTasks(w))

FairSpec == Spec /\ Fairness

-----------------------------------------------------------------------------
Sending == [pc : {"idle", "deciding", "stopping", "posting", "accepted", "decoding"},
            item : Item \cup {<<>>}, worker : Workers \cup {NoWorker}]
Updating == [at : Workers, todo : SUBSET (Tasks \X Reported)]

\* The type of every variable.
TypeOK ==
  /\ dbType \in {"memory", "persistent", "other"}
  /\ starts \in 0..MaxStarts
  /\ up \in BOOLEAN /\ opened \in BOOLEAN
  /\ Pending \in Seq(Item)
  /\ added \in 0..MaxEvents
  /\ TaskDb \in [Tasks -> State \cup {"None"}]
  /\ RestartCount \in [Tasks -> 0..3]
  /\ TaskWorkerMap \in [Tasks -> Workers \cup {NoWorker}]
  /\ WorkerTaskMap \in [Workers -> Seq(Tasks)]
  /\ send \in Sending
  /\ send.pc # "idle" => send.item \in Item
  /\ update \in Updating
  /\ remote \in [Workers -> [Tasks -> Reported \cup {"None"}]]
  /\ assigned \in [Tasks -> 0..2]
  /\ faults \in 0..MaxFaults

\* The two maps agree, and a task is given to one worker once in the life of a
\* manager, however many events ask for it (manager.go:280-313).
MapsAgree ==
  \A w \in Workers :
    LET list == WorkerTaskMap[w]
    IN /\ \A t \in Tasks :
            (TaskWorkerMap[t] = w) <=> (\E i \in 1..Len(list) : list[i] = t)
       /\ \A i, j \in 1..Len(list) : list[i] = list[j] => i = j

\* A worker is told to stop a task only if it has accepted that task, because
\* what the store says about the task came from there.  That needs a task that
\* was assigned once: a manager that opens the tasks.db of an earlier one has
\* forgotten the worker, assigns the task again when its event is repeated, and
\* copies the state it has at its first worker (manager.go:39-40, 77-80,
\* 157-166, 280-295).
StopReachesHome ==
  LET t == send.item.task
  IN send.pc = "stopping" /\ assigned[t] <= 1 => remote[send.worker][t] # "None"

\* The manager's picture of a task that was assigned once never goes back, from
\* Running to Scheduled or from its end to anything else, through crashes and
\* new managers with the same tasks.db, except by a counted restart.  With the
\* store in memory it does, by the answer 201 that is decoded into the stored
\* task, and it is lost with the manager (manager.go:157-166, 214-218, 303-344).
Stage(s) == CASE s = "None" -> 0 [] s = "Pending" -> 1 [] s = "Scheduled" -> 2
              [] s = "Running" -> 3 [] OTHER -> 4
ViewNeverGoesBack ==
  [][\A t \in Tasks :
       \/ TaskDb'[t] = TaskDb[t] \/ Stage(TaskDb'[t]) > Stage(TaskDb[t])
       \/ RestartCount'[t] > RestartCount[t]
       \/ assigned'[t] > 1
       \/ dbType # "persistent" /\ ~up'
       \/ /\ dbType = "memory"
          /\ send.pc \in {"accepted", "decoding"} /\ send.item.task = t]_vars

\* The end of a task at its worker reaches the manager's store, however the
\* loops interleave, while the store and the manager live: the end that came
\* while no manager was running too, if tasks.db was kept
\* (manager.go:77-80, 111-169).
ViewCatchesUp ==
  \A t \in Tasks :
    /\ assigned[t] = 1 /\ \E w \in Workers : IsComplete(remote[w][t])
    /\ dbType = "persistent" \/ TaskWorkerMap[t] # NoWorker
    ~> \/ \E w \in Workers : IsComplete(remote[w][t]) /\ TaskDb[t] = remote[w][t]
       \/ assigned[t] > 1 \/ faults > 0 \/ ~up
=============================================================================
