------------------------ MODULE TaskLifecycleProofs ------------------------
(***************************************************************************)
(* Safety of the life of tasks, for every set of tasks and callers, every  *)
(* number of attempts, and every number of store errors, broken            *)
(* connections, health checks, crashes and restarts.                       *)
(***************************************************************************)
EXTENDS TaskLifecycle, FiniteSetTheorems, TLAPS

\* The handlers of t that have not decided on their answer.
active(t) ==
  {a \in Attempts : reg[t][a] \in {"called", "healthy", "unhealthy", "starting"}}

\* Those that will start the command, unless the store fails.
starting(t) == {a \in Attempts : reg[t][a] \in {"healthy", "starting"}}

\* The handler the worker waits for.
awaited(t) == IF worker[t] = "waiting" THEN {attempt(t)} ELSE {}

\* A worker that registers has an attempt left, and a StopTask call at work
\* has read a task.
CallsInv ==
  /\ \A t \in Tasks :
       /\ worker[t] = "off" => attempts[t] = 0
       /\ worker[t] \in {"trying", "waiting"} => attempts[t] < maxRetries
  /\ \A c \in Stoppers : stop[c].pc \notin {"idle", "end"} =>
                           stop[c].task \in Tasks /\ stop[c].copy \in State

\* What createContainer has done so far, and what cannot have happened before
\* it stores the ContainerID.
CreationInv ==
  \A t \in Tasks :
    /\ cid[t] \in {NoID, t}
    /\ run[t] = "idle" => state[t] = "None"
    /\ run[t] \in {"creating", "created"} => state[t] = "Creating"
    /\ run[t] # "done" =>
         /\ cid[t] = NoID /\ launched[t] = 0
         /\ \A a \in Attempts : reg[t][a] \in {"idle", "called", "ok", "error"}
    /\ run[t] \in {"idle", "creating"} =>
         /\ t \notin live /\ worker[t] = "off"
         /\ \A a \in Attempts : reg[t][a] = "idle"
    /\ run[t] = "created" => t \in live

\* The container of t was removed: it is not created again.
gone(t) == t \notin live /\ run[t] \notin {"idle", "creating"}

\* Whoever holds or has stored a Completed copy of t comes after the removal.
CompletedInv ==
  /\ \A t \in Tasks : state[t] = "Completed" => gone(t)
  /\ \A t \in Tasks, a \in Attempts : copy[t][a] = "Completed" => gone(t)
  /\ \A c \in Stoppers : stop[c].pc = "deleted" => gone(stop[c].task)

\* Before the command was started nobody checks, updates or stops the task.
UnlaunchedInv ==
  \A t \in Tasks : launched[t] = 0 =>
    /\ state[t] \notin {"Running", "Stopping", "Completed"}
    /\ health[t] = 0
    /\ \A a \in Attempts : exec[t][a] = "none"
    /\ \A c \in Stoppers : stop[c].task = t =>
         stop[c].pc \in {"idle", "got", "end"}
         /\ stop[c].copy \notin {"Running", "Stopping"}

\* An update never writes a state back in which the task is still active.
CopyInv ==
  /\ \A t \in Tasks : state[t] # "Pending"
  /\ \A t \in Tasks, a \in Attempts :
       /\ exec[t][a] # "none" => state[t] # "None"
       /\ copy[t][a] \in {"None", "Completed", "Failed"}
       /\ exec[t][a] = "updating" => copy[t][a] # "None"

\* Every connection that broke leaves at most one handler behind, and so does
\* the removal of a container; each handler may start the command once.
Launches(t) ==
  /\ Cardinality(active(t) \ awaited(t)) <=
       breaks + (IF worker[t] = "off" THEN 1 ELSE 0)
  /\ launched[t] + Cardinality(starting(t)) <= 1 + breaks
  /\ state[t] = "Scheduled" => launched[t] = 0

LaunchInv == \A t \in Tasks : Launches(t)

\* The StopTask calls that have stored Stopping for t and have not returned.
removing(t) == {c \in Stoppers : stop[c].task = t /\
                  stop[c].pc \in {"deleting", "deleted", "failing"}}

\* One handler at most is at work for t, nobody but it writes t until it has
\* started the command, and only a StopTask that has stored Stopping removes
\* the container.
Single(t) ==
  /\ \A a \in active(t) : worker[t] = "off" \/ a \in awaited(t)
  /\ \A a, b \in active(t) : a = b
  /\ \A a \in Attempts :
       /\ reg[t][a] \in {"healthy", "unhealthy"} => state[t] = "Scheduled"
       /\ reg[t][a] = "starting" => state[t] \in {"Scheduled", "Starting"}
  /\ state[t] \in {"Scheduled", "Starting"} => launched[t] = 0
  /\ state[t] \in {"Scheduled", "Starting", "Running"} => t \in live
  /\ removing(t) # {} => state[t] \in {"Stopping", "Completed", "Failed"}

\* That is so until a connection breaks.
SingleInv == breaks = 0 => \A t \in Tasks : Single(t)

IInv ==
  /\ TypeOK /\ CallsInv /\ CreationInv /\ CompletedInv
  /\ UnlaunchedInv /\ CopyInv /\ LaunchInv /\ SingleInv

\* An update of one cell of a table changes that cell alone.
LEMMA Updated ==
  ASSUME NEW S, NEW T, NEW V, NEW f \in [S -> [T -> V]],
         NEW s \in S, NEW x \in T, NEW v \in V
  PROVE  /\ [f EXCEPT ![s][x] = v] \in [S -> [T -> V]]
         /\ \A r \in S, y \in T : [f EXCEPT ![s][x] = v][r][y] =
                                  IF r = s /\ y = x THEN v ELSE f[r][y]
  OBVIOUS

\* Every step leaves every variable in its type.
LEMMA TypeStep ==
  IInv /\ [Next]_vars => TypeOK'
<1> SUFFICES ASSUME IInv, [Next]_vars
             PROVE  TypeOK'
  OBVIOUS
<1> USE DEF IInv
<1>state. state \in [Tasks -> StateOrNone]
  BY DEF TypeOK
<1>cid. cid \in [Tasks -> Tasks \cup {NoID}]
  BY DEF TypeOK
<1>live. live \in SUBSET Tasks
  BY DEF TypeOK
<1>run. run \in [Tasks -> CreationPC]
  BY DEF TypeOK
<1>worker. worker \in [Tasks -> WorkerPC]
  BY DEF TypeOK
<1>attempts. attempts \in [Tasks -> 0..maxRetries]
  BY DEF TypeOK
<1>reg. reg \in [Tasks -> [Attempts -> HandlerPC]]
  BY DEF TypeOK
<1>breaks. breaks \in 0..MaxFaults
  BY DEF TypeOK
<1>workers. workers \in SUBSET Tasks
  BY DEF TypeOK
<1>exec. exec \in [Tasks -> [Attempts -> ExecutePC]]
  BY DEF TypeOK
<1>copy. copy \in [Tasks -> [Attempts -> StateOrNone]]
  BY DEF TypeOK
<1>launched. launched \in [Tasks -> Nat]
  BY DEF TypeOK
<1>health. health \in [Tasks -> 0..MaxChecks]
  BY DEF TypeOK
<1>stop. stop \in [Stoppers -> StopCall]
  BY DEF TypeOK
<1>faults. faults \in 0..MaxFaults
  BY DEF TypeOK
<1>restarts. restarts \in 0..MaxRestarts
  BY DEF TypeOK
<1>1. ASSUME NEW t \in Tasks, NEW s \in State, CreateContainer(t, s)
      PROVE  TypeOK'
  <2>1. state' \in [Tasks -> StateOrNone]
    BY <1>1, <1>state DEF CreateContainer, Put, StoreError, db, StateOrNone,
       State
  <2>2. faults' \in 0..MaxFaults
    BY <1>1, <1>faults, <1>breaks, LifecycleAssumption DEF CreateContainer,
       Put, StoreError, db
  <2>3. run' \in [Tasks -> CreationPC]
    BY <1>1, <1>run DEF CreateContainer, CreationPC
  <2> QED BY <1>1, <2>1, <2>2, <2>3 DEF CreateContainer, Put, StoreError, db,
     registration, process, TypeOK
<1>2. ASSUME NEW t \in Tasks, CreateSandbox(t)
      PROVE  TypeOK'
  <2>1. state' \in [Tasks -> StateOrNone]
    BY <1>2, <1>state DEF CreateSandbox, failTask, Put, StoreError, db,
       StateOrNone, State
  <2>2. faults' \in 0..MaxFaults
    BY <1>2, <1>faults, <1>breaks, LifecycleAssumption DEF CreateSandbox,
       failTask, Put, StoreError, db
  <2>3. live' \in SUBSET Tasks
    BY <1>2, <1>live DEF CreateSandbox, SandboxCreated
  <2>4. worker' \in [Tasks -> WorkerPC]
    BY <1>2, <1>worker DEF CreateSandbox, SandboxCreated, CallsInv, WorkerPC
  <2>5. run' \in [Tasks -> CreationPC]
    BY <1>2, <1>run DEF CreateSandbox, CreationPC
  <2> QED BY <1>2, <2>1, <2>2, <2>3, <2>4, <2>5 DEF CreateSandbox,
     SandboxCreated, failTask, Put, StoreError, db, process, TypeOK
<1>3. ASSUME NEW t \in Tasks, StoreScheduled(t)
      PROVE  TypeOK'
  <2>1. state' \in [Tasks -> StateOrNone]
    BY <1>3, <1>state DEF StoreScheduled, StoreError, StateOrNone, State
  <2>2. cid' \in [Tasks -> Tasks \cup {NoID}]
    BY <1>3, <1>cid, LifecycleAssumption DEF StoreScheduled, StoreError,
       sandboxIDs
  <2>3. faults' \in 0..MaxFaults
    BY <1>3, <1>faults, <1>breaks, LifecycleAssumption DEF StoreScheduled,
       StoreError
  <2>4. run' \in [Tasks -> CreationPC]
    BY <1>3, <1>run DEF StoreScheduled, CreationPC
  <2> QED BY <1>3, <2>1, <2>2, <2>3, <2>4 DEF StoreScheduled, StoreError,
     sandboxIDs, registration, process, TypeOK
<1>4. ASSUME NEW t \in Tasks, CallRegister(t)
      PROVE  TypeOK'
  <2>1. reg' \in [Tasks -> [Attempts -> HandlerPC]]
    <3>1. attempt(t) \in Attempts
      BY <1>4, <1>attempts, LifecycleAssumption DEF CallRegister, CallsInv,
         Attempts, attempt
    <3>2. reg' = reg \/ reg' = [reg EXCEPT ![t][attempt(t)] = "called"]
      BY <1>4 DEF CallRegister
    <3> QED BY <3>1, <3>2, <1>reg, Updated DEF HandlerPC
  <2>2. worker' \in [Tasks -> WorkerPC]
    BY <1>4, <1>worker, <1>attempts DEF CallRegister, Retry, CallsInv,
       WorkerPC
  <2>3. attempts' \in [Tasks -> 0..maxRetries]
    BY <1>4, <1>attempts, <1>worker, LifecycleAssumption DEF CallRegister,
       Retry, CallsInv
  <2> QED BY <1>4, <2>1, <2>2, <2>3 DEF CallRegister, attempt, Retry, db,
     process, TypeOK
<1>5. ASSUME NEW t \in Tasks, ConnectionBreaks(t)
      PROVE  TypeOK'
  <2>1. breaks' \in 0..MaxFaults
    BY <1>5, <1>breaks, <1>faults, LifecycleAssumption DEF ConnectionBreaks
  <2>2. worker' \in [Tasks -> WorkerPC]
    BY <1>5, <1>worker, <1>attempts DEF ConnectionBreaks, Retry, CallsInv,
       WorkerPC
  <2>3. attempts' \in [Tasks -> 0..maxRetries]
    BY <1>5, <1>attempts, <1>worker, LifecycleAssumption DEF ConnectionBreaks,
       Retry, CallsInv
  <2> QED BY <1>5, <2>1, <2>2, <2>3 DEF ConnectionBreaks, attempt, Retry, db,
     process, TypeOK
<1>6. ASSUME NEW t \in Tasks, NEW a \in Attempts, NEW h \in BOOLEAN, FindTask(t, a, h)
      PROVE  TypeOK'
  <2>1. workers' \in SUBSET Tasks
    BY <1>6, <1>workers DEF FindTask
  <2>2. reg' \in [Tasks -> [Attempts -> HandlerPC]]
    <3>1. \E p \in HandlerPC : reg' = [reg EXCEPT ![t][a] = p]
      BY <1>6, <1>reg DEF FindTask, HandlerPC
    <3> QED BY <3>1, <1>reg, Updated
  <2>3. faults' \in 0..MaxFaults
    BY <1>6, <1>faults, <1>breaks, LifecycleAssumption DEF FindTask,
       StoreError, db
  <2> QED BY <1>6, <2>1, <2>2, <2>3 DEF FindTask, StoreError, db, process,
     TypeOK
<1>7. ASSUME NEW t \in Tasks, NEW a \in Attempts, RejectWorker(t, a)
      PROVE  TypeOK'
  <2>1. state' \in [Tasks -> StateOrNone]
    BY <1>7, <1>state DEF RejectWorker, failTask, Put, StoreError, db,
       StateOrNone, State
  <2>2. faults' \in 0..MaxFaults
    BY <1>7, <1>faults, <1>breaks, LifecycleAssumption DEF RejectWorker,
       failTask, Put, StoreError, db
  <2>3. reg' \in [Tasks -> [Attempts -> HandlerPC]]
    <3>1. \E p \in HandlerPC : reg' = [reg EXCEPT ![t][a] = p]
      BY <1>7, <1>reg DEF RejectWorker, HandlerPC
    <3> QED BY <3>1, <1>reg, Updated
  <2> QED BY <1>7, <2>1, <2>2, <2>3 DEF RejectWorker, failTask, Put,
     StoreError, db, process, TypeOK
<1>8. ASSUME NEW t \in Tasks, NEW a \in Attempts, StoreStarting(t, a)
      PROVE  TypeOK'
  <2>1. state' \in [Tasks -> StateOrNone]
    BY <1>8, <1>state DEF StoreStarting, Put, StoreError, StateOrNone, State
  <2>2. faults' \in 0..MaxFaults
    BY <1>8, <1>faults, <1>breaks, LifecycleAssumption DEF StoreStarting, Put,
       StoreError
  <2>3. reg' \in [Tasks -> [Attempts -> HandlerPC]]
    <3>1. \E p \in HandlerPC : reg' = [reg EXCEPT ![t][a] = p]
      BY <1>8, <1>reg DEF StoreStarting, HandlerPC
    <3> QED BY <3>1, <1>reg, Updated
  <2> QED BY <1>8, <2>1, <2>2, <2>3 DEF StoreStarting, Put, StoreError,
     process, TypeOK
<1>9. ASSUME NEW t \in Tasks, NEW a \in Attempts, StartTask(t, a)
      PROVE  TypeOK'
  <2>1. state' \in [Tasks -> StateOrNone]
    BY <1>9, <1>state DEF StartTask, Put, StoreError, StateOrNone, State
  <2>2. faults' \in 0..MaxFaults
    BY <1>9, <1>faults, <1>breaks, LifecycleAssumption DEF StartTask, Put,
       StoreError
  <2>3. exec' \in [Tasks -> [Attempts -> ExecutePC]]
    <3>1. exec' = exec \/ exec' = [exec EXCEPT ![t][a] = "calling"]
      BY <1>9 DEF StartTask
    <3> QED BY <3>1, <1>exec, Updated DEF ExecutePC
  <2>4. launched' \in [Tasks -> Nat]
    <3>1. launched' = launched \/ launched' = [launched EXCEPT ![t] = @ + 1]
      BY <1>9 DEF StartTask
    <3> QED BY <3>1, <1>launched
  <2>5. reg' \in [Tasks -> [Attempts -> HandlerPC]]
    <3>1. \E p \in HandlerPC : reg' = [reg EXCEPT ![t][a] = p]
      BY <1>9, <1>reg DEF StartTask, HandlerPC
    <3> QED BY <3>1, <1>reg, Updated
  <2> QED BY <1>9, <2>1, <2>2, <2>3, <2>4, <2>5 DEF StartTask, Put,
     StoreError, process, TypeOK
<1>10. ASSUME NEW t \in Tasks, NEW a \in Attempts, Reply(t, a)
      PROVE  TypeOK'
  <2>1. worker' \in [Tasks -> WorkerPC]
    BY <1>10, <1>worker, <1>attempts DEF Reply, Retry, CallsInv, WorkerPC
  <2>2. attempts' \in [Tasks -> 0..maxRetries]
    BY <1>10, <1>attempts, <1>worker, LifecycleAssumption DEF Reply, Retry,
       CallsInv
  <2>3. reg' \in [Tasks -> [Attempts -> HandlerPC]]
    <3>1. \E p \in HandlerPC : reg' = [reg EXCEPT ![t][a] = p]
      BY <1>10, <1>reg DEF Reply, HandlerPC
    <3> QED BY <3>1, <1>reg, Updated
  <2> QED BY <1>10, <2>1, <2>2, <2>3 DEF Reply, attempt, Retry, db, process,
     TypeOK
<1>11. ASSUME NEW t \in Tasks, NEW a \in Attempts, ExecuteError(t, a)
      PROVE  TypeOK'
  <2>1. state' \in [Tasks -> StateOrNone]
    BY <1>11, <1>state DEF ExecuteError, failTask, Put, StoreError, db,
       StateOrNone, State
  <2>2. faults' \in 0..MaxFaults
    BY <1>11, <1>faults, <1>breaks, LifecycleAssumption DEF ExecuteError,
       failTask, Put, StoreError, db
  <2>3. exec' \in [Tasks -> [Attempts -> ExecutePC]]
    <3>1. \E p \in ExecutePC : exec' = [exec EXCEPT ![t][a] = p]
      BY <1>11, <1>exec DEF ExecuteError, ExecutePC
    <3> QED BY <3>1, <1>exec, Updated
  <2> QED BY <1>11, <2>1, <2>2, <2>3 DEF ExecuteError, failTask, Put,
     StoreError, db, registration, process, TypeOK
<1>12. ASSUME NEW t \in Tasks, NEW a \in Attempts, ExecuteReturns(t, a)
      PROVE  TypeOK'
  <2>1. exec' \in [Tasks -> [Attempts -> ExecutePC]]
    <3>1. \E p \in ExecutePC : exec' = [exec EXCEPT ![t][a] = p]
      BY <1>12, <1>exec DEF ExecuteReturns, ExecutePC
    <3> QED BY <3>1, <1>exec, Updated
  <2> QED BY <1>12, <2>1 DEF ExecuteReturns, db, registration, process, TypeOK
<1>13. ASSUME NEW t \in Tasks, NEW a \in Attempts, ReadForUpdate(t, a)
      PROVE  TypeOK'
  <2>1. exec' \in [Tasks -> [Attempts -> ExecutePC]]
    <3>1. \E p \in ExecutePC : exec' = [exec EXCEPT ![t][a] = p]
      BY <1>13, <1>exec DEF ReadForUpdate, ExecutePC
    <3> QED BY <3>1, <1>exec, Updated
  <2>2. copy' \in [Tasks -> [Attempts -> StateOrNone]]
    <3>1. \E p \in StateOrNone : copy' = [copy EXCEPT ![t][a] = p]
      BY <1>13, <1>copy, <1>state DEF ReadForUpdate, StateOrNone, State
    <3> QED BY <3>1, <1>copy, Updated
  <2> QED BY <1>13, <2>1, <2>2 DEF ReadForUpdate, db, registration, process,
     TypeOK
<1>14. ASSUME NEW t \in Tasks, NEW a \in Attempts, WriteUpdate(t, a)
      PROVE  TypeOK'
  <2>1. state' \in [Tasks -> StateOrNone]
    BY <1>14, <1>state, <1>copy DEF WriteUpdate, Put, StoreError, StateOrNone,
       State
  <2>2. faults' \in 0..MaxFaults
    BY <1>14, <1>faults, <1>breaks, LifecycleAssumption DEF WriteUpdate, Put,
       StoreError
  <2>3. exec' \in [Tasks -> [Attempts -> ExecutePC]]
    <3>1. \E p \in ExecutePC : exec' = [exec EXCEPT ![t][a] = p]
      BY <1>14, <1>exec DEF WriteUpdate, ExecutePC
    <3> QED BY <3>1, <1>exec, Updated
  <2>4. copy' \in [Tasks -> [Attempts -> StateOrNone]]
    <3>1. \E p \in StateOrNone : copy' = [copy EXCEPT ![t][a] = p]
      BY <1>14, <1>copy DEF WriteUpdate, StateOrNone, State
    <3> QED BY <3>1, <1>copy, Updated
  <2> QED BY <1>14, <2>1, <2>2, <2>3, <2>4 DEF WriteUpdate, Put, StoreError,
     registration, process, TypeOK
<1>15. ASSUME NEW t \in Tasks, CheckTaskHealth(t)
      PROVE  TypeOK'
  <2>1. health' \in [Tasks -> 0..MaxChecks]
    BY <1>15, <1>health, LifecycleAssumption DEF CheckTaskHealth
  <2>2. state' \in [Tasks -> StateOrNone]
    BY <1>15, <1>state DEF CheckTaskHealth, failTask, Put, StoreError, db,
       StateOrNone, State
  <2>3. faults' \in 0..MaxFaults
    BY <1>15, <1>faults, <1>breaks, LifecycleAssumption DEF CheckTaskHealth,
       failTask, Put, StoreError, db
  <2> QED BY <1>15, <2>1, <2>2, <2>3 DEF CheckTaskHealth, failTask, Put,
     StoreError, db, registration, process, TypeOK
<1>16. ASSUME NEW c \in Stoppers, NEW t \in Tasks, ReadForStop(c, t)
      PROVE  TypeOK'
  <2>1. stop' \in [Stoppers -> StopCall]
    BY <1>16, <1>stop, <1>state DEF ReadForStop, CallsInv, StopCall, StopPC,
       StateOrNone, State
  <2> QED BY <1>16, <2>1 DEF ReadForStop, db, registration, process, TypeOK
<1>17. ASSUME NEW c \in Stoppers, StopTask(c)
      PROVE  TypeOK'
  <2>1. state' \in [Tasks -> StateOrNone]
    BY <1>17, <1>state, <1>stop DEF StopTask, Put, StoreError, db,
       StateOrNone, State
  <2>2. faults' \in 0..MaxFaults
    BY <1>17, <1>faults, <1>breaks, LifecycleAssumption DEF StopTask, Put,
       StoreError, db
  <2>3. stop' \in [Stoppers -> StopCall]
    <3>1. \A p \in StopPC : [stop[c] EXCEPT !.pc = p] \in StopCall
      BY <1>stop DEF StopCall
    <3> QED BY <1>17, <1>stop, <3>1 DEF StopTask, Returned, NoCall, StopCall,
       StopPC, StateOrNone
  <2> QED BY <1>17, <2>1, <2>2, <2>3 DEF StopTask, Put, StoreError, Returned,
     NoCall, db, registration, process, TypeOK
<1>18. ASSUME NEW c \in Stoppers, DeleteSandbox(c)
      PROVE  TypeOK'
  <2>1. live' \in SUBSET Tasks
    BY <1>18, <1>live DEF DeleteSandbox, SandboxDeleted
  <2>2. worker' \in [Tasks -> WorkerPC]
    BY <1>18, <1>worker, <1>live DEF DeleteSandbox, SandboxDeleted, CallsInv,
       WorkerPC
  <2>3. attempts' \in [Tasks -> 0..maxRetries]
    BY <1>18, <1>attempts, <1>live, LifecycleAssumption DEF DeleteSandbox,
       SandboxDeleted, CallsInv
  <2>4. stop' \in [Stoppers -> StopCall]
    <3>1. \A p \in StopPC : [stop[c] EXCEPT !.pc = p] \in StopCall
      BY <1>stop DEF StopCall
    <3> QED BY <1>18, <1>stop, <3>1 DEF DeleteSandbox, StopCall, StopPC,
       StateOrNone
  <2> QED BY <1>18, <2>1, <2>2, <2>3, <2>4 DEF DeleteSandbox, SandboxDeleted,
     db, process, TypeOK
<1>19. ASSUME NEW c \in Stoppers, StopFailed(c)
      PROVE  TypeOK'
  <2>1. state' \in [Tasks -> StateOrNone]
    BY <1>19, <1>state, <1>stop DEF StopFailed, failTask, Put, StoreError, db,
       StateOrNone, State
  <2>2. faults' \in 0..MaxFaults
    BY <1>19, <1>faults, <1>breaks, LifecycleAssumption DEF StopFailed,
       failTask, Put, StoreError, db
  <2>3. stop' \in [Stoppers -> StopCall]
    BY <1>19, <1>stop DEF StopFailed, Returned, NoCall, CallsInv, StopCall,
       StopPC, StateOrNone, State
  <2> QED BY <1>19, <2>1, <2>2, <2>3 DEF StopFailed, failTask, Put,
     StoreError, Returned, NoCall, db, registration, process, TypeOK
<1>20. ASSUME NEW c \in Stoppers, StopCompleted(c)
      PROVE  TypeOK'
  <2>1. state' \in [Tasks -> StateOrNone]
    BY <1>20, <1>state, <1>stop DEF StopCompleted, Put, StoreError,
       StateOrNone, State
  <2>2. faults' \in 0..MaxFaults
    BY <1>20, <1>faults, <1>breaks, LifecycleAssumption DEF StopCompleted,
       Put, StoreError
  <2>3. workers' \in SUBSET Tasks
    BY <1>20, <1>workers, <1>cid DEF StopCompleted
  <2>4. stop' \in [Stoppers -> StopCall]
    BY <1>20, <1>stop DEF StopCompleted, Returned, NoCall, CallsInv, StopCall,
       StopPC, StateOrNone, State
  <2> QED BY <1>20, <2>1, <2>2, <2>3, <2>4 DEF StopCompleted, Put, StoreError,
     Returned, NoCall, process, TypeOK
<1>21. CASE UpdateTasks
  <2>1. health' \in [Tasks -> 0..MaxChecks]
    BY <1>21, <1>health, <1>state, LifecycleAssumption DEF UpdateTasks
  <2> QED BY <1>21, <2>1 DEF UpdateTasks, db, registration, process, TypeOK
<1>22. CASE Crash
  <2>1. run' \in [Tasks -> CreationPC]
    BY <1>22, <1>run DEF Crash, CreationPC
  <2>2. reg' \in [Tasks -> [Attempts -> HandlerPC]]
    BY <1>22, <1>reg DEF Crash, HandlerPC
  <2>3. workers' \in SUBSET Tasks
    BY <1>22, <1>workers DEF Crash
  <2>4. exec' \in [Tasks -> [Attempts -> ExecutePC]]
    BY <1>22, <1>exec DEF Crash, ExecutePC
  <2>5. copy' \in [Tasks -> [Attempts -> StateOrNone]]
    BY <1>22, <1>copy DEF Crash, StateOrNone, State
  <2>6. health' \in [Tasks -> 0..MaxChecks]
    BY <1>22, <1>health, LifecycleAssumption DEF Crash
  <2>7. stop' \in [Stoppers -> StopCall]
    BY <1>22, <1>stop DEF Crash, Returned, NoCall, StopCall, StopPC,
       StateOrNone, State
  <2>8. attempts' \in [Tasks -> 0..maxRetries]
    BY <1>22, <1>attempts, <1>worker, LifecycleAssumption DEF Crash, CallsInv
  <2>9. worker' \in [Tasks -> WorkerPC]
    BY <1>22, <1>worker, <1>attempts DEF Crash, CallsInv, WorkerPC
  <2> QED BY <1>22, <2>1, <2>2, <2>3, <2>4, <2>5, <2>6, <2>7, <2>8, <2>9
     DEF Crash, Returned, NoCall, db, TypeOK
<1>23. CASE Restart
  <2>1. restarts' \in 0..MaxRestarts
    BY <1>23, <1>restarts, LifecycleAssumption DEF Restart
  <2> QED BY <1>23, <2>1 DEF Restart, db, registration, TypeOK
<1>24. CASE UNCHANGED vars
  BY <1>24 DEF vars, TypeOK
<1> QED
  BY <1>1, <1>2, <1>3, <1>4, <1>5, <1>6, <1>7, <1>8, <1>9, <1>10, <1>11,
     <1>12, <1>13, <1>14, <1>15, <1>16, <1>17, <1>18, <1>19, <1>20, <1>21,
     <1>22, <1>23, <1>24 DEF Next, TaskStep, CreateStep, HandlerStep,
     ExecuteStep, StopStep

\* A worker keeps to its attempts, and a StopTask call to its task.
LEMMA CallsStep ==
  IInv /\ [Next]_vars => CallsInv'
<1> SUFFICES ASSUME IInv, [Next]_vars
             PROVE  CallsInv'
  OBVIOUS
<1> USE DEF IInv
<1>state. state \in [Tasks -> StateOrNone]
  BY DEF TypeOK
<1>worker. worker \in [Tasks -> WorkerPC]
  BY DEF TypeOK
<1>attempts. attempts \in [Tasks -> 0..maxRetries]
  BY DEF TypeOK
<1>stop. stop \in [Stoppers -> StopCall]
  BY DEF TypeOK
<1>run. run \in [Tasks -> CreationPC]
  BY DEF TypeOK
<1>1. ASSUME NEW t \in Tasks, CreateSandbox(t)
      PROVE  CallsInv'
  BY <1>1, <1>state, <1>worker, <1>attempts, <1>stop, LifecycleAssumption,
     <1>run DEF CreateSandbox, SandboxCreated, failTask, Put, StoreError, db,
     process, CallsInv, CreationInv
<1>2. ASSUME NEW t \in Tasks, CallRegister(t)
      PROVE  CallsInv'
  BY <1>2, <1>state, <1>worker, <1>attempts, <1>stop, LifecycleAssumption
     DEF CallRegister, attempt, Retry, db, process, CallsInv
<1>3. ASSUME NEW t \in Tasks, ConnectionBreaks(t)
      PROVE  CallsInv'
  BY <1>3, <1>state, <1>worker, <1>attempts, <1>stop, LifecycleAssumption
     DEF ConnectionBreaks, attempt, Retry, db, process, CallsInv
<1>4. ASSUME NEW t \in Tasks, NEW a \in Attempts, Reply(t, a)
      PROVE  CallsInv'
  BY <1>4, <1>state, <1>worker, <1>attempts, <1>stop, LifecycleAssumption
     DEF Reply, attempt, Retry, db, process, CallsInv
<1>5. ASSUME NEW c \in Stoppers, NEW t \in Tasks, ReadForStop(c, t)
      PROVE  CallsInv'
  BY <1>5, <1>state, <1>worker, <1>attempts, <1>stop, LifecycleAssumption
     DEF ReadForStop, db, registration, process, CallsInv, StopCall,
     StateOrNone
<1>6. ASSUME NEW c \in Stoppers, StopTask(c)
      PROVE  CallsInv'
  BY <1>6, <1>state, <1>worker, <1>attempts, <1>stop, LifecycleAssumption
     DEF StopTask, Put, StoreError, Returned, NoCall, db, registration,
     process, CallsInv, StopCall, StateOrNone
<1>7. ASSUME NEW c \in Stoppers, DeleteSandbox(c)
      PROVE  CallsInv'
  <2>1. stop[c].pc = "deleting"
    BY <1>7 DEF DeleteSandbox
  <2>2. \A d \in Stoppers :
          /\ stop'[d].task = stop[d].task
          /\ stop'[d].copy = stop[d].copy
          /\ stop'[d].pc \notin {"idle", "end"} => stop[d].pc \notin {"idle", "end"}
    BY <1>7, <2>1, <1>stop DEF DeleteSandbox, StopCall
  <2>3. \A t \in Tasks :
          \/ worker'[t] = worker[t] /\ attempts'[t] = attempts[t]
          \/ worker'[t] = "off" /\ attempts'[t] = 0
    BY <1>7, <1>worker, <1>attempts DEF DeleteSandbox, SandboxDeleted
  <2>4. \A t \in Tasks :
          /\ worker'[t] = "off" => attempts'[t] = 0
          /\ worker'[t] \in {"trying", "waiting"} => attempts'[t] < maxRetries
    BY <2>3 DEF CallsInv
  <2>5. \A d \in Stoppers : stop'[d].pc \notin {"idle", "end"} =>
          stop'[d].task \in Tasks /\ stop'[d].copy \in State
    BY <2>2 DEF CallsInv
  <2> QED BY <2>4, <2>5 DEF CallsInv
<1>8. ASSUME NEW c \in Stoppers, StopFailed(c)
      PROVE  CallsInv'
  BY <1>8, <1>state, <1>worker, <1>attempts, <1>stop, LifecycleAssumption
     DEF StopFailed, failTask, Put, StoreError, Returned, NoCall, db,
     registration, process, CallsInv
<1>9. ASSUME NEW c \in Stoppers, StopCompleted(c)
      PROVE  CallsInv'
  BY <1>9, <1>state, <1>worker, <1>attempts, <1>stop, LifecycleAssumption
     DEF StopCompleted, Put, StoreError, Returned, NoCall, process, CallsInv
<1>10. CASE Crash
  BY <1>10, <1>state, <1>worker, <1>attempts, <1>stop, LifecycleAssumption
     DEF Crash, Returned, NoCall, db, CallsInv
<1>11. CASE \/ \E t \in Tasks :
               \/ \E s \in State : CreateContainer(t, s)
               \/ StoreScheduled(t) \/ CheckTaskHealth(t)
          \/ \E t \in Tasks, a \in Attempts :
               \/ \E h \in BOOLEAN : FindTask(t, a, h)
               \/ RejectWorker(t, a) \/ StoreStarting(t, a)
               \/ StartTask(t, a) \/ ExecuteError(t, a)
               \/ ExecuteReturns(t, a) \/ ReadForUpdate(t, a)
               \/ WriteUpdate(t, a)
  <2>1. UNCHANGED <<worker, attempts, stop>>
    BY <1>11 DEF CreateContainer, StoreScheduled, FindTask, RejectWorker,
       StoreStarting, StartTask, ExecuteError, ExecuteReturns, ReadForUpdate,
       WriteUpdate, CheckTaskHealth, db, registration, process, failTask, Put,
       StoreError
  <2> QED BY <2>1 DEF CallsInv
<1>12. CASE UpdateTasks
  BY <1>12 DEF UpdateTasks, db, registration, process, CallsInv
<1>13. CASE Restart
  BY <1>13 DEF Restart, db, registration, CallsInv
<1>14. CASE UNCHANGED vars
  BY <1>14 DEF vars, CallsInv
<1>15. ASSUME NEW t \in Tasks, TaskStep(t)
      PROVE  CallsInv'
  BY <1>15, <1>1, <1>2, <1>3, <1>4, <1>11 DEF TaskStep, CreateStep,
     HandlerStep, ExecuteStep
<1>16. ASSUME NEW c \in Stoppers, StopStep(c)
      PROVE  CallsInv'
  BY <1>16, <1>6, <1>7, <1>8, <1>9, <1>11 DEF StopStep
<1> QED
  BY <1>5, <1>10, <1>11, <1>12, <1>13, <1>14, <1>15, <1>16 DEF Next

\* Nothing happens to a task before createContainer gets there.
LEMMA CreationStep ==
  IInv /\ [Next]_vars => CreationInv'
<1> SUFFICES ASSUME IInv, [Next]_vars
             PROVE  CreationInv'
  OBVIOUS
<1> USE DEF IInv
<1>state. state \in [Tasks -> StateOrNone]
  BY DEF TypeOK
<1>cid. cid \in [Tasks -> Tasks \cup {NoID}]
  BY DEF TypeOK
<1>live. live \in SUBSET Tasks
  BY DEF TypeOK
<1>run. run \in [Tasks -> CreationPC]
  BY DEF TypeOK
<1>worker. worker \in [Tasks -> WorkerPC]
  BY DEF TypeOK
<1>reg. reg \in [Tasks -> [Attempts -> HandlerPC]]
  BY DEF TypeOK
<1>launched. launched \in [Tasks -> Nat]
  BY DEF TypeOK
<1>health. health \in [Tasks -> 0..MaxChecks]
  BY DEF TypeOK
<1>stop. stop \in [Stoppers -> StopCall]
  BY DEF TypeOK
<1>1. ASSUME NEW t \in Tasks, NEW s \in State, CreateContainer(t, s)
      PROVE  CreationInv'
  BY <1>1, <1>state, <1>cid, <1>live, <1>run, <1>worker, <1>reg, <1>launched,
     <1>health, <1>stop DEF CreateContainer, Put, StoreError, db,
     registration, process, CreationInv
<1>2. ASSUME NEW t \in Tasks, CreateSandbox(t)
      PROVE  CreationInv'
  BY <1>2, <1>state, <1>cid, <1>live, <1>run, <1>worker, <1>reg, <1>launched,
     <1>health, <1>stop DEF CreateSandbox, SandboxCreated, failTask, Put,
     StoreError, db, process, CreationInv
<1>3. ASSUME NEW t \in Tasks, StoreScheduled(t)
      PROVE  CreationInv'
  BY <1>3, <1>state, <1>cid, <1>live, <1>run, <1>worker, <1>reg, <1>launched,
     <1>health, <1>stop DEF StoreScheduled, StoreError, sandboxIDs,
     registration, process, CreationInv
<1>4. ASSUME NEW t \in Tasks, CallRegister(t)
      PROVE  CreationInv'
  BY <1>4, <1>state, <1>cid, <1>live, <1>run, <1>worker, <1>reg, <1>launched,
     <1>health, <1>stop DEF CallRegister, attempt, Retry, db, process,
     CreationInv
<1>5. ASSUME NEW t \in Tasks, ConnectionBreaks(t)
      PROVE  CreationInv'
  BY <1>5, <1>state, <1>cid, <1>live, <1>run, <1>worker, <1>reg, <1>launched,
     <1>health, <1>stop DEF ConnectionBreaks, attempt, Retry, db, process,
     CreationInv
<1>6. ASSUME NEW t \in Tasks, NEW a \in Attempts, NEW h \in BOOLEAN,
            FindTask(t, a, h)
      PROVE  CreationInv'
  <2>1. PICK p \in {"ok", "healthy", "unhealthy", "error"} :
          /\ reg' = [reg EXCEPT ![t][a] = p]
          /\ p \in {"healthy", "unhealthy"} =>
               \E u \in Tasks : cid[u] = t /\ state[u] = "Scheduled"
    BY <1>6 DEF FindTask
  <2>2. /\ run[t] \notin {"idle", "creating"}
        /\ p \in {"healthy", "unhealthy"} => run[t] = "done"
    BY <1>6, <2>1, <1>run, LifecycleAssumption DEF FindTask, CreationInv,
       CreationPC
  <2>3. \A u \in Tasks, b \in Attempts :
          reg'[u][b] = IF u = t /\ b = a THEN p ELSE reg[u][b]
    BY <2>1, <1>reg, Updated DEF HandlerPC
  <2>4. UNCHANGED <<state, cid, live, run, worker, launched>>
    BY <1>6 DEF FindTask, StoreError, db
  <2> QED BY <2>2, <2>3, <2>4 DEF CreationInv
<1>7. ASSUME NEW t \in Tasks, NEW a \in Attempts, RejectWorker(t, a)
      PROVE  CreationInv'
  BY <1>7, <1>state, <1>cid, <1>live, <1>run, <1>worker, <1>reg, <1>launched,
     <1>health, <1>stop DEF RejectWorker, failTask, Put, StoreError, db,
     process, CreationInv
<1>8. ASSUME NEW t \in Tasks, NEW a \in Attempts, StoreStarting(t, a)
      PROVE  CreationInv'
  BY <1>8, <1>state, <1>cid, <1>live, <1>run, <1>worker, <1>reg, <1>launched,
     <1>health, <1>stop DEF StoreStarting, Put, StoreError, process,
     CreationInv
<1>9. ASSUME NEW t \in Tasks, NEW a \in Attempts, StartTask(t, a)
      PROVE  CreationInv'
  <2>1. run[t] = "done"
    BY <1>9, <1>run DEF StartTask, CreationInv, CreationPC
  <2>2. /\ UNCHANGED <<cid, live, run, worker>>
        /\ \A u \in Tasks \ {t} : /\ state'[u] = state[u]
                                 /\ launched'[u] = launched[u]
                                 /\ reg'[u] = reg[u]
    BY <1>9, <1>state, <1>launched, <1>reg DEF StartTask, Put, StoreError
  <2> QED BY <2>1, <2>2 DEF CreationInv
<1>10. ASSUME NEW t \in Tasks, NEW a \in Attempts, Reply(t, a)
      PROVE  CreationInv'
  BY <1>10, <1>state, <1>cid, <1>live, <1>run, <1>worker, <1>reg, <1>launched,
     <1>health, <1>stop DEF Reply, attempt, Retry, db, process, CreationInv
<1>11. ASSUME NEW t \in Tasks, NEW a \in Attempts, ExecuteError(t, a)
      PROVE  CreationInv'
  <2>1. t \in Tasks /\ run[t] = "done"
    BY <1>11, <1>run, <1>launched DEF ExecuteError, UnlaunchedInv,
       CreationInv, CallsInv, CreationPC
  <2>2. /\ UNCHANGED <<cid, live, run, worker, reg, launched>>
        /\ \A u \in Tasks \ {t} : state'[u] = state[u]
    BY <1>11, <1>state DEF ExecuteError, failTask, Put, StoreError, db,
       registration, process
  <2> QED BY <2>1, <2>2 DEF CreationInv
<1>12. ASSUME NEW t \in Tasks, NEW a \in Attempts, WriteUpdate(t, a)
      PROVE  CreationInv'
  <2>1. t \in Tasks /\ run[t] = "done"
    BY <1>12, <1>run, <1>launched DEF WriteUpdate, UnlaunchedInv, CreationInv,
       CallsInv, CreationPC
  <2>2. /\ UNCHANGED <<cid, live, run, worker, reg, launched>>
        /\ \A u \in Tasks \ {t} : state'[u] = state[u]
    BY <1>12, <1>state DEF WriteUpdate, Put, StoreError, registration, process
  <2> QED BY <2>1, <2>2 DEF CreationInv
<1>13. ASSUME NEW t \in Tasks, CheckTaskHealth(t)
      PROVE  CreationInv'
  <2>1. t \in Tasks /\ run[t] = "done"
    BY <1>13, <1>health, <1>run, <1>launched DEF CheckTaskHealth,
       UnlaunchedInv, CreationInv, CallsInv, CreationPC
  <2>2. /\ UNCHANGED <<cid, live, run, worker, reg, launched>>
        /\ \A u \in Tasks \ {t} : state'[u] = state[u]
    BY <1>13, <1>state DEF CheckTaskHealth, failTask, Put, StoreError, db,
       registration, process
  <2> QED BY <2>1, <2>2 DEF CreationInv
<1>14. ASSUME NEW c \in Stoppers, StopTask(c)
      PROVE  CreationInv'
  <2> DEFINE t == stop[c].task
  <2>1. t \in Tasks
    BY <1>14 DEF StopTask, CallsInv
  <2>2. ValidStateTransition(stop[c].copy, "Stopping") => run[t] = "done"
    BY <1>14, <2>1, <1>run DEF StopTask, UnlaunchedInv, CreationInv, CallsInv,
       CreationPC, ValidStateTransition, stateTransitionMap, State
  <2>3. /\ UNCHANGED <<cid, live, run, worker, reg, launched>>
        /\ \A u \in Tasks \ {t} : state'[u] = state[u]
        /\ ~ValidStateTransition(stop[c].copy, "Stopping") => state' = state
    BY <1>14, <1>state DEF StopTask, Put, StoreError, Returned, NoCall, db,
       registration, process
  <2> HIDE DEF t
  <2> QED BY <2>1, <2>2, <2>3 DEF CreationInv
<1>15. ASSUME NEW c \in Stoppers, DeleteSandbox(c)
      PROVE  CreationInv'
  <2> DEFINE t == stop[c].task
  <2>1. t \in Tasks /\ run[t] = "done" /\ cid[t] \in {NoID, t}
    BY <1>15, <1>run DEF DeleteSandbox, UnlaunchedInv, CreationInv, CallsInv,
       CreationPC
  <2>2. /\ UNCHANGED <<state, cid, run, reg, launched>>
        /\ \A u \in Tasks \ {t} : /\ worker'[u] = worker[u]
                                 /\ (u \in live' <=> u \in live)
    BY <1>15, <2>1, <1>worker, <1>live, LifecycleAssumption DEF DeleteSandbox,
       SandboxDeleted, db
  <2> HIDE DEF t
  <2> QED BY <2>1, <2>2 DEF CreationInv
<1>16. ASSUME NEW c \in Stoppers, StopFailed(c)
      PROVE  CreationInv'
  <2> DEFINE t == stop[c].task
  <2>1. t \in Tasks
    BY <1>16 DEF StopFailed, CallsInv
  <2>2. run[t] = "done"
    BY <1>16, <2>1, <1>run DEF StopFailed, UnlaunchedInv, CreationInv,
       CallsInv, CreationPC
  <2>3. /\ UNCHANGED <<cid, live, run, worker, reg, launched>>
        /\ \A u \in Tasks \ {t} : state'[u] = state[u]
    BY <1>16, <1>state DEF StopFailed, failTask, Put, StoreError, Returned,
       NoCall, db, registration, process
  <2> HIDE DEF t
  <2> QED BY <2>1, <2>2, <2>3 DEF CreationInv
<1>17. ASSUME NEW c \in Stoppers, StopCompleted(c)
      PROVE  CreationInv'
  <2> DEFINE t == stop[c].task
  <2>1. t \in Tasks
    BY <1>17 DEF StopCompleted, CallsInv
  <2>2. run[t] = "done"
    BY <1>17, <2>1, <1>run DEF StopCompleted, UnlaunchedInv, CreationInv,
       CallsInv, CreationPC
  <2>3. /\ UNCHANGED <<cid, live, run, worker, reg, launched>>
        /\ \A u \in Tasks \ {t} : state'[u] = state[u]
    BY <1>17, <1>state DEF StopCompleted, Put, StoreError, Returned, NoCall,
       process
  <2> HIDE DEF t
  <2> QED BY <2>1, <2>2, <2>3 DEF CreationInv
<1>18. CASE Crash
  BY <1>18, <1>state, <1>cid, <1>live, <1>run, <1>worker, <1>reg, <1>launched,
     <1>health, <1>stop DEF Crash, Returned, NoCall, db, CreationInv
<1>19. CASE \/ \E t \in Tasks, a \in Attempts :
               \/ ExecuteReturns(t, a) \/ ReadForUpdate(t, a)
          \/ \E c \in Stoppers, t \in Tasks : ReadForStop(c, t)
  <2>1. UNCHANGED <<state, cid, live, run, worker, reg, launched>>
    BY <1>19 DEF ExecuteReturns, ReadForUpdate, ReadForStop, db, registration,
       process
  <2> QED BY <2>1 DEF CreationInv
<1>20. CASE UpdateTasks
  BY <1>20 DEF UpdateTasks, db, registration, process, CreationInv
<1>21. CASE Restart
  BY <1>21 DEF Restart, db, registration, CreationInv
<1>22. CASE UNCHANGED vars
  BY <1>22 DEF vars, CreationInv
<1>23. ASSUME NEW t \in Tasks, TaskStep(t)
      PROVE  CreationInv'
  BY <1>23, <1>2, <1>3, <1>4, <1>5, <1>6, <1>7, <1>8, <1>9, <1>10, <1>11,
     <1>12, <1>13, <1>19 DEF TaskStep, CreateStep, HandlerStep, ExecuteStep
<1>24. ASSUME NEW c \in Stoppers, StopStep(c)
      PROVE  CreationInv'
  BY <1>24, <1>14, <1>15, <1>16, <1>17, <1>19 DEF StopStep
<1> QED
  BY <1>1, <1>18, <1>19, <1>20, <1>21, <1>22, <1>23, <1>24 DEF Next

\* Completed is stored, or copied, only after the container was removed.
LEMMA CompletedStep ==
  IInv /\ [Next]_vars => CompletedInv'
<1> SUFFICES ASSUME IInv, [Next]_vars
             PROVE  CompletedInv'
  OBVIOUS
<1> USE DEF IInv
<1>state. state \in [Tasks -> StateOrNone]
  BY DEF TypeOK
<1>live. live \in SUBSET Tasks
  BY DEF TypeOK
<1>run. run \in [Tasks -> CreationPC]
  BY DEF TypeOK
<1>copy. copy \in [Tasks -> [Attempts -> StateOrNone]]
  BY DEF TypeOK
<1>stop. stop \in [Stoppers -> StopCall]
  BY DEF TypeOK
<1>1. ASSUME NEW t \in Tasks, NEW s \in State, CreateContainer(t, s)
      PROVE  CompletedInv'
  <2>1. ~gone(t)
    BY <1>1 DEF CreateContainer, gone
  <2>2. /\ state'[t] # "Completed"
        /\ \A u \in Tasks \ {t} : state'[u] = state[u]
    BY <1>1, <2>1, <1>state DEF CreateContainer, Put, StoreError, db,
       registration, process, CompletedInv
  <2>3. \A u \in Tasks : gone(u) => gone(u)'
    BY <1>1, <2>1, <1>live, <1>run DEF CreateContainer, Put, StoreError, db,
       registration, process, gone
  <2>4. UNCHANGED <<copy, stop>>
    BY <1>1 DEF CreateContainer
  <2> QED BY <2>1, <2>2, <2>3, <2>4 DEF CompletedInv, CallsInv
<1>2. ASSUME NEW t \in Tasks, CreateSandbox(t)
      PROVE  CompletedInv'
  <2>1. ~gone(t)
    BY <1>2 DEF CreateSandbox, gone
  <2>2. /\ state'[t] # "Completed"
        /\ \A u \in Tasks \ {t} : state'[u] = state[u]
    BY <1>2, <2>1, <1>state DEF CreateSandbox, SandboxCreated, failTask, Put,
       StoreError, db, process, CompletedInv
  <2>3. \A u \in Tasks : gone(u) => gone(u)'
    BY <1>2, <2>1, <1>live, <1>run DEF CreateSandbox, SandboxCreated,
       failTask, Put, StoreError, db, process, gone
  <2>4. UNCHANGED <<copy, stop>>
    BY <1>2 DEF CreateSandbox
  <2> QED BY <2>1, <2>2, <2>3, <2>4 DEF CompletedInv, CallsInv
<1>3. ASSUME NEW t \in Tasks, StoreScheduled(t)
      PROVE  CompletedInv'
  BY <1>3, <1>state, <1>live, <1>run, <1>copy, <1>stop DEF StoreScheduled,
     StoreError, sandboxIDs, registration, process, CompletedInv, gone
<1>4. ASSUME NEW t \in Tasks, NEW a \in Attempts, RejectWorker(t, a)
      PROVE  CompletedInv'
  BY <1>4, <1>state, <1>live, <1>run, <1>copy, <1>stop DEF RejectWorker,
     failTask, Put, StoreError, db, process, CompletedInv, gone
<1>5. ASSUME NEW t \in Tasks, NEW a \in Attempts, StoreStarting(t, a)
      PROVE  CompletedInv'
  BY <1>5, <1>state, <1>live, <1>run, <1>copy, <1>stop DEF StoreStarting, Put,
     StoreError, process, CompletedInv, gone
<1>6. ASSUME NEW t \in Tasks, NEW a \in Attempts, StartTask(t, a)
      PROVE  CompletedInv'
  BY <1>6, <1>state, <1>live, <1>run, <1>copy, <1>stop DEF StartTask, Put,
     StoreError, process, CompletedInv, gone
<1>7. ASSUME NEW t \in Tasks, NEW a \in Attempts, ExecuteError(t, a)
      PROVE  CompletedInv'
  BY <1>7, <1>state, <1>live, <1>run, <1>copy, <1>stop DEF ExecuteError,
     failTask, Put, StoreError, db, registration, process, CompletedInv, gone
<1>8. ASSUME NEW t \in Tasks, NEW a \in Attempts, ReadForUpdate(t, a)
      PROVE  CompletedInv'
  BY <1>8, <1>state, <1>live, <1>run, <1>copy, <1>stop DEF ReadForUpdate, db,
     registration, process, CompletedInv, gone
<1>9. ASSUME NEW t \in Tasks, NEW a \in Attempts, WriteUpdate(t, a)
      PROVE  CompletedInv'
  BY <1>9, <1>state, <1>live, <1>run, <1>copy, <1>stop DEF WriteUpdate, Put,
     StoreError, registration, process, CompletedInv, gone
<1>10. ASSUME NEW t \in Tasks, CheckTaskHealth(t)
      PROVE  CompletedInv'
  BY <1>10, <1>state, <1>live, <1>run, <1>copy, <1>stop DEF CheckTaskHealth,
     failTask, Put, StoreError, db, registration, process, CompletedInv, gone
<1>11. ASSUME NEW c \in Stoppers, NEW t \in Tasks, ReadForStop(c, t)
      PROVE  CompletedInv'
  BY <1>11, <1>state, <1>live, <1>run, <1>copy, <1>stop DEF ReadForStop, db,
     registration, process, CompletedInv, gone, StopCall
<1>12. ASSUME NEW c \in Stoppers, StopTask(c)
      PROVE  CompletedInv'
  <2>1. \A u \in Tasks : state'[u] = "Completed" => state[u] = "Completed"
    BY <1>12, <1>state DEF StopTask, Put, StoreError, Returned, NoCall, db,
       registration, process
  <2>2. \A d \in Stoppers : stop'[d].pc = "deleted" =>
          stop[d].pc = "deleted" /\ stop'[d].task = stop[d].task
    BY <1>12, <1>stop DEF StopTask, Put, StoreError, Returned, NoCall, db,
       registration, process, StopCall
  <2>3. UNCHANGED <<copy, live, run>>
    BY <1>12 DEF StopTask
  <2> QED BY <2>1, <2>2, <2>3 DEF CompletedInv, gone
<1>13. ASSUME NEW c \in Stoppers, DeleteSandbox(c)
      PROVE  CompletedInv'
  <2>1. PICK t \in Tasks : t = stop[c].task /\ run[t] = "done" /\ cid[t] \in {NoID, t}
    BY <1>13, <1>run DEF DeleteSandbox, UnlaunchedInv, CreationInv, CallsInv,
       CreationPC
  <2>2. \A u \in Tasks : gone(u) => gone(u)'
    BY <1>13 DEF DeleteSandbox, SandboxDeleted, gone
  <2>3. \A d \in Stoppers : stop'[d].pc = "deleted" =>
          /\ stop'[d].task = stop[d].task
          /\ stop[d].pc = "deleted" \/ (stop[d].task = t /\ gone(t)')
    <3>1. CASE SandboxDeleted(cid[t])
      <4>1. gone(t)'
        BY <1>13, <2>1, <3>1, <1>live, LifecycleAssumption DEF DeleteSandbox,
           SandboxDeleted, gone
      <4> QED BY <1>13, <2>1, <4>1, <1>stop DEF DeleteSandbox, StopCall
    <3>2. CASE ~SandboxDeleted(cid[t])
      BY <1>13, <2>1, <3>2, <1>stop DEF DeleteSandbox, StopCall
    <3> QED BY <3>1, <3>2
  <2>4. UNCHANGED <<state, copy>>
    BY <1>13 DEF DeleteSandbox, db
  <2>5. \A d \in Stoppers : stop[d].pc = "deleted" => stop[d].task \in Tasks
    BY DEF CallsInv
  <2> QED BY <2>2, <2>3, <2>4, <2>5 DEF CompletedInv
<1>14. ASSUME NEW c \in Stoppers, StopFailed(c)
      PROVE  CompletedInv'
  BY <1>14, <1>state, <1>live, <1>run, <1>copy, <1>stop DEF StopFailed,
     failTask, Put, StoreError, Returned, NoCall, db, registration, process,
     CompletedInv, gone, CallsInv
<1>15. ASSUME NEW c \in Stoppers, StopCompleted(c)
      PROVE  CompletedInv'
  BY <1>15, <1>state, <1>live, <1>run, <1>copy, <1>stop DEF StopCompleted,
     Put, StoreError, Returned, NoCall, process, CompletedInv, gone, CallsInv
<1>16. CASE Crash
  BY <1>16, <1>state, <1>live, <1>run, <1>copy, <1>stop DEF Crash, Returned,
     NoCall, db, CompletedInv, gone
<1>17. CASE \/ \E t \in Tasks :
               \/ CallRegister(t) \/ ConnectionBreaks(t)
          \/ \E t \in Tasks, a \in Attempts :
               \/ \E h \in BOOLEAN : FindTask(t, a, h)
               \/ Reply(t, a) \/ ExecuteReturns(t, a)
  <2>1. UNCHANGED <<state, copy, stop, live, run>>
    BY <1>17 DEF CallRegister, ConnectionBreaks, FindTask, Reply,
       ExecuteReturns, db, registration, process, StoreError
  <2> QED BY <2>1 DEF CompletedInv, gone
<1>18. CASE UpdateTasks
  BY <1>18 DEF UpdateTasks, db, registration, process, CompletedInv, gone
<1>19. CASE Restart
  BY <1>19 DEF Restart, db, registration, CompletedInv, gone
<1>20. CASE UNCHANGED vars
  BY <1>20 DEF vars, CompletedInv, gone
<1>21. ASSUME NEW t \in Tasks, TaskStep(t)
      PROVE  CompletedInv'
  BY <1>21, <1>2, <1>3, <1>4, <1>5, <1>6, <1>7, <1>8, <1>9, <1>10, <1>17
     DEF TaskStep, CreateStep, HandlerStep, ExecuteStep
<1>22. ASSUME NEW c \in Stoppers, StopStep(c)
      PROVE  CompletedInv'
  BY <1>22, <1>12, <1>13, <1>14, <1>15, <1>17 DEF StopStep
<1> QED
  BY <1>1, <1>11, <1>16, <1>17, <1>18, <1>19, <1>20, <1>21, <1>22 DEF Next

\* A task is only checked, updated or stopped after its command was started.
LEMMA UnlaunchedStep ==
  IInv /\ [Next]_vars => UnlaunchedInv'
<1> SUFFICES ASSUME IInv, [Next]_vars
             PROVE  UnlaunchedInv'
  OBVIOUS
<1> USE DEF IInv
<1>state. state \in [Tasks -> StateOrNone]
  BY DEF TypeOK
<1>health. health \in [Tasks -> 0..MaxChecks]
  BY DEF TypeOK
<1>exec. exec \in [Tasks -> [Attempts -> ExecutePC]]
  BY DEF TypeOK
<1>launched. launched \in [Tasks -> Nat]
  BY DEF TypeOK
<1>stop. stop \in [Stoppers -> StopCall]
  BY DEF TypeOK
<1>1. ASSUME NEW t \in Tasks, NEW s \in State, CreateContainer(t, s)
      PROVE  UnlaunchedInv'
  BY <1>1, <1>state, <1>health, <1>exec, <1>launched, <1>stop
     DEF CreateContainer, Put, StoreError, db, registration, process,
     UnlaunchedInv
<1>2. ASSUME NEW t \in Tasks, CreateSandbox(t)
      PROVE  UnlaunchedInv'
  BY <1>2, <1>state, <1>health, <1>exec, <1>launched, <1>stop
     DEF CreateSandbox, SandboxCreated, failTask, Put, StoreError, db,
     process, UnlaunchedInv
<1>3. ASSUME NEW t \in Tasks, StoreScheduled(t)
      PROVE  UnlaunchedInv'
  BY <1>3, <1>state, <1>health, <1>exec, <1>launched, <1>stop
     DEF StoreScheduled, StoreError, sandboxIDs, registration, process,
     UnlaunchedInv
<1>4. ASSUME NEW t \in Tasks, NEW a \in Attempts, RejectWorker(t, a)
      PROVE  UnlaunchedInv'
  BY <1>4, <1>state, <1>health, <1>exec, <1>launched, <1>stop
     DEF RejectWorker, failTask, Put, StoreError, db, process, UnlaunchedInv
<1>5. ASSUME NEW t \in Tasks, NEW a \in Attempts, StoreStarting(t, a)
      PROVE  UnlaunchedInv'
  BY <1>5, <1>state, <1>health, <1>exec, <1>launched, <1>stop
     DEF StoreStarting, Put, StoreError, process, UnlaunchedInv
<1>6. ASSUME NEW t \in Tasks, NEW a \in Attempts, StartTask(t, a)
      PROVE  UnlaunchedInv'
  BY <1>6, <1>state, <1>health, <1>exec, <1>launched, <1>stop DEF StartTask,
     Put, StoreError, process, UnlaunchedInv
<1>7. ASSUME NEW t \in Tasks, NEW a \in Attempts, ExecuteError(t, a)
      PROVE  UnlaunchedInv'
  BY <1>7, <1>state, <1>health, <1>exec, <1>launched, <1>stop
     DEF ExecuteError, failTask, Put, StoreError, db, registration, process,
     UnlaunchedInv
<1>8. ASSUME NEW t \in Tasks, NEW a \in Attempts, ExecuteReturns(t, a)
      PROVE  UnlaunchedInv'
  BY <1>8, <1>state, <1>health, <1>exec, <1>launched, <1>stop
     DEF ExecuteReturns, db, registration, process, UnlaunchedInv
<1>9. ASSUME NEW t \in Tasks, NEW a \in Attempts, ReadForUpdate(t, a)
      PROVE  UnlaunchedInv'
  BY <1>9, <1>state, <1>health, <1>exec, <1>launched, <1>stop
     DEF ReadForUpdate, db, registration, process, UnlaunchedInv
<1>10. ASSUME NEW t \in Tasks, NEW a \in Attempts, WriteUpdate(t, a)
      PROVE  UnlaunchedInv'
  BY <1>10, <1>state, <1>health, <1>exec, <1>launched, <1>stop
     DEF WriteUpdate, Put, StoreError, registration, process, UnlaunchedInv
<1>11. ASSUME NEW t \in Tasks, CheckTaskHealth(t)
      PROVE  UnlaunchedInv'
  BY <1>11, <1>state, <1>health, <1>exec, <1>launched, <1>stop
     DEF CheckTaskHealth, failTask, Put, StoreError, db, registration,
     process, UnlaunchedInv
<1>12. ASSUME NEW c \in Stoppers, NEW t \in Tasks, ReadForStop(c, t)
      PROVE  UnlaunchedInv'
  BY <1>12, <1>state, <1>health, <1>exec, <1>launched, <1>stop
     DEF ReadForStop, db, registration, process, UnlaunchedInv, StopCall
<1>13. ASSUME NEW c \in Stoppers, StopTask(c)
      PROVE  UnlaunchedInv'
  <2>1. \A u \in Tasks : launched[u] = 0 => state'[u] = state[u]
    BY <1>13, <1>state DEF StopTask, Put, StoreError, Returned, NoCall, db,
       registration, process, UnlaunchedInv, CallsInv, ValidStateTransition,
       stateTransitionMap, State
  <2>2. stop[c].task \in Tasks /\ launched[stop[c].task] = 0 =>
          stop' = [stop EXCEPT ![c] = Returned]
    BY <1>13 DEF StopTask, UnlaunchedInv, CallsInv, ValidStateTransition,
       stateTransitionMap, State
  <2>3. \A d \in Stoppers : d # c => stop'[d] = stop[d]
    BY <1>13, <1>stop DEF StopTask
  <2>4. \/ stop'[c] = Returned
        \/ stop'[c].task = stop[c].task /\ launched[stop[c].task] # 0
    BY <1>13, <2>2, <1>stop DEF StopTask, StopCall, CallsInv
  <2>5. UNCHANGED <<health, exec, launched>>
    BY <1>13 DEF StopTask
  <2> QED BY <2>1, <2>3, <2>4, <2>5 DEF UnlaunchedInv, Returned, NoCall
<1>14. ASSUME NEW c \in Stoppers, DeleteSandbox(c)
      PROVE  UnlaunchedInv'
  <2>1. /\ stop'[c].task = stop[c].task
        /\ \A d \in Stoppers : d # c => stop'[d] = stop[d]
    BY <1>14, <1>stop DEF DeleteSandbox, StopCall
  <2>2. stop[c].pc = "deleting" /\ stop[c].task \in Tasks
    BY <1>14 DEF DeleteSandbox, CallsInv
  <2>3. UNCHANGED <<state, health, exec, launched>>
    BY <1>14 DEF DeleteSandbox, db
  <2> QED BY <2>1, <2>2, <2>3 DEF UnlaunchedInv
<1>15. ASSUME NEW c \in Stoppers, StopFailed(c)
      PROVE  UnlaunchedInv'
  BY <1>15, <1>state, <1>health, <1>exec, <1>launched, <1>stop DEF StopFailed,
     failTask, Put, StoreError, Returned, NoCall, db, registration, process,
     UnlaunchedInv
<1>16. ASSUME NEW c \in Stoppers, StopCompleted(c)
      PROVE  UnlaunchedInv'
  BY <1>16, <1>state, <1>health, <1>exec, <1>launched, <1>stop
     DEF StopCompleted, Put, StoreError, Returned, NoCall, process,
     UnlaunchedInv
<1>17. CASE UpdateTasks
  BY <1>17, <1>state, <1>health, <1>exec, <1>launched, <1>stop
     DEF UpdateTasks, db, registration, process, UnlaunchedInv
<1>18. CASE Crash
  BY <1>18, <1>state, <1>health, <1>exec, <1>launched, <1>stop DEF Crash,
     Returned, NoCall, db, UnlaunchedInv
<1>19. CASE \/ \E t \in Tasks :
               \/ CallRegister(t) \/ ConnectionBreaks(t)
          \/ \E t \in Tasks, a \in Attempts :
               \/ \E h \in BOOLEAN : FindTask(t, a, h)
               \/ Reply(t, a)
  <2>1. UNCHANGED <<state, health, exec, launched, stop>>
    BY <1>19 DEF CallRegister, ConnectionBreaks, FindTask, Reply, db, process,
       StoreError
  <2> QED BY <2>1 DEF UnlaunchedInv
<1>20. CASE Restart
  BY <1>20 DEF Restart, db, registration, UnlaunchedInv
<1>21. CASE UNCHANGED vars
  BY <1>21 DEF vars, UnlaunchedInv
<1>22. ASSUME NEW t \in Tasks, TaskStep(t)
      PROVE  UnlaunchedInv'
  BY <1>22, <1>2, <1>3, <1>4, <1>5, <1>6, <1>7, <1>8, <1>9, <1>10, <1>11,
     <1>19 DEF TaskStep, CreateStep, HandlerStep, ExecuteStep
<1>23. ASSUME NEW c \in Stoppers, StopStep(c)
      PROVE  UnlaunchedInv'
  BY <1>23, <1>13, <1>14, <1>15, <1>16, <1>19 DEF StopStep
<1> QED
  BY <1>1, <1>12, <1>17, <1>18, <1>19, <1>20, <1>21, <1>22, <1>23 DEF Next

\* What an update writes back is the end of a task.
LEMMA CopyStep ==
  IInv /\ [Next]_vars => CopyInv'
<1> SUFFICES ASSUME IInv, [Next]_vars
             PROVE  CopyInv'
  OBVIOUS
<1> USE DEF IInv
<1>state. state \in [Tasks -> StateOrNone]
  BY DEF TypeOK
<1>exec. exec \in [Tasks -> [Attempts -> ExecutePC]]
  BY DEF TypeOK
<1>copy. copy \in [Tasks -> [Attempts -> StateOrNone]]
  BY DEF TypeOK
<1>1. ASSUME NEW t \in Tasks, NEW s \in State, CreateContainer(t, s)
      PROVE  CopyInv'
  BY <1>1, <1>state, <1>exec, <1>copy DEF CreateContainer, Put, StoreError,
     db, registration, process, CopyInv
<1>2. ASSUME NEW t \in Tasks, CreateSandbox(t)
      PROVE  CopyInv'
  BY <1>2, <1>state, <1>exec, <1>copy DEF CreateSandbox, SandboxCreated,
     failTask, Put, StoreError, db, process, CopyInv
<1>3. ASSUME NEW t \in Tasks, StoreScheduled(t)
      PROVE  CopyInv'
  BY <1>3, <1>state, <1>exec, <1>copy DEF StoreScheduled, StoreError,
     sandboxIDs, registration, process, CopyInv
<1>4. ASSUME NEW t \in Tasks, NEW a \in Attempts, RejectWorker(t, a)
      PROVE  CopyInv'
  BY <1>4, <1>state, <1>exec, <1>copy DEF RejectWorker, failTask, Put,
     StoreError, db, process, CopyInv
<1>5. ASSUME NEW t \in Tasks, NEW a \in Attempts, StoreStarting(t, a)
      PROVE  CopyInv'
  BY <1>5, <1>state, <1>exec, <1>copy DEF StoreStarting, Put, StoreError,
     process, CopyInv
<1>6. ASSUME NEW t \in Tasks, NEW a \in Attempts, StartTask(t, a)
      PROVE  CopyInv'
  BY <1>6, <1>state, <1>exec, <1>copy DEF StartTask, Put, StoreError, process,
     CopyInv
<1>7. ASSUME NEW t \in Tasks, NEW a \in Attempts, ExecuteError(t, a)
      PROVE  CopyInv'
  BY <1>7, <1>state, <1>exec, <1>copy DEF ExecuteError, failTask, Put,
     StoreError, db, registration, process, CopyInv
<1>8. ASSUME NEW t \in Tasks, NEW a \in Attempts, ExecuteReturns(t, a)
      PROVE  CopyInv'
  BY <1>8, <1>state, <1>exec, <1>copy DEF ExecuteReturns, db, registration,
     process, CopyInv
<1>9. ASSUME NEW t \in Tasks, NEW a \in Attempts, ReadForUpdate(t, a)
      PROVE  CopyInv'
  BY <1>9, <1>state, <1>exec, <1>copy DEF ReadForUpdate, db, registration,
     process, CopyInv, ValidStateTransition, stateTransitionMap, StateOrNone,
     State
<1>10. ASSUME NEW t \in Tasks, NEW a \in Attempts, WriteUpdate(t, a)
      PROVE  CopyInv'
  BY <1>10, <1>state, <1>exec, <1>copy DEF WriteUpdate, Put, StoreError,
     registration, process, CopyInv
<1>11. ASSUME NEW t \in Tasks, CheckTaskHealth(t)
      PROVE  CopyInv'
  BY <1>11, <1>state, <1>exec, <1>copy DEF CheckTaskHealth, failTask, Put,
     StoreError, db, registration, process, CopyInv
<1>12. ASSUME NEW c \in Stoppers, NEW t \in Tasks, ReadForStop(c, t)
      PROVE  CopyInv'
  <2>1. UNCHANGED <<state, exec, copy>>
    BY <1>12 DEF ReadForStop, db, registration, process
  <2> QED BY <2>1 DEF CopyInv
<1>13. ASSUME NEW c \in Stoppers, StopTask(c)
      PROVE  CopyInv'
  BY <1>13, <1>state, <1>exec, <1>copy DEF StopTask, Put, StoreError,
     Returned, NoCall, db, registration, process, CopyInv, CallsInv
<1>14. ASSUME NEW c \in Stoppers, DeleteSandbox(c)
      PROVE  CopyInv'
  <2>1. UNCHANGED <<state, exec, copy>>
    BY <1>14 DEF DeleteSandbox, db, process
  <2> QED BY <2>1 DEF CopyInv
<1>15. ASSUME NEW c \in Stoppers, StopFailed(c)
      PROVE  CopyInv'
  BY <1>15, <1>state, <1>exec, <1>copy DEF StopFailed, failTask, Put,
     StoreError, Returned, NoCall, db, registration, process, CopyInv,
     CallsInv
<1>16. ASSUME NEW c \in Stoppers, StopCompleted(c)
      PROVE  CopyInv'
  BY <1>16, <1>state, <1>exec, <1>copy DEF StopCompleted, Put, StoreError,
     Returned, NoCall, process, CopyInv, CallsInv
<1>17. CASE Crash
  BY <1>17, <1>state, <1>exec, <1>copy DEF Crash, Returned, NoCall, db,
     CopyInv
<1>18. CASE \/ \E t \in Tasks :
               \/ CallRegister(t) \/ ConnectionBreaks(t)
          \/ \E t \in Tasks, a \in Attempts :
               \/ \E h \in BOOLEAN : FindTask(t, a, h)
               \/ Reply(t, a)
  <2>1. UNCHANGED <<state, exec, copy>>
    BY <1>18 DEF CallRegister, ConnectionBreaks, FindTask, Reply, db, process,
       StoreError
  <2> QED BY <2>1 DEF CopyInv
<1>19. CASE UpdateTasks
  BY <1>19 DEF UpdateTasks, db, registration, process, CopyInv
<1>20. CASE Restart
  BY <1>20 DEF Restart, db, registration, CopyInv
<1>21. CASE UNCHANGED vars
  BY <1>21 DEF vars, CopyInv
<1>22. ASSUME NEW t \in Tasks, TaskStep(t)
      PROVE  CopyInv'
  BY <1>22, <1>2, <1>3, <1>4, <1>5, <1>6, <1>7, <1>8, <1>9, <1>10, <1>11,
     <1>18 DEF TaskStep, CreateStep, HandlerStep, ExecuteStep
<1>23. ASSUME NEW c \in Stoppers, StopStep(c)
      PROVE  CopyInv'
  BY <1>23, <1>13, <1>14, <1>15, <1>16, <1>18 DEF StopStep
<1> QED
  BY <1>1, <1>12, <1>17, <1>18, <1>19, <1>20, <1>21, <1>22, <1>23 DEF Next

\* The handlers of a task are finitely many, and their number follows every
\* insertion and removal.
LEMMA AttemptSets ==
  ASSUME NEW S \in SUBSET Attempts
  PROVE  /\ Cardinality(S) \in Nat
         /\ \A R \in SUBSET S : Cardinality(R) <= Cardinality(S)
         /\ \A a \in Attempts : Cardinality(S) <= Cardinality(S \ {a}) + 1
         /\ \A a \in S : Cardinality(S \ {a}) = Cardinality(S) - 1
<1>1. IsFiniteSet(S)
  <2>1. IsFiniteSet(Attempts)
    BY FS_Interval, LifecycleAssumption DEF Attempts
  <2> QED BY <2>1, FS_Subset
<1>2. Cardinality(S) \in Nat
  BY <1>1, FS_CardinalityType
<1>3. \A R \in SUBSET S : Cardinality(R) <= Cardinality(S)
  BY <1>1, FS_Subset
<1>4. ASSUME NEW a \in S PROVE Cardinality(S \ {a}) = Cardinality(S) - 1
  BY <1>1, FS_RemoveElement
<1>5. ASSUME NEW a \in Attempts, a \notin S PROVE S \ {a} = S
  BY <1>5
<1> QED BY <1>2, <1>3, <1>4, <1>5

\* A step that adds no handler that is left behind or will start the command
\* keeps the number of starts.
LEMMA LaunchFrame ==
  ASSUME NEW u \in Tasks, Launches(u), TypeOK, breaks' \in Nat,
         breaks <= breaks',
         active(u)' \ awaited(u)' \subseteq active(u) \ awaited(u),
         \/ worker[u] = "off" => worker'[u] = "off"
         \/ active(u) \ awaited(u) = {},
         starting(u)' \subseteq starting(u),
         launched'[u] = launched[u],
         state'[u] = "Scheduled" => launched[u] = 0
  PROVE  Launches(u)'
<1>1. /\ Cardinality(active(u) \ awaited(u)) \in Nat
      /\ Cardinality(active(u)' \ awaited(u)') \in Nat
      /\ Cardinality(active(u)' \ awaited(u)')
           <= Cardinality(active(u) \ awaited(u))
  BY AttemptSets DEF active
<1>2. /\ Cardinality(starting(u)) \in Nat
      /\ Cardinality(starting(u)') \in Nat
      /\ Cardinality(starting(u)') <= Cardinality(starting(u))
  BY AttemptSets DEF starting
<1>3. active(u) \ awaited(u) = {} => Cardinality(active(u)' \ awaited(u)') = 0
  BY FS_EmptySet
<1>4. launched[u] \in Nat /\ breaks \in Nat
  BY LifecycleAssumption DEF TypeOK
<1> QED BY <1>1, <1>2, <1>3, <1>4 DEF Launches

\* Only a broken connection lets the command start once more.
LEMMA LaunchStep ==
  IInv /\ [Next]_vars => LaunchInv'
<1> SUFFICES ASSUME IInv, [Next]_vars
             PROVE  LaunchInv'
  OBVIOUS
<1> USE DEF IInv
<1>state. state \in [Tasks -> StateOrNone]
  BY DEF TypeOK
<1>worker. worker \in [Tasks -> WorkerPC]
  BY DEF TypeOK
<1>attempts. attempts \in [Tasks -> 0..maxRetries]
  BY DEF TypeOK
<1>reg. reg \in [Tasks -> [Attempts -> HandlerPC]]
  BY DEF TypeOK
<1>breaks. breaks \in 0..MaxFaults
  BY DEF TypeOK
<1>launched. launched \in [Tasks -> Nat]
  BY DEF TypeOK
<1>copy. copy \in [Tasks -> [Attempts -> StateOrNone]]
  BY DEF TypeOK
<1>live. live \in SUBSET Tasks
  BY DEF TypeOK
<1>1. ASSUME NEW t \in Tasks, NEW s \in State, CreateContainer(t, s)
      PROVE  LaunchInv'
  <2> SUFFICES ASSUME NEW u \in Tasks
               PROVE  Launches(u)'
    BY DEF LaunchInv
  <2>1. Launches(u)
    BY DEF LaunchInv
  <2>2. breaks' = breaks
    BY <1>1 DEF CreateContainer, Put, StoreError, db, registration, process
  <2>3. CASE u # t
    <3>1. /\ state'[u] = state[u] /\ reg'[u] = reg[u] /\ worker'[u] = worker[u]
          /\ attempts'[u] = attempts[u] /\ launched'[u] = launched[u]
      BY <1>1, <2>3, <1>state, <1>reg, <1>worker, <1>attempts, <1>launched
         DEF CreateContainer, Put, StoreError, db, registration, process
    <3>2. /\ active(u)' \ awaited(u)' = active(u) \ awaited(u)
          /\ starting(u)' = starting(u)
      BY <3>1 DEF active, awaited, attempt, starting
    <3>3. breaks' \in Nat /\ breaks <= breaks'
      BY <2>2, <1>breaks, LifecycleAssumption
    <3> QED BY <2>1, <3>1, <3>2, <3>3, LaunchFrame DEF Launches
  <2>4. CASE u = t
    <3>1. /\ launched'[u] = launched[u]
          /\ state'[u] = "Scheduled" => launched[u] = 0
      BY <1>1, <2>1, <2>4, <1>state DEF CreateContainer, Put, StoreError, db,
         registration, process, Launches
    <3>2. active(u)' \ awaited(u)' \subseteq active(u) \ awaited(u)
      BY <1>1, <2>4, <1>reg, <1>worker, <1>attempts DEF CreateContainer, Put,
         StoreError, db, registration, process, active, awaited, attempt
    <3>3. \/ worker[u] = "off" => worker'[u] = "off"
          \/ active(u) \ awaited(u) = {}
      BY <1>1, <2>4, <1>worker DEF CreateContainer, Put, StoreError, db,
         registration, process, active
    <3>4. starting(u)' \subseteq starting(u)
      BY <1>1, <2>4, <1>reg DEF CreateContainer, Put, StoreError, db,
         registration, process, starting
    <3> QED BY <2>1, <2>2, <3>1, <3>2, <3>3, <3>4, <1>breaks,
       LifecycleAssumption, LaunchFrame
  <2> QED BY <2>3, <2>4
<1>2. ASSUME NEW t \in Tasks, CreateSandbox(t)
      PROVE  LaunchInv'
  <2> SUFFICES ASSUME NEW u \in Tasks
               PROVE  Launches(u)'
    BY DEF LaunchInv
  <2>1. Launches(u)
    BY DEF LaunchInv
  <2>2. breaks' = breaks
    BY <1>2 DEF CreateSandbox, SandboxCreated, failTask, Put, StoreError, db,
       process
  <2>3. CASE u # t
    <3>1. /\ state'[u] = state[u] /\ reg'[u] = reg[u] /\ worker'[u] = worker[u]
          /\ attempts'[u] = attempts[u] /\ launched'[u] = launched[u]
      BY <1>2, <2>3, <1>state, <1>reg, <1>worker, <1>attempts, <1>launched
         DEF CreateSandbox, SandboxCreated, failTask, Put, StoreError, db,
         process
    <3>2. /\ active(u)' \ awaited(u)' = active(u) \ awaited(u)
          /\ starting(u)' = starting(u)
      BY <3>1 DEF active, awaited, attempt, starting
    <3>3. breaks' \in Nat /\ breaks <= breaks'
      BY <2>2, <1>breaks, LifecycleAssumption
    <3> QED BY <2>1, <3>1, <3>2, <3>3, LaunchFrame DEF Launches
  <2>4. CASE u = t
    <3>1. /\ launched'[u] = launched[u]
          /\ state'[u] = "Scheduled" => launched[u] = 0
      BY <1>2, <2>1, <2>4, <1>state DEF CreateSandbox, SandboxCreated,
         failTask, Put, StoreError, db, process, Launches, CreationInv
    <3>2. active(u)' \ awaited(u)' \subseteq active(u) \ awaited(u)
      BY <1>2, <2>4, <1>reg, <1>worker, <1>attempts DEF CreateSandbox,
         SandboxCreated, failTask, Put, StoreError, db, process, active,
         awaited, attempt, CreationInv
    <3>3. \/ worker[u] = "off" => worker'[u] = "off"
          \/ active(u) \ awaited(u) = {}
      BY <1>2, <2>4, <1>worker DEF CreateSandbox, SandboxCreated, failTask,
         Put, StoreError, db, process, active, CreationInv
    <3>4. starting(u)' \subseteq starting(u)
      BY <1>2, <2>4, <1>reg DEF CreateSandbox, SandboxCreated, failTask, Put,
         StoreError, db, process, starting
    <3> QED BY <2>1, <2>2, <3>1, <3>2, <3>3, <3>4, <1>breaks,
       LifecycleAssumption, LaunchFrame
  <2> QED BY <2>3, <2>4
<1>3. ASSUME NEW t \in Tasks, StoreScheduled(t)
      PROVE  LaunchInv'
  <2> SUFFICES ASSUME NEW u \in Tasks
               PROVE  Launches(u)'
    BY DEF LaunchInv
  <2>1. Launches(u)
    BY DEF LaunchInv
  <2>2. breaks' = breaks
    BY <1>3 DEF StoreScheduled, StoreError, sandboxIDs, registration, process
  <2>3. CASE u # t
    <3>1. /\ state'[u] = state[u] /\ reg'[u] = reg[u] /\ worker'[u] = worker[u]
          /\ attempts'[u] = attempts[u] /\ launched'[u] = launched[u]
      BY <1>3, <2>3, <1>state, <1>reg, <1>worker, <1>attempts, <1>launched
         DEF StoreScheduled, StoreError, sandboxIDs, registration, process
    <3>2. /\ active(u)' \ awaited(u)' = active(u) \ awaited(u)
          /\ starting(u)' = starting(u)
      BY <3>1 DEF active, awaited, attempt, starting
    <3>3. breaks' \in Nat /\ breaks <= breaks'
      BY <2>2, <1>breaks, LifecycleAssumption
    <3> QED BY <2>1, <3>1, <3>2, <3>3, LaunchFrame DEF Launches
  <2>4. CASE u = t
    <3>1. /\ launched'[u] = launched[u]
          /\ state'[u] = "Scheduled" => launched[u] = 0
      BY <1>3, <2>1, <2>4, <1>state DEF StoreScheduled, StoreError,
         sandboxIDs, registration, process, Launches, CreationInv
    <3>2. active(u)' \ awaited(u)' \subseteq active(u) \ awaited(u)
      BY <1>3, <2>4, <1>reg, <1>worker, <1>attempts DEF StoreScheduled,
         StoreError, sandboxIDs, registration, process, active, awaited,
         attempt, CreationInv
    <3>3. \/ worker[u] = "off" => worker'[u] = "off"
          \/ active(u) \ awaited(u) = {}
      BY <1>3, <2>4, <1>worker DEF StoreScheduled, StoreError, sandboxIDs,
         registration, process, active, CreationInv
    <3>4. starting(u)' \subseteq starting(u)
      BY <1>3, <2>4, <1>reg DEF StoreScheduled, StoreError, sandboxIDs,
         registration, process, starting
    <3> QED BY <2>1, <2>2, <3>1, <3>2, <3>3, <3>4, <1>breaks,
       LifecycleAssumption, LaunchFrame
  <2> QED BY <2>3, <2>4
<1>4. ASSUME NEW t \in Tasks, CallRegister(t)
      PROVE  LaunchInv'
  <2> SUFFICES ASSUME NEW u \in Tasks
               PROVE  Launches(u)'
    BY DEF LaunchInv
  <2>1. Launches(u)
    BY DEF LaunchInv
  <2>2. breaks' = breaks
    BY <1>4 DEF CallRegister, attempt, Retry, db, process
  <2>3. CASE u # t
    <3>1. /\ state'[u] = state[u] /\ reg'[u] = reg[u] /\ worker'[u] = worker[u]
          /\ attempts'[u] = attempts[u] /\ launched'[u] = launched[u]
      BY <1>4, <2>3, <1>state, <1>reg, <1>worker, <1>attempts, <1>launched
         DEF CallRegister, attempt, Retry, db, process
    <3>2. /\ active(u)' \ awaited(u)' = active(u) \ awaited(u)
          /\ starting(u)' = starting(u)
      BY <3>1 DEF active, awaited, attempt, starting
    <3>3. breaks' \in Nat /\ breaks <= breaks'
      BY <2>2, <1>breaks, LifecycleAssumption
    <3> QED BY <2>1, <3>1, <3>2, <3>3, LaunchFrame DEF Launches
  <2>4. CASE u = t
    <3>1. /\ launched'[u] = launched[u]
          /\ state'[u] = "Scheduled" => launched[u] = 0
      BY <1>4, <2>1, <2>4, <1>state DEF CallRegister, attempt, Retry, db,
         process, Launches
    <3>2. active(u)' \ awaited(u)' \subseteq active(u) \ awaited(u)
      BY <1>4, <2>4, <1>reg, <1>worker, <1>attempts, LifecycleAssumption
         DEF CallRegister, attempt, Retry, db, process, active, awaited,
         attempt, CallsInv, Attempts
    <3>3. \/ worker[u] = "off" => worker'[u] = "off"
          \/ active(u) \ awaited(u) = {}
      BY <1>4, <2>4, <1>worker DEF CallRegister, attempt, Retry, db, process,
         active
    <3>4. starting(u)' \subseteq starting(u)
      BY <1>4, <2>4, <1>reg DEF CallRegister, attempt, Retry, db, process,
         starting
    <3> QED BY <2>1, <2>2, <3>1, <3>2, <3>3, <3>4, <1>breaks,
       LifecycleAssumption, LaunchFrame
  <2> QED BY <2>3, <2>4
<1>5. ASSUME NEW t \in Tasks, ConnectionBreaks(t)
      PROVE  LaunchInv'
  <2> SUFFICES ASSUME NEW u \in Tasks
               PROVE  Launches(u)'
    BY DEF LaunchInv
  <2>1. Launches(u)
    BY DEF LaunchInv
  <2>2. breaks' = breaks + 1
    BY <1>5 DEF ConnectionBreaks, attempt, Retry, db, process
  <2>3. CASE u # t
    <3>1. /\ state'[u] = state[u] /\ reg'[u] = reg[u] /\ worker'[u] = worker[u]
          /\ attempts'[u] = attempts[u] /\ launched'[u] = launched[u]
      BY <1>5, <2>3, <1>state, <1>reg, <1>worker, <1>attempts, <1>launched
         DEF ConnectionBreaks, attempt, Retry, db, process
    <3>2. /\ active(u)' \ awaited(u)' = active(u) \ awaited(u)
          /\ starting(u)' = starting(u)
      BY <3>1 DEF active, awaited, attempt, starting
    <3>3. breaks' \in Nat /\ breaks <= breaks'
      BY <2>2, <1>breaks, LifecycleAssumption
    <3> QED BY <2>1, <3>1, <3>2, <3>3, LaunchFrame DEF Launches
  <2>4. CASE u = t
    <3>1. /\ awaited(u) = {attempt(t)} /\ awaited(u)' = {} /\ worker'[u] # "off"
          /\ active(u)' = active(u) /\ starting(u)' = starting(u)
          /\ attempt(t) \in Attempts
      BY <1>5, <2>4, <1>worker, <1>attempts, LifecycleAssumption
         DEF ConnectionBreaks, Retry, active, awaited, starting, attempt,
         CallsInv, Attempts
    <3>2. Cardinality(active(u)) <= Cardinality(active(u) \ {attempt(t)}) + 1
      BY <3>1, AttemptSets DEF active
    <3>3. UNCHANGED <<state, launched>> /\ worker[u] = "waiting"
      BY <1>5, <2>4 DEF ConnectionBreaks, db
    <3>4. /\ Cardinality(active(u)) \in Nat
          /\ Cardinality(active(u) \ {attempt(t)}) \in Nat
          /\ Cardinality(starting(u)) \in Nat
      BY AttemptSets DEF active, starting
    <3>5. active(u)' \ awaited(u)' = active(u)
      BY <3>1
    <3> QED BY <2>1, <2>2, <3>1, <3>2, <3>3, <3>4, <3>5, <1>breaks,
       <1>launched, LifecycleAssumption DEF Launches
  <2> QED BY <2>3, <2>4
<1>6. ASSUME NEW t \in Tasks, NEW a \in Attempts, NEW h \in BOOLEAN,
            FindTask(t, a, h)
      PROVE  LaunchInv'
  <2> SUFFICES ASSUME NEW u \in Tasks
               PROVE  Launches(u)'
    BY DEF LaunchInv
  <2>1. Launches(u)
    BY DEF LaunchInv
  <2>2. breaks' = breaks
    BY <1>6 DEF FindTask, StoreError, db, process
  <2>3. CASE u # t
    <3>1. /\ state'[u] = state[u] /\ reg'[u] = reg[u] /\ worker'[u] = worker[u]
          /\ attempts'[u] = attempts[u] /\ launched'[u] = launched[u]
      BY <1>6, <2>3, <1>state, <1>reg, <1>worker, <1>attempts, <1>launched
         DEF FindTask, StoreError, db, process
    <3>2. /\ active(u)' \ awaited(u)' = active(u) \ awaited(u)
          /\ starting(u)' = starting(u)
      BY <3>1 DEF active, awaited, attempt, starting
    <3>3. breaks' \in Nat /\ breaks <= breaks'
      BY <2>2, <1>breaks, LifecycleAssumption
    <3> QED BY <2>1, <3>1, <3>2, <3>3, LaunchFrame DEF Launches
  <2>4. CASE u = t
    <3>1. PICK p \in {"ok", "healthy", "unhealthy", "error"} :
            /\ reg' = [reg EXCEPT ![t][a] = p]
            /\ p \in {"healthy", "unhealthy"} =>
                 \E v \in Tasks : cid[v] = t /\ state[v] = "Scheduled"
      BY <1>6 DEF FindTask
    <3>2. p \in {"healthy", "unhealthy"} => state[t] = "Scheduled"
      BY <3>1, LifecycleAssumption DEF CreationInv
    <3>3. \A b \in Attempts : reg'[t][b] = IF b = a THEN p ELSE reg[t][b]
      BY <3>1, <1>reg, Updated DEF HandlerPC
    <3>4. UNCHANGED <<state, worker, attempts, launched>>
      BY <1>6 DEF FindTask, StoreError, db
    <3>5. /\ active(t)' \subseteq active(t)
          /\ starting(t)' \subseteq active(t)
          /\ awaited(t)' = awaited(t)
      BY <1>6, <3>3, <3>4 DEF FindTask, active, starting, awaited, attempt
    <3>6. CASE p # "healthy"
      <4>1. starting(t)' \subseteq starting(t)
        BY <3>3, <3>6, <3>1 DEF starting
      <4> QED BY <2>1, <2>2, <2>4, <3>4, <3>5, <4>1, <1>breaks,
         LifecycleAssumption, LaunchFrame DEF Launches
    <3>7. CASE p = "healthy"
      <4>1. launched[t] = 0 /\ state[t] = "Scheduled"
        BY <2>1, <2>4, <3>2, <3>7 DEF Launches
      <4>2. /\ Cardinality(starting(t)') <= Cardinality(active(t))
            /\ Cardinality(active(t)' \ awaited(t)') <= Cardinality(active(t) \ awaited(t))
            /\ Cardinality(starting(t)') \in Nat
            /\ Cardinality(active(t)' \ awaited(t)') \in Nat
            /\ Cardinality(active(t)) \in Nat
            /\ Cardinality(active(t) \ awaited(t)) \in Nat
        BY <3>5, AttemptSets DEF active, starting
      <4>3. Cardinality(active(t)) <= 1 + breaks
        <5>1. CASE worker[t] = "waiting"
          <6>1. attempt(t) \in Attempts /\ awaited(t) = {attempt(t)}
            BY <5>1, <1>attempts, LifecycleAssumption DEF CallsInv, attempt,
               Attempts, awaited
          <6>2. Cardinality(active(t)) <= Cardinality(active(t) \ awaited(t)) + 1
            BY <6>1, AttemptSets DEF active
          <6> QED BY <5>1, <6>2, <4>2, <2>1, <2>4, <1>breaks,
             LifecycleAssumption DEF Launches
        <5>2. CASE worker[t] # "waiting"
          <6>1. active(t) \ awaited(t) = active(t)
            BY <5>2 DEF awaited
          <6> QED BY <6>1, <4>2, <2>1, <2>4, <1>breaks, LifecycleAssumption
             DEF Launches
        <5> QED BY <5>1, <5>2
      <4> QED BY <2>1, <2>2, <2>4, <3>4, <4>1, <4>2, <4>3, <1>breaks,
         LifecycleAssumption DEF Launches
    <3> QED BY <3>6, <3>7
  <2> QED BY <2>3, <2>4
<1>7. ASSUME NEW t \in Tasks, NEW a \in Attempts, RejectWorker(t, a)
      PROVE  LaunchInv'
  <2> SUFFICES ASSUME NEW u \in Tasks
               PROVE  Launches(u)'
    BY DEF LaunchInv
  <2>1. Launches(u)
    BY DEF LaunchInv
  <2>2. breaks' = breaks
    BY <1>7 DEF RejectWorker, failTask, Put, StoreError, db, process
  <2>3. CASE u # t
    <3>1. /\ state'[u] = state[u] /\ reg'[u] = reg[u] /\ worker'[u] = worker[u]
          /\ attempts'[u] = attempts[u] /\ launched'[u] = launched[u]
      BY <1>7, <2>3, <1>state, <1>reg, <1>worker, <1>attempts, <1>launched
         DEF RejectWorker, failTask, Put, StoreError, db, process
    <3>2. /\ active(u)' \ awaited(u)' = active(u) \ awaited(u)
          /\ starting(u)' = starting(u)
      BY <3>1 DEF active, awaited, attempt, starting
    <3>3. breaks' \in Nat /\ breaks <= breaks'
      BY <2>2, <1>breaks, LifecycleAssumption
    <3> QED BY <2>1, <3>1, <3>2, <3>3, LaunchFrame DEF Launches
  <2>4. CASE u = t
    <3>1. /\ launched'[u] = launched[u]
          /\ state'[u] = "Scheduled" => launched[u] = 0
      BY <1>7, <2>1, <2>4, <1>state DEF RejectWorker, failTask, Put,
         StoreError, db, process, Launches
    <3>2. active(u)' \ awaited(u)' \subseteq active(u) \ awaited(u)
      BY <1>7, <2>4, <1>reg, <1>worker, <1>attempts DEF RejectWorker,
         failTask, Put, StoreError, db, process, active, awaited, attempt
    <3>3. \/ worker[u] = "off" => worker'[u] = "off"
          \/ active(u) \ awaited(u) = {}
      BY <1>7, <2>4, <1>worker DEF RejectWorker, failTask, Put, StoreError,
         db, process, active
    <3>4. starting(u)' \subseteq starting(u)
      BY <1>7, <2>4, <1>reg DEF RejectWorker, failTask, Put, StoreError, db,
         process, starting
    <3> QED BY <2>1, <2>2, <3>1, <3>2, <3>3, <3>4, <1>breaks,
       LifecycleAssumption, LaunchFrame
  <2> QED BY <2>3, <2>4
<1>8. ASSUME NEW t \in Tasks, NEW a \in Attempts, StoreStarting(t, a)
      PROVE  LaunchInv'
  <2> SUFFICES ASSUME NEW u \in Tasks
               PROVE  Launches(u)'
    BY DEF LaunchInv
  <2>1. Launches(u)
    BY DEF LaunchInv
  <2>2. breaks' = breaks
    BY <1>8 DEF StoreStarting, Put, StoreError, process
  <2>3. CASE u # t
    <3>1. /\ state'[u] = state[u] /\ reg'[u] = reg[u] /\ worker'[u] = worker[u]
          /\ attempts'[u] = attempts[u] /\ launched'[u] = launched[u]
      BY <1>8, <2>3, <1>state, <1>reg, <1>worker, <1>attempts, <1>launched
         DEF StoreStarting, Put, StoreError, process
    <3>2. /\ active(u)' \ awaited(u)' = active(u) \ awaited(u)
          /\ starting(u)' = starting(u)
      BY <3>1 DEF active, awaited, attempt, starting
    <3>3. breaks' \in Nat /\ breaks <= breaks'
      BY <2>2, <1>breaks, LifecycleAssumption
    <3> QED BY <2>1, <3>1, <3>2, <3>3, LaunchFrame DEF Launches
  <2>4. CASE u = t
    <3>1. /\ launched'[u] = launched[u]
          /\ state'[u] = "Scheduled" => launched[u] = 0
      BY <1>8, <2>1, <2>4, <1>state DEF StoreStarting, Put, StoreError,
         process, Launches
    <3>2. active(u)' \ awaited(u)' \subseteq active(u) \ awaited(u)
      BY <1>8, <2>4, <1>reg, <1>worker, <1>attempts DEF StoreStarting, Put,
         StoreError, process, active, awaited, attempt
    <3>3. \/ worker[u] = "off" => worker'[u] = "off"
          \/ active(u) \ awaited(u) = {}
      BY <1>8, <2>4, <1>worker DEF StoreStarting, Put, StoreError, process,
         active
    <3>4. starting(u)' \subseteq starting(u)
      BY <1>8, <2>4, <1>reg DEF StoreStarting, Put, StoreError, process,
         starting
    <3> QED BY <2>1, <2>2, <3>1, <3>2, <3>3, <3>4, <1>breaks,
       LifecycleAssumption, LaunchFrame
  <2> QED BY <2>3, <2>4
<1>9. ASSUME NEW t \in Tasks, NEW a \in Attempts, StartTask(t, a)
      PROVE  LaunchInv'
  <2> SUFFICES ASSUME NEW u \in Tasks
               PROVE  Launches(u)'
    BY DEF LaunchInv
  <2>1. Launches(u)
    BY DEF LaunchInv
  <2>2. breaks' = breaks
    BY <1>9 DEF StartTask, Put, StoreError, process
  <2>3. CASE u # t
    <3>1. /\ state'[u] = state[u] /\ reg'[u] = reg[u] /\ worker'[u] = worker[u]
          /\ attempts'[u] = attempts[u] /\ launched'[u] = launched[u]
      BY <1>9, <2>3, <1>state, <1>reg, <1>worker, <1>attempts, <1>launched
         DEF StartTask, Put, StoreError, process
    <3>2. /\ active(u)' \ awaited(u)' = active(u) \ awaited(u)
          /\ starting(u)' = starting(u)
      BY <3>1 DEF active, awaited, attempt, starting
    <3>3. breaks' \in Nat /\ breaks <= breaks'
      BY <2>2, <1>breaks, LifecycleAssumption
    <3> QED BY <2>1, <3>1, <3>2, <3>3, LaunchFrame DEF Launches
  <2>4. CASE u = t
    <3>1. PICK p \in HandlerPC : p \in {"ok", "error"} /\ reg' = [reg EXCEPT ![t][a] = p]
      BY <1>9 DEF StartTask, HandlerPC
    <3>2. \A b \in Attempts : reg'[t][b] = IF b = a THEN p ELSE reg[t][b]
      BY <3>1, <1>reg, Updated
    <3>3. /\ UNCHANGED <<worker, attempts>>
          /\ launched'[t] \in {launched[t], launched[t] + 1}
          /\ \/ state'[t] # "Scheduled"
             \/ state'[t] = state[t] /\ launched'[t] = launched[t]
      BY <1>9, <1>state, <1>launched DEF StartTask, Put, StoreError
    <3>4. /\ active(t)' \subseteq active(t) /\ awaited(t)' = awaited(t)
          /\ starting(t)' = starting(t) \ {a} /\ a \in starting(t)
      BY <1>9, <3>1, <3>2, <3>3 DEF StartTask, active, starting, awaited,
         attempt
    <3>5. /\ Cardinality(active(t)' \ awaited(t)') <= Cardinality(active(t) \ awaited(t))
          /\ Cardinality(active(t)' \ awaited(t)') \in Nat
          /\ Cardinality(active(t) \ awaited(t)) \in Nat
      BY <3>4, AttemptSets DEF active
    <3>6. /\ Cardinality(starting(t)') = Cardinality(starting(t)) - 1
          /\ Cardinality(starting(t)) \in Nat
      BY <3>4, AttemptSets DEF starting
    <3> QED BY <2>1, <2>2, <2>4, <3>3, <3>5, <3>6, <1>breaks, <1>launched,
       LifecycleAssumption DEF Launches
  <2> QED BY <2>3, <2>4
<1>10. ASSUME NEW t \in Tasks, NEW a \in Attempts, Reply(t, a)
      PROVE  LaunchInv'
  <2> SUFFICES ASSUME NEW u \in Tasks
               PROVE  Launches(u)'
    BY DEF LaunchInv
  <2>1. Launches(u)
    BY DEF LaunchInv
  <2>2. breaks' = breaks
    BY <1>10 DEF Reply, attempt, Retry, db, process
  <2>3. CASE u # t
    <3>1. /\ state'[u] = state[u] /\ reg'[u] = reg[u] /\ worker'[u] = worker[u]
          /\ attempts'[u] = attempts[u] /\ launched'[u] = launched[u]
      BY <1>10, <2>3, <1>state, <1>reg, <1>worker, <1>attempts, <1>launched
         DEF Reply, attempt, Retry, db, process
    <3>2. /\ active(u)' \ awaited(u)' = active(u) \ awaited(u)
          /\ starting(u)' = starting(u)
      BY <3>1 DEF active, awaited, attempt, starting
    <3>3. breaks' \in Nat /\ breaks <= breaks'
      BY <2>2, <1>breaks, LifecycleAssumption
    <3> QED BY <2>1, <3>1, <3>2, <3>3, LaunchFrame DEF Launches
  <2>4. CASE u = t
    <3>1. /\ launched'[u] = launched[u]
          /\ state'[u] = "Scheduled" => launched[u] = 0
      BY <1>10, <2>1, <2>4, <1>state DEF Reply, attempt, Retry, db, process,
         Launches
    <3>2. active(u)' \ awaited(u)' \subseteq active(u) \ awaited(u)
      BY <1>10, <2>4, <1>reg, <1>worker, <1>attempts DEF Reply, attempt,
         Retry, db, process, active, awaited, attempt
    <3>3. \/ worker[u] = "off" => worker'[u] = "off"
          \/ active(u) \ awaited(u) = {}
      BY <1>10, <2>4, <1>worker DEF Reply, attempt, Retry, db, process, active
    <3>4. starting(u)' \subseteq starting(u)
      BY <1>10, <2>4, <1>reg DEF Reply, attempt, Retry, db, process, starting
    <3> QED BY <2>1, <2>2, <3>1, <3>2, <3>3, <3>4, <1>breaks,
       LifecycleAssumption, LaunchFrame
  <2> QED BY <2>3, <2>4
<1>11. ASSUME NEW t \in Tasks, NEW a \in Attempts, ExecuteError(t, a)
      PROVE  LaunchInv'
  <2> SUFFICES ASSUME NEW u \in Tasks
               PROVE  Launches(u)'
    BY DEF LaunchInv
  <2>1. Launches(u)
    BY DEF LaunchInv
  <2>2. breaks' = breaks
    BY <1>11 DEF ExecuteError, failTask, Put, StoreError, db, registration,
       process
  <2>3. CASE u # t
    <3>1. /\ state'[u] = state[u] /\ reg'[u] = reg[u] /\ worker'[u] = worker[u]
          /\ attempts'[u] = attempts[u] /\ launched'[u] = launched[u]
      BY <1>11, <2>3, <1>state, <1>reg, <1>worker, <1>attempts, <1>launched
         DEF ExecuteError, failTask, Put, StoreError, db, registration,
         process
    <3>2. /\ active(u)' \ awaited(u)' = active(u) \ awaited(u)
          /\ starting(u)' = starting(u)
      BY <3>1 DEF active, awaited, attempt, starting
    <3>3. breaks' \in Nat /\ breaks <= breaks'
      BY <2>2, <1>breaks, LifecycleAssumption
    <3> QED BY <2>1, <3>1, <3>2, <3>3, LaunchFrame DEF Launches
  <2>4. CASE u = t
    <3>1. /\ launched'[u] = launched[u]
          /\ state'[u] = "Scheduled" => launched[u] = 0
      BY <1>11, <2>1, <2>4, <1>state DEF ExecuteError, failTask, Put,
         StoreError, db, registration, process, Launches
    <3>2. active(u)' \ awaited(u)' \subseteq active(u) \ awaited(u)
      BY <1>11, <2>4, <1>reg, <1>worker, <1>attempts DEF ExecuteError,
         failTask, Put, StoreError, db, registration, process, active,
         awaited, attempt
    <3>3. \/ worker[u] = "off" => worker'[u] = "off"
          \/ active(u) \ awaited(u) = {}
      BY <1>11, <2>4, <1>worker DEF ExecuteError, failTask, Put, StoreError,
         db, registration, process, active
    <3>4. starting(u)' \subseteq starting(u)
      BY <1>11, <2>4, <1>reg DEF ExecuteError, failTask, Put, StoreError, db,
         registration, process, starting
    <3> QED BY <2>1, <2>2, <3>1, <3>2, <3>3, <3>4, <1>breaks,
       LifecycleAssumption, LaunchFrame
  <2> QED BY <2>3, <2>4
<1>12. ASSUME NEW t \in Tasks, NEW a \in Attempts, WriteUpdate(t, a)
      PROVE  LaunchInv'
  <2> SUFFICES ASSUME NEW u \in Tasks
               PROVE  Launches(u)'
    BY DEF LaunchInv
  <2>1. Launches(u)
    BY DEF LaunchInv
  <2>2. breaks' = breaks
    BY <1>12 DEF WriteUpdate, Put, StoreError, registration, process
  <2>3. CASE u # t
    <3>1. /\ state'[u] = state[u] /\ reg'[u] = reg[u] /\ worker'[u] = worker[u]
          /\ attempts'[u] = attempts[u] /\ launched'[u] = launched[u]
      BY <1>12, <2>3, <1>state, <1>reg, <1>worker, <1>attempts, <1>launched
         DEF WriteUpdate, Put, StoreError, registration, process
    <3>2. /\ active(u)' \ awaited(u)' = active(u) \ awaited(u)
          /\ starting(u)' = starting(u)
      BY <3>1 DEF active, awaited, attempt, starting
    <3>3. breaks' \in Nat /\ breaks <= breaks'
      BY <2>2, <1>breaks, LifecycleAssumption
    <3> QED BY <2>1, <3>1, <3>2, <3>3, LaunchFrame DEF Launches
  <2>4. CASE u = t
    <3>1. /\ launched'[u] = launched[u]
          /\ state'[u] = "Scheduled" => launched[u] = 0
      BY <1>12, <2>1, <2>4, <1>state, <1>copy DEF WriteUpdate, Put,
         StoreError, registration, process, Launches, CopyInv
    <3>2. active(u)' \ awaited(u)' \subseteq active(u) \ awaited(u)
      BY <1>12, <2>4, <1>reg, <1>worker, <1>attempts DEF WriteUpdate, Put,
         StoreError, registration, process, active, awaited, attempt, CopyInv
    <3>3. \/ worker[u] = "off" => worker'[u] = "off"
          \/ active(u) \ awaited(u) = {}
      BY <1>12, <2>4, <1>worker DEF WriteUpdate, Put, StoreError,
         registration, process, active, CopyInv
    <3>4. starting(u)' \subseteq starting(u)
      BY <1>12, <2>4, <1>reg DEF WriteUpdate, Put, StoreError, registration,
         process, starting
    <3> QED BY <2>1, <2>2, <3>1, <3>2, <3>3, <3>4, <1>breaks,
       LifecycleAssumption, LaunchFrame
  <2> QED BY <2>3, <2>4
<1>13. ASSUME NEW t \in Tasks, CheckTaskHealth(t)
      PROVE  LaunchInv'
  <2> SUFFICES ASSUME NEW u \in Tasks
               PROVE  Launches(u)'
    BY DEF LaunchInv
  <2>1. Launches(u)
    BY DEF LaunchInv
  <2>2. breaks' = breaks
    BY <1>13 DEF CheckTaskHealth, failTask, Put, StoreError, db, registration,
       process
  <2>3. CASE u # t
    <3>1. /\ state'[u] = state[u] /\ reg'[u] = reg[u] /\ worker'[u] = worker[u]
          /\ attempts'[u] = attempts[u] /\ launched'[u] = launched[u]
      BY <1>13, <2>3, <1>state, <1>reg, <1>worker, <1>attempts, <1>launched
         DEF CheckTaskHealth, failTask, Put, StoreError, db, registration,
         process
    <3>2. /\ active(u)' \ awaited(u)' = active(u) \ awaited(u)
          /\ starting(u)' = starting(u)
      BY <3>1 DEF active, awaited, attempt, starting
    <3>3. breaks' \in Nat /\ breaks <= breaks'
      BY <2>2, <1>breaks, LifecycleAssumption
    <3> QED BY <2>1, <3>1, <3>2, <3>3, LaunchFrame DEF Launches
  <2>4. CASE u = t
    <3>1. /\ launched'[u] = launched[u]
          /\ state'[u] = "Scheduled" => launched[u] = 0
      BY <1>13, <2>1, <2>4, <1>state DEF CheckTaskHealth, failTask, Put,
         StoreError, db, registration, process, Launches
    <3>2. active(u)' \ awaited(u)' \subseteq active(u) \ awaited(u)
      BY <1>13, <2>4, <1>reg, <1>worker, <1>attempts DEF CheckTaskHealth,
         failTask, Put, StoreError, db, registration, process, active,
         awaited, attempt
    <3>3. \/ worker[u] = "off" => worker'[u] = "off"
          \/ active(u) \ awaited(u) = {}
      BY <1>13, <2>4, <1>worker DEF CheckTaskHealth, failTask, Put,
         StoreError, db, registration, process, active
    <3>4. starting(u)' \subseteq starting(u)
      BY <1>13, <2>4, <1>reg DEF CheckTaskHealth, failTask, Put, StoreError,
         db, registration, process, starting
    <3> QED BY <2>1, <2>2, <3>1, <3>2, <3>3, <3>4, <1>breaks,
       LifecycleAssumption, LaunchFrame
  <2> QED BY <2>3, <2>4
<1>14. ASSUME NEW c \in Stoppers, NEW t \in Tasks, ReadForStop(c, t)
      PROVE  LaunchInv'
  <2>1. UNCHANGED <<state, worker, attempts, reg, breaks, launched>>
    BY <1>14 DEF ReadForStop, db, registration, process
  <2> QED BY <2>1 DEF LaunchInv, Launches, active, awaited, attempt, starting
<1>15. ASSUME NEW c \in Stoppers, StopTask(c)
      PROVE  LaunchInv'
  <2> SUFFICES ASSUME NEW u \in Tasks
               PROVE  Launches(u)'
    BY DEF LaunchInv
  <2>1. Launches(u)
    BY DEF LaunchInv
  <2>2. breaks' = breaks
    BY <1>15 DEF StopTask, Put, StoreError, Returned, NoCall, db,
       registration, process
  <2>3. CASE u # stop[c].task
    <3>1. /\ state'[u] = state[u] /\ reg'[u] = reg[u] /\ worker'[u] = worker[u]
          /\ attempts'[u] = attempts[u] /\ launched'[u] = launched[u]
      BY <1>15, <2>3, <1>state, <1>reg, <1>worker, <1>attempts, <1>launched
         DEF StopTask, Put, StoreError, Returned, NoCall, db, registration,
         process
    <3>2. /\ active(u)' \ awaited(u)' = active(u) \ awaited(u)
          /\ starting(u)' = starting(u)
      BY <3>1 DEF active, awaited, attempt, starting
    <3>3. breaks' \in Nat /\ breaks <= breaks'
      BY <2>2, <1>breaks, LifecycleAssumption
    <3> QED BY <2>1, <3>1, <3>2, <3>3, LaunchFrame DEF Launches
  <2>4. CASE u = stop[c].task
    <3>1. /\ launched'[u] = launched[u]
          /\ state'[u] = "Scheduled" => launched[u] = 0
      BY <1>15, <2>1, <2>4, <1>state DEF StopTask, Put, StoreError, Returned,
         NoCall, db, registration, process, Launches, CallsInv
    <3>2. active(u)' \ awaited(u)' \subseteq active(u) \ awaited(u)
      BY <1>15, <2>4, <1>reg, <1>worker, <1>attempts DEF StopTask, Put,
         StoreError, Returned, NoCall, db, registration, process, active,
         awaited, attempt, CallsInv
    <3>3. \/ worker[u] = "off" => worker'[u] = "off"
          \/ active(u) \ awaited(u) = {}
      BY <1>15, <2>4, <1>worker DEF StopTask, Put, StoreError, Returned,
         NoCall, db, registration, process, active, CallsInv
    <3>4. starting(u)' \subseteq starting(u)
      BY <1>15, <2>4, <1>reg DEF StopTask, Put, StoreError, Returned, NoCall,
         db, registration, process, starting
    <3> QED BY <2>1, <2>2, <3>1, <3>2, <3>3, <3>4, <1>breaks,
       LifecycleAssumption, LaunchFrame
  <2> QED BY <2>3, <2>4
<1>16. ASSUME NEW c \in Stoppers, DeleteSandbox(c)
      PROVE  LaunchInv'
  <2> SUFFICES ASSUME NEW u \in Tasks
               PROVE  Launches(u)'
    BY DEF LaunchInv
  <2>1. Launches(u)
    BY DEF LaunchInv
  <2>2. breaks' = breaks
    BY <1>16 DEF DeleteSandbox, SandboxDeleted, db, process
  <2>3. CASE u # stop[c].task
    <3>1. /\ state'[u] = state[u] /\ reg'[u] = reg[u] /\ worker'[u] = worker[u]
          /\ attempts'[u] = attempts[u] /\ launched'[u] = launched[u]
      <4>1. PICK t \in Tasks : t = stop[c].task /\ cid[t] \in {NoID, t}
        BY <1>16 DEF DeleteSandbox, CallsInv, CreationInv
      <4>2. CASE SandboxDeleted(cid[t])
        <5>1. /\ worker' = [worker EXCEPT ![t] = "off"]
              /\ attempts' = [attempts EXCEPT ![t] = 0]
          BY <4>1, <4>2, <1>live, LifecycleAssumption DEF SandboxDeleted
        <5> QED BY <1>16, <2>3, <4>1, <5>1, <1>worker, <1>attempts
           DEF DeleteSandbox, db
      <4>3. CASE UNCHANGED <<worker, attempts>>
        BY <1>16, <4>3 DEF DeleteSandbox, db
      <4> QED BY <1>16, <4>1, <4>2, <4>3 DEF DeleteSandbox
    <3>2. /\ active(u)' \ awaited(u)' = active(u) \ awaited(u)
          /\ starting(u)' = starting(u)
      BY <3>1 DEF active, awaited, attempt, starting
    <3>3. breaks' \in Nat /\ breaks <= breaks'
      BY <2>2, <1>breaks, LifecycleAssumption
    <3> QED BY <2>1, <3>1, <3>2, <3>3, LaunchFrame DEF Launches
  <2>4. CASE u = stop[c].task
    <3>1. UNCHANGED <<state, reg, launched>>
      BY <1>16 DEF DeleteSandbox, db
    <3>2. CASE UNCHANGED <<worker, attempts>>
      BY <2>1, <2>2, <3>1, <3>2, <1>breaks, LifecycleAssumption, LaunchFrame
         DEF Launches, active, awaited, attempt, starting
    <3>3. CASE SandboxDeleted(cid[u])
      <4>1. worker'[u] = "off" /\ awaited(u)' = {}
        BY <3>3, <1>worker, LifecycleAssumption DEF SandboxDeleted,
           CreationInv, awaited, TypeOK
      <4>2. active(u)' = active(u) /\ starting(u)' = starting(u)
        BY <3>1 DEF active, starting
      <4>3. Cardinality(active(u)) <= breaks + 1
        <5>1. /\ Cardinality(active(u)) \in Nat
              /\ Cardinality(active(u) \ awaited(u)) \in Nat
          BY AttemptSets DEF active
        <5>2. CASE worker[u] = "waiting"
          <6>1. attempt(u) \in Attempts /\ awaited(u) = {attempt(u)}
            BY <5>2, <1>attempts, LifecycleAssumption DEF CallsInv, attempt,
               Attempts, awaited
          <6>2. Cardinality(active(u)) <= Cardinality(active(u) \ awaited(u)) + 1
            BY <6>1, AttemptSets DEF active
          <6> QED BY <5>1, <5>2, <6>2, <2>1, <1>breaks, LifecycleAssumption
             DEF Launches
        <5>3. CASE worker[u] # "waiting"
          <6>1. active(u) \ awaited(u) = active(u)
            BY <5>3 DEF awaited
          <6> QED BY <5>1, <6>1, <2>1, <1>breaks, LifecycleAssumption
             DEF Launches
        <5> QED BY <5>2, <5>3
      <4>4. active(u)' \ awaited(u)' = active(u)
        BY <4>1, <4>2
      <4> QED BY <2>1, <2>2, <3>1, <4>1, <4>2, <4>3, <4>4 DEF Launches
    <3> QED BY <1>16, <2>4, <3>2, <3>3 DEF DeleteSandbox
  <2> QED BY <2>3, <2>4
<1>17. ASSUME NEW c \in Stoppers, StopFailed(c)
      PROVE  LaunchInv'
  <2> SUFFICES ASSUME NEW u \in Tasks
               PROVE  Launches(u)'
    BY DEF LaunchInv
  <2>1. Launches(u)
    BY DEF LaunchInv
  <2>2. breaks' = breaks
    BY <1>17 DEF StopFailed, failTask, Put, StoreError, Returned, NoCall, db,
       registration, process
  <2>3. CASE u # stop[c].task
    <3>1. /\ state'[u] = state[u] /\ reg'[u] = reg[u] /\ worker'[u] = worker[u]
          /\ attempts'[u] = attempts[u] /\ launched'[u] = launched[u]
      BY <1>17, <2>3, <1>state, <1>reg, <1>worker, <1>attempts, <1>launched
         DEF StopFailed, failTask, Put, StoreError, Returned, NoCall, db,
         registration, process
    <3>2. /\ active(u)' \ awaited(u)' = active(u) \ awaited(u)
          /\ starting(u)' = starting(u)
      BY <3>1 DEF active, awaited, attempt, starting
    <3>3. breaks' \in Nat /\ breaks <= breaks'
      BY <2>2, <1>breaks, LifecycleAssumption
    <3> QED BY <2>1, <3>1, <3>2, <3>3, LaunchFrame DEF Launches
  <2>4. CASE u = stop[c].task
    <3>1. /\ launched'[u] = launched[u]
          /\ state'[u] = "Scheduled" => launched[u] = 0
      BY <1>17, <2>1, <2>4, <1>state DEF StopFailed, failTask, Put,
         StoreError, Returned, NoCall, db, registration, process, Launches,
         CallsInv
    <3>2. active(u)' \ awaited(u)' \subseteq active(u) \ awaited(u)
      BY <1>17, <2>4, <1>reg, <1>worker, <1>attempts DEF StopFailed, failTask,
         Put, StoreError, Returned, NoCall, db, registration, process, active,
         awaited, attempt, CallsInv
    <3>3. \/ worker[u] = "off" => worker'[u] = "off"
          \/ active(u) \ awaited(u) = {}
      BY <1>17, <2>4, <1>worker DEF StopFailed, failTask, Put, StoreError,
         Returned, NoCall, db, registration, process, active, CallsInv
    <3>4. starting(u)' \subseteq starting(u)
      BY <1>17, <2>4, <1>reg DEF StopFailed, failTask, Put, StoreError,
         Returned, NoCall, db, registration, process, starting
    <3> QED BY <2>1, <2>2, <3>1, <3>2, <3>3, <3>4, <1>breaks,
       LifecycleAssumption, LaunchFrame
  <2> QED BY <2>3, <2>4
<1>18. ASSUME NEW c \in Stoppers, StopCompleted(c)
      PROVE  LaunchInv'
  <2> SUFFICES ASSUME NEW u \in Tasks
               PROVE  Launches(u)'
    BY DEF LaunchInv
  <2>1. Launches(u)
    BY DEF LaunchInv
  <2>2. breaks' = breaks
    BY <1>18 DEF StopCompleted, Put, StoreError, Returned, NoCall, process
  <2>3. CASE u # stop[c].task
    <3>1. /\ state'[u] = state[u] /\ reg'[u] = reg[u] /\ worker'[u] = worker[u]
          /\ attempts'[u] = attempts[u] /\ launched'[u] = launched[u]
      BY <1>18, <2>3, <1>state, <1>reg, <1>worker, <1>attempts, <1>launched
         DEF StopCompleted, Put, StoreError, Returned, NoCall, process
    <3>2. /\ active(u)' \ awaited(u)' = active(u) \ awaited(u)
          /\ starting(u)' = starting(u)
      BY <3>1 DEF active, awaited, attempt, starting
    <3>3. breaks' \in Nat /\ breaks <= breaks'
      BY <2>2, <1>breaks, LifecycleAssumption
    <3> QED BY <2>1, <3>1, <3>2, <3>3, LaunchFrame DEF Launches
  <2>4. CASE u = stop[c].task
    <3>1. /\ launched'[u] = launched[u]
          /\ state'[u] = "Scheduled" => launched[u] = 0
      BY <1>18, <2>1, <2>4, <1>state DEF StopCompleted, Put, StoreError,
         Returned, NoCall, process, Launches, CallsInv
    <3>2. active(u)' \ awaited(u)' \subseteq active(u) \ awaited(u)
      BY <1>18, <2>4, <1>reg, <1>worker, <1>attempts DEF StopCompleted, Put,
         StoreError, Returned, NoCall, process, active, awaited, attempt,
         CallsInv
    <3>3. \/ worker[u] = "off" => worker'[u] = "off"
          \/ active(u) \ awaited(u) = {}
      BY <1>18, <2>4, <1>worker DEF StopCompleted, Put, StoreError, Returned,
         NoCall, process, active, CallsInv
    <3>4. starting(u)' \subseteq starting(u)
      BY <1>18, <2>4, <1>reg DEF StopCompleted, Put, StoreError, Returned,
         NoCall, process, starting
    <3> QED BY <2>1, <2>2, <3>1, <3>2, <3>3, <3>4, <1>breaks,
       LifecycleAssumption, LaunchFrame
  <2> QED BY <2>3, <2>4
<1>19. CASE Crash
  <2> SUFFICES ASSUME NEW u \in Tasks
               PROVE  Launches(u)'
    BY DEF LaunchInv
  <2>1. Launches(u)
    BY DEF LaunchInv
  <2>2. UNCHANGED <<state, breaks, launched>>
    BY <1>19 DEF Crash, db
  <2>3. active(u)' = {} /\ starting(u)' = {}
    BY <1>19 DEF Crash, active, starting
  <2>4. active(u)' \ awaited(u)' = {}
    BY <2>3
  <2>5. Cardinality(starting(u)) \in Nat
    BY AttemptSets DEF starting
  <2> QED BY <2>1, <2>2, <2>3, <2>4, <2>5, <1>breaks, <1>launched,
     LifecycleAssumption, FS_EmptySet DEF Launches
<1>20. CASE \/ \E t \in Tasks, a \in Attempts :
               \/ ExecuteReturns(t, a) \/ ReadForUpdate(t, a)
  <2>1. UNCHANGED <<state, worker, attempts, reg, breaks, launched>>
    BY <1>20 DEF ExecuteReturns, ReadForUpdate, db, registration, process
  <2> QED BY <2>1 DEF LaunchInv, Launches, active, awaited, attempt, starting
<1>21. CASE UpdateTasks
  BY <1>21 DEF UpdateTasks, db, registration, process, LaunchInv, Launches,
     active, awaited, attempt, starting
<1>22. CASE Restart
  BY <1>22 DEF Restart, db, registration, LaunchInv, Launches, active,
     awaited, attempt, starting
<1>23. CASE UNCHANGED vars
  BY <1>23 DEF vars, LaunchInv, Launches, active, awaited, attempt, starting
<1>24. ASSUME NEW t \in Tasks, TaskStep(t)
      PROVE  LaunchInv'
  BY <1>24, <1>2, <1>3, <1>4, <1>5, <1>6, <1>7, <1>8, <1>9, <1>10, <1>11,
     <1>12, <1>13, <1>20 DEF TaskStep, CreateStep, HandlerStep, ExecuteStep
<1>25. ASSUME NEW c \in Stoppers, StopStep(c)
      PROVE  LaunchInv'
  BY <1>25, <1>15, <1>16, <1>17, <1>18, <1>20 DEF StopStep
<1> QED
  BY <1>1, <1>14, <1>19, <1>20, <1>21, <1>22, <1>23, <1>24, <1>25 DEF Next

\* A step that leaves a task, its handlers, its worker and its container alone
\* keeps its handler alone.
LEMMA SingleFrame ==
  ASSUME NEW u \in Tasks, Single(u),
         state'[u] = state[u], reg'[u] = reg[u], worker'[u] = worker[u],
         attempts'[u] = attempts[u], launched'[u] = launched[u],
         u \in live => u \in live', removing(u)' \subseteq removing(u)
  PROVE  Single(u)'
  BY DEF Single, active, awaited, attempt

\* A writer that comes after the start of the command writes no active state.
LEMMA LateWriter ==
  ASSUME NEW u \in Tasks, Single(u), launched[u] # 0,
         state'[u] \in {state[u], "Stopping", "Completed", "Failed"},
         UNCHANGED <<reg, worker, attempts, launched, live>>,
         removing(u)' \subseteq removing(u) \/ state'[u] = "Stopping"
  PROVE  Single(u)'
  BY DEF Single, active, awaited, attempt

\* Without broken connections a task has one handler and one writer.
LEMMA SingleStep ==
  IInv /\ [Next]_vars => SingleInv'
<1> SUFFICES ASSUME IInv, [Next]_vars
             PROVE  SingleInv'
  OBVIOUS
<1> USE DEF IInv
<1>state. state \in [Tasks -> StateOrNone]
  BY DEF TypeOK
<1>live. live \in SUBSET Tasks
  BY DEF TypeOK
<1>worker. worker \in [Tasks -> WorkerPC]
  BY DEF TypeOK
<1>attempts. attempts \in [Tasks -> 0..maxRetries]
  BY DEF TypeOK
<1>reg. reg \in [Tasks -> [Attempts -> HandlerPC]]
  BY DEF TypeOK
<1>breaks. breaks \in 0..MaxFaults
  BY DEF TypeOK
<1>launched. launched \in [Tasks -> Nat]
  BY DEF TypeOK
<1>stop. stop \in [Stoppers -> StopCall]
  BY DEF TypeOK
<1>health. health \in [Tasks -> 0..MaxChecks]
  BY DEF TypeOK
<1>copy. copy \in [Tasks -> [Attempts -> StateOrNone]]
  BY DEF TypeOK
<1>1. ASSUME NEW t \in Tasks, NEW s \in State, CreateContainer(t, s)
      PROVE  SingleInv'
  <2> SUFFICES ASSUME breaks = 0, NEW u \in Tasks
               PROVE  Single(u)'
    BY <1>1 DEF CreateContainer, Put, StoreError, db, registration, process,
       SingleInv
  <2>1. Single(u)
    BY DEF SingleInv
  <2>2. CASE u # t
    <3>1. /\ state'[u] = state[u] /\ reg'[u] = reg[u] /\ worker'[u] = worker[u]
          /\ attempts'[u] = attempts[u] /\ launched'[u] = launched[u]
          /\ u \in live => u \in live'
      BY <1>1, <2>2, <1>state, <1>worker, <1>attempts, <1>reg, <1>launched,
         <1>stop DEF CreateContainer, Put, StoreError, db, registration,
         process
    <3>2. removing(u)' \subseteq removing(u)
      BY <1>1, <2>2, <1>stop DEF CreateContainer, removing
    <3> QED BY <2>1, <3>1, <3>2, SingleFrame
  <2>3. CASE u = t
    BY <1>1, <2>1, <2>3, <1>state, <1>live, <1>worker, <1>attempts, <1>reg,
       <1>breaks, <1>launched, <1>stop, <1>health, <1>copy
       DEF CreateContainer, Put, StoreError, db, registration, process,
       Single, active, awaited, removing, CreationInv, UnlaunchedInv, removing
  <2> QED BY <2>2, <2>3
<1>2. ASSUME NEW t \in Tasks, CreateSandbox(t)
      PROVE  SingleInv'
  <2> SUFFICES ASSUME breaks = 0, NEW u \in Tasks
               PROVE  Single(u)'
    BY <1>2 DEF CreateSandbox, SandboxCreated, failTask, Put, StoreError, db,
       process, SingleInv
  <2>1. Single(u)
    BY DEF SingleInv
  <2>2. CASE u # t
    <3>1. /\ state'[u] = state[u] /\ reg'[u] = reg[u] /\ worker'[u] = worker[u]
          /\ attempts'[u] = attempts[u] /\ launched'[u] = launched[u]
          /\ u \in live => u \in live'
      BY <1>2, <2>2, <1>state, <1>worker, <1>attempts, <1>reg, <1>launched,
         <1>stop DEF CreateSandbox, SandboxCreated, failTask, Put, StoreError,
         db, process
    <3>2. removing(u)' \subseteq removing(u)
      BY <1>2, <2>2, <1>stop DEF CreateSandbox, removing
    <3> QED BY <2>1, <3>1, <3>2, SingleFrame
  <2>3. CASE u = t
    BY <1>2, <2>1, <2>3, <1>state, <1>live, <1>worker, <1>attempts, <1>reg,
       <1>breaks, <1>launched, <1>stop, <1>health, <1>copy DEF CreateSandbox,
       SandboxCreated, failTask, Put, StoreError, db, process, Single, active,
       awaited, removing, CreationInv, UnlaunchedInv, removing
  <2> QED BY <2>2, <2>3
<1>3. ASSUME NEW t \in Tasks, StoreScheduled(t)
      PROVE  SingleInv'
  <2> SUFFICES ASSUME breaks = 0, NEW u \in Tasks
               PROVE  Single(u)'
    BY <1>3 DEF StoreScheduled, StoreError, sandboxIDs, registration, process,
       SingleInv
  <2>1. Single(u)
    BY DEF SingleInv
  <2>2. CASE u # t
    <3>1. /\ state'[u] = state[u] /\ reg'[u] = reg[u] /\ worker'[u] = worker[u]
          /\ attempts'[u] = attempts[u] /\ launched'[u] = launched[u]
          /\ u \in live => u \in live'
      BY <1>3, <2>2, <1>state, <1>worker, <1>attempts, <1>reg, <1>launched,
         <1>stop DEF StoreScheduled, StoreError, sandboxIDs, registration,
         process
    <3>2. removing(u)' \subseteq removing(u)
      BY <1>3, <2>2, <1>stop DEF StoreScheduled, removing
    <3> QED BY <2>1, <3>1, <3>2, SingleFrame
  <2>3. CASE u = t
    <3>1. /\ launched[t] = 0 /\ t \in live
          /\ \A b \in Attempts : reg[t][b] \in {"idle", "called", "ok", "error"}
      BY <1>3 DEF StoreScheduled, CreationInv
    <3>2. removing(t)' = {}
      BY <1>3, <3>1 DEF StoreScheduled, removing, UnlaunchedInv
    <3>3. /\ UNCHANGED <<reg, worker, attempts, launched, live>>
          /\ state'[t] \in {state[t], "Scheduled"}
      BY <1>3, <1>state DEF StoreScheduled, StoreError, registration
    <3> QED BY <2>1, <2>3, <3>1, <3>2, <3>3 DEF Single, active, awaited,
       attempt
  <2> QED BY <2>2, <2>3
<1>4. ASSUME NEW t \in Tasks, CallRegister(t)
      PROVE  SingleInv'
  <2> SUFFICES ASSUME breaks = 0, NEW u \in Tasks
               PROVE  Single(u)'
    BY <1>4 DEF CallRegister, attempt, Retry, db, process, SingleInv
  <2>1. Single(u)
    BY DEF SingleInv
  <2>2. CASE u # t
    <3>1. /\ state'[u] = state[u] /\ reg'[u] = reg[u] /\ worker'[u] = worker[u]
          /\ attempts'[u] = attempts[u] /\ launched'[u] = launched[u]
          /\ u \in live => u \in live'
      BY <1>4, <2>2, <1>state, <1>worker, <1>attempts, <1>reg, <1>launched,
         <1>stop DEF CallRegister, attempt, Retry, db, process
    <3>2. removing(u)' \subseteq removing(u)
      BY <1>4, <2>2, <1>stop DEF CallRegister, removing
    <3> QED BY <2>1, <3>1, <3>2, SingleFrame
  <2>3. CASE u = t
    BY <1>4, <2>1, <2>3, <1>state, <1>live, <1>worker, <1>attempts, <1>reg,
       <1>breaks, <1>launched, <1>stop, <1>health, <1>copy,
       LifecycleAssumption DEF CallRegister, attempt, Retry, db, process,
       Single, active, awaited, removing, CallsInv, Attempts
  <2> QED BY <2>2, <2>3
<1>5. ASSUME NEW t \in Tasks, ConnectionBreaks(t)
      PROVE  SingleInv'
  BY <1>5, <1>breaks DEF ConnectionBreaks, SingleInv
<1>6. ASSUME NEW t \in Tasks, NEW a \in Attempts, NEW h \in BOOLEAN,
            FindTask(t, a, h)
      PROVE  SingleInv'
  <2> SUFFICES ASSUME breaks = 0, NEW u \in Tasks
               PROVE  Single(u)'
    BY <1>6 DEF FindTask, StoreError, db, process, SingleInv
  <2>1. Single(u)
    BY DEF SingleInv
  <2>2. CASE u # t
    <3>1. /\ state'[u] = state[u] /\ reg'[u] = reg[u] /\ worker'[u] = worker[u]
          /\ attempts'[u] = attempts[u] /\ launched'[u] = launched[u]
          /\ u \in live => u \in live'
      BY <1>6, <2>2, <1>state, <1>worker, <1>attempts, <1>reg, <1>launched,
         <1>stop DEF FindTask, StoreError, db, process
    <3>2. removing(u)' \subseteq removing(u)
      BY <1>6, <2>2, <1>stop DEF FindTask, removing
    <3> QED BY <2>1, <3>1, <3>2, SingleFrame
  <2>3. CASE u = t
    <3>1. PICK p \in {"ok", "healthy", "unhealthy", "error"} :
            /\ reg' = [reg EXCEPT ![t][a] = p]
            /\ p \in {"healthy", "unhealthy"} =>
                 \E v \in Tasks : cid[v] = t /\ state[v] = "Scheduled"
      BY <1>6 DEF FindTask
    <3>2. p \in {"healthy", "unhealthy"} => state[t] = "Scheduled"
      BY <3>1, LifecycleAssumption DEF CreationInv
    <3>3. a \in active(t)
      BY <1>6 DEF FindTask, active
    <3>4. \A b \in Attempts \ {a} : reg[t][b] \in {"idle", "ok", "error"}
      BY <2>1, <2>3, <3>3, <1>reg DEF Single, active, HandlerPC
    <3>5. \A b \in Attempts : reg'[t][b] = IF b = a THEN p ELSE reg[t][b]
      BY <3>1, <1>reg, Updated DEF HandlerPC
    <3>6. UNCHANGED <<state, live, worker, attempts, launched, stop>>
      BY <1>6 DEF FindTask, StoreError, db, process
    <3>7. removing(t)' = removing(t)
      BY <3>6 DEF removing
    <3> QED BY <2>1, <2>3, <3>1, <3>2, <3>3, <3>4, <3>5, <3>6, <3>7
       DEF Single, active, awaited, attempt
  <2> QED BY <2>2, <2>3
<1>7. ASSUME NEW t \in Tasks, NEW a \in Attempts, RejectWorker(t, a)
      PROVE  SingleInv'
  <2> SUFFICES ASSUME breaks = 0, NEW u \in Tasks
               PROVE  Single(u)'
    BY <1>7 DEF RejectWorker, failTask, Put, StoreError, db, process,
       SingleInv
  <2>1. Single(u)
    BY DEF SingleInv
  <2>2. CASE u # t
    <3>1. /\ state'[u] = state[u] /\ reg'[u] = reg[u] /\ worker'[u] = worker[u]
          /\ attempts'[u] = attempts[u] /\ launched'[u] = launched[u]
          /\ u \in live => u \in live'
      BY <1>7, <2>2, <1>state, <1>worker, <1>attempts, <1>reg, <1>launched,
         <1>stop DEF RejectWorker, failTask, Put, StoreError, db, process
    <3>2. removing(u)' \subseteq removing(u)
      BY <1>7, <2>2, <1>stop DEF RejectWorker, removing
    <3> QED BY <2>1, <3>1, <3>2, SingleFrame
  <2>3. CASE u = t
    <3>1. PICK p \in HandlerPC : p = "error" /\ reg' = [reg EXCEPT ![t][a] = p]
      BY <1>7 DEF RejectWorker, HandlerPC
    <3>3. a \in active(t)
      BY <1>7 DEF RejectWorker, active
    <3>4. \A b \in Attempts \ {a} : reg[t][b] \in {"idle", "ok", "error"}
      BY <2>1, <2>3, <3>3, <1>reg DEF Single, active, HandlerPC
    <3>5. \A b \in Attempts : reg'[t][b] = IF b = a THEN p ELSE reg[t][b]
      BY <3>1, <1>reg, Updated DEF HandlerPC
    <3>6. /\ UNCHANGED <<live, worker, attempts, launched, stop>>
          /\ state'[t] \in {state[t], "Failed"}
      BY <1>7, <1>state DEF RejectWorker, failTask, Put, StoreError, db,
         process
    <3>7. removing(t)' = removing(t)
      BY <3>6 DEF removing
    <3> QED BY <2>1, <2>3, <3>1, <3>3, <3>4, <3>5, <3>6, <3>7 DEF Single,
       active, awaited, attempt
  <2> QED BY <2>2, <2>3
<1>8. ASSUME NEW t \in Tasks, NEW a \in Attempts, StoreStarting(t, a)
      PROVE  SingleInv'
  <2> SUFFICES ASSUME breaks = 0, NEW u \in Tasks
               PROVE  Single(u)'
    BY <1>8 DEF StoreStarting, Put, StoreError, process, SingleInv
  <2>1. Single(u)
    BY DEF SingleInv
  <2>2. CASE u # t
    <3>1. /\ state'[u] = state[u] /\ reg'[u] = reg[u] /\ worker'[u] = worker[u]
          /\ attempts'[u] = attempts[u] /\ launched'[u] = launched[u]
          /\ u \in live => u \in live'
      BY <1>8, <2>2, <1>state, <1>worker, <1>attempts, <1>reg, <1>launched,
         <1>stop DEF StoreStarting, Put, StoreError, process
    <3>2. removing(u)' \subseteq removing(u)
      BY <1>8, <2>2, <1>stop DEF StoreStarting, removing
    <3> QED BY <2>1, <3>1, <3>2, SingleFrame
  <2>3. CASE u = t
    <3>1. PICK p \in HandlerPC : p = "starting" /\ reg' = [reg EXCEPT ![t][a] = p]
      BY <1>8 DEF StoreStarting, HandlerPC
    <3>2. state[t] = "Scheduled"
      BY <1>8, <2>1, <2>3 DEF StoreStarting, Single
    <3>3. a \in active(t)
      BY <1>8 DEF StoreStarting, active
    <3>4. \A b \in Attempts \ {a} : reg[t][b] \in {"idle", "ok", "error"}
      BY <2>1, <2>3, <3>3, <1>reg DEF Single, active, HandlerPC
    <3>5. \A b \in Attempts : reg'[t][b] = IF b = a THEN p ELSE reg[t][b]
      BY <3>1, <1>reg, Updated DEF HandlerPC
    <3>6. /\ UNCHANGED <<live, worker, attempts, launched, stop>>
          /\ state'[t] \in {state[t], "Starting"}
      BY <1>8, <1>state DEF StoreStarting, Put, StoreError, process
    <3>7. removing(t)' = removing(t)
      BY <3>6 DEF removing
    <3> QED BY <2>1, <2>3, <3>1, <3>2, <3>3, <3>4, <3>5, <3>6, <3>7
       DEF Single, active, awaited, attempt
  <2> QED BY <2>2, <2>3
<1>9. ASSUME NEW t \in Tasks, NEW a \in Attempts, StartTask(t, a)
      PROVE  SingleInv'
  <2> SUFFICES ASSUME breaks = 0, NEW u \in Tasks
               PROVE  Single(u)'
    BY <1>9 DEF StartTask, Put, StoreError, process, SingleInv
  <2>1. Single(u)
    BY DEF SingleInv
  <2>2. CASE u # t
    <3>1. /\ state'[u] = state[u] /\ reg'[u] = reg[u] /\ worker'[u] = worker[u]
          /\ attempts'[u] = attempts[u] /\ launched'[u] = launched[u]
          /\ u \in live => u \in live'
      BY <1>9, <2>2, <1>state, <1>worker, <1>attempts, <1>reg, <1>launched,
         <1>stop DEF StartTask, Put, StoreError, process
    <3>2. removing(u)' \subseteq removing(u)
      BY <1>9, <2>2, <1>stop DEF StartTask, removing
    <3> QED BY <2>1, <3>1, <3>2, SingleFrame
  <2>3. CASE u = t
    <3>1. PICK p \in HandlerPC : p \in {"ok", "error"} /\ reg' = [reg EXCEPT ![t][a] = p]
      BY <1>9 DEF StartTask, HandlerPC
    <3>2. state[t] \in {"Scheduled", "Starting"}
      BY <1>9, <2>1, <2>3 DEF StartTask, Single
    <3>3. a \in active(t)
      BY <1>9 DEF StartTask, active
    <3>4. \A b \in Attempts \ {a} : reg[t][b] \in {"idle", "ok", "error"}
      BY <2>1, <2>3, <3>3, <1>reg DEF Single, active, HandlerPC
    <3>5. \A b \in Attempts : reg'[t][b] = IF b = a THEN p ELSE reg[t][b]
      BY <3>1, <1>reg, Updated DEF HandlerPC
    <3>6. /\ UNCHANGED <<live, worker, attempts, stop>>
          /\ \/ state'[t] = "Running"
             \/ state'[t] = state[t] /\ launched'[t] = launched[t]
      BY <1>9, <1>state, <1>launched DEF StartTask, Put, StoreError, process
    <3>7. removing(t)' = removing(t)
      BY <3>6 DEF removing
    <3> QED BY <2>1, <2>3, <3>1, <3>2, <3>3, <3>4, <3>5, <3>6, <3>7
       DEF Single, active, awaited, attempt
  <2> QED BY <2>2, <2>3
<1>10. ASSUME NEW t \in Tasks, NEW a \in Attempts, Reply(t, a)
      PROVE  SingleInv'
  <2> SUFFICES ASSUME breaks = 0, NEW u \in Tasks
               PROVE  Single(u)'
    BY <1>10 DEF Reply, attempt, Retry, db, process, SingleInv
  <2>1. Single(u)
    BY DEF SingleInv
  <2>2. CASE u # t
    <3>1. /\ state'[u] = state[u] /\ reg'[u] = reg[u] /\ worker'[u] = worker[u]
          /\ attempts'[u] = attempts[u] /\ launched'[u] = launched[u]
          /\ u \in live => u \in live'
      BY <1>10, <2>2, <1>state, <1>worker, <1>attempts, <1>reg, <1>launched,
         <1>stop DEF Reply, attempt, Retry, db, process
    <3>2. removing(u)' \subseteq removing(u)
      BY <1>10, <2>2, <1>stop DEF Reply, removing
    <3> QED BY <2>1, <3>1, <3>2, SingleFrame
  <2>3. CASE u = t
    BY <1>10, <2>1, <2>3, <1>state, <1>live, <1>worker, <1>attempts, <1>reg,
       <1>breaks, <1>launched, <1>stop, <1>health, <1>copy DEF Reply, attempt,
       Retry, db, process, Single, active, awaited, removing
  <2> QED BY <2>2, <2>3
<1>11. ASSUME NEW t \in Tasks, NEW a \in Attempts, ExecuteError(t, a)
      PROVE  SingleInv'
  <2> SUFFICES ASSUME breaks = 0, NEW u \in Tasks
               PROVE  Single(u)'
    BY <1>11 DEF ExecuteError, failTask, Put, StoreError, db, registration,
       process, SingleInv
  <2>1. Single(u)
    BY DEF SingleInv
  <2>2. CASE u # t
    <3>1. /\ state'[u] = state[u] /\ reg'[u] = reg[u] /\ worker'[u] = worker[u]
          /\ attempts'[u] = attempts[u] /\ launched'[u] = launched[u]
          /\ u \in live => u \in live'
      BY <1>11, <2>2, <1>state, <1>worker, <1>attempts, <1>reg, <1>launched,
         <1>stop DEF ExecuteError, failTask, Put, StoreError, db,
         registration, process
    <3>2. removing(u)' \subseteq removing(u)
      BY <1>11, <2>2, <1>stop DEF ExecuteError, removing
    <3> QED BY <2>1, <3>1, <3>2, SingleFrame
  <2>3. CASE u = t
    <3>1. launched[u] # 0
      BY <1>11, <2>3 DEF ExecuteError, UnlaunchedInv
    <3>2. /\ state'[u] \in {state[u], "Completed", "Failed"}
          /\ UNCHANGED <<reg, worker, attempts, launched, live>>
      BY <1>11, <2>3, <1>state DEF ExecuteError, failTask, Put, StoreError,
         db, registration, process
    <3>3. removing(u)' \subseteq removing(u)
      BY <1>11, <1>stop DEF ExecuteError, failTask, Put, StoreError, db,
         registration, process, removing
    <3> QED BY <2>1, <3>1, <3>2, <3>3, LateWriter
  <2> QED BY <2>2, <2>3
<1>12. ASSUME NEW t \in Tasks, NEW a \in Attempts, WriteUpdate(t, a)
      PROVE  SingleInv'
  <2> SUFFICES ASSUME breaks = 0, NEW u \in Tasks
               PROVE  Single(u)'
    BY <1>12 DEF WriteUpdate, Put, StoreError, registration, process,
       SingleInv
  <2>1. Single(u)
    BY DEF SingleInv
  <2>2. CASE u # t
    <3>1. /\ state'[u] = state[u] /\ reg'[u] = reg[u] /\ worker'[u] = worker[u]
          /\ attempts'[u] = attempts[u] /\ launched'[u] = launched[u]
          /\ u \in live => u \in live'
      BY <1>12, <2>2, <1>state, <1>worker, <1>attempts, <1>reg, <1>launched,
         <1>stop DEF WriteUpdate, Put, StoreError, registration, process
    <3>2. removing(u)' \subseteq removing(u)
      BY <1>12, <2>2, <1>stop DEF WriteUpdate, removing
    <3> QED BY <2>1, <3>1, <3>2, SingleFrame
  <2>3. CASE u = t
    <3>1. launched[u] # 0
      BY <1>12, <2>3 DEF WriteUpdate, UnlaunchedInv
    <3>2. /\ state'[u] \in {state[u], "Completed", "Failed"}
          /\ UNCHANGED <<reg, worker, attempts, launched, live>>
      BY <1>12, <2>3, <1>state DEF WriteUpdate, Put, StoreError, registration,
         process, CopyInv
    <3>3. removing(u)' \subseteq removing(u)
      BY <1>12, <1>stop DEF WriteUpdate, Put, StoreError, registration,
         process, removing
    <3> QED BY <2>1, <3>1, <3>2, <3>3, LateWriter
  <2> QED BY <2>2, <2>3
<1>13. ASSUME NEW t \in Tasks, CheckTaskHealth(t)
      PROVE  SingleInv'
  <2> SUFFICES ASSUME breaks = 0, NEW u \in Tasks
               PROVE  Single(u)'
    BY <1>13 DEF CheckTaskHealth, failTask, Put, StoreError, db, registration,
       process, SingleInv
  <2>1. Single(u)
    BY DEF SingleInv
  <2>2. CASE u # t
    <3>1. /\ state'[u] = state[u] /\ reg'[u] = reg[u] /\ worker'[u] = worker[u]
          /\ attempts'[u] = attempts[u] /\ launched'[u] = launched[u]
          /\ u \in live => u \in live'
      BY <1>13, <2>2, <1>state, <1>worker, <1>attempts, <1>reg, <1>launched,
         <1>stop DEF CheckTaskHealth, failTask, Put, StoreError, db,
         registration, process
    <3>2. removing(u)' \subseteq removing(u)
      BY <1>13, <2>2, <1>stop DEF CheckTaskHealth, removing
    <3> QED BY <2>1, <3>1, <3>2, SingleFrame
  <2>3. CASE u = t
    <3>1. launched[u] # 0
      BY <1>13, <2>3, <1>health DEF CheckTaskHealth, UnlaunchedInv
    <3>2. /\ state'[u] \in {state[u], "Completed", "Failed"}
          /\ UNCHANGED <<reg, worker, attempts, launched, live>>
      BY <1>13, <2>3, <1>state DEF CheckTaskHealth, failTask, Put, StoreError,
         db, registration, process
    <3>3. removing(u)' \subseteq removing(u)
      BY <1>13, <1>stop DEF CheckTaskHealth, failTask, Put, StoreError, db,
         registration, process, removing
    <3> QED BY <2>1, <3>1, <3>2, <3>3, LateWriter
  <2> QED BY <2>2, <2>3
<1>14. ASSUME NEW c \in Stoppers, NEW t \in Tasks, ReadForStop(c, t)
      PROVE  SingleInv'
  <2> SUFFICES ASSUME breaks = 0, NEW u \in Tasks
               PROVE  Single(u)'
    BY <1>14 DEF ReadForStop, registration, SingleInv
  <2>1. Single(u)
    BY DEF SingleInv
  <2>2. UNCHANGED <<state, live, worker, attempts, reg, launched>>
    BY <1>14 DEF ReadForStop, db, registration
  <2>3. removing(u)' \subseteq removing(u)
    BY <1>14, <1>stop DEF ReadForStop, removing
  <2> QED BY <2>1, <2>2, <2>3, SingleFrame
<1>15. ASSUME NEW c \in Stoppers, StopTask(c)
      PROVE  SingleInv'
  <2> SUFFICES ASSUME breaks = 0, NEW u \in Tasks
               PROVE  Single(u)'
    BY <1>15 DEF StopTask, Put, StoreError, Returned, NoCall, db,
       registration, process, SingleInv
  <2>1. Single(u)
    BY DEF SingleInv
  <2>2. CASE u # stop[c].task
    <3>1. /\ state'[u] = state[u] /\ reg'[u] = reg[u] /\ worker'[u] = worker[u]
          /\ attempts'[u] = attempts[u] /\ launched'[u] = launched[u]
          /\ u \in live => u \in live'
      BY <1>15, <2>2, <1>state, <1>worker, <1>attempts, <1>reg, <1>launched,
         <1>stop DEF StopTask, Put, StoreError, Returned, NoCall, db,
         registration, process
    <3>2. removing(u)' \subseteq removing(u)
      BY <1>15, <2>2, <1>stop DEF StopTask, Put, StoreError, Returned, NoCall,
         db, registration, process, removing, StopCall
    <3> QED BY <2>1, <3>1, <3>2, SingleFrame
  <2>3. CASE u = stop[c].task
    <3>1. UNCHANGED <<reg, worker, attempts, launched, live>>
      BY <1>15 DEF StopTask, registration
    <3>2. CASE ValidStateTransition(stop[c].copy, "Stopping") /\ state'[u] = "Stopping"
      <4>1. launched[u] # 0
        BY <1>15, <2>3, <3>2 DEF StopTask, UnlaunchedInv, CallsInv,
           ValidStateTransition, stateTransitionMap, State
      <4> QED BY <2>1, <3>1, <3>2, <4>1, LateWriter
    <3>3. CASE state'[u] = state[u] /\ stop' = [stop EXCEPT ![c] = Returned]
      <4>1. removing(u)' \subseteq removing(u)
        BY <3>3, <1>stop DEF removing, Returned, NoCall
      <4> QED BY <2>1, <3>1, <3>3, <4>1, SingleFrame
    <3> QED BY <1>15, <2>3, <3>2, <3>3, <1>state DEF StopTask, Put,
       StoreError, db
  <2> QED BY <2>2, <2>3
<1>16. ASSUME NEW c \in Stoppers, DeleteSandbox(c)
      PROVE  SingleInv'
  <2> SUFFICES ASSUME breaks = 0, NEW u \in Tasks
               PROVE  Single(u)'
    BY <1>16 DEF DeleteSandbox, SingleInv
  <2>1. Single(u)
    BY DEF SingleInv
  <2>2. PICK t \in Tasks : t = stop[c].task /\ cid[t] \in {NoID, t}
    BY <1>16 DEF DeleteSandbox, CallsInv, CreationInv
  <2>3. /\ UNCHANGED <<state, reg, launched>>
        /\ removing(u)' \subseteq removing(u)
    BY <1>16, <1>stop DEF DeleteSandbox, db, removing, StopCall
  <2>4. CASE SandboxDeleted(cid[t])
    <3>1. /\ live' = live \ {t}
          /\ worker' = [worker EXCEPT ![t] = "off"]
          /\ attempts' = [attempts EXCEPT ![t] = 0]
      BY <2>2, <2>4, <1>live, LifecycleAssumption DEF SandboxDeleted
    <3>2. CASE u # t
      BY <2>1, <2>3, <3>1, <3>2, <1>worker, <1>attempts, SingleFrame
    <3>3. CASE u = t
      <4>1. c \in removing(t)
        BY <1>16, <2>2 DEF DeleteSandbox, removing
      <4>2. worker'[t] = "off"
        BY <3>1, <1>worker
      <4> QED BY <2>1, <2>3, <3>3, <4>1, <4>2 DEF Single, active
    <3> QED BY <3>2, <3>3
  <2>5. CASE UNCHANGED <<live, worker, attempts>>
    BY <2>1, <2>3, <2>5, SingleFrame
  <2> QED BY <1>16, <2>2, <2>4, <2>5 DEF DeleteSandbox
<1>17. ASSUME NEW c \in Stoppers, StopFailed(c)
      PROVE  SingleInv'
  <2> SUFFICES ASSUME breaks = 0, NEW u \in Tasks
               PROVE  Single(u)'
    BY <1>17 DEF StopFailed, failTask, Put, StoreError, Returned, NoCall, db,
       registration, process, SingleInv
  <2>1. Single(u)
    BY DEF SingleInv
  <2>2. CASE u # stop[c].task
    <3>1. /\ state'[u] = state[u] /\ reg'[u] = reg[u] /\ worker'[u] = worker[u]
          /\ attempts'[u] = attempts[u] /\ launched'[u] = launched[u]
          /\ u \in live => u \in live'
      BY <1>17, <2>2, <1>state, <1>worker, <1>attempts, <1>reg, <1>launched,
         <1>stop DEF StopFailed, failTask, Put, StoreError, Returned, NoCall,
         db, registration, process
    <3>2. removing(u)' \subseteq removing(u)
      BY <1>17, <2>2, <1>stop DEF StopFailed, failTask, Put, StoreError,
         Returned, NoCall, db, registration, process, removing, StopCall
    <3> QED BY <2>1, <3>1, <3>2, SingleFrame
  <2>3. CASE u = stop[c].task
    <3>1. launched[u] # 0
      BY <1>17, <2>3 DEF StopFailed, UnlaunchedInv, CallsInv
    <3>2. /\ state'[u] \in {state[u], "Completed", "Failed"}
          /\ UNCHANGED <<reg, worker, attempts, launched, live>>
      BY <1>17, <2>3, <1>state DEF StopFailed, failTask, Put, StoreError,
         Returned, NoCall, db, registration, process
    <3>3. removing(u)' \subseteq removing(u)
      BY <1>17, <1>stop DEF StopFailed, failTask, Put, StoreError, Returned,
         NoCall, db, registration, process, removing, StopCall
    <3> QED BY <2>1, <3>1, <3>2, <3>3, LateWriter
  <2> QED BY <2>2, <2>3
<1>18. ASSUME NEW c \in Stoppers, StopCompleted(c)
      PROVE  SingleInv'
  <2> SUFFICES ASSUME breaks = 0, NEW u \in Tasks
               PROVE  Single(u)'
    BY <1>18 DEF StopCompleted, Put, StoreError, Returned, NoCall, process,
       SingleInv
  <2>1. Single(u)
    BY DEF SingleInv
  <2>2. CASE u # stop[c].task
    <3>1. /\ state'[u] = state[u] /\ reg'[u] = reg[u] /\ worker'[u] = worker[u]
          /\ attempts'[u] = attempts[u] /\ launched'[u] = launched[u]
          /\ u \in live => u \in live'
      BY <1>18, <2>2, <1>state, <1>worker, <1>attempts, <1>reg, <1>launched,
         <1>stop DEF StopCompleted, Put, StoreError, Returned, NoCall, process
    <3>2. removing(u)' \subseteq removing(u)
      BY <1>18, <2>2, <1>stop DEF StopCompleted, Put, StoreError, Returned,
         NoCall, process, removing, StopCall
    <3> QED BY <2>1, <3>1, <3>2, SingleFrame
  <2>3. CASE u = stop[c].task
    <3>1. launched[u] # 0
      BY <1>18, <2>3 DEF StopCompleted, UnlaunchedInv, CallsInv
    <3>2. /\ state'[u] \in {state[u], "Completed", "Failed"}
          /\ UNCHANGED <<reg, worker, attempts, launched, live>>
      BY <1>18, <2>3, <1>state DEF StopCompleted, Put, StoreError, Returned,
         NoCall, process
    <3>3. removing(u)' \subseteq removing(u)
      BY <1>18, <1>stop DEF StopCompleted, Put, StoreError, Returned, NoCall,
         process, removing, StopCall
    <3> QED BY <2>1, <3>1, <3>2, <3>3, LateWriter
  <2> QED BY <2>2, <2>3
<1>19. CASE Crash
  <2> SUFFICES ASSUME breaks = 0, NEW u \in Tasks
               PROVE  Single(u)'
    BY <1>19 DEF Crash, Returned, NoCall, db, SingleInv
  <2>1. Single(u)
    BY DEF SingleInv
  <2> QED BY <1>19, <2>1, <1>state, <1>live, <1>worker, <1>attempts, <1>reg,
     <1>breaks, <1>launched, <1>stop, <1>health, <1>copy DEF Crash, Returned,
     NoCall, db, Single, active, awaited, removing
<1>20. CASE \/ \E t \in Tasks, a \in Attempts :
               \/ ExecuteReturns(t, a) \/ ReadForUpdate(t, a)
  <2>1. UNCHANGED <<state, live, worker, attempts, reg, breaks, launched, stop>>
    BY <1>20 DEF ExecuteReturns, ReadForUpdate, db, registration, process
  <2> QED BY <2>1 DEF SingleInv, Single, active, awaited, attempt, removing
<1>21. CASE UpdateTasks
  BY <1>21 DEF UpdateTasks, db, registration, process, SingleInv, Single,
     active, awaited, attempt, removing
<1>22. CASE Restart
  BY <1>22 DEF Restart, db, registration, SingleInv, Single, active, awaited,
     attempt, removing
<1>23. CASE UNCHANGED vars
  BY <1>23 DEF vars, SingleInv, Single, active, awaited, attempt, removing
<1>24. ASSUME NEW t \in Tasks, TaskStep(t)
      PROVE  SingleInv'
  BY <1>24, <1>2, <1>3, <1>4, <1>5, <1>6, <1>7, <1>8, <1>9, <1>10, <1>11,
     <1>12, <1>13, <1>20 DEF TaskStep, CreateStep, HandlerStep, ExecuteStep
<1>25. ASSUME NEW c \in Stoppers, StopStep(c)
      PROVE  SingleInv'
  BY <1>25, <1>15, <1>16, <1>17, <1>18, <1>20 DEF StopStep
<1> QED
  BY <1>1, <1>14, <1>19, <1>20, <1>21, <1>22, <1>23, <1>24, <1>25 DEF Next

\* What NoResurrection says of a step.
Quiet ==
  breaks = 0 => \A t \in Tasks :
    state[t] \in {"Stopping", "Completed", "Failed"} =>
      state'[t] \in {"Stopping", "Completed", "Failed"}

\* A step writes no active state over the end of a task.
LEMMA OverStep ==
  IInv /\ [Next]_vars => Quiet
<1> SUFFICES ASSUME IInv, [Next]_vars
             PROVE  Quiet
  OBVIOUS
<1> USE DEF IInv
<1>state. state \in [Tasks -> StateOrNone]
  BY DEF TypeOK
<1>copy. copy \in [Tasks -> [Attempts -> StateOrNone]]
  BY DEF TypeOK
<1>1. ASSUME NEW t \in Tasks, NEW s \in State, CreateContainer(t, s)
      PROVE  Quiet
  BY <1>1, <1>state, <1>copy DEF CreateContainer, Put, StoreError, db,
     registration, process, Quiet, CreationInv
<1>2. ASSUME NEW t \in Tasks, CreateSandbox(t)
      PROVE  Quiet
  BY <1>2, <1>state, <1>copy DEF CreateSandbox, SandboxCreated, failTask, Put,
     StoreError, db, process, Quiet, CreationInv
<1>3. ASSUME NEW t \in Tasks, StoreScheduled(t)
      PROVE  Quiet
  BY <1>3, <1>state, <1>copy DEF StoreScheduled, StoreError, sandboxIDs,
     registration, process, Quiet, CreationInv
<1>4. ASSUME NEW t \in Tasks, NEW a \in Attempts, RejectWorker(t, a)
      PROVE  Quiet
  BY <1>4, <1>state, <1>copy DEF RejectWorker, failTask, Put, StoreError, db,
     process, Quiet
<1>5. ASSUME NEW t \in Tasks, NEW a \in Attempts, StoreStarting(t, a)
      PROVE  Quiet
  BY <1>5, <1>state, <1>copy DEF StoreStarting, Put, StoreError, process,
     Quiet, SingleInv, Single
<1>6. ASSUME NEW t \in Tasks, NEW a \in Attempts, StartTask(t, a)
      PROVE  Quiet
  BY <1>6, <1>state, <1>copy DEF StartTask, Put, StoreError, process, Quiet,
     SingleInv, Single
<1>7. ASSUME NEW t \in Tasks, NEW a \in Attempts, ExecuteError(t, a)
      PROVE  Quiet
  BY <1>7, <1>state, <1>copy DEF ExecuteError, failTask, Put, StoreError, db,
     registration, process, Quiet
<1>8. ASSUME NEW t \in Tasks, NEW a \in Attempts, WriteUpdate(t, a)
      PROVE  Quiet
  BY <1>8, <1>state, <1>copy DEF WriteUpdate, Put, StoreError, registration,
     process, Quiet, CopyInv
<1>9. ASSUME NEW t \in Tasks, CheckTaskHealth(t)
      PROVE  Quiet
  BY <1>9, <1>state, <1>copy DEF CheckTaskHealth, failTask, Put, StoreError,
     db, registration, process, Quiet
<1>10. ASSUME NEW c \in Stoppers, NEW t \in Tasks, ReadForStop(c, t)
      PROVE  Quiet
  <2>1. UNCHANGED <<state>>
    BY <1>10 DEF ReadForStop, db, registration, process
  <2> QED BY <2>1 DEF Quiet
<1>11. ASSUME NEW c \in Stoppers, StopTask(c)
      PROVE  Quiet
  BY <1>11, <1>state, <1>copy DEF StopTask, Put, StoreError, Returned, NoCall,
     db, registration, process, Quiet
<1>12. ASSUME NEW c \in Stoppers, DeleteSandbox(c)
      PROVE  Quiet
  <2>1. UNCHANGED <<state>>
    BY <1>12 DEF DeleteSandbox, db, process
  <2> QED BY <2>1 DEF Quiet
<1>13. ASSUME NEW c \in Stoppers, StopFailed(c)
      PROVE  Quiet
  BY <1>13, <1>state, <1>copy DEF StopFailed, failTask, Put, StoreError,
     Returned, NoCall, db, registration, process, Quiet
<1>14. ASSUME NEW c \in Stoppers, StopCompleted(c)
      PROVE  Quiet
  BY <1>14, <1>state, <1>copy DEF StopCompleted, Put, StoreError, Returned,
     NoCall, process, Quiet
<1>15. CASE \/ \E t \in Tasks :
               \/ CallRegister(t) \/ ConnectionBreaks(t)
          \/ \E t \in Tasks, a \in Attempts :
               \/ \E h \in BOOLEAN : FindTask(t, a, h)
               \/ Reply(t, a) \/ ExecuteReturns(t, a)
               \/ ReadForUpdate(t, a)
  <2>1. UNCHANGED <<state>>
    BY <1>15 DEF CallRegister, ConnectionBreaks, FindTask, Reply,
       ExecuteReturns, ReadForUpdate, db, registration, process, StoreError
  <2> QED BY <2>1 DEF Quiet
<1>16. CASE UpdateTasks
  BY <1>16 DEF UpdateTasks, db, registration, process, Quiet
<1>17. CASE Crash
  BY <1>17 DEF Crash, Returned, NoCall, db, Quiet
<1>18. CASE Restart
  BY <1>18 DEF Restart, db, registration, Quiet
<1>19. CASE UNCHANGED vars
  BY <1>19 DEF vars, Quiet
<1>20. ASSUME NEW t \in Tasks, TaskStep(t)
      PROVE  Quiet
  BY <1>20, <1>2, <1>3, <1>4, <1>5, <1>6, <1>7, <1>8, <1>9, <1>15
     DEF TaskStep, CreateStep, HandlerStep, ExecuteStep
<1>21. ASSUME NEW c \in Stoppers, StopStep(c)
      PROVE  Quiet
  BY <1>21, <1>11, <1>12, <1>13, <1>14, <1>15 DEF StopStep
<1> QED
  BY <1>1, <1>10, <1>15, <1>16, <1>17, <1>18, <1>19, <1>20, <1>21 DEF Next

\* No task is stored, and nothing runs, before the first task is submitted.
LEMMA InitIInv == Init => IInv
<1> SUFFICES ASSUME Init PROVE IInv
  OBVIOUS
<1> USE LifecycleAssumption
<1>1. TypeOK
  <2>1. /\ reg \in [Tasks -> [Attempts -> HandlerPC]]
        /\ exec \in [Tasks -> [Attempts -> ExecutePC]]
        /\ copy \in [Tasks -> [Attempts -> StateOrNone]]
        /\ stop \in [Stoppers -> StopCall]
    BY DEF Init, HandlerPC, ExecutePC, StateOrNone, StopCall, StopPC, NoCall
  <2>2. /\ state \in [Tasks -> StateOrNone]
        /\ run \in [Tasks -> CreationPC] /\ worker \in [Tasks -> WorkerPC]
    BY DEF Init, StateOrNone, CreationPC, WorkerPC
  <2> QED BY <2>1, <2>2 DEF Init, TypeOK
<1>2. CallsInv /\ CreationInv
  BY DEF Init, CallsInv, CreationInv, NoCall
<1>3. CompletedInv /\ UnlaunchedInv /\ CopyInv
  BY DEF Init, CompletedInv, UnlaunchedInv, CopyInv, NoCall
<1>4. \A t \in Tasks : active(t) = {} /\ starting(t) = {} /\ removing(t) = {}
  BY DEF Init, active, starting, removing, NoCall
<1>5. LaunchInv
  <2>1. \A t \in Tasks : active(t) \ awaited(t) = {} /\ starting(t) = {}
    BY <1>4
  <2>2. \A t \in Tasks : launched[t] = 0 /\ worker[t] = "off" /\ breaks = 0
    BY DEF Init
  <2>3. Cardinality({}) = 0
    BY FS_EmptySet
  <2> SUFFICES ASSUME NEW t \in Tasks PROVE Launches(t)
    BY DEF LaunchInv
  <2>4. /\ Cardinality(active(t) \ awaited(t)) = 0
        /\ Cardinality(starting(t)) = 0
    BY <2>1, <2>3
  <2> QED BY <2>2, <2>4 DEF Launches
<1>6. SingleInv
  BY <1>4 DEF Init, SingleInv, Single
<1> QED BY <1>1, <1>2, <1>3, <1>5, <1>6 DEF IInv

\* Every step of the service and of its workers keeps the invariant.
LEMMA NextIInv == IInv /\ [Next]_vars => IInv'
  BY TypeStep, CallsStep, CreationStep, CompletedStep, UnlaunchedStep,
     CopyStep, LaunchStep, SingleStep DEF IInv

\* The invariant holds in every reachable state.
LEMMA Inductive == Spec => []IInv
  BY InitIInv, NextIInv, PTL DEF Spec

\* The life of tasks is type correct in every reachable state, whatever the
\* numbers of tasks, callers, attempts, faults and restarts.
THEOREM TypeCorrect == Spec => []TypeOK
<1>1. IInv => TypeOK BY DEF IInv
<1> QED BY Inductive, <1>1, PTL

\* Completed is stored only behind a successful removal of the container, by
\* whichever of the StopTask callers and updates writes it
\* (worker_service.go:408-425).
THEOREM RemovedWhenCompleted == Spec => []CompletedMeansRemoved
<1>1. IInv => CompletedMeansRemoved
  BY DEF IInv, CompletedInv, gone, CompletedMeansRemoved
<1> QED BY Inductive, <1>1, PTL

\* A command starts once, and once more for every connection that broke under
\* a registration, however often the worker registers, the store fails or the
\* service restarts (worker_service.go:235-257, worker/main.go:41-48).
THEOREM LaunchedOnce == Spec => []CommandLaunchedOnce
<1>1. IInv => CommandLaunchedOnce
  <2> SUFFICES ASSUME IInv, NEW t \in Tasks
               PROVE  launched[t] <= 1 + breaks
    BY DEF CommandLaunchedOnce
  <2>1. Cardinality(starting(t)) \in Nat
    BY AttemptSets DEF starting
  <2>2. launched[t] \in Nat /\ breaks \in Nat
    BY LifecycleAssumption DEF IInv, TypeOK
  <2>3. launched[t] + Cardinality(starting(t)) <= 1 + breaks
    BY DEF IInv, LaunchInv, Launches
  <2> QED BY <2>1, <2>2, <2>3
<1> QED BY Inductive, <1>1, PTL

\* While no connection has broken, a task that the store shows as Scheduled,
\* Starting or Running has its container (worker_service.go:189-194, 408).
THEOREM ContainerWhileActive == Spec => []ActiveHasContainer
<1>1. IInv => ActiveHasContainer
  BY DEF IInv, SingleInv, Single, ActiveHasContainer
<1> QED BY Inductive, <1>1, PTL

\* While no connection has broken, no stale copy makes a task active again
\* that is being stopped or is over (worker_service.go:164-459).
THEOREM OverIsOver == Spec => NoResurrection
<1>1. IInv /\ [Next]_vars =>
        [breaks = 0 => \A t \in Tasks :
           state[t] \in {"Stopping", "Completed", "Failed"} =>
             state'[t] \in {"Stopping", "Completed", "Failed"}]_vars
  BY OverStep DEF Quiet
<1> QED BY Inductive, <1>1, PTL DEF Spec, NoResurrection
=============================================================================
