---------------------------- MODULE ManagerProofs ----------------------------
(***************************************************************************)
(* Safety of the manager's loops, and of the scheduler that chooses its    *)
(* workers, for every set of tasks and every number of workers.            *)
(***************************************************************************)
EXTENDS Manager, Scheduler, WellFoundedInduction, TLAPS

\* What SendWork has in hand: the task it posts is assigned to the worker it is
\* posted to, which has it once it has accepted it; a task that was assigned
\* once is at no worker before.  Only a task in memory is cleared for an answer.
SendInv ==
  LET t == send.item.task
      w == send.worker
  IN /\ send.pc \in {"stopping", "posting", "accepted", "decoding"} => w \in Workers
     /\ send.pc \in {"posting", "accepted", "decoding"} => TaskWorkerMap[t] = w
     /\ send.pc = "posting" /\ assigned[t] <= 1 =>
          \A v \in Workers : remote[v][t] = "None"
     /\ send.pc \in {"accepted", "decoding"} => remote[w][t] # "None"
     /\ send.pc = "decoding" => dbType = "memory"

\* A state may be replaced by this one.
Before(r, s) == r = "None" \/ r = s \/ Stage(r) < Stage(s)

\* The picture d of a task that has state r[w] at each worker w, worker m in the
\* map, was assigned a times and is in an answer with the states S.  Of a task
\* that was assigned once, the store is never ahead of an answer on its way, nor
\* that of the only worker that has it; there is no answer before one has it.
Picture(d, r, m, a, S) ==
  /\ a = 0 => d = "None" /\ m = NoWorker /\ \A w \in Workers : r[w] = "None"
  /\ a <= 1 =>
       /\ \A w, v \in Workers : r[w] # "None" /\ r[v] # "None" => w = v
       /\ \A w \in Workers : r[w] # "None" => m \in {NoWorker, w} /\ Before(d, r[w])
       /\ d \in {"None", "Scheduled"} \/ \E w \in Workers : r[w] # "None"
       /\ \A s \in S : /\ Before(d, s)
                       /\ \E w \in Workers : r[w] # "None" /\ Before(s, r[w])
       /\ \A s, q \in S : s = q

At(t) == [w \in Workers |-> remote[w][t]]
Answered(t) == {s \in Reported : <<t, s>> \in update.todo}
Pictured(t) == Picture(TaskDb[t], At(t), TaskWorkerMap[t], assigned[t], Answered(t))
PictureInv == \A t \in Tasks : Pictured(t)

IInv == TypeOK /\ MapsAgree /\ StopReachesHome /\ SendInv /\ PictureInv

\* The stages of a task, in numbers.
LEMMA StageValues ==
  /\ Stage("None") = 0 /\ Stage("Pending") = 1 /\ Stage("Scheduled") = 2
  /\ Stage("Running") = 3 /\ Stage("Completed") = 4 /\ Stage("Failed") = 4
  /\ \A s : Stage(s) \in 0..4
  BY DEF Stage

\* Before is an order.
LEMMA BeforeOrder ==
  ASSUME NEW a, NEW b, NEW c, Before(a, b), Before(b, c)
  PROVE  Before(a, c)
<1>1. Stage(a) \in 0..4 /\ Stage(b) \in 0..4 /\ Stage(c) \in 0..4
  BY StageValues
<1>2. Stage("None") = 0
  BY StageValues
<1> HIDE DEF Stage
<1> QED BY <1>1, <1>2 DEF Before

\* What a worker reports is ahead of a task that was only scheduled, or cleared.
LEMMA ReportedLater ==
  ASSUME NEW d \in {"None", "Pending", "Scheduled"}, NEW s \in Reported
  PROVE  Before(d, s)
  BY StageValues DEF Before, Reported

-----------------------------------------------------------------------------
(* The picture of one task: what the steps do to it *)

\* Nothing but the answer gets smaller.
LEMMA PictureFewer ==
  ASSUME NEW d, NEW r, NEW m, NEW a, NEW S, NEW T \in SUBSET S, Picture(d, r, m, a, S)
  PROVE  Picture(d, r, m, a, T)
  BY DEF Picture

\* The task moves on at a worker.
LEMMA PictureMoves ==
  ASSUME NEW d, NEW r, NEW m, NEW a \in 0..2, NEW S, Picture(d, r, m, a, S),
         NEW x \in Workers, r[x] # "None",
         NEW s \in Reported, Before(r[x], s),
         NEW q, q[x] = s, \A w \in Workers \ {x} : q[w] = r[w]
  PROVE  Picture(d, q, m, a, S)
<1>1. a # 0
  BY DEF Picture
<1>2. \A w \in Workers : q[w] # "None" <=> r[w] # "None"
  BY DEF Reported
<1>3. \A p, w \in Workers : Before(p, r[w]) => Before(p, q[w])
  BY BeforeOrder
<1>4. \A p : \A w \in Workers : Before(p, r[w]) => Before(p, q[w])
  BY BeforeOrder
<1> QED BY <1>1, <1>2, <1>4 DEF Picture

\* A worker accepts the task.
LEMMA PictureAccepts ==
  ASSUME NEW d, NEW r, NEW m, NEW a \in 0..2, NEW S, Picture(d, r, m, a, S),
         NEW x \in Workers, m = x,
         a <= 1 => \A w \in Workers : r[w] = "None",
         NEW q, q[x] = "Scheduled", \A w \in Workers \ {x} : q[w] = r[w]
  PROVE  Picture(d, q, m, a, S)
<1>1. a # 0
  BY ManagerAssumption DEF Picture, Workers, NoWorker
<1>2. SUFFICES ASSUME a <= 1 PROVE Picture(d, q, m, a, S)
  BY <1>1 DEF Picture
<1>3. d \in {"None", "Scheduled"} /\ S = {}
  BY <1>2 DEF Picture
<1>4. Before(d, "Scheduled")
  BY <1>3, ReportedLater DEF Reported
<1> QED BY <1>1, <1>2, <1>3, <1>4 DEF Picture

\* The store takes an early state for a task that has been assigned; a cleared
\* one only when a worker has it.
LEMMA PictureEarly ==
  ASSUME NEW d, NEW r, NEW m, NEW a \in (0..2) \ {0}, NEW S \in SUBSET Reported,
         Picture(d, r, m, a, S),
         \A w \in Workers : r[w] \in Reported \cup {"None"},
         NEW e \in {"None", "Pending", "Scheduled"},
         e # "Pending" \/ \E w \in Workers : r[w] # "None"
  PROVE  Picture(e, r, m, a, S)
<1>1. \A s \in Reported : Before(e, s)
  BY ReportedLater
<1> QED BY <1>1 DEF Picture

\* The store takes the state of the answer.
LEMMA PictureUpdates ==
  ASSUME NEW d, NEW r, NEW m, NEW a \in 0..2, NEW S, Picture(d, r, m, a, S),
         NEW s \in S, NEW e \in {d, s}
  PROVE  Picture(e, r, m, a, S \ {s})
<1>1. a # 0
  BY DEF Picture
<1>2. a <= 1 => S \ {s} = {}
  BY DEF Picture
<1>3. a <= 1 => \A w \in Workers : r[w] # "None" => Before(s, r[w])
  BY DEF Picture
<1> QED BY <1>1, <1>2, <1>3 DEF Picture

\* The manager ends; the picture stays, gets lost or goes back to Scheduled.
LEMMA PictureEnds ==
  ASSUME NEW d, NEW r, NEW m, NEW a \in 0..2, NEW S, Picture(d, r, m, a, S),
         \A w \in Workers : r[w] \in Reported \cup {"None"},
         NEW e \in {d, "None", "Scheduled"}, e = "Scheduled" => d # "None"
  PROVE  Picture(e, r, NoWorker, a, {})
<1>1. \A s \in Reported : Before("None", s) /\ Before("Scheduled", s)
  BY ReportedLater
<1> QED BY <1>1 DEF Picture

\* A worker answers.
LEMMA PictureAnswers ==
  ASSUME NEW d, NEW r, NEW m, NEW a \in 0..2, NEW S, Picture(d, r, m, a, S),
         NEW x \in Workers, NEW T, \A s \in T : s = r[x] /\ s # "None"
  PROVE  Picture(d, r, m, a, T)
<1>1. \A s \in T : Before(s, r[x])
  BY DEF Before
<1> QED BY <1>1 DEF Picture

\* The task is assigned, for the first time or again.
LEMMA PictureAssigned ==
  ASSUME NEW d, NEW r, NEW m, NEW a \in 0..2, NEW S, Picture(d, r, m, a, S),
         NEW x \in Workers, NEW e \in {d, "Scheduled"},
         NEW b, b = IF a = 0 THEN 1 ELSE 2
  PROVE  Picture(e, r, x, b, S)
<1>1. CASE a = 0
  BY <1>1 DEF Picture
<1>2. CASE a # 0
  BY <1>2 DEF Picture
<1> QED BY <1>1, <1>2

-----------------------------------------------------------------------------
(* Steps of the manager *)

\* The picture of a task that a step leaves alone, or takes out of an answer.
LEMMA PicturedFrame ==
  ASSUME NEW t \in Tasks, Pictured(t), TaskDb'[t] = TaskDb[t],
         \A w \in Workers : remote'[w][t] = remote[w][t],
         TaskWorkerMap'[t] = TaskWorkerMap[t], assigned'[t] = assigned[t],
         update'.todo \subseteq update.todo
  PROVE  Pictured(t)'
<1>1. At(t)' = At(t)
  BY DEF At
<1>2. Answered(t)' \subseteq Answered(t)
  BY DEF Answered
<1> QED BY <1>1, <1>2, PictureFewer DEF Pictured

\* The types of what a picture is made of.
LEMMA PictureTypes ==
  ASSUME TypeOK, NEW t \in Tasks
  PROVE  /\ assigned[t] \in 0..2 /\ Answered(t) \in SUBSET Reported
         /\ \A w \in Workers : At(t)[w] = remote[w][t]
         /\ \A w \in Workers : At(t)[w] \in Reported \cup {"None"}
         /\ TaskDb[t] \in State \cup {"None"}
         /\ TaskWorkerMap[t] \in Workers \cup {NoWorker}
  BY DEF TypeOK, At, Answered

\* An item in hand.
LEMMA InHand ==
  ASSUME TypeOK, send.pc # "idle"
  PROVE  /\ send \in Sending /\ send.item \in Item /\ send.item.task \in Tasks
         /\ send.worker \in Workers \cup {NoWorker}
  BY DEF TypeOK, Sending, Item

\* SendWork's record, idle.
LEMMA Idle == idle \in Sending /\ idle.pc = "idle"
  BY DEF idle, Sending

\* The errors of the stores are counted within their bound.
LEMMA Faulty ==
  ASSUME TypeOK, StoreError \/ UNCHANGED faults
  PROVE  faults' \in 0..MaxFaults
  BY ManagerAssumption DEF TypeOK, StoreError

\* No task is assigned, posted or seen at the beginning.
LEMMA InitIInv == Init => IInv
<1> SUFFICES ASSUME Init PROVE IInv
  OBVIOUS
<1>1. TypeOK
  <2>1. [at |-> 1, todo |-> {}] \in Updating
    BY ManagerAssumption DEF Workers, Updating
  <2>2. 0 \in 0..MaxEvents /\ 0 \in 0..MaxFaults /\ 0 \in 0..MaxStarts
    BY ManagerAssumption
  <2>3. /\ TaskWorkerMap \in [Tasks -> Workers \cup {NoWorker}]
        /\ remote \in [Workers -> [Tasks -> Reported \cup {"None"}]]
        /\ WorkerTaskMap \in [Workers -> Seq(Tasks)]
        /\ Pending \in Seq(Item)
        /\ TaskDb \in [Tasks -> State \cup {"None"}]
        /\ RestartCount \in [Tasks -> 0..3] /\ assigned \in [Tasks -> 0..2]
    BY DEF Init
  <2>4. /\ dbType \in {"memory", "persistent", "other"}
        /\ up \in BOOLEAN /\ opened \in BOOLEAN
        /\ added \in 0..MaxEvents /\ faults \in 0..MaxFaults
        /\ starts \in 0..MaxStarts
        /\ send = idle /\ update \in Updating
    BY <2>1, <2>2 DEF Init
  <2> QED BY <2>3, <2>4, Idle DEF TypeOK
<1>2. MapsAgree
  <2>1. \A w \in Workers : Len(WorkerTaskMap[w]) = 0
    BY DEF Init
  <2>2. \A t \in Tasks, w \in Workers : TaskWorkerMap[t] # w
    BY ManagerAssumption DEF Init, Workers, NoWorker
  <2> QED BY <2>1, <2>2 DEF MapsAgree
<1>3. StopReachesHome /\ SendInv
  BY DEF Init, idle, StopReachesHome, SendInv
<1>4. PictureInv
  <2> SUFFICES ASSUME NEW t \in Tasks PROVE Pictured(t)
    BY DEF PictureInv
  <2>1. /\ TaskDb[t] = "None" /\ TaskWorkerMap[t] = NoWorker
        /\ \A w \in Workers : At(t)[w] = "None"
        /\ Answered(t) = {}
    BY DEF Init, At, Answered
  <2> QED BY <2>1 DEF Pictured, Picture
<1> QED BY <1>1, <1>2, <1>3, <1>4 DEF IInv

\* The process ends: stored is the picture it leaves in tasks.db.
LEMMA EndsStep ==
  ASSUME IInv, NEW stored, NEW counts, Ends(stored, counts),
         stored \in [Tasks -> State \cup {"None"}], counts \in [Tasks -> 0..3],
         \A t \in Tasks : \/ stored[t] = TaskDb[t]
                          \/ stored[t] = "Scheduled" /\ TaskDb[t] # "None",
         StoreError \/ UNCHANGED faults
  PROVE  IInv'
<1>1. /\ Pending' = <<>> /\ up' = FALSE /\ opened' = FALSE
      /\ TaskWorkerMap' = [t \in Tasks |-> NoWorker]
      /\ WorkerTaskMap' = [w \in Workers |-> <<>>]
      /\ send' = idle /\ update' = [at |-> 1, todo |-> {}]
      /\ UNCHANGED <<dbType, starts, added, assigned, remote>>
      /\ TaskDb' \in [Tasks -> State \cup {"None"}]
      /\ RestartCount' \in [Tasks -> 0..3]
      /\ \A t \in Tasks : TaskDb'[t] \in {stored[t], "None"}
  BY DEF Ends
<1>2. TypeOK'
  <2>1. [at |-> 1, todo |-> {}] \in Updating
    BY ManagerAssumption DEF Workers, Updating
  <2>2. faults' \in 0..MaxFaults
    BY Faulty DEF IInv
  <2>3. /\ TaskWorkerMap' \in [Tasks -> Workers \cup {NoWorker}]
        /\ WorkerTaskMap' \in [Workers -> Seq(Tasks)]
        /\ Pending' \in Seq(Item)
    BY <1>1
  <2> QED BY <1>1, <2>1, <2>2, <2>3, Idle DEF IInv, TypeOK
<1>3. MapsAgree'
  <2>1. \A w \in Workers : Len(WorkerTaskMap'[w]) = 0
    BY <1>1
  <2>2. \A t \in Tasks, w \in Workers : TaskWorkerMap'[t] # w
    BY <1>1, ManagerAssumption DEF Workers, NoWorker
  <2> QED BY <2>1, <2>2 DEF MapsAgree
<1>4. StopReachesHome' /\ SendInv'
  BY <1>1, Idle DEF StopReachesHome, SendInv
<1>5. PictureInv'
  <2> SUFFICES ASSUME NEW t \in Tasks PROVE Pictured(t)'
    BY DEF PictureInv
  <2>1. At(t)' = At(t) /\ Answered(t)' = {}
    BY <1>1 DEF At, Answered
  <2>2. TaskWorkerMap'[t] = NoWorker /\ assigned'[t] = assigned[t]
    BY <1>1
  <2>3. /\ TaskDb'[t] \in {TaskDb[t], "None", "Scheduled"}
        /\ TaskDb'[t] = "Scheduled" => TaskDb[t] # "None"
    BY <1>1
  <2>4. Pictured(t) /\ TypeOK
    BY DEF IInv, PictureInv
  <2>5. Picture(TaskDb[t], At(t), TaskWorkerMap[t], assigned[t], Answered(t))
    BY <2>4 DEF Pictured
  <2>6. /\ assigned[t] \in 0..2
        /\ \A w \in Workers : At(t)[w] \in Reported \cup {"None"}
    BY <2>4, PictureTypes
  <2>7. Picture(TaskDb'[t], At(t), NoWorker, assigned[t], {})
    BY <2>3, <2>5, <2>6, PictureEnds
  <2> QED BY <2>1, <2>2, <2>7 DEF Pictured
<1> QED BY <1>2, <1>3, <1>4, <1>5 DEF IInv

\* The process ends and leaves its stores as they are.
LEMMA EndsAsItIs ==
  ASSUME IInv, Ends(TaskDb, RestartCount), StoreError \/ UNCHANGED faults
  PROVE  IInv'
<1>1. TaskDb \in [Tasks -> State \cup {"None"}] /\ RestartCount \in [Tasks -> 0..3]
  BY DEF IInv, TypeOK
<1> QED BY <1>1, EndsStep

\* A manager starts with what it finds.
LEMMA NewStep == IInv /\ New => IInv'
<1> SUFFICES ASSUME IInv, New PROVE IInv'
  OBVIOUS
<1>1. /\ up' = TRUE /\ starts < MaxStarts /\ starts' = starts + 1
      /\ opened' \in BOOLEAN
      /\ StoreError \/ UNCHANGED faults
      /\ UNCHANGED <<dbType, Pending, added, TaskDb, RestartCount, TaskWorkerMap,
                     WorkerTaskMap, assigned, send, update, remote>>
  BY DEF New, queue, maps, IInv, TypeOK
<1>2. faults' \in 0..MaxFaults
  BY <1>1, Faulty DEF IInv
<1>3. starts' \in 0..MaxStarts
  BY <1>1, ManagerAssumption DEF IInv, TypeOK
<1>4. TypeOK'
  BY <1>1, <1>2, <1>3 DEF IInv, TypeOK
<1>5. MapsAgree' /\ StopReachesHome' /\ SendInv'
  BY <1>1 DEF IInv, MapsAgree, StopReachesHome, SendInv
<1>6. PictureInv'
  BY <1>1, PicturedFrame DEF IInv, PictureInv
<1> QED BY <1>4, <1>5, <1>6 DEF IInv

-----------------------------------------------------------------------------
\* A step of SendWork, or of a caller, that touches neither the maps nor the
\* states of the tasks.
LEMMA SendStep ==
  ASSUME IInv, UNCHANGED <<process, TaskDb, RestartCount, maps, update, remote>>,
         Pending' \in Seq(Item), added' \in 0..MaxEvents, faults' \in 0..MaxFaults,
         send' \in Sending, send'.pc # "idle" => send'.item \in Item,
         StopReachesHome', SendInv'
  PROVE  IInv'
<1>1. UNCHANGED <<dbType, starts, up, opened, TaskWorkerMap, WorkerTaskMap, assigned>>
  BY DEF maps, process
<1>2. TypeOK'
  BY <1>1 DEF IInv, TypeOK
<1>3. MapsAgree'
  BY <1>1 DEF IInv, MapsAgree
<1>4. PictureInv'
  BY <1>1, PicturedFrame DEF IInv, PictureInv
<1> QED BY <1>2, <1>3, <1>4 DEF IInv

\* SendWork returns.
LEMMA SendReturns ==
  ASSUME IInv, send' = idle,
         UNCHANGED <<process, TaskDb, RestartCount, maps, update, remote, added>>,
         Pending' \in Seq(Item), faults' \in 0..MaxFaults
  PROVE  IInv'
<1>1. added' \in 0..MaxEvents
  BY DEF IInv, TypeOK
<1>2. StopReachesHome' /\ SendInv'
  BY Idle DEF StopReachesHome, SendInv
<1> QED BY <1>1, <1>2, Idle, SendStep

\* AddTask only puts an event into the queue.
LEMMA AddTasks ==
  ASSUME IInv, NEW t \in Tasks, NEW s \in {"Scheduled", "Completed"}, AddTask(t, s)
  PROVE  IInv'
<1>1. /\ added < MaxEvents /\ added' = added + 1
      /\ UNCHANGED <<process, db, maps, send, update, remote>>
      /\ Pending' = Append(Pending, [kind |-> "event", task |-> t, state |-> s])
  BY DEF AddTask
<1>2. added' \in 0..MaxEvents
  <2>1. added \in 0..MaxEvents
    BY DEF IInv, TypeOK
  <2> QED BY <1>1, <2>1, ManagerAssumption
<1>3. Pending' \in Seq(Item)
  <2>1. [kind |-> "event", task |-> t, state |-> s] \in Item
    BY DEF Item
  <2>2. Pending \in Seq(Item)
    BY DEF IInv, TypeOK
  <2> QED BY <1>1, <2>1, <2>2
<1>4. /\ send' \in Sending /\ (send'.pc # "idle" => send'.item \in Item)
      /\ faults' \in 0..MaxFaults
      /\ UNCHANGED <<TaskDb, RestartCount>>
  BY <1>1 DEF IInv, TypeOK, db
<1>5. StopReachesHome' /\ SendInv'
  BY <1>1 DEF IInv, StopReachesHome, SendInv, maps, process
<1> QED BY <1>1, <1>2, <1>3, <1>4, <1>5, SendStep

\* SendWork takes an event for a task, or the manager panics on what is none.
LEMMA Dequeues == IInv /\ Dequeue => IInv'
<1> SUFFICES ASSUME IInv, Dequeue PROVE IInv'
  OBVIOUS
<1>1. /\ Pending \in Seq(Item) /\ Pending # <<>> /\ send \in Sending
      /\ added \in 0..MaxEvents /\ faults \in 0..MaxFaults
  BY DEF IInv, TypeOK, Dequeue
<1>2. CASE /\ Pending' = Tail(Pending)
           /\ send' = [send EXCEPT !.pc = "deciding", !.item = Head(Pending)]
           /\ UNCHANGED <<process, added, db, maps, update, remote>>
  <2>1. Head(Pending) \in Item /\ Pending' \in Seq(Item)
    BY <1>1, <1>2
  <2>2. /\ send' \in Sending /\ send'.pc = "deciding"
        /\ send'.item = Head(Pending)
    BY <1>1, <1>2, <2>1 DEF Sending
  <2>3. StopReachesHome' /\ SendInv'
    BY <2>2 DEF StopReachesHome, SendInv
  <2>4. /\ added' \in 0..MaxEvents /\ faults' \in 0..MaxFaults
        /\ UNCHANGED <<TaskDb, RestartCount>>
    BY <1>1, <1>2 DEF db
  <2> QED BY <1>2, <2>1, <2>2, <2>3, <2>4, SendStep
<1>3. CASE Ends(TaskDb, RestartCount) /\ UNCHANGED faults
  BY <1>3, EndsAsItIs
<1> QED BY <1>2, <1>3 DEF Dequeue

\* What the store says about a task that has begun came from a worker that has
\* it; a task that was assigned once is at no other.
LEMMA DecideAssigneds == IInv /\ DecideAssigned => IInv'
<1> SUFFICES ASSUME IInv, DecideAssigned PROVE IInv'
  OBVIOUS
<1> DEFINE t == send.item.task
           w == TaskWorkerMap[t]
<1>1. /\ send.pc = "deciding" /\ w # NoWorker
      /\ UNCHANGED <<process, TaskDb, RestartCount, maps, update, remote, added>>
      /\ UNCHANGED Pending
  BY DEF DecideAssigned, queue
<1>2. send \in Sending /\ send.item \in Item /\ t \in Tasks
  BY <1>1, InHand DEF IInv
<1>3. /\ Pending' \in Seq(Item) /\ w \in Workers
      /\ added' \in 0..MaxEvents
      /\ TypeOK
  BY <1>1, <1>2 DEF IInv, TypeOK
<1>4. CASE send' = idle
  <2>1. faults' \in 0..MaxFaults
    BY <1>3, Faulty DEF DecideAssigned
  <2> QED BY <1>1, <1>3, <1>4, <2>1, SendReturns
<1>5. CASE /\ TaskDb[t] # "None"
           /\ ValidStateTransition(TaskDb[t], "Completed")
           /\ send' = [send EXCEPT !.pc = "stopping", !.worker = w]
           /\ UNCHANGED faults
  <2>1. TaskDb[t] \notin {"None", "Scheduled"}
    BY <1>5 DEF ValidStateTransition, stateTransitionMap
  <2>2. assigned[t] <= 1 => remote[w][t] # "None"
    <3>1. Pictured(t)
      BY <1>2 DEF IInv, PictureInv
    <3>2. \A v \in Workers : At(t)[v] = remote[v][t]
      BY DEF At
    <3> QED BY <1>1, <2>1, <3>1, <3>2 DEF Pictured, Picture
  <2>3. /\ send' \in Sending /\ send'.pc = "stopping"
        /\ send'.item = send.item /\ send'.worker = w
    BY <1>2, <1>3, <1>5 DEF Sending
  <2>4. UNCHANGED <<assigned, remote>>
    BY <1>1 DEF maps
  <2>5. StopReachesHome' /\ SendInv'
    BY <1>3, <2>2, <2>3, <2>4 DEF StopReachesHome, SendInv
  <2>6. faults' \in 0..MaxFaults
    BY <1>3, <1>5, Faulty
  <2>7. send'.item \in Item
    BY <1>2, <2>3
  <2> HIDE DEF t, w
  <2> QED BY <1>1, <1>3, <2>3, <2>5, <2>6, <2>7, SendStep
<1> QED BY <1>4, <1>5 DEF DecideAssigned

\* PostCreated and Decoded: with a store in memory the task in it is cleared and
\* takes the answer; the worker has it by then.
LEMMA AnswerStep ==
  ASSUME IInv, send.pc \in {"accepted", "decoding"}, NEW e \in {"Pending", "Scheduled"},
         TaskDb' = [TaskDb EXCEPT ![send.item.task] = e],
         RestartCount' \in [Tasks -> 0..3],
         UNCHANGED <<process, queue, faults, maps, update, remote>>,
         send' \in Sending, send'.pc \in {"idle", "decoding"},
         send'.item = send.item \/ send'.pc = "idle",
         send'.worker = send.worker \/ send'.pc = "idle",
         send'.pc = "decoding" => dbType = "memory"
  PROVE  IInv'
<1> DEFINE t == send.item.task
           w == send.worker
<1>1. UNCHANGED <<dbType, starts, up, opened, Pending, added, TaskWorkerMap,
                  WorkerTaskMap, assigned>>
  BY DEF process, queue, maps
<1>2. /\ t \in Tasks /\ send.item \in Item /\ w \in Workers
      /\ TaskWorkerMap[t] = w /\ remote[w][t] # "None"
  BY InHand DEF IInv, SendInv
<1>3. /\ TaskDb' \in [Tasks -> State \cup {"None"}] /\ TaskDb'[t] = e
      /\ \A u \in Tasks \ {t} : TaskDb'[u] = TaskDb[u]
  BY <1>2 DEF IInv, TypeOK, State
<1>4. TypeOK'
  BY <1>1, <1>2, <1>3 DEF IInv, TypeOK
<1>5. MapsAgree' /\ StopReachesHome' /\ SendInv'
  BY <1>1, <1>2 DEF IInv, MapsAgree, StopReachesHome, SendInv
<1> HIDE DEF t, w
<1>6. PictureInv'
  <2> SUFFICES ASSUME NEW u \in Tasks PROVE Pictured(u)'
    BY DEF PictureInv
  <2>1. Pictured(u) /\ TypeOK
    BY DEF IInv, PictureInv
  <2>2. CASE u # t
    BY <1>1, <1>3, <2>1, <2>2, PicturedFrame
  <2>3. CASE u = t
    <3>1. Picture(TaskDb[u], At(u), TaskWorkerMap[u], assigned[u], Answered(u))
      BY <2>1 DEF Pictured
    <3>2. At(u)[w] # "None" /\ w \in Workers
      BY <1>2, <2>3 DEF At
    <3>3. assigned[u] # 0
      BY <3>1, <3>2 DEF Picture
    <3>4. /\ assigned[u] \in (0..2) \ {0} /\ Answered(u) \in SUBSET Reported
          /\ \A v \in Workers : At(u)[v] \in Reported \cup {"None"}
      BY <2>1, <3>3, PictureTypes
    <3>5. Picture(e, At(u), TaskWorkerMap[u], assigned[u], Answered(u))
      BY <3>1, <3>2, <3>4, PictureEarly
    <3>6. At(u)' = At(u) /\ Answered(u)' = Answered(u)
      BY DEF At, Answered
    <3> QED BY <1>1, <1>3, <2>3, <3>5, <3>6 DEF Pictured
  <2> QED BY <2>2, <2>3
<1> QED BY <1>4, <1>5, <1>6 DEF IInv

\* SendWork ends without a change of what is assigned or stored.
LEMMA Returns ==
  ASSUME IInv, send' = idle,
         UNCHANGED <<process, queue, db, maps, update, remote>>
  PROVE  IInv'
<1>1. UNCHANGED <<TaskDb, RestartCount, faults, Pending, added>>
  BY DEF queue, db
<1>2. Pending' \in Seq(Item) /\ faults' \in 0..MaxFaults
  BY <1>1 DEF IInv, TypeOK
<1> QED BY <1>1, <1>2, SendReturns

\* The answer 201 arrives.
LEMMA PostCreateds == IInv /\ PostCreated => IInv'
<1> SUFFICES ASSUME IInv, PostCreated PROVE IInv'
  OBVIOUS
<1> DEFINE t == send.item.task
<1>1. CASE dbType = "memory"
  <2>1. /\ send.pc = "accepted"
        /\ TaskDb' = [TaskDb EXCEPT ![t] = "Pending"]
        /\ RestartCount' = [RestartCount EXCEPT ![t] = 0]
        /\ send' = [send EXCEPT !.pc = "decoding"]
        /\ UNCHANGED <<process, queue, faults, maps, update, remote>>
    BY <1>1 DEF PostCreated
  <2>2. send \in Sending /\ RestartCount \in [Tasks -> 0..3]
    BY DEF IInv, TypeOK
  <2>4. RestartCount' \in [Tasks -> 0..3]
    <3>1. /\ RestartCount' = [RestartCount EXCEPT ![t] = 0]
          /\ RestartCount \in [Tasks -> 0..3] /\ 0 \in 0..3
      BY <2>1, <2>2
    <3> HIDE DEF t
    <3> QED BY <3>1
  <2>3. /\ send' \in Sending /\ send'.pc = "decoding"
        /\ send'.item = send.item /\ send'.worker = send.worker
    BY <2>1, <2>2 DEF Sending
  <2> QED BY <1>1, <2>1, <2>3, <2>4, AnswerStep
<1>2. CASE dbType # "memory"
  <2>1. /\ send' = idle
        /\ UNCHANGED <<process, queue, db, maps, update, remote>>
    BY <1>2 DEF PostCreated, db
  <2> QED BY <2>1, Returns
<1> QED BY <1>1, <1>2

\* The answer is decoded.
LEMMA Decodeds == IInv /\ Decoded => IInv'
<1> SUFFICES ASSUME IInv, Decoded PROVE IInv'
  OBVIOUS
<1> DEFINE t == send.item.task
<1>1. /\ send.pc = "decoding" /\ send' = idle
      /\ UNCHANGED <<process, queue, RestartCount, faults, maps, update, remote>>
  BY DEF Decoded
<1>2. PICK s \in {TaskDb[t], "Pending", "Scheduled"} : TaskDb' = [TaskDb EXCEPT ![t] = s]
  BY DEF Decoded
<1>3. CASE s \in {"Pending", "Scheduled"}
  <2>1. RestartCount' \in [Tasks -> 0..3]
    BY <1>1 DEF IInv, TypeOK
  <2> QED BY <1>1, <1>2, <1>3, <2>1, Idle, AnswerStep
<1>4. CASE s = TaskDb[t]
  <2>1. TaskDb' = TaskDb
    BY <1>2, <1>4 DEF IInv, TypeOK
  <2> QED BY <1>1, <2>1, Returns DEF db
<1> QED BY <1>2, <1>3, <1>4

\* SendWork ends by queueing again what it could not post.
LEMMA PostErrors == IInv /\ PostError => IInv'
<1> SUFFICES ASSUME IInv, PostError PROVE IInv'
  OBVIOUS
<1>1. /\ send' = idle /\ send.pc # "idle"
      /\ UNCHANGED <<process, TaskDb, RestartCount, maps, update, remote, added>>
      /\ Pending' = Append(Pending, [send.item EXCEPT !.kind = "task"])
      /\ UNCHANGED faults
  BY DEF PostError, db
<1>2. [send.item EXCEPT !.kind = "task"] \in Item
  BY <1>1, InHand DEF IInv, Item
<1>3. Pending' \in Seq(Item) /\ faults' \in 0..MaxFaults
  BY <1>1, <1>2 DEF IInv, TypeOK
<1> QED BY <1>1, <1>3, SendReturns

-----------------------------------------------------------------------------
\* The state of a task at a worker that has it moves on.
LEMMA RemoteMoves ==
  ASSUME TypeOK, PictureInv, NEW w \in Workers, NEW t \in Tasks, NEW s \in Reported,
         remote[w][t] # "None", Before(remote[w][t], s),
         remote' = [remote EXCEPT ![w][t] = s],
         UNCHANGED <<TaskDb, TaskWorkerMap, assigned, update>>
  PROVE  /\ PictureInv' /\ remote' \in [Workers -> [Tasks -> Reported \cup {"None"}]]
         /\ \A v \in Workers, u \in Tasks : remote'[v][u] = "None" <=> remote[v][u] = "None"
<1>1. /\ remote' \in [Workers -> [Tasks -> Reported \cup {"None"}]]
      /\ remote'[w][t] = s
      /\ \A v \in Workers, u \in Tasks : v # w \/ u # t => remote'[v][u] = remote[v][u]
  BY DEF TypeOK
<1>2. ASSUME NEW u \in Tasks PROVE Pictured(u)'
  <2>1. Pictured(u)
    BY DEF PictureInv
  <2>2. CASE u # t
    BY <1>1, <2>1, <2>2, PicturedFrame
  <2>3. CASE u = t
    <3>1. Picture(TaskDb[u], At(u), TaskWorkerMap[u], assigned[u], Answered(u))
      BY <2>1 DEF Pictured
    <3>2. assigned[u] \in 0..2
      BY DEF TypeOK
    <3>3. /\ At(u)[w] # "None" /\ Before(At(u)[w], s) /\ At(u)'[w] = s
          /\ \A v \in Workers \ {w} : At(u)'[v] = At(u)[v]
      BY <1>1, <2>3 DEF At
    <3>4. Picture(TaskDb[u], At(u)', TaskWorkerMap[u], assigned[u], Answered(u))
      BY <3>1, <3>2, <3>3, PictureMoves
    <3>5. Answered(u)' = Answered(u)
      BY DEF Answered
    <3> QED BY <3>4, <3>5 DEF Pictured
  <2> QED BY <2>2, <2>3
<1>3. s # "None"
  BY DEF Reported
<1> QED BY <1>1, <1>2, <1>3 DEF PictureInv

\* stopTask leaves the maps and the stored state alone; the worker goes on by
\* itself.
LEMMA StopTasks == IInv /\ stopTask => IInv'
<1> SUFFICES ASSUME IInv, stopTask PROVE IInv'
  OBVIOUS
<1> DEFINE t == send.item.task
           w == send.worker
<1>1. /\ send.pc = "stopping" /\ send' = idle
      /\ UNCHANGED <<process, queue, db, maps, update>>
      /\ UNCHANGED <<dbType, starts, up, opened, Pending, added, TaskDb, RestartCount,
                     faults, TaskWorkerMap, WorkerTaskMap, assigned>>
  BY DEF stopTask, process, queue, db, maps
<1>2. t \in Tasks /\ w \in Workers
  BY <1>1, InHand DEF IInv, SendInv
<1>3. CASE UNCHANGED remote
  BY <1>1, <1>3, Returns
<1>4. CASE /\ remote[w][t] \in {"Scheduled", "Running"}
           /\ remote' = [remote EXCEPT ![w][t] = "Completed"]
  <2>1. /\ Before(remote[w][t], "Completed") /\ remote[w][t] # "None"
        /\ "Completed" \in Reported
    BY <1>4, StageValues DEF Before, Reported
  <2> HIDE DEF t, w
  <2>2. PictureInv' /\ remote' \in [Workers -> [Tasks -> Reported \cup {"None"}]]
    BY <1>1, <1>2, <1>4, <2>1, RemoteMoves DEF IInv
  <2>3. TypeOK'
    BY <1>1, <2>2, Idle DEF IInv, TypeOK
  <2>4. MapsAgree' /\ StopReachesHome' /\ SendInv'
    BY <1>1, Idle DEF IInv, MapsAgree, StopReachesHome, SendInv
  <2> QED BY <2>2, <2>3, <2>4 DEF IInv
<1> QED BY <1>3, <1>4 DEF stopTask

\* A task goes on at its worker, away from what the store has of it.
LEMMA WorkerRunsStep ==
  ASSUME IInv, NEW w \in Workers, NEW t \in Tasks, WorkerRuns(w, t)
  PROVE  IInv'
<1>1. UNCHANGED <<dbType, starts, up, opened, Pending, added, TaskDb, RestartCount,
                  faults, TaskWorkerMap, WorkerTaskMap, assigned, send, update>>
  BY DEF WorkerRuns, process, queue, db, maps
<1>2. PICK s \in {"Running", "Completed", "Failed"} :
        /\ remote' = [remote EXCEPT ![w][t] = s]
        /\ \/ remote[w][t] = "Scheduled"
           \/ remote[w][t] = "Running" /\ s # "Running"
  <2>1. CASE remote[w][t] = "Scheduled" /\ \E s \in {"Running", "Failed"} :
               remote' = [remote EXCEPT ![w][t] = s]
    BY <2>1
  <2>2. CASE remote[w][t] = "Running" /\ \E s \in {"Completed", "Failed"} :
               remote' = [remote EXCEPT ![w][t] = s]
    BY <2>2
  <2> QED BY <2>1, <2>2 DEF WorkerRuns
<1>3. Before(remote[w][t], s) /\ remote[w][t] # "None" /\ s \in Reported
  BY <1>2, StageValues DEF Before, Reported
<1>4. /\ PictureInv' /\ remote' \in [Workers -> [Tasks -> Reported \cup {"None"}]]
      /\ \A v \in Workers, u \in Tasks : remote'[v][u] = "None" <=> remote[v][u] = "None"
  BY <1>1, <1>2, <1>3, RemoteMoves DEF IInv
<1>5. TypeOK'
  BY <1>1, <1>4 DEF IInv, TypeOK
<1>6. send.pc # "idle" => send.item.task \in Tasks
  BY InHand DEF IInv
<1>7. MapsAgree' /\ StopReachesHome' /\ SendInv'
  BY <1>1, <1>4, <1>6 DEF IInv, MapsAgree, StopReachesHome, SendInv
<1> QED BY <1>4, <1>5, <1>7 DEF IInv

\* A task that was assigned once is new to the worker, so that no answer speaks
\* of it yet.
LEMMA WorkerAcceptsStep == IInv /\ WorkerAccepts => IInv'
<1> SUFFICES ASSUME IInv, WorkerAccepts PROVE IInv'
  OBVIOUS
<1> DEFINE t == send.item.task
           w == send.worker
<1>1. /\ send.pc = "posting"
      /\ remote' = [remote EXCEPT ![w][t] = "Scheduled"]
      /\ send' = [send EXCEPT !.pc = "accepted"]
      /\ UNCHANGED <<dbType, starts, up, opened, Pending, added, TaskDb, RestartCount,
                     faults, TaskWorkerMap, WorkerTaskMap, assigned, update>>
  BY DEF WorkerAccepts, process, queue, db, maps
<1>2. /\ t \in Tasks /\ send \in Sending /\ send.item \in Item
      /\ w \in Workers /\ TaskWorkerMap[t] = w
      /\ assigned[t] <= 1 => \A v \in Workers : remote[v][t] = "None"
  BY <1>1, InHand DEF IInv, SendInv
<1>3. /\ send' \in Sending /\ send'.pc = "accepted"
      /\ send'.item = send.item /\ send'.worker = w
  BY <1>1, <1>2 DEF Sending
<1>4. /\ remote' \in [Workers -> [Tasks -> Reported \cup {"None"}]]
      /\ remote'[w][t] = "Scheduled"
      /\ \A v \in Workers, u \in Tasks : v # w \/ u # t => remote'[v][u] = remote[v][u]
  BY <1>1, <1>2 DEF IInv, TypeOK, Reported
<1> HIDE DEF t, w
<1>5. TypeOK'
  BY <1>1, <1>2, <1>3, <1>4 DEF IInv, TypeOK
<1>6. MapsAgree'
  BY <1>1 DEF IInv, MapsAgree
<1>7. StopReachesHome' /\ SendInv'
  BY <1>1, <1>2, <1>3, <1>4 DEF StopReachesHome, SendInv, t
<1>8. PictureInv'
  <2> SUFFICES ASSUME NEW u \in Tasks PROVE Pictured(u)'
    BY DEF PictureInv
  <2>1. Pictured(u) /\ assigned[u] \in 0..2
    BY DEF IInv, PictureInv, TypeOK
  <2>2. CASE u # t
    BY <1>1, <1>4, <2>1, <2>2, PicturedFrame
  <2>3. CASE u = t
    <3>1. Picture(TaskDb[u], At(u), TaskWorkerMap[u], assigned[u], Answered(u))
      BY <2>1 DEF Pictured
    <3>2. /\ assigned[u] <= 1 => \A v \in Workers : At(u)[v] = "None"
          /\ At(u)'[w] = "Scheduled"
          /\ \A v \in Workers \ {w} : At(u)'[v] = At(u)[v]
      BY <1>2, <1>4, <2>3 DEF At
    <3>3. Picture(TaskDb[u], At(u)', TaskWorkerMap[u], assigned[u], Answered(u))
      BY <1>2, <2>1, <2>3, <3>1, <3>2, PictureAccepts
    <3>4. Answered(u)' = Answered(u)
      BY <1>1 DEF Answered
    <3> QED BY <1>1, <3>3, <3>4 DEF Pictured
  <2> QED BY <2>2, <2>3
<1> QED BY <1>5, <1>6, <1>7, <1>8 DEF IInv

\* What Put does to the store.
LEMMA Puts ==
  ASSUME TypeOK, NEW t \in Tasks, NEW s \in State, Put(t, s)
  PROVE  /\ TaskDb' \in [Tasks -> State \cup {"None"}]
         /\ TaskDb'[t] \in {TaskDb[t], s}
         /\ \A u \in Tasks \ {t} : TaskDb'[u] = TaskDb[u]
         /\ faults' \in 0..MaxFaults
<1>1. TaskDb \in [Tasks -> State \cup {"None"}] /\ faults \in 0..MaxFaults
  BY DEF TypeOK
<1>2. CASE TaskDb' = [TaskDb EXCEPT ![t] = s] /\ UNCHANGED faults
  BY <1>1, <1>2
<1>3. CASE StoreError /\ UNCHANGED TaskDb
  <2>1. faults' \in 0..MaxFaults
    BY <1>3, Faulty
  <2> QED BY <1>1, <1>3, <2>1
<1> QED BY <1>2, <1>3 DEF Put


\* A task without a worker gets one, in both maps; the first one, if it was
\* never assigned, and then no worker has it.
LEMMA AssignStep ==
  ASSUME IInv, NEW w \in Workers, Assign(w)
  PROVE  /\ IInv'
         /\ \A u \in Tasks : \/ TaskDb'[u] = TaskDb[u] \/ assigned'[u] > 1
                             \/ TaskDb[u] = "None" /\ TaskDb'[u] = "Scheduled"
<1> DEFINE t == send.item.task
           list == WorkerTaskMap[w]
<1>1. /\ send.pc = "deciding" /\ TaskWorkerMap[t] = NoWorker
      /\ TaskWorkerMap' = [TaskWorkerMap EXCEPT ![t] = w]
      /\ WorkerTaskMap' = [WorkerTaskMap EXCEPT ![w] = Append(list, t)]
      /\ assigned' = [assigned EXCEPT ![t] = IF @ = 0 THEN 1 ELSE 2]
      /\ send' = [send EXCEPT !.pc = "posting", !.worker = w]
      /\ UNCHANGED <<dbType, starts, up, opened, Pending, added, update, remote>>
  BY DEF Assign, Assignment, queue, process
<1>2. t \in Tasks /\ send \in Sending /\ send.item \in Item
  BY <1>1, InHand DEF IInv
<1>3. /\ send' \in Sending /\ send'.pc = "posting"
      /\ send'.item = send.item /\ send'.worker = w
  BY <1>1, <1>2 DEF Sending
<1>4. /\ TaskWorkerMap \in [Tasks -> Workers \cup {NoWorker}]
      /\ WorkerTaskMap \in [Workers -> Seq(Tasks)]
      /\ TaskDb \in [Tasks -> State \cup {"None"}]
      /\ RestartCount \in [Tasks -> 0..3]
      /\ assigned \in [Tasks -> 0..2] /\ TypeOK
  BY DEF IInv, TypeOK
<1>5. \/ /\ TaskDb' = [TaskDb EXCEPT ![t] = "Scheduled"]
         /\ RestartCount' = [RestartCount EXCEPT ![t] = 0]
         /\ UNCHANGED faults
      \/ StoreError /\ UNCHANGED <<TaskDb, RestartCount>>
  BY DEF Assign, Assignment
<1>6. faults' \in 0..MaxFaults
  BY <1>4, <1>5, Faulty
<1>7. "Scheduled" \in State /\ 0 \in 0..3
  BY DEF State
<1> HIDE DEF t, list
<1>8. /\ TaskDb' \in [Tasks -> State \cup {"None"}]
      /\ TaskDb'[t] \in {TaskDb[t], "Scheduled"}
      /\ \A u \in Tasks \ {t} : TaskDb'[u] = TaskDb[u]
      /\ RestartCount' \in [Tasks -> 0..3]
  BY <1>2, <1>4, <1>5, <1>7
<1>9. /\ TaskWorkerMap' \in [Tasks -> Workers \cup {NoWorker}]
      /\ TaskWorkerMap'[t] = w
      /\ \A u \in Tasks \ {t} : TaskWorkerMap'[u] = TaskWorkerMap[u]
  BY <1>1, <1>2, <1>4
<1>10. /\ WorkerTaskMap' \in [Workers -> Seq(Tasks)]
       /\ WorkerTaskMap'[w] = Append(list, t)
       /\ \A x \in Workers \ {w} : WorkerTaskMap'[x] = WorkerTaskMap[x]
  BY <1>1, <1>2, <1>4 DEF list
<1>11. /\ assigned' \in [Tasks -> 0..2]
       /\ assigned'[t] = IF assigned[t] = 0 THEN 1 ELSE 2
       /\ \A u \in Tasks \ {t} : assigned'[u] = assigned[u]
  BY <1>1, <1>2, <1>4
<1>12. MapsAgree'
  <2> SUFFICES ASSUME NEW x \in Workers
               PROVE  /\ \A u \in Tasks :
                           (TaskWorkerMap'[u] = x) <=>
                           (\E i \in 1..Len(WorkerTaskMap'[x]) :
                              WorkerTaskMap'[x][i] = u)
                      /\ \A i, j \in 1..Len(WorkerTaskMap'[x]) :
                           WorkerTaskMap'[x][i] = WorkerTaskMap'[x][j] => i = j
    BY DEF MapsAgree
  <2>1. /\ \A u \in Tasks :
             (TaskWorkerMap[u] = x) <=> (\E i \in 1..Len(WorkerTaskMap[x]) :
                                           WorkerTaskMap[x][i] = u)
        /\ \A i, j \in 1..Len(WorkerTaskMap[x]) :
             WorkerTaskMap[x][i] = WorkerTaskMap[x][j] => i = j
    BY DEF IInv, MapsAgree
  <2>2. \A i \in 1..Len(WorkerTaskMap[x]) : WorkerTaskMap[x][i] # t
    <3>1. TaskWorkerMap[t] # x
      BY <1>1, ManagerAssumption DEF Workers, NoWorker
    <3> QED BY <1>2, <2>1, <3>1
  <2>3. CASE x = w
    <3>1. list \in Seq(Tasks) /\ Len(list) \in Nat /\ list = WorkerTaskMap[x]
      BY <1>4, <2>3 DEF list
    <3>2. /\ Len(WorkerTaskMap'[x]) = Len(list) + 1
          /\ WorkerTaskMap'[x][Len(list) + 1] = t
          /\ \A i \in 1..Len(list) : WorkerTaskMap'[x][i] = list[i]
      BY <1>2, <1>10, <2>3, <3>1
    <3>3. \A i \in 1..(Len(list) + 1) : i \in 1..Len(list) \/ i = Len(list) + 1
      BY <3>1
    <3>4. \A i \in 1..Len(list) : i \in 1..(Len(list) + 1)
      BY <3>1
    <3>5. Len(list) + 1 \in 1..(Len(list) + 1)
      BY <3>1
    <3>6. ASSUME NEW u \in Tasks
          PROVE  (TaskWorkerMap'[u] = x) <=>
                 (\E i \in 1..Len(WorkerTaskMap'[x]) : WorkerTaskMap'[x][i] = u)
      <4>1. CASE u = t
        BY <1>9, <2>3, <3>2, <3>5, <4>1
      <4>2. CASE u # t
        <5>1. (TaskWorkerMap'[u] = x) <=> (\E i \in 1..Len(list) : list[i] = u)
          BY <1>9, <2>1, <3>1, <4>2
        <5>2. ASSUME NEW i \in 1..Len(WorkerTaskMap'[x]), WorkerTaskMap'[x][i] = u
              PROVE  \E j \in 1..Len(list) : list[j] = u
          BY <3>2, <3>3, <4>2, <5>2
        <5>3. ASSUME NEW j \in 1..Len(list), list[j] = u
              PROVE  \E i \in 1..Len(WorkerTaskMap'[x]) : WorkerTaskMap'[x][i] = u
          BY <3>2, <3>4, <5>3
        <5> QED BY <5>1, <5>2, <5>3
      <4> QED BY <4>1, <4>2
    <3>7. \A i, j \in 1..Len(WorkerTaskMap'[x]) :
            WorkerTaskMap'[x][i] = WorkerTaskMap'[x][j] => i = j
      BY <2>1, <2>2, <3>1, <3>2, <3>3
    <3> QED BY <3>6, <3>7
  <2>4. CASE x # w
    <3>1. WorkerTaskMap'[x] = WorkerTaskMap[x]
      BY <1>10, <2>4
    <3>2. ASSUME NEW u \in Tasks
          PROVE  (TaskWorkerMap'[u] = x) <=>
                 (\E i \in 1..Len(WorkerTaskMap[x]) : WorkerTaskMap[x][i] = u)
      <4>1. CASE u = t
        BY <1>9, <2>2, <2>4, <4>1
      <4>2. CASE u # t
        BY <1>9, <2>1, <4>2
      <4> QED BY <4>1, <4>2
    <3> QED BY <2>1, <3>1, <3>2
  <2> QED BY <2>3, <2>4
<1>13. TypeOK'
  BY <1>1, <1>2, <1>3, <1>6, <1>8, <1>9, <1>10, <1>11 DEF IInv, TypeOK
<1>14. Picture(TaskDb[t], At(t), TaskWorkerMap[t], assigned[t], Answered(t))
  BY <1>2 DEF IInv, PictureInv, Pictured
<1>15. StopReachesHome' /\ SendInv'
  <2>1. assigned'[t] <= 1 => \A v \in Workers : remote[v][t] = "None"
    <3>1. assigned'[t] <= 1 => assigned[t] = 0
      BY <1>11
    <3>2. \A v \in Workers : At(t)[v] = remote[v][t]
      BY DEF At
    <3> QED BY <1>14, <3>1, <3>2 DEF Picture
  <2> QED BY <1>1, <1>3, <1>9, <2>1 DEF StopReachesHome, SendInv, t
<1>16. PictureInv'
  <2> SUFFICES ASSUME NEW u \in Tasks PROVE Pictured(u)'
    BY DEF PictureInv
  <2>1. Pictured(u)
    BY DEF IInv, PictureInv
  <2>2. CASE u # t
    BY <1>1, <1>8, <1>9, <1>11, <2>1, <2>2, PicturedFrame
  <2>3. CASE u = t
    <3>1. assigned[t] \in 0..2
      BY <1>2, <1>4
    <3>2. Picture(TaskDb'[t], At(t), w, assigned'[t], Answered(t))
      BY <1>8, <1>11, <1>14, <3>1, PictureAssigned
    <3>3. At(u)' = At(u) /\ Answered(u)' = Answered(u)
      BY <1>1 DEF At, Answered
    <3> QED BY <1>9, <2>3, <3>2, <3>3 DEF Pictured
  <2> QED BY <2>2, <2>3
<1>17. assigned[t] = 0 => TaskDb[t] = "None"
  BY <1>14 DEF Picture
<1>18. IInv'
  BY <1>12, <1>13, <1>15, <1>16 DEF IInv
<1>19. assigned[t] # 0 => assigned'[t] > 1
  BY <1>11
<1> QED BY <1>8, <1>17, <1>18, <1>19

-----------------------------------------------------------------------------
\* The steps of updateTasks leave the maps and the workers alone.
LEMMA UpdateStep ==
  ASSUME IInv, UNCHANGED <<process, queue, RestartCount, maps, send, remote>>,
         TaskDb' \in [Tasks -> State \cup {"None"}], faults' \in 0..MaxFaults,
         update' \in Updating, PictureInv'
  PROVE  IInv'
<1>1. UNCHANGED <<dbType, starts, up, opened, Pending, added, TaskWorkerMap,
                  WorkerTaskMap, assigned>>
  BY DEF process, queue, maps
<1>2. TypeOK'
  BY <1>1 DEF IInv, TypeOK
<1>3. MapsAgree' /\ StopReachesHome' /\ SendInv'
  BY <1>1 DEF IInv, MapsAgree, StopReachesHome, SendInv
<1> QED BY <1>2, <1>3 DEF IInv

\* The loop of UpdateTasks visits workers only.
LEMMA NextWorker == TypeOK => nextWorker \in Workers
  BY ManagerAssumption DEF TypeOK, Updating, Workers, nextWorker

\* A failing request leaves the picture as it was.
LEMMA FetchErrors == IInv /\ FetchError => IInv'
<1> SUFFICES ASSUME IInv, FetchError PROVE IInv'
  OBVIOUS
<1>1. /\ update' = [update EXCEPT !.at = nextWorker]
      /\ UNCHANGED <<process, queue, RestartCount, maps, send, remote>>
      /\ UNCHANGED <<TaskDb, faults, TaskWorkerMap, assigned>>
  BY DEF FetchError, db, maps
<1>2. update' \in Updating /\ update'.todo = update.todo
  BY <1>1, NextWorker DEF IInv, TypeOK, Updating
<1>3. PictureInv'
  BY <1>1, <1>2, PicturedFrame DEF IInv, PictureInv
<1>4. TaskDb' \in [Tasks -> State \cup {"None"}] /\ faults' \in 0..MaxFaults
  BY <1>1 DEF IInv, TypeOK
<1> QED BY <1>1, <1>2, <1>3, <1>4, UpdateStep

\* An answer is what is at the worker.
LEMMA FetchTasksStep ==
  ASSUME IInv, NEW w \in Workers, FetchTasks(w)
  PROVE  IInv'
<1> DEFINE answer == {<<t, remote[w][t]>> : t \in {u \in Tasks : remote[w][u] # "None"}}
<1>1. /\ update' = [at |-> nextWorker, todo |-> answer]
      /\ UNCHANGED <<process, queue, RestartCount, maps, send, remote>>
      /\ UNCHANGED <<TaskDb, faults, TaskWorkerMap, assigned>>
  BY DEF FetchTasks, db, maps
<1>2. update' \in Updating /\ update'.todo = answer
  <2>1. answer \in SUBSET (Tasks \X Reported)
    BY DEF IInv, TypeOK
  <2> HIDE DEF answer
  <2> QED BY <1>1, <2>1, NextWorker DEF IInv, Updating
<1>3. PictureInv'
  <2> SUFFICES ASSUME NEW t \in Tasks PROVE Pictured(t)'
    BY DEF PictureInv
  <2>1. Picture(TaskDb[t], At(t), TaskWorkerMap[t], assigned[t], Answered(t))
    BY DEF IInv, PictureInv, Pictured
  <2>2. assigned[t] \in 0..2
    BY DEF IInv, TypeOK
  <2>3. \A s \in Answered(t)' : s = At(t)[w] /\ s # "None"
    BY <1>2 DEF Answered, At
  <2> HIDE DEF answer
  <2>4. Picture(TaskDb[t], At(t), TaskWorkerMap[t], assigned[t], Answered(t)')
    BY <2>1, <2>2, <2>3, PictureAnswers
  <2>5. At(t)' = At(t)
    BY <1>1 DEF At
  <2> QED BY <1>1, <2>4, <2>5 DEF Pictured
<1>4. TaskDb' \in [Tasks -> State \cup {"None"}] /\ faults' \in 0..MaxFaults
  BY <1>1 DEF IInv, TypeOK
<1> QED BY <1>1, <1>2, <1>3, <1>4, UpdateStep

\* The store takes a state of the answer, which for a task that was assigned
\* once is the last one, and not behind the store.
LEMMA UpdateTaskStep ==
  ASSUME IInv, NEW t \in Tasks, NEW s \in Reported, UpdateTask(t, s)
  PROVE  /\ IInv' /\ UNCHANGED assigned
         /\ \/ TaskDb'[t] = TaskDb[t]
            \/ TaskDb'[t] = s /\ (assigned[t] <= 1 => Before(TaskDb[t], s))
         /\ \A u \in Tasks \ {t} : TaskDb'[u] = TaskDb[u]
<1>1. /\ <<t, s>> \in update.todo
      /\ update' = [update EXCEPT !.todo = @ \ {<<t, s>>}]
      /\ UNCHANGED <<process, queue, RestartCount, maps, send, remote>>
      /\ UNCHANGED <<TaskWorkerMap, assigned>>
  BY DEF UpdateTask, maps
<1>2. update' \in Updating /\ update'.todo = update.todo \ {<<t, s>>}
  BY <1>1 DEF IInv, TypeOK, Updating
<1>3. /\ TaskDb' \in [Tasks -> State \cup {"None"}]
      /\ TaskDb'[t] \in {TaskDb[t], s}
      /\ \A u \in Tasks \ {t} : TaskDb'[u] = TaskDb[u]
      /\ faults' \in 0..MaxFaults
  <2>1. CASE UNCHANGED <<TaskDb, faults>>
    BY <2>1 DEF IInv, TypeOK
  <2>2. CASE Put(t, s)
    <3>1. s \in State /\ TypeOK
      BY DEF IInv, Reported, State
    <3> QED BY <2>2, <3>1, Puts
  <2> QED BY <2>1, <2>2 DEF UpdateTask
<1>4. /\ Picture(TaskDb[t], At(t), TaskWorkerMap[t], assigned[t], Answered(t))
      /\ s \in Answered(t) /\ assigned[t] \in 0..2
  BY <1>1 DEF IInv, PictureInv, Pictured, Answered, TypeOK
<1>5. PictureInv'
  <2> SUFFICES ASSUME NEW u \in Tasks PROVE Pictured(u)'
    BY DEF PictureInv
  <2>1. CASE u # t
    <3>1. Pictured(u)
      BY DEF IInv, PictureInv
    <3> QED BY <1>1, <1>2, <1>3, <2>1, <3>1, PicturedFrame
  <2>2. CASE u = t
    <3>1. Picture(TaskDb'[t], At(t), TaskWorkerMap[t], assigned[t], Answered(t) \ {s})
      BY <1>3, <1>4, PictureUpdates
    <3>2. At(t)' = At(t) /\ Answered(t)' = Answered(t) \ {s}
      BY <1>1, <1>2 DEF At, Answered
    <3> QED BY <1>1, <2>2, <3>1, <3>2 DEF Pictured
  <2> QED BY <2>1, <2>2
<1>6. IInv'
  BY <1>1, <1>2, <1>3, <1>5, UpdateStep
<1>7. assigned[t] <= 1 => Before(TaskDb[t], s)
  BY <1>4 DEF Picture
<1> QED BY <1>1, <1>3, <1>6, <1>7

\* The health loop changes a stored state only with a counted restart, which
\* ends the process.
LEMMA HealthSteps ==
  ASSUME IInv, NEW t \in Tasks, checkTaskHealth(t) \/ restartTask(t)
  PROVE  /\ IInv'
         /\ \A u \in Tasks : \/ TaskDb'[u] = TaskDb[u]
                             \/ RestartCount'[u] > RestartCount[u]
                             \/ dbType # "persistent" /\ ~up'
<1>1. /\ TaskDb \in [Tasks -> State \cup {"None"}]
      /\ RestartCount \in [Tasks -> 0..3]
  BY DEF IInv, TypeOK
<1>2. CASE Ends(TaskDb, RestartCount) /\ (StoreError \/ UNCHANGED faults)
  <2>1. IInv'
    BY <1>2, EndsAsItIs
  <2> QED BY <1>2, <2>1 DEF Ends
<1>3. CASE /\ RestartCount[t] < 3 /\ TaskDb[t] = "Failed"
           /\ Ends([TaskDb EXCEPT ![t] = "Scheduled"],
                   [RestartCount EXCEPT ![t] = @ + 1])
           /\ UNCHANGED faults
  <2> DEFINE stored == [TaskDb EXCEPT ![t] = "Scheduled"]
             counts == [RestartCount EXCEPT ![t] = @ + 1]
  <2>1. /\ counts \in [Tasks -> 0..3] /\ counts[t] > RestartCount[t]
        /\ stored \in [Tasks -> State \cup {"None"}]
        /\ stored[t] = "Scheduled"
        /\ \A u \in Tasks \ {t} : stored[u] = TaskDb[u]
    BY <1>1, <1>3 DEF State
  <2>2. Ends(stored, counts)
    BY <1>3
  <2> HIDE DEF stored, counts
  <2>3. \A u \in Tasks : \/ stored[u] = TaskDb[u]
                         \/ stored[u] = "Scheduled" /\ TaskDb[u] # "None"
    BY <1>3, <2>1
  <2>4. IInv'
    BY <1>3, <2>1, <2>2, <2>3, EndsStep
  <2> QED BY <2>1, <2>2, <2>4 DEF Ends
<1> QED BY <1>2, <1>3 DEF checkTaskHealth, restartTask

\* The process may end at any moment.
LEMMA Crashes == IInv /\ Crash => IInv'
  BY EndsAsItIs DEF Crash

\* Every step of SendWork keeps the invariant.
LEMMA SendWorkStep == IInv /\ SendWork => IInv'
<1>1. IInv /\ (NoCandidate \/ PostRefused) => IInv'
  BY Returns DEF NoCandidate, PostRefused
<1> QED BY <1>1, Dequeues, DecideAssigneds, StopTasks, AssignStep, WorkerAcceptsStep,
           PostCreateds, Decodeds, PostErrors DEF SendWork

\* Every step of updateTasks keeps the invariant.
LEMMA updateTasksStep == IInv /\ updateTasks => IInv'
  BY FetchErrors, FetchTasksStep, UpdateTaskStep DEF updateTasks

\* The invariant is inductive.
LEMMA NextIInv == IInv /\ [Next]_vars => IInv'
<1> SUFFICES ASSUME IInv, [Next]_vars PROVE IInv'
  OBVIOUS
<1>1. CASE UNCHANGED vars
  <2>1. /\ send' = send /\ UNCHANGED <<process, TaskDb, RestartCount, maps, update, remote>>
        /\ UNCHANGED <<Pending, added, faults>>
    BY <1>1 DEF vars, queue, db
  <2>2. /\ Pending' \in Seq(Item) /\ added' \in 0..MaxEvents
        /\ faults' \in 0..MaxFaults /\ send' \in Sending
        /\ send'.pc # "idle" => send'.item \in Item
    BY <2>1 DEF IInv, TypeOK
  <2>3. StopReachesHome' /\ SendInv'
    BY <2>1 DEF IInv, StopReachesHome, SendInv, maps, process
  <2> QED BY <2>1, <2>2, <2>3, SendStep
<1>2. CASE New \/ Crash
  BY <1>2, NewStep, Crashes
<1>3. CASE SendWork
  BY <1>3, SendWorkStep
<1>4. CASE updateTasks
  BY <1>4, updateTasksStep
<1>5. CASE \E t \in Tasks :
             \/ \E s \in {"Scheduled", "Completed"} : AddTask(t, s)
             \/ \E w \in Workers : WorkerRuns(w, t)
             \/ checkTaskHealth(t) \/ restartTask(t)
  BY <1>5, AddTasks, WorkerRunsStep, HealthSteps
<1> QED BY <1>1, <1>2, <1>3, <1>4, <1>5 DEF Next

\* The invariant holds in every reachable state.
LEMMA Inductive == Spec => []IInv
  BY InitIInv, NextIInv, PTL DEF Spec

-----------------------------------------------------------------------------
\* Every variable stays in its type (manager.go:23-46).
THEOREM TypeCorrect == Spec => []TypeOK
<1>1. IInv => TypeOK
  BY DEF IInv
<1> QED BY <1>1, Inductive, PTL

\* A task is on the list of one worker, once, and that is the worker the other
\* map has for it, whatever is queued and how often, in the life of each of the
\* managers that start one after the other (manager.go:48-92, 280-313).
THEOREM OneWorkerPerTask == Spec => []MapsAgree
<1>1. IInv => MapsAgree
  BY DEF IInv
<1> QED BY <1>1, Inductive, PTL

\* A stop request for a task that was assigned once goes to a worker that has
\* accepted it, whichever managers have come and gone
\* (manager.go:39-40, 77-80, 157-166, 280-295).
THEOREM StopsAtHome == Spec => []StopReachesHome
<1>1. IInv => StopReachesHome
  BY DEF IInv
<1> QED BY <1>1, Inductive, PTL

\* What the store says of one task.
LEMMA ViewStep ==
  IInv /\ [Next]_vars =>
    \A t \in Tasks :
       \/ TaskDb'[t] = TaskDb[t] \/ Stage(TaskDb'[t]) > Stage(TaskDb[t])
       \/ RestartCount'[t] > RestartCount[t]
       \/ assigned'[t] > 1
       \/ dbType # "persistent" /\ ~up'
       \/ /\ dbType = "memory"
          /\ send.pc \in {"accepted", "decoding"} /\ send.item.task = t
<1> DEFINE Fine(u) ==
       \/ TaskDb'[u] = TaskDb[u] \/ Stage(TaskDb'[u]) > Stage(TaskDb[u])
       \/ RestartCount'[u] > RestartCount[u]
       \/ assigned'[u] > 1
       \/ dbType # "persistent" /\ ~up'
       \/ /\ dbType = "memory"
          /\ send.pc \in {"accepted", "decoding"} /\ send.item.task = u
<1> SUFFICES ASSUME IInv, [Next]_vars, NEW u \in Tasks PROVE Fine(u)
  OBVIOUS
<1>1. Stage("Scheduled") > Stage("None") /\ \A r : Stage(r) \in 0..4
  BY StageValues
<1>2. CASE UNCHANGED TaskDb
  BY <1>2
<1>3. CASE \E w \in Workers : Assign(w)
  BY <1>1, <1>3, AssignStep
<1>4. ASSUME NEW t \in Tasks, NEW s \in Reported, UpdateTask(t, s)
      PROVE  Fine(u)
  <2>1. CASE TaskDb'[u] = TaskDb[u]
    BY <2>1
  <2>2. CASE TaskDb'[u] # TaskDb[u]
    <3>1. /\ u = t /\ TaskDb'[u] = s /\ assigned' = assigned
          /\ assigned[u] <= 1 => Before(TaskDb[u], s)
      BY <1>4, <2>2, UpdateTaskStep
    <3>2. TaskDb[u] # "None"
      BY <1>4, <2>2, <3>1 DEF UpdateTask
    <3>3. assigned[u] <= 1 => Stage(TaskDb[u]) < Stage(s)
      BY <2>2, <3>1, <3>2 DEF Before
    <3>4. assigned[u] \in 0..2
      BY DEF IInv, TypeOK
    <3> QED BY <1>1, <3>1, <3>3, <3>4
  <2> QED BY <2>1, <2>2
<1>5. ASSUME NEW t \in Tasks, checkTaskHealth(t) \/ restartTask(t)
      PROVE  Fine(u)
  BY <1>5, HealthSteps
<1>6. CASE Ends(TaskDb, RestartCount)
  BY <1>6 DEF Ends
<1>7. CASE PostCreated \/ Decoded
  <2>1. CASE dbType = "memory" /\ send.item.task = u
    BY <1>7, <2>1 DEF PostCreated, Decoded
  <2>2. CASE dbType # "memory"
    BY <1>7, <2>2 DEF PostCreated, Decoded, IInv, SendInv
  <2>3. CASE send.item.task # u
    BY <1>7, <2>3 DEF PostCreated, Decoded, IInv, TypeOK
  <2> QED BY <2>1, <2>2, <2>3
<1>8. CASE SendWork
  <2>1. CASE Dequeue
    BY <1>2, <1>6, <2>1 DEF Dequeue, db
  <2>2. CASE \/ DecideAssigned \/ stopTask \/ NoCandidate \/ WorkerAccepts
             \/ PostRefused \/ PostError
    BY <1>2, <2>2 DEF DecideAssigned, stopTask, NoCandidate, WorkerAccepts,
                      PostRefused, PostError, db
  <2> QED BY <1>3, <1>7, <1>8, <2>1, <2>2 DEF SendWork
<1>9. CASE New \/ Crash
  BY <1>2, <1>6, <1>9 DEF New, Crash
<1>10. CASE updateTasks
  <2>1. CASE FetchError \/ \E w \in Workers : FetchTasks(w)
    BY <1>2, <2>1 DEF FetchError, FetchTasks, db
  <2> QED BY <1>4, <1>10, <2>1 DEF updateTasks
<1>11. CASE \E t \in Tasks :
              \/ \E s \in {"Scheduled", "Completed"} : AddTask(t, s)
              \/ \E w \in Workers : WorkerRuns(w, t)
  BY <1>2, <1>11 DEF AddTask, WorkerRuns, db
<1>12. CASE UNCHANGED vars
  BY <1>2, <1>12 DEF vars, db
<1> HIDE DEF Fine
<1> QED BY <1>5, <1>8, <1>9, <1>10, <1>11, <1>12 DEF Next

\* The stored state of a task that was assigned once goes forward only, but for
\* a counted restart, however the loops, the workers and the ends of managers
\* interleave; in memory, until the manager or its answer 201 overwrites it
\* (manager.go:77-80, 157-166, 214-218, 303-344).
THEOREM PictureGoesForward == Spec => ViewNeverGoesBack
<1>1. IInv /\ [Next]_vars =>
        [\A t \in Tasks :
           \/ TaskDb'[t] = TaskDb[t] \/ Stage(TaskDb'[t]) > Stage(TaskDb[t])
           \/ RestartCount'[t] > RestartCount[t]
           \/ assigned'[t] > 1
           \/ dbType # "persistent" /\ ~up'
           \/ /\ dbType = "memory"
              /\ send.pc \in {"accepted", "decoding"} /\ send.item.task = t]_vars
  BY ViewStep
<1> QED BY <1>1, Inductive, PTL DEF Spec, ViewNeverGoesBack

-----------------------------------------------------------------------------
(* The choice of the worker for a task *)

\* A property that does not hold of all numbers fails first at one of them.
LEMMA First ==
  ASSUME NEW T, T \subseteq Nat, T # {}
  PROVE  \E n \in T : \A m \in T : n <= m
<1>1. IsWellFoundedOn(OpToRel(<, Nat), Nat)  BY NatLessThanWellFounded
<1>2. PICK n \in T : \A m \in T : ~(<<m, n>> \in OpToRel(<, Nat))
  BY <1>1, WFMin
<1>3. \A m \in T : ~(m < n)  BY <1>2 DEF OpToRel
<1> QED  BY <1>3

\* The candidate Pick has after its i-th step, g its candidates before.
Better(scores, c, g, i) ==
  IF i = 1 \/ less(Read(scores, c[i]), Read(scores, g[i - 1]))
    THEN c[i] ELSE g[i - 1]

\* The loop of Pick ends with the choice of its last step.
LEMMA PickLoop ==
  ASSUME NEW scores, NEW c, Len(c) \in Nat
  PROVE  \E g : /\ g = [i \in 1..Len(c) |-> Better(scores, c, g, i)]
                /\ Pick(scores, c) = g[Len(c)]
<1> DEFINE Steps(g, n) == g = [i \in 1..n |-> Better(scores, c, g, i)]
           T == {n \in Nat : ~ \E g : Steps(g, n)}
<1>1. T = {}
  <2> SUFFICES ASSUME T # {}  PROVE FALSE
    OBVIOUS
  <2>1. PICK n \in T : \A m \in T : n <= m
    <3>1. T \subseteq Nat  OBVIOUS
    <3> HIDE DEF T
    <3> QED  BY <3>1, First
  <2>2. n # 0
    <3>1. Steps([i \in 1..0 |-> i], 0)  OBVIOUS
    <3> QED  BY <3>1, <2>1
  <2>3. n - 1 \in Nat /\ n - 1 \notin T  BY <2>1, <2>2
  <2>4. PICK g : Steps(g, n - 1)  BY <2>3
  <2> DEFINE h == [i \in 1..n |-> IF i = n THEN Better(scores, c, g, n) ELSE g[i]]
  <2>5. \A i \in 1..n : h[i] = Better(scores, c, h, i)
    <3> SUFFICES ASSUME NEW i \in 1..n  PROVE h[i] = Better(scores, c, h, i)
      OBVIOUS
    <3>1. i # 1 => h[i - 1] = g[i - 1]
      BY <2>1
    <3>2. Better(scores, c, h, i) = Better(scores, c, g, i)
      BY <3>1 DEF Better
    <3>3. i # n => g[i] = Better(scores, c, g, i)
      <4>1. i # n => i \in 1..(n - 1)  BY <2>1
      <4>2. g = [k \in 1..(n - 1) |-> Better(scores, c, g, k)]  BY <2>4
      <4>3. \A k \in 1..(n - 1) : g[k] = Better(scores, c, g, k)
        <5> HIDE <2>4
        <5> DEFINE B(k) == Better(scores, c, g, k)
        <5>1. g = [k \in 1..(n - 1) |-> B(k)]  BY <4>2
        <5> HIDE DEF B
        <5>2. \A k \in 1..(n - 1) : g[k] = B(k)  BY <5>1
        <5> QED  BY <5>2 DEF B
      <4> QED  BY <4>1, <4>3
    <3> QED  BY <3>2, <3>3
  <2>6. Steps(h, n)
    <3> HIDE DEF h
    <3>1. h = [i \in 1..n |-> h[i]]  BY DEF h
    <3> QED  BY <3>1, <2>5
  <2> QED  BY <2>1, <2>6
<1>2. \E g : Steps(g, Len(c))  BY <1>1
<1> DEFINE best == CHOOSE g : Steps(g, Len(c))
<1>3. Steps(best, Len(c))  BY <1>2
<1>4. Pick(scores, c) = best[Len(c)]
  BY DEF Pick, Better
<1> QED  BY <1>3, <1>4

\* The worker whose turn it is, d turns ago.
Past(d) == IF LastWorker >= d THEN LastWorker - d ELSE LastWorker - d + numNodes

\* The picks are the last turns.
TurnsInv ==
  /\ LastWorker \in Nodes
  /\ picks \in Seq(Nodes) /\ Len(picks) <= numNodes
  /\ \A k \in 1..Len(picks) : picks[k] = Past(Len(picks) - k)

\* The only score below the others is that of the worker whose turn it is.
LEMMA PickTurn ==
  ASSUME NEW turn \in Nodes
  PROVE  Pick([k \in Nodes |-> IF k = turn THEN <<1, 10>> ELSE <<1, 1>>],
                [i \in 1..numNodes |-> i - 1]) = turn
<1> DEFINE sc == [k \in Nodes |-> IF k = turn THEN <<1, 10>> ELSE <<1, 1>>]
           c == [i \in 1..numNodes |-> i - 1]
<1>0. numNodes \in Nat \ {0} /\ Nodes = 0..(numNodes - 1)
  BY SchedulerAssumption DEF Nodes
<1>1. Len(c) = numNodes /\ \A i \in 1..numNodes : c[i] = i - 1
  BY <1>0
<1>2. \A k \in Nodes : Read(sc, k) = IF k = turn THEN <<1, 10>> ELSE <<1, 1>>
  BY DEF Read
<1>3. \A k, m \in Nodes :
        less(Read(sc, k), Read(sc, m)) <=> k = turn /\ m # turn
  BY <1>2 DEF less
<1> HIDE DEF sc, c
<1>4. PICK g : /\ g = [i \in 1..Len(c) |-> Better(sc, c, g, i)]
               /\ Pick(sc, c) = g[Len(c)]
  BY <1>0, <1>1, PickLoop
<1> DEFINE right(i) == IF turn <= i - 1 THEN turn ELSE 0
           Wrong == {i \in 1..numNodes : g[i] # right(i)}
<1>5. \A i \in 1..numNodes :
        g[i] = IF i = 1 \/ less(Read(sc, i - 1), Read(sc, g[i - 1]))
                 THEN i - 1 ELSE g[i - 1]
  <2> DEFINE B(i) == Better(sc, c, g, i)
  <2>1. g = [i \in 1..Len(c) |-> B(i)]  BY <1>4
  <2> HIDE DEF B
  <2>2. \A i \in 1..Len(c) : g[i] = B(i)  BY <2>1
  <2> QED  BY <1>1, <2>2 DEF B, Better
<1>6. Wrong = {}
  <2> SUFFICES ASSUME Wrong # {}  PROVE FALSE
    OBVIOUS
  <2>1. PICK i \in Wrong : \A m \in Wrong : i <= m
    <3>1. Wrong \subseteq Nat  OBVIOUS
    <3> HIDE DEF Wrong
    <3> QED  BY <3>1, First
  <2>2. i \in 1..numNodes /\ g[i] # right(i)  OBVIOUS
  <2>3. CASE i = 1
    BY <1>0, <1>5, <2>2, <2>3
  <2>4. CASE i # 1
    <3>1. i - 1 \in 1..numNodes /\ i - 1 \notin Wrong  BY <1>0, <2>1, <2>2, <2>4
    <3>2. g[i - 1] = right(i - 1)  BY <3>1
    <3>3. i - 1 \in Nodes /\ g[i - 1] \in Nodes
      BY <1>0, <2>2, <3>2
    <3>4. g[i] = IF i - 1 = turn /\ g[i - 1] # turn THEN i - 1 ELSE g[i - 1]
      BY <1>3, <1>5, <2>2, <2>4, <3>3
    <3> QED  BY <1>0, <2>2, <3>2, <3>4
  <2> QED  BY <2>3, <2>4
<1>7. g[numNodes] = turn  BY <1>0, <1>6
<1> QED  BY <1>1, <1>4, <1>7 DEF sc, c

\* There are no picks at the beginning.
LEMMA TurnsBegin == SchedulerInit => TurnsInv
BY SchedulerAssumption DEF SchedulerInit, TurnsInv, Nodes

\* A pick is the next turn, and the other selections leave the turns alone.
LEMMA TurnsGoOn == TurnsInv /\ [SchedulerNext]_schedulerVars => TurnsInv'
<1> SUFFICES ASSUME TurnsInv, [SchedulerNext]_schedulerVars  PROVE TurnsInv'
  OBVIOUS
<1>0. /\ numNodes \in Nat \ {0} /\ Nodes = 0..(numNodes - 1)
      /\ LastWorker \in Nodes /\ picks \in Seq(Nodes) /\ Len(picks) <= numNodes
      /\ Len(picks) \in Nat
  BY SchedulerAssumption DEF Nodes, TurnsInv
<1>1. ASSUME UNCHANGED <<LastWorker, picks>>  PROVE TurnsInv'
  BY <1>1 DEF TurnsInv, Past
<1>2. CASE SelectRoundRobin
  <2> DEFINE kept == IF Len(picks) < numNodes THEN picks ELSE Tail(picks)
  <2>1. Turn \in Nodes  BY <1>0 DEF Turn
  <2>2. LastWorker' = Turn /\ picks' = Append(kept, Turn)
    <3>1. Pick([k \in Nodes |-> IF k = Turn THEN <<1, 10>> ELSE <<1, 1>>],
                 [i \in 1..numNodes |-> i - 1]) = Turn
      BY <2>1, PickTurn
    <3> QED  BY <1>2, <3>1 DEF SelectRoundRobin
  <2>3. /\ kept \in Seq(Nodes) /\ Len(kept) \in Nat /\ Len(kept) < numNodes
        /\ \A k \in 1..Len(kept) : kept[k] = Past(Len(kept) - k)
    <3>1. CASE Len(picks) < numNodes
      BY <1>0, <3>1 DEF TurnsInv
    <3>2. CASE Len(picks) = numNodes
      <4>1. /\ Tail(picks) \in Seq(Nodes) /\ Len(Tail(picks)) = Len(picks) - 1
            /\ \A k \in 1..(Len(picks) - 1) : Tail(picks)[k] = picks[k + 1]
        BY <1>0, <3>2
      <4>2. \A k \in 1..(Len(picks) - 1) :
              /\ k + 1 \in 1..Len(picks)
              /\ Len(picks) - (k + 1) = Len(Tail(picks)) - k
        BY <1>0, <4>1
      <4>3. kept = Tail(picks)  BY <3>2
      <4> HIDE DEF kept
      <4>4. ASSUME NEW k \in 1..Len(kept)  PROVE kept[k] = Past(Len(kept) - k)
        <5>1. k \in 1..(Len(picks) - 1)  BY <4>1, <4>3
        <5>2. kept[k] = Past(Len(picks) - (k + 1))  BY <4>1, <4>2, <4>3, <5>1 DEF TurnsInv
        <5> QED  BY <4>2, <4>3, <5>1, <5>2
      <4> QED  BY <1>0, <3>2, <4>1, <4>3, <4>4
    <3> QED  BY <1>0, <3>1, <3>2
  <2> HIDE DEF kept
  <2>4. /\ picks' \in Seq(Nodes) /\ Len(picks') = Len(kept) + 1
        /\ \A k \in 1..Len(kept) : picks'[k] = kept[k]
        /\ picks'[Len(kept) + 1] = Turn
    BY <2>1, <2>2, <2>3
  <2>5. /\ LastWorker' \in 0..(numNodes - 1)
        /\ LastWorker' = IF LastWorker + 1 < numNodes THEN LastWorker + 1 ELSE 0
    BY <1>0, <2>1, <2>2 DEF Turn
  <2>6. ASSUME NEW k \in 1..Len(picks')
        PROVE  picks'[k] = IF LastWorker' >= Len(picks') - k
                             THEN LastWorker' - (Len(picks') - k)
                             ELSE LastWorker' - (Len(picks') - k) + numNodes
    <3>1. CASE k = Len(picks')
      BY <2>2, <2>3, <2>4, <2>5, <3>1
    <3>2. CASE k \in 1..Len(kept)
      <4> DEFINE d == Len(kept) - k
      <4>1. d \in Nat /\ d <= numNodes - 2 /\ Len(picks') - k = d + 1
        BY <1>0, <2>3, <2>4, <3>2
      <4>2. picks'[k] = Past(d)  BY <2>3, <2>4, <3>2
      <4> HIDE DEF d
      <4>3. picks'[k] = IF LastWorker' >= d + 1 THEN LastWorker' - (d + 1)
                        ELSE LastWorker' - (d + 1) + numNodes
        BY <1>0, <2>5, <4>1, <4>2 DEF Past
      <4> QED  BY <4>1, <4>3
    <3> QED  BY <2>3, <2>4, <3>1, <3>2
  <2>7. Len(picks') <= numNodes /\ LastWorker' \in Nodes
    BY <1>0, <2>3, <2>4, <2>5
  <2>8. Nodes' = Nodes  BY DEF Nodes
  <2> QED  BY <2>4, <2>6, <2>7, <2>8 DEF TurnsInv, Past
<1>3. ASSUME NEW n \in Nodes, UpdateNodeStats(n)  PROVE TurnsInv'
  BY <1>1, <1>3 DEF UpdateNodeStats
<1>4. ASSUME NEW d, SelectByLoad(d)  PROVE TurnsInv'
  BY <1>1, <1>4 DEF SelectByLoad
<1>5. CASE AskCandidate \/ ReadCounter \/ Score \/ Choose
  BY <1>1, <1>5 DEF AskCandidate, ReadCounter, Score, Choose
<1>6. CASE UNCHANGED schedulerVars
  BY <1>1, <1>6 DEF schedulerVars
<1> QED  BY <1>2, <1>3, <1>4, <1>5, <1>6 DEF SchedulerNext

\* Round robin turns through the workers, however many there are: among any
\* numNodes picks in a row no worker occurs twice, whatever the other
\* schedulers do meanwhile (scheduler.go:32-72, manager.go:95-109).
THEOREM TurnsAreFair == SchedulerSpec => []RoundRobinFair
<1>1. TurnsInv => RoundRobinFair
  <2> SUFFICES ASSUME TurnsInv, NEW i \in 1..Len(picks), NEW k \in 1..Len(picks),
                      picks[i] = picks[k]
               PROVE  i = k
    BY DEF RoundRobinFair
  <2>1. /\ numNodes \in Nat \ {0} /\ LastWorker \in 0..(numNodes - 1)
        /\ Len(picks) \in Nat /\ Len(picks) <= numNodes
    BY SchedulerAssumption DEF TurnsInv, Nodes
  <2>2. picks[i] = Past(Len(picks) - i) /\ picks[k] = Past(Len(picks) - k)
    BY DEF TurnsInv
  <2>3. Past(Len(picks) - i) = Past(Len(picks) - k)  BY <2>2
  <2> QED  BY <2>1, <2>3 DEF Past
<1> QED  BY <1>1, TurnsBegin, TurnsGoOn, PTL DEF SchedulerSpec

-----------------------------------------------------------------------------
(* The candidate of least cost *)

\* The candidates after the i-th node.
Extended(d, g, i) ==
  IF i = 0 THEN <<>>
  ELSE IF d <= disk[i - 1] THEN Append(g[i - 1], i - 1) ELSE g[i - 1]

\* selectCandidateNodes is a loop over the nodes.
LEMMA CandidatesLoop ==
  ASSUME NEW d
  PROVE  \E g : /\ g = [i \in 0..numNodes |-> Extended(d, g, i)]
                /\ selectCandidateNodes(d) = g[numNodes]
<1> DEFINE Steps(g, n) == g = [i \in 0..n |-> Extended(d, g, i)]
           T == {n \in Nat : ~ \E g : Steps(g, n)}
<1>0. numNodes \in Nat  BY SchedulerAssumption
<1>1. T = {}
  <2> SUFFICES ASSUME T # {}  PROVE FALSE
    OBVIOUS
  <2>1. PICK n \in T : \A m \in T : n <= m
    <3>1. T \subseteq Nat  OBVIOUS
    <3> HIDE DEF T
    <3> QED  BY <3>1, First
  <2>2. n # 0
    <3>1. Steps([i \in 0..0 |-> <<>>], 0)  BY DEF Extended
    <3> QED  BY <3>1, <2>1
  <2>3. n - 1 \in Nat /\ n - 1 \notin T  BY <2>1, <2>2
  <2>4. PICK g : Steps(g, n - 1)  BY <2>3
  <2> DEFINE h == [i \in 0..n |-> IF i = n THEN Extended(d, g, n) ELSE g[i]]
  <2>5. \A i \in 0..n : h[i] = Extended(d, h, i)
    <3> SUFFICES ASSUME NEW i \in 0..n  PROVE h[i] = Extended(d, h, i)
      OBVIOUS
    <3>1. i # 0 => h[i - 1] = g[i - 1]
      BY <2>1
    <3>2. Extended(d, h, i) = Extended(d, g, i)
      BY <3>1 DEF Extended
    <3>3. i # n => g[i] = Extended(d, g, i)
      <4>1. i # n => i \in 0..(n - 1)  BY <2>1
      <4> DEFINE B(k) == Extended(d, g, k)
      <4>2. g = [k \in 0..(n - 1) |-> B(k)]  BY <2>4
      <4> HIDE DEF B
      <4>3. \A k \in 0..(n - 1) : g[k] = B(k)  BY <4>2
      <4> QED  BY <4>1, <4>3 DEF B
    <3> QED  BY <3>2, <3>3
  <2>6. Steps(h, n)
    <3> HIDE DEF h
    <3>1. h = [i \in 0..n |-> h[i]]  BY DEF h
    <3> QED  BY <3>1, <2>5
  <2> QED  BY <2>1, <2>6
<1>2. \E g : Steps(g, numNodes)  BY <1>0, <1>1
<1> DEFINE found == CHOOSE g : Steps(g, numNodes)
<1>3. Steps(found, numNodes)  BY <1>2
<1>4. selectCandidateNodes(d) = found[numNodes]
  BY DEF selectCandidateNodes, Extended
<1> QED  BY <1>3, <1>4

\* Nodes in the order of the slice.
Ascending(c) ==
  /\ c \in Seq(Nodes)
  /\ \A j, k \in 1..Len(c) : j < k => c[j] < c[k]

\* The candidates are in the order of the nodes, each once.
LEMMA CandidatesAscend ==
  ASSUME NEW d
  PROVE  Ascending(selectCandidateNodes(d))
<1>0. numNodes \in Nat \ {0} /\ Nodes = 0..(numNodes - 1)
  BY SchedulerAssumption DEF Nodes
<1>1. PICK g : /\ g = [i \in 0..numNodes |-> Extended(d, g, i)]
               /\ selectCandidateNodes(d) = g[numNodes]
  BY CandidatesLoop
<1>2. \A i \in 0..numNodes : g[i] = Extended(d, g, i)
  <2> DEFINE B(i) == Extended(d, g, i)
  <2>1. g = [i \in 0..numNodes |-> B(i)]  BY <1>1
  <2> HIDE DEF B
  <2>2. \A i \in 0..numNodes : g[i] = B(i)  BY <2>1
  <2> QED  BY <2>2 DEF B
<1> DEFINE right(i) == Ascending(g[i]) /\ \A k \in 1..Len(g[i]) : g[i][k] < i
           Wrong == {i \in 0..numNodes : ~right(i)}
<1>3. Wrong = {}
  <2> SUFFICES ASSUME Wrong # {}  PROVE FALSE
    OBVIOUS
  <2>1. PICK i \in Wrong : \A m \in Wrong : i <= m
    <3>1. Wrong \subseteq Nat  BY <1>0
    <3> HIDE DEF Wrong
    <3> QED  BY <3>1, First
  <2>2. i \in 0..numNodes /\ ~right(i)  OBVIOUS
  <2>3. i # 0
    <3>1. g[0] = <<>>  BY <1>0, <1>2 DEF Extended
    <3>2. right(0)  BY <3>1 DEF Ascending
    <3> QED  BY <2>2, <3>2
  <2>4. i - 1 \in 0..numNodes /\ i - 1 \notin Wrong  BY <1>0, <2>1, <2>2, <2>3
  <2>5. right(i - 1)  BY <2>4
  <2>6. CASE g[i] = g[i - 1]
    <3> DEFINE q == g[i - 1]
    <3>0. q \in Seq(Nodes) /\ \A k \in 1..Len(q) : q[k] < i - 1
      BY <2>5 DEF Ascending
    <3>1. \A k \in 1..Len(q) : q[k] < i
      <4> HIDE DEF q
      <4>1. \A k \in 1..Len(q) : q[k] \in Int  BY <1>0, <3>0
      <4> QED  BY <2>2, <3>0, <4>1
    <3> QED  BY <2>2, <2>5, <2>6, <3>1
  <2>7. CASE g[i] = Append(g[i - 1], i - 1)
    <3> DEFINE q == g[i - 1]
    <3>1. q \in Seq(Nodes) /\ Len(q) \in Nat /\ i - 1 \in Nodes
      BY <1>0, <2>2, <2>3, <2>5 DEF Ascending
    <3>2. /\ g[i] \in Seq(Nodes) /\ Len(g[i]) = Len(q) + 1
          /\ \A k \in 1..Len(q) : g[i][k] = q[k]
          /\ g[i][Len(q) + 1] = i - 1
      <4> HIDE DEF q
      <4>1. g[i] = Append(q, i - 1)  BY <2>7 DEF q
      <4> QED  BY <3>1, <4>1
    <3>3. /\ \A k \in 1..Len(q) : q[k] \in Nodes /\ q[k] < i - 1
          /\ \A j, k \in 1..Len(q) : j < k => q[j] < q[k]
      BY <2>5, <3>1 DEF Ascending
    <3> HIDE DEF q
    <3>6. /\ \A k \in 1..Len(g[i]) : k \in 1..Len(q) \/ k = Len(q) + 1
          /\ \A k \in 1..Len(q) : q[k] \in Int
      <4>1. \A k \in 1..Len(g[i]) : k \in 1..Len(q) \/ k = Len(q) + 1
        BY <3>1, <3>2
      <4>2. \A k \in 1..Len(q) : q[k] \in Int
        BY <1>0, <3>3
      <4> QED  BY <4>1, <4>2
    <3>4. \A k \in 1..Len(g[i]) : g[i][k] < i
      BY <2>2, <3>2, <3>3, <3>6
    <3>5. ASSUME NEW j \in 1..Len(g[i]), NEW k \in 1..Len(g[i]), j < k
          PROVE  g[i][j] < g[i][k]
      <4>1. j \in 1..Len(q)  BY <3>1, <3>2, <3>5
      <4> QED  BY <2>2, <3>2, <3>3, <3>5, <3>6, <4>1
    <3> QED  BY <2>2, <3>2, <3>4, <3>5 DEF Ascending
  <2> QED  BY <1>2, <2>2, <2>3, <2>6, <2>7 DEF Extended
<1>4. right(numNodes)  BY <1>0, <1>3
<1> QED  BY <1>1, <1>4

\* A fraction that is a number.
Fraction == Nat \X (Nat \ {0})

\* Multiplication by a positive number keeps the order.
LEMMA Times ==
  ASSUME NEW x \in Int, NEW y \in Int, NEW z \in Nat \ {0}
  PROVE  x < y <=> x * z < y * z
OBVIOUS

\* Fractions are ordered: below one that is not above another is below it.
LEMMA LessTransitive ==
  ASSUME NEW x \in Fraction, NEW y \in Fraction, NEW z \in Fraction,
         less(x, y), ~less(z, y)
  PROVE  less(x, z)
<1> DEFINE a == x[1]  b == x[2]  c == y[1]  d == y[2]  e == z[1]  f == z[2]
<1>1. /\ a \in Nat /\ b \in Nat \ {0} /\ c \in Nat /\ d \in Nat \ {0}
      /\ e \in Nat /\ f \in Nat \ {0}
  BY DEF Fraction
<1>2. a * d < c * b /\ c * f <= e * d
  <2>1. a * d < c * b  BY DEF less
  <2>2. ~(e * d < c * f)  BY DEF less
  <2>3. e * d \in Int /\ c * f \in Int  BY <1>1
  <2> HIDE DEF a, b, c, d, e, f
  <2> QED  BY <2>1, <2>2, <2>3
<1> HIDE DEF a, b, c, d, e, f
<1>3. (a * d) * f < (c * b) * f
  <2>1. a * d \in Int /\ c * b \in Int  BY <1>1
  <2> QED  BY <1>1, <1>2, <2>1, Times
<1>4. (c * f) * b <= (e * d) * b
  <2>1. c * f \in Int /\ e * d \in Int  BY <1>1
  <2>2. ~((e * d) * b < (c * f) * b)  BY <1>1, <1>2, <2>1, Times
  <2>3. (c * f) * b \in Int /\ (e * d) * b \in Int  BY <1>1
  <2> QED  BY <2>2, <2>3
<1>5. /\ (a * d) * f = (a * f) * d
      /\ (c * b) * f = (c * f) * b
      /\ (e * d) * b = (e * b) * d
  BY <1>1
<1>6. (a * f) * d < (e * b) * d
  <2>1. /\ (a * f) * d \in Int /\ (c * f) * b \in Int /\ (e * b) * d \in Int
    BY <1>1
  <2> QED  BY <1>3, <1>4, <1>5, <2>1
<1>7. a * f < e * b
  <2>1. a * f \in Int /\ e * b \in Int  BY <1>1
  <2> QED  BY <1>1, <1>6, <2>1, Times
<1> QED  BY <1>7 DEF less, a, b, e, f

\* Of two fractions at most one is less than the other.
LEMMA LessAsymmetric ==
  ASSUME NEW x \in Fraction, NEW y \in Fraction, less(x, y)
  PROVE  ~less(y, x)
<1>1. x[1] * y[2] \in Int /\ y[1] * x[2] \in Int
  BY DEF Fraction
<1> QED  BY <1>1 DEF less

\* Pick takes the first of the candidates with the lowest score.
LEMMA PickLowest ==
  ASSUME NEW sc, NEW c, Ascending(c), c # <<>>,
         \A k \in 1..Len(c) : Read(sc, c[k]) \in Fraction
  PROVE  \E j \in 1..Len(c) :
           /\ Pick(sc, c) = c[j]
           /\ \A k \in 1..Len(c) :
                \/ less(Read(sc, c[j]), Read(sc, c[k]))
                \/ ~less(Read(sc, c[k]), Read(sc, c[j])) /\ j <= k
<1> DEFINE r(k) == Read(sc, c[k])
           Lowest(j, n) == \A k \in 1..n : less(r(j), r(k)) \/ (~less(r(k), r(j)) /\ j <= k)
<1>0. Len(c) \in Nat \ {0}  BY DEF Ascending
<1>1. PICK g : /\ g = [i \in 1..Len(c) |-> Better(sc, c, g, i)]
               /\ Pick(sc, c) = g[Len(c)]
  BY <1>0, PickLoop
<1>2. \A i \in 1..Len(c) :
        g[i] = IF i = 1 \/ less(r(i), Read(sc, g[i - 1])) THEN c[i] ELSE g[i - 1]
  <2> DEFINE B(i) == Better(sc, c, g, i)
  <2>1. g = [i \in 1..Len(c) |-> B(i)]  BY <1>1
  <2> HIDE DEF B
  <2>2. \A i \in 1..Len(c) : g[i] = B(i)  BY <2>1
  <2> QED  BY <2>2 DEF B, Better
<1>3. \A k \in 1..Len(c) : r(k) \in Fraction  OBVIOUS
<1> DEFINE right(i) == \E j \in 1..i : g[i] = c[j] /\ Lowest(j, i)
           Wrong == {i \in 1..Len(c) : ~right(i)}
<1> HIDE DEF r
<1>4. Wrong = {}
  <2> SUFFICES ASSUME Wrong # {}  PROVE FALSE
    OBVIOUS
  <2>1. PICK i \in Wrong : \A m \in Wrong : i <= m
    <3>1. Wrong \subseteq Nat  BY <1>0
    <3> HIDE DEF Wrong
    <3> QED  BY <3>1, First
  <2>2. i \in 1..Len(c) /\ ~right(i)  OBVIOUS
  <2>3. \A k \in 1..Len(c) : ~less(r(k), r(k))
    BY <1>3, LessAsymmetric
  <2>4. i # 1
    <3>1. 1 \in 1..Len(c) /\ g[1] = c[1]  BY <1>0, <1>2
    <3>2. Lowest(1, 1)  BY <2>3, <3>1
    <3>3. right(1)  BY <3>1, <3>2
    <3> QED  BY <2>2, <3>3
  <2>5. i - 1 \in 1..Len(c) /\ i - 1 \notin Wrong  BY <1>0, <2>1, <2>2, <2>4
  <2>6. PICK j \in 1..(i - 1) : g[i - 1] = c[j] /\ Lowest(j, i - 1)
    BY <2>5
  <2>7. Read(sc, g[i - 1]) = r(j)  BY <2>6 DEF r
  <2>8. j \in 1..Len(c) /\ j \in 1..i /\ i \in 1..i  BY <2>2, <2>6
  <2>9. \A k \in 1..i : k \in 1..(i - 1) \/ k = i  BY <2>2
  <2>10. CASE less(r(i), r(j))
    <3>1. g[i] = c[i]  BY <1>2, <2>2, <2>4, <2>7, <2>10
    <3>2. \A k \in 1..(i - 1) : less(r(i), r(k))
      <4> SUFFICES ASSUME NEW k \in 1..(i - 1)  PROVE less(r(i), r(k))
        OBVIOUS
      <4>1. k \in 1..Len(c)  BY <2>2
      <4>2. ~less(r(k), r(j))
        BY <1>3, <2>6, <2>8, <4>1, LessAsymmetric
      <4> QED  BY <1>3, <2>2, <2>8, <2>10, <4>1, <4>2, LessTransitive
    <3>3. ~less(r(i), r(i)) /\ i <= i  BY <2>2, <2>3
    <3>4. Lowest(i, i)
      <4> SUFFICES ASSUME NEW k \in 1..i
                   PROVE  less(r(i), r(k)) \/ (~less(r(k), r(i)) /\ i <= k)
        OBVIOUS
      <4> QED  BY <2>9, <3>2, <3>3
    <3> QED  BY <2>2, <2>8, <3>1, <3>4
  <2>11. CASE ~less(r(i), r(j))
    <3>1. g[i] = c[j]  BY <1>2, <2>2, <2>4, <2>6, <2>7, <2>11
    <3>2. Lowest(j, i)  BY <2>2, <2>6, <2>8, <2>9, <2>11
    <3> QED  BY <2>2, <2>8, <3>1, <3>2
  <2> QED  BY <2>10, <2>11
<1>5. right(Len(c))  BY <1>0, <1>4
<1> QED  BY <1>1, <1>5 DEF r

\* SelectWorker asks a candidate, or reads what it has.
Asking == call.pc \in {"first", "second", "reading"}

\* The fields of the call, its candidates and the counters it has read.
CallShape ==
  /\ scheduler \in {"roundrobin", "greedy", "epvm"}
  /\ cpu \in [Nodes -> [idle : Nat, busy : Nat]]
  /\ call = [pc |-> call.pc, candidates |-> call.candidates, at |-> call.at,
             reads |-> call.reads, scores |-> call.scores, node |-> call.node,
             refreshed |-> call.refreshed]
  /\ call.pc # "none" => Ascending(call.candidates) /\ call.candidates # <<>>
  /\ Asking => call.at \in 1..Len(call.candidates)
  /\ call.pc \in {"first", "second"} => call.reads = <<>>
  /\ call.pc = "reading" => call.reads \in Seq(Nat)

\* Greedy's scores are 0, because both counters it reads are one.
ScoresAreZero == \A n \in DOMAIN call.scores : call.scores[n] = <<0, 1>>
ReadsAreTheSame ==
  LET stat == cpu[call.candidates[call.at]]
  IN \A i \in 1..Len(call.reads) :
       call.reads[i] = IF i <= 2 THEN stat.idle ELSE stat.busy
GreedyBlind ==
  scheduler = "greedy" /\ ~call.refreshed =>
    ScoresAreZero /\ (call.pc = "reading" => ReadsAreTheSame)

\* Epvm's scores are costs.
EpvmCosts ==
  scheduler = "epvm" =>
    \A n \in DOMAIN call.scores : call.scores[n] \in Levels \X {1}

ChoiceInv ==
  /\ CallShape /\ GreedyBlind /\ EpvmCosts
  /\ call.pc = "chosen" => call.node = Pick(call.scores, call.candidates)

\* Nothing is asked at the beginning.
LEMMA ChoiceBegins == SchedulerInit => ChoiceInv
BY DEF SchedulerInit, ChoiceInv, CallShape, Asking, GreedyBlind, ScoresAreZero,
       EpvmCosts, noCall

\* What changes neither the counters nor the call.
LEMMA ChoiceStays ==
  ASSUME ChoiceInv, UNCHANGED <<scheduler, cpu, call>>
  PROVE  ChoiceInv'
<1>1. Nodes' = Nodes  OBVIOUS
<1> QED  BY DEF ChoiceInv, CallShape, Asking, GreedyBlind, ScoresAreZero,
                ReadsAreTheSame, EpvmCosts

\* What GetStats stores is a pair of counters.
LEMMA Counters ==
  ASSUME ChoiceInv, NEW n \in Nodes, GetStats(n)
  PROVE  /\ cpu' \in [Nodes -> [idle : Nat, busy : Nat]]
         /\ \A m \in Nodes \ {n} : cpu'[m] = cpu[m]
BY SchedulerAssumption DEF ChoiceInv, CallShape, GetStats

\* The candidate in hand.
LEMMA Candidate ==
  ASSUME ChoiceInv, Asking
  PROVE  /\ call.at \in 1..Len(call.candidates) /\ Len(call.candidates) \in Nat
         /\ call.candidates[call.at] \in Nodes
<1>1. call.candidates \in Seq(Nodes) /\ call.at \in 1..Len(call.candidates)
  BY DEF ChoiceInv, CallShape, Asking, Ascending
<1> QED  BY <1>1

\* UpdateNodeStats overwrites the Stats of a node.
LEMMA RefreshStep ==
  ASSUME ChoiceInv, NEW n \in Nodes, UpdateNodeStats(n)
  PROVE  ChoiceInv'
<1>1. /\ cpu' \in [Nodes -> [idle : Nat, busy : Nat]]
      /\ \A m \in Nodes \ {n} : cpu'[m] = cpu[m]
  BY Counters DEF UpdateNodeStats
<1>2. /\ call' = [call EXCEPT !.refreshed =
                    @ \/ /\ call.pc = "reading" /\ call.reads # <<>>
                         /\ call.candidates[call.at] = n]
      /\ scheduler' = scheduler
  BY DEF UpdateNodeStats
<1>3. /\ call'.pc = call.pc /\ call'.candidates = call.candidates
      /\ call'.at = call.at /\ call'.reads = call.reads
      /\ call'.scores = call.scores /\ call'.node = call.node
      /\ ~call'.refreshed => /\ ~call.refreshed
                             /\ \/ call.pc # "reading" \/ call.reads = <<>>
                                \/ call.candidates[call.at] # n
      /\ call' = [pc |-> call'.pc, candidates |-> call'.candidates, at |-> call'.at,
                  reads |-> call'.reads, scores |-> call'.scores, node |-> call'.node,
                  refreshed |-> call'.refreshed]
  BY <1>2 DEF ChoiceInv, CallShape
<1>4. CallShape'
  BY <1>1, <1>2, <1>3 DEF ChoiceInv, CallShape, Asking
<1>5. GreedyBlind'
  <2> SUFFICES ASSUME scheduler = "greedy", ~call'.refreshed
               PROVE  ScoresAreZero' /\ (call.pc = "reading" => ReadsAreTheSame')
    BY <1>2, <1>3 DEF GreedyBlind
  <2>1. ScoresAreZero /\ (call.pc = "reading" => ReadsAreTheSame)
    BY <1>3 DEF ChoiceInv, GreedyBlind
  <2>2. ScoresAreZero'
    BY <1>3, <2>1 DEF ScoresAreZero
  <2>3. CASE call.pc = "reading"
    <3>1. call.candidates[call.at] \in Nodes
      BY <2>3, Candidate DEF Asking
    <3>2. CASE call.reads = <<>>
      BY <1>3, <2>2, <3>2 DEF ReadsAreTheSame
    <3>3. CASE call.candidates[call.at] # n
      BY <1>1, <1>3, <2>1, <2>2, <2>3, <3>1, <3>3 DEF ReadsAreTheSame
    <3> QED  BY <1>3, <2>2, <2>3, <3>2, <3>3
  <2> QED  BY <2>2, <2>3
<1>6. EpvmCosts'
  BY <1>2, <1>3 DEF ChoiceInv, EpvmCosts
<1> QED  BY <1>3, <1>4, <1>5, <1>6 DEF ChoiceInv

\* The call begins with candidates in the order of the nodes.
LEMMA CallBegins ==
  ASSUME ChoiceInv, NEW d, SelectByLoad(d)
  PROVE  ChoiceInv'
<1> DEFINE c == selectCandidateNodes(d)
<1>1. Ascending(c) /\ c # <<>>
  BY CandidatesAscend DEF SelectByLoad
<1>2. /\ call' = [noCall EXCEPT !.pc = "first", !.candidates = c, !.at = 1]
      /\ UNCHANGED <<scheduler, cpu>>
  BY DEF SelectByLoad
<1> HIDE DEF c
<1>3. /\ call'.pc = "first" /\ call'.candidates = c /\ call'.at = 1
      /\ call'.reads = <<>> /\ call'.scores = <<>> /\ call'.node = -1
      /\ call' = [pc |-> call'.pc, candidates |-> call'.candidates, at |-> call'.at,
                  reads |-> call'.reads, scores |-> call'.scores, node |-> call'.node,
                  refreshed |-> call'.refreshed]
  BY <1>2 DEF noCall
<1>4. 1 \in 1..Len(c)
  BY <1>1 DEF Ascending
<1>5. CallShape'
  <2>1. Ascending(call'.candidates) /\ call'.candidates # <<>>
    BY <1>1, <1>3
  <2> QED  BY <1>2, <1>3, <1>4, <2>1 DEF ChoiceInv, CallShape, Asking, Ascending
<1>6. GreedyBlind' /\ EpvmCosts'
  BY <1>3 DEF GreedyBlind, ScoresAreZero, EpvmCosts
<1> QED  BY <1>3, <1>5, <1>6 DEF ChoiceInv

\* The call goes on to its next candidate, or to the choice.
LEMMA NextCandidate ==
  ASSUME ChoiceInv, Asking, NEW scores, call' = nextCandidate(scores),
         UNCHANGED <<scheduler, cpu>>,
         scheduler = "greedy" /\ ~call.refreshed =>
           \A n \in DOMAIN scores : scores[n] = <<0, 1>>,
         scheduler = "epvm" => \A n \in DOMAIN scores : scores[n] \in Levels \X {1}
  PROVE  ChoiceInv'
<1>1. /\ call.at \in 1..Len(call.candidates) /\ Len(call.candidates) \in Nat
  BY Candidate
<1>2. /\ call'.pc \in {"first", "picking"} /\ call'.candidates = call.candidates
      /\ call'.pc = "first" => call'.at = call.at + 1 /\ call.at < Len(call.candidates)
      /\ call'.reads = <<>> /\ call'.scores = scores /\ call'.refreshed = call.refreshed
      /\ call' = [pc |-> call'.pc, candidates |-> call'.candidates, at |-> call'.at,
                  reads |-> call'.reads, scores |-> call'.scores, node |-> call'.node,
                  refreshed |-> call'.refreshed]
  BY DEF nextCandidate, ChoiceInv, CallShape
<1>3. call'.pc = "first" => call'.at \in 1..Len(call'.candidates)
  BY <1>1, <1>2
<1>4. Ascending(call'.candidates) /\ call'.candidates # <<>>
  BY <1>2 DEF ChoiceInv, CallShape, Asking
<1>5. CallShape'
  BY <1>2, <1>3, <1>4 DEF ChoiceInv, CallShape, Asking, Ascending
<1>6. GreedyBlind' /\ EpvmCosts'
  BY <1>2 DEF GreedyBlind, ScoresAreZero, EpvmCosts
<1> QED  BY <1>2, <1>5, <1>6 DEF ChoiceInv

\* A candidate is asked; the answer goes into its Stats.
LEMMA AskStep == ChoiceInv /\ AskCandidate => ChoiceInv'
<1> SUFFICES ASSUME ChoiceInv, AskCandidate  PROVE ChoiceInv'
  OBVIOUS
<1>1. call.pc \in {"first", "second"} /\ Asking /\ scheduler' = scheduler
  BY DEF AskCandidate, Asking
<1>2. CASE call' = nextCandidate(call.scores) /\ UNCHANGED <<disk, cpu>>
  BY <1>1, <1>2, NextCandidate DEF ChoiceInv, GreedyBlind, ScoresAreZero, EpvmCosts
<1>3. CASE /\ GetStats(call.candidates[call.at])
           /\ call' = [call EXCEPT !.pc = IF @ = "first" THEN "second" ELSE "reading"]
  <2>1. cpu' \in [Nodes -> [idle : Nat, busy : Nat]]
    BY <1>1, <1>3, Candidate, Counters
  <2>2. /\ call'.pc \in {"second", "reading"} /\ call'.candidates = call.candidates
        /\ call'.at = call.at /\ call'.reads = <<>> /\ call'.scores = call.scores
        /\ call'.refreshed = call.refreshed
        /\ call' = [pc |-> call'.pc, candidates |-> call'.candidates, at |-> call'.at,
                    reads |-> call'.reads, scores |-> call'.scores, node |-> call'.node,
                    refreshed |-> call'.refreshed]
    BY <1>1, <1>3 DEF ChoiceInv, CallShape
  <2>3. /\ call.at \in 1..Len(call.candidates)
        /\ Ascending(call'.candidates) /\ call'.candidates # <<>>
    BY <1>1, <2>2 DEF ChoiceInv, CallShape, Asking
  <2>4. CallShape'
    BY <1>1, <2>1, <2>2, <2>3 DEF ChoiceInv, CallShape, Asking, Ascending
  <2>5. GreedyBlind' /\ EpvmCosts'
    BY <1>1, <2>2 DEF ChoiceInv, GreedyBlind, ScoresAreZero, ReadsAreTheSame, EpvmCosts
  <2> QED  BY <2>2, <2>4, <2>5 DEF ChoiceInv
<1> QED  BY <1>2, <1>3 DEF AskCandidate

\* A counter is read, of one struct under two names.
LEMMA ReadStep == ChoiceInv /\ ReadCounter => ChoiceInv'
<1> SUFFICES ASSUME ChoiceInv, ReadCounter  PROVE ChoiceInv'
  OBVIOUS
<1> DEFINE stat == cpu[call.candidates[call.at]]
           x == IF Len(call.reads) < 2 THEN stat.idle ELSE stat.busy
<1>1. /\ call.pc = "reading" /\ Asking
      /\ call' = [call EXCEPT !.reads = Append(call.reads, x)]
      /\ UNCHANGED <<scheduler, cpu>>
  BY DEF ReadCounter, Asking
<1>2. call.reads \in Seq(Nat) /\ x \in Nat
  <2>1. stat.idle \in Nat /\ stat.busy \in Nat
    BY <1>1, Candidate DEF ChoiceInv, CallShape
  <2> QED  BY <1>1, <2>1 DEF ChoiceInv, CallShape
<1>3. /\ call'.pc = "reading" /\ call'.candidates = call.candidates
      /\ call'.at = call.at /\ call'.reads = Append(call.reads, x)
      /\ call'.scores = call.scores /\ call'.refreshed = call.refreshed
      /\ call' = [pc |-> call'.pc, candidates |-> call'.candidates, at |-> call'.at,
                  reads |-> call'.reads, scores |-> call'.scores, node |-> call'.node,
                  refreshed |-> call'.refreshed]
  <2> HIDE DEF x
  <2> QED  BY <1>1 DEF ChoiceInv, CallShape
<1>4. CallShape'
  <2> HIDE DEF x
  <2>1. /\ call.at \in 1..Len(call.candidates)
        /\ Ascending(call'.candidates) /\ call'.candidates # <<>>
        /\ call'.reads \in Seq(Nat)
    BY <1>1, <1>2, <1>3 DEF ChoiceInv, CallShape
  <2> QED  BY <1>1, <1>3, <2>1 DEF ChoiceInv, CallShape, Asking, Ascending
<1>5. ReadsAreTheSame => ReadsAreTheSame'
  <2> SUFFICES ASSUME ReadsAreTheSame, NEW i \in 1..Len(call'.reads)
               PROVE  call'.reads[i] = IF i <= 2 THEN stat.idle ELSE stat.busy
    BY <1>1, <1>3 DEF ReadsAreTheSame
  <2>1. /\ Len(call.reads) \in Nat /\ i \in 1..(Len(call.reads) + 1)
        /\ i <= Len(call.reads) => call'.reads[i] = call.reads[i]
        /\ i = Len(call.reads) + 1 => call'.reads[i] = x
    <3> HIDE DEF x
    <3> QED  BY <1>2, <1>3
  <2> QED  BY <2>1 DEF ReadsAreTheSame
<1>6. GreedyBlind' /\ EpvmCosts'
  <2> HIDE DEF x
  <2> QED  BY <1>1, <1>3, <1>5 DEF ChoiceInv, GreedyBlind, ScoresAreZero, EpvmCosts
<1> QED  BY <1>3, <1>4, <1>6 DEF ChoiceInv

\* Equal counters are no usage.
LEMMA NoUsage ==
  ASSUME ChoiceInv, call.pc = "reading", Len(call.reads) = 4, ReadsAreTheSame
  PROVE  calculateCpuUsage(call.reads) = <<0, 1>>
<1> DEFINE stat == cpu[call.candidates[call.at]]
<1>1. stat.idle \in Nat /\ stat.busy \in Nat
  BY Candidate DEF Asking, ChoiceInv, CallShape
<1>2. /\ call.reads[1] = stat.idle /\ call.reads[2] = stat.idle
      /\ call.reads[3] = stat.busy /\ call.reads[4] = stat.busy
  BY DEF ReadsAreTheSame
<1> DEFINE i == stat.idle  b == stat.busy
<1>3. (i - i) % Word = 0 /\ (i + b - i - b) % Word = 0
  <2> HIDE DEF i, b
  <2>1. i \in Nat /\ b \in Nat  BY <1>1 DEF i, b
  <2>2. i - i = 0 /\ i + b - i - b = 0  BY <2>1
  <2>3. 0 % Word = 0  BY SchedulerAssumption
  <2> QED  BY <2>2, <2>3
<1> QED  BY <1>2, <1>3 DEF calculateCpuUsage

\* A score enters the map.
LEMMA ScoreStep == ChoiceInv /\ Score => ChoiceInv'
<1> SUFFICES ASSUME ChoiceInv, Score  PROVE ChoiceInv'
  OBVIOUS
<1> DEFINE n == call.candidates[call.at]
<1>1. /\ call.pc = "reading" /\ Len(call.reads) = 4 /\ Asking
      /\ UNCHANGED <<scheduler, cpu>>
  BY DEF Score, Asking
<1>2. PICK s \in IF scheduler = "greedy" THEN {calculateCpuUsage(call.reads)}
                                         ELSE Levels \X {1} :
        call' = nextCandidate([m \in DOMAIN call.scores \cup {n} |->
                                 IF m = n THEN s ELSE call.scores[m]])
  BY DEF Score
<1> DEFINE scores == [m \in DOMAIN call.scores \cup {n} |->
                        IF m = n THEN s ELSE call.scores[m]]
<1>3. ASSUME scheduler = "greedy", ~call.refreshed
      PROVE  \A m \in DOMAIN scores : scores[m] = <<0, 1>>
  <2>1. ScoresAreZero /\ s = <<0, 1>>
    BY <1>1, <1>2, <1>3, NoUsage DEF ChoiceInv, GreedyBlind
  <2> QED  BY <2>1 DEF ScoresAreZero
<1>4. ASSUME scheduler = "epvm"
      PROVE  \A m \in DOMAIN scores : scores[m] \in Levels \X {1}
  BY <1>2, <1>4 DEF ChoiceInv, EpvmCosts
<1>5. call' = nextCandidate(scores)
  BY <1>2
<1> HIDE DEF scores, n
<1> QED  BY <1>1, <1>3, <1>4, <1>5, NextCandidate

\* The choice is that of Pick.
LEMMA ChooseStep == ChoiceInv /\ Choose => ChoiceInv'
<1> SUFFICES ASSUME ChoiceInv, Choose  PROVE ChoiceInv'
  OBVIOUS
<1> DEFINE b == Pick(call.scores, call.candidates)
<1>1. /\ call.pc = "picking" /\ call' = [call EXCEPT !.pc = "chosen", !.node = b]
      /\ UNCHANGED <<scheduler, cpu>>
  BY DEF Choose
<1> HIDE DEF b
<1>2. /\ call'.pc = "chosen" /\ call'.node = b /\ call'.candidates = call.candidates
      /\ call'.scores = call.scores /\ call'.refreshed = call.refreshed
      /\ call' = [pc |-> call'.pc, candidates |-> call'.candidates, at |-> call'.at,
                  reads |-> call'.reads, scores |-> call'.scores, node |-> call'.node,
                  refreshed |-> call'.refreshed]
  BY <1>1 DEF ChoiceInv, CallShape
<1>3. CallShape'
  BY <1>1, <1>2 DEF ChoiceInv, CallShape, Asking, Ascending
<1>4. GreedyBlind' /\ EpvmCosts'
  BY <1>1, <1>2 DEF ChoiceInv, GreedyBlind, ScoresAreZero, EpvmCosts
<1> QED  BY <1>2, <1>3, <1>4 DEF ChoiceInv, b

\* The invariant is inductive.
LEMMA ChoiceGoesOn == ChoiceInv /\ [SchedulerNext]_schedulerVars => ChoiceInv'
<1> SUFFICES ASSUME ChoiceInv, [SchedulerNext]_schedulerVars  PROVE ChoiceInv'
  OBVIOUS
<1>1. CASE SelectRoundRobin \/ UNCHANGED schedulerVars
  BY <1>1, ChoiceStays DEF SelectRoundRobin, schedulerVars
<1> QED  BY <1>1, RefreshStep, CallBegins, AskStep, ReadStep, ScoreStep, ChooseStep
         DEF SchedulerNext

\* A candidate without a score is read as cost 0, below every cost.
LEMMA Costs ==
  ASSUME NEW scores, NEW n,
         n \in DOMAIN scores => scores[n] \in Levels \X {1}
  PROVE  /\ Read(scores, n) \in Fraction
         /\ \E a \in Nat : Read(scores, n) = <<a, 1>> /\ (a = 0 <=> n \notin DOMAIN scores)
<1>1. CASE n \in DOMAIN scores
  <2>1. PICK a \in Levels : scores[n] = <<a, 1>>
    BY <1>1
  <2>2. a \in Nat \ {0} /\ Read(scores, n) = <<a, 1>>
    BY <1>1, <2>1, SchedulerAssumption DEF Read
  <2> QED  BY <1>1, <2>2 DEF Fraction
<1>2. CASE n \notin DOMAIN scores
  BY <1>2 DEF Read, Fraction
<1> QED  BY <1>1, <1>2

\* What the reports of the nodes decide and what they do not: Epvm takes the
\* first candidate of least cost, or the first that did not answer; Greedy takes
\* the first candidate, whatever the loads, for every number of nodes, all
\* reports and every width of a counter
\* (scheduler.go:97-133, 144-190, 195-226, node.go:69-71).
THEOREM CostDecides == SchedulerSpec => []ChoiceFollowsCost
<1>1. ChoiceInv => ChoiceFollowsCost
  <2> DEFINE c == call.candidates
             scores == call.scores
  <2> SUFFICES ASSUME ChoiceInv, call.pc = "chosen"
               PROVE  /\ scheduler = "greedy" /\ ~call.refreshed => call.node = c[1]
                      /\ scheduler = "epvm" =>
                           \E j \in 1..Len(c) :
                             /\ call.node = c[j]
                             /\ \A k \in 1..Len(c) :
                                  IF c[j] \in DOMAIN scores
                                    THEN /\ c[k] \in DOMAIN scores
                                         /\ \/ less(scores[c[j]], scores[c[k]])
                                            \/ ~less(scores[c[k]], scores[c[j]]) /\ j <= k
                                    ELSE c[k] \in DOMAIN scores \/ j <= k
    BY DEF ChoiceFollowsCost
  <2>1. /\ Ascending(c) /\ c # <<>> /\ Len(c) \in Nat \ {0}
        /\ call.node = Pick(scores, c)
    BY DEF ChoiceInv, CallShape, Ascending
  <2> HIDE DEF c, scores
  <2>2. ASSUME scheduler = "greedy", ~call.refreshed
        PROVE  call.node = c[1]
    <3>1. \A n : Read(scores, n) = <<0, 1>>
      BY <2>2 DEF ChoiceInv, GreedyBlind, ScoresAreZero, Read, scores
    <3>2. <<0, 1>> \in Fraction /\ ~less(<<0, 1>>, <<0, 1>>)
      BY DEF Fraction, less
    <3>3. PICK j \in 1..Len(c) : /\ Pick(scores, c) = c[j]
                                 /\ \A k \in 1..Len(c) : j <= k
      BY <2>1, <3>1, <3>2, PickLowest
    <3>4. j = 1
      BY <2>1, <3>3
    <3> QED  BY <2>1, <3>3, <3>4
  <2>3. ASSUME scheduler = "epvm"
        PROVE  \E j \in 1..Len(c) :
                 /\ call.node = c[j]
                 /\ \A k \in 1..Len(c) :
                      IF c[j] \in DOMAIN scores
                        THEN /\ c[k] \in DOMAIN scores
                             /\ \/ less(scores[c[j]], scores[c[k]])
                                \/ ~less(scores[c[k]], scores[c[j]]) /\ j <= k
                        ELSE c[k] \in DOMAIN scores \/ j <= k
    <3>1. \A n \in DOMAIN scores : scores[n] \in Levels \X {1}
      BY <2>3 DEF ChoiceInv, EpvmCosts, scores
    <3>2. \A n : /\ Read(scores, n) \in Fraction
                 /\ \E a \in Nat : /\ Read(scores, n) = <<a, 1>>
                                   /\ a = 0 <=> n \notin DOMAIN scores
      BY <3>1, Costs
    <3>3. PICK j \in 1..Len(c) :
             /\ Pick(scores, c) = c[j]
             /\ \A k \in 1..Len(c) :
                  \/ less(Read(scores, c[j]), Read(scores, c[k]))
                  \/ ~less(Read(scores, c[k]), Read(scores, c[j])) /\ j <= k
      BY <2>1, <3>2, PickLowest
    <3>4. ASSUME NEW k \in 1..Len(c)
          PROVE  IF c[j] \in DOMAIN scores
                   THEN /\ c[k] \in DOMAIN scores
                        /\ \/ less(scores[c[j]], scores[c[k]])
                           \/ ~less(scores[c[k]], scores[c[j]]) /\ j <= k
                   ELSE c[k] \in DOMAIN scores \/ j <= k
      <4>1. PICK a \in Nat : /\ Read(scores, c[j]) = <<a, 1>>
                             /\ a = 0 <=> c[j] \notin DOMAIN scores
        BY <3>2
      <4>2. PICK b \in Nat : /\ Read(scores, c[k]) = <<b, 1>>
                             /\ b = 0 <=> c[k] \notin DOMAIN scores
        BY <3>2
      <4>3. a < b \/ (~(b < a) /\ j <= k)
        BY <3>3, <4>1, <4>2 DEF less
      <4>4. c[j] \in DOMAIN scores => b # 0
        BY <4>1, <4>3
      <4>5. c[j] \notin DOMAIN scores /\ b = 0 => j <= k
        BY <4>1, <4>3
      <4>6. \A n \in DOMAIN scores : Read(scores, n) = scores[n]
        BY DEF Read
      <4> QED  BY <3>3, <4>2, <4>4, <4>5, <4>6
    <3> QED  BY <2>1, <3>3, <3>4
  <2> QED  BY <2>2, <2>3 DEF c, scores
<1> QED  BY <1>1, ChoiceBegins, ChoiceGoesOn, PTL DEF SchedulerSpec
=============================================================================
