------------------------ MODULE WorkerServiceProofs ------------------------
(***************************************************************************)
(* The dispatcher and the life of the tasks together, for every set of     *)
(* tasks, queue size and limit of the slots.                               *)
(***************************************************************************)
EXTENDS WorkerService, FiniteSetTheorems, TLAPS

CreationPC == {"idle", "creating", "created", "done"}

Types ==
  /\ pendingTasks \in Seq(Tasks)
  /\ hand \subseteq Tasks /\ requeue \subseteq Tasks /\ running \subseteq Tasks
  /\ currentRunning \in Nat
  /\ run \in [Tasks -> CreationPC]
  /\ submitted \in [Tasks -> State \cup {"None"}]

\* The tasks on their way to a slot or in one.
Under == {pendingTasks[i] : i \in 1..Len(pendingTasks)} \cup hand \cup requeue \cup running

\* A task on its way carries the state it was submitted in.
SubmittedInv == \A t \in Under : run[t] = "idle" => submitted[t] \in State

\* The slots that are counted cover those that are taken.
SlotInv ==
  /\ Cardinality(running) <= currentRunning
  /\ currentRunning <= maxConcurrent
  /\ \A t, u \in hand : t = u

\* A container is created in a slot only.
HeldInv == \A t \in Tasks : run[t] \in {"creating", "created"} => t \in running

IInv == Types /\ SubmittedInv /\ SlotInv /\ HeldInv

-----------------------------------------------------------------------------
(* The channel as a set *)

\* A send adds one element to the channel.
LEMMA Sent ==
  ASSUME NEW S, NEW q \in Seq(S), NEW e \in S
  PROVE  /\ Append(q, e) \in Seq(S)
         /\ \A i \in 1..Len(Append(q, e)) :
              Append(q, e)[i] = e \/ \E j \in 1..Len(q) : Append(q, e)[i] = q[j]
<1>1. /\ Append(q, e) \in Seq(S) /\ Len(Append(q, e)) = Len(q) + 1 /\ Len(q) \in Nat
      /\ \A i \in 1..Len(q) : Append(q, e)[i] = q[i]
      /\ Append(q, e)[Len(q) + 1] = e
  OBVIOUS
<1> QED  BY <1>1

\* A receive takes an element of the channel and leaves the others.
LEMMA Received ==
  ASSUME NEW S, NEW q \in Seq(S), q # <<>>
  PROVE  /\ Tail(q) \in Seq(S) /\ Head(q) \in S
         /\ \E j \in 1..Len(q) : Head(q) = q[j]
         /\ \A i \in 1..Len(Tail(q)) : \E j \in 1..Len(q) : Tail(q)[i] = q[j]
<1>1. /\ Len(q) \in Nat \ {0} /\ Tail(q) \in Seq(S) /\ Len(Tail(q)) = Len(q) - 1
      /\ \A i \in 1..(Len(q) - 1) : Tail(q)[i] = q[i + 1]
      /\ Head(q) = q[1] /\ q[1] \in S
  OBVIOUS
<1>2. 1 \in 1..Len(q) /\ \A i \in 1..(Len(q) - 1) : i + 1 \in 1..Len(q)
  BY <1>1
<1> QED  BY <1>1, <1>2

-----------------------------------------------------------------------------
(* The steps of the dispatcher *)

\* The tasks that are running are finitely many.
LEMMA Slots ==
  ASSUME NEW R, R \subseteq Tasks, NEW t \in Tasks
  PROVE  /\ IsFiniteSet(R) /\ Cardinality(R) \in Nat
         /\ Cardinality(R \cup {t}) <= Cardinality(R) + 1
         /\ t \in R => Cardinality(R \ {t}) = Cardinality(R) - 1
<1>1. IsFiniteSet(R)  BY FS_Subset, ServiceAssumption
<1>2. Cardinality(R) \in Nat  BY <1>1, FS_CardinalityType
<1>3. CASE t \in R
  <2>1. R \cup {t} = R  BY <1>3
  <2>2. Cardinality(R \ {t}) = Cardinality(R) - 1  BY <1>1, <1>3, FS_RemoveElement
  <2> QED  BY <1>1, <1>2, <2>1, <2>2
<1>4. CASE t \notin R
  <2>1. Cardinality(R \cup {t}) = Cardinality(R) + 1  BY <1>1, <1>4, FS_AddElement
  <2> QED  BY <1>1, <1>2, <1>4, <2>1
<1> QED  BY <1>3, <1>4

\* A step that only moves tasks on their way, and takes none out of its slot.
LEMMA MovedOn ==
  ASSUME IInv, Types', SlotInv', UNCHANGED <<run, submitted>>, Under' \subseteq Under,
         running \subseteq running'
  PROVE  IInv'
<1>1. SubmittedInv'  BY DEF IInv, SubmittedInv
<1>2. HeldInv'  BY DEF IInv, HeldInv
<1> QED  BY <1>1, <1>2 DEF IInv

\* A step of the dispatch loop moves tasks on, within the limit.
LEMMA DispatcherKeeps ==
  ASSUME IInv, DispatcherStep
  PROVE  IInv'
<1>0. /\ Types /\ SlotInv /\ UNCHANGED <<run, submitted>>
      /\ pendingTasks \in Seq(Tasks)
  BY DEF IInv, Types, DispatcherStep, taskVars
<1>1. CASE D!Receive
  <2>1. /\ pendingTasks # <<>> /\ pendingTasks' = Tail(pendingTasks)
        /\ hand' = {Head(pendingTasks)}
        /\ UNCHANGED <<requeue, running, currentRunning>>
    BY <1>1 DEF D!Receive
  <2>2. Types' /\ SlotInv'  BY <1>0, <2>1, Received DEF Types, SlotInv
  <2>3. Under' \subseteq Under  BY <1>0, <2>1, Received DEF Under
  <2> QED  BY <1>0, <2>1, <2>2, <2>3, MovedOn
<1>2. CASE D!NoSlot \/ D!Shutdown \/ D!ExitLoop
  <2>1. UNCHANGED <<pendingTasks, hand, requeue, running, currentRunning>>
    BY <1>2 DEF D!NoSlot, D!Shutdown, D!ExitLoop
  <2>2. Types' /\ SlotInv'  BY <1>0, <2>1 DEF Types, SlotInv
  <2>3. Under' = Under  BY <2>1 DEF Under
  <2> QED  BY <1>0, <2>1, <2>2, <2>3, MovedOn
<1>3. CASE D!Requeue
  <2>1. /\ requeue' = requeue \cup hand /\ hand' = {}
        /\ UNCHANGED <<pendingTasks, running, currentRunning>>
    BY <1>3 DEF D!Requeue
  <2>2. Types' /\ SlotInv'  BY <1>0, <2>1 DEF Types, SlotInv
  <2>3. Under' = Under  BY <2>1 DEF Under
  <2> QED  BY <1>0, <2>1, <2>2, <2>3, MovedOn
<1>4. ASSUME NEW t \in Tasks, D!RequeueSend(t)  PROVE IInv'
  <2>1. /\ t \in requeue /\ requeue' = requeue \ {t}
        /\ pendingTasks' = Append(pendingTasks, t)
        /\ UNCHANGED <<hand, running, currentRunning>>
    BY <1>4 DEF D!RequeueSend
  <2>2. Types' /\ SlotInv'  BY <1>0, <2>1, Sent DEF Types, SlotInv
  <2>3. Under' \subseteq Under  BY <1>0, <2>1, Sent DEF Under
  <2> QED  BY <1>0, <2>1, <2>2, <2>3, MovedOn
<1>5. CASE D!TakeSlot
  <2>1. /\ currentRunning < maxConcurrent /\ currentRunning' = currentRunning + 1
        /\ running' = running \cup hand /\ hand' = {}
        /\ UNCHANGED <<pendingTasks, requeue>>
    BY <1>5 DEF D!TakeSlot
  <2>2. Types'  BY <1>0, <2>1 DEF Types
  <2>3. Cardinality(running') <= Cardinality(running) + 1
    <3>1. CASE hand = {}
      <4>1. running' = running  BY <2>1, <3>1
      <4>2. IsFiniteSet(running)  BY <1>0, FS_Subset, ServiceAssumption DEF Types
      <4>3. Cardinality(running) \in Nat  BY <4>2, FS_CardinalityType
      <4> QED  BY <4>1, <4>3
    <3>2. CASE hand # {}
      <4>1. PICK t \in Tasks : hand = {t}  BY <1>0, <3>2 DEF Types, SlotInv
      <4> QED  BY <1>0, <2>1, <4>1, Slots DEF Types
    <3> QED  BY <3>1, <3>2
  <2>4. Cardinality(running) \in Nat /\ Cardinality(running') \in Nat
    <3>1. IsFiniteSet(running) /\ IsFiniteSet(running')
      BY <1>0, <2>2, FS_Subset, ServiceAssumption DEF Types
    <3> QED  BY <3>1, FS_CardinalityType
  <2>5. SlotInv'
    BY <1>0, <2>1, <2>3, <2>4, ServiceAssumption DEF Types, SlotInv
  <2>6. Under' = Under  BY <2>1 DEF Under
  <2> QED  BY <1>0, <2>1, <2>2, <2>5, <2>6, MovedOn
<1> QED  BY <1>1, <1>2, <1>3, <1>4, <1>5 DEF DispatcherStep

\* A task enters the channel with the state it was submitted in.
LEMMA AddTaskKeeps ==
  ASSUME IInv, NEW t \in Tasks, NEW s \in State, AddTask(t, s)
  PROVE  IInv'
<1>1. /\ submitted' = [submitted EXCEPT ![t] = s]
      /\ UNCHANGED <<run, hand, requeue, running, currentRunning>>
      /\ pendingTasks' = pendingTasks \/ pendingTasks' = Append(pendingTasks, t)
  BY DEF AddTask, D!AddTask, taskVars
<1>2. Types /\ pendingTasks \in Seq(Tasks)  BY DEF IInv, Types
<1>3. Types'
  <2>1. pendingTasks' \in Seq(Tasks)  BY <1>1, <1>2, Sent
  <2>2. submitted' \in [Tasks -> State \cup {"None"}]  BY <1>1, <1>2 DEF Types
  <2> QED  BY <1>1, <1>2, <2>1, <2>2 DEF Types
<1>4. Under' \subseteq Under \cup {t}
  <2>1. CASE pendingTasks' = pendingTasks  BY <1>1, <2>1 DEF Under
  <2>2. CASE pendingTasks' = Append(pendingTasks, t)
    <3>1. \A i \in 1..Len(pendingTasks') :
             pendingTasks'[i] = t \/ \E j \in 1..Len(pendingTasks) : pendingTasks'[i] = pendingTasks[j]
      BY <1>2, <2>2, Sent
    <3> QED  BY <1>1, <3>1 DEF Under
  <2> QED  BY <1>1, <2>1, <2>2
<1>5. SubmittedInv'
  BY <1>1, <1>2, <1>4 DEF Types, IInv, SubmittedInv
<1>6. SlotInv' /\ HeldInv'  BY <1>1 DEF IInv, SlotInv, HeldInv
<1> QED  BY <1>3, <1>5, <1>6 DEF IInv

-----------------------------------------------------------------------------
(* The steps of the tasks *)

\* What a step of the tasks does to the place of createContainer: once begun,
\* it goes on to its end.
Goes(t) ==
  /\ run' \in [Tasks -> CreationPC]
  /\ \A u \in Tasks : u # t => run'[u] = run[u]
  /\ run'[t] = run[t] \/ run'[t] # "idle"
  /\ run'[t] \in {"creating", "created"} => run[t] \in {"creating", "created"}

\* A step of a task's life leaves creation in its slot or finishes it.
LEMMA TaskGoes ==
  ASSUME Types, NEW t \in Tasks, L!TaskStep(t)
  PROVE  Goes(t)
<1>0. run \in [Tasks -> CreationPC]  BY DEF Types
<1>1. CASE L!CreateSandbox(t)
  BY <1>0, <1>1 DEF L!CreateSandbox, Goes, CreationPC
<1>2. CASE L!StoreScheduled(t)
  BY <1>0, <1>2 DEF L!StoreScheduled, Goes, CreationPC
<1>3. ASSUME run' = run  PROVE Goes(t)
  BY <1>0, <1>3 DEF Goes
<1>4. CASE L!CallRegister(t) \/ L!ConnectionBreaks(t) \/ L!CheckTaskHealth(t)
  BY <1>3, <1>4 DEF L!CallRegister, L!ConnectionBreaks, L!CheckTaskHealth
<1>5. ASSUME NEW a \in L!Attempts, L!HandlerStep(t, a)  PROVE Goes(t)
  BY <1>3, <1>5 DEF L!HandlerStep, L!FindTask, L!RejectWorker, L!StoreStarting,
                   L!StartTask, L!Reply
<1>6. ASSUME NEW a \in L!Attempts, L!ExecuteStep(t, a)  PROVE Goes(t)
  BY <1>3, <1>6 DEF L!ExecuteStep, L!ExecuteError, L!ExecuteReturns, L!ReadForUpdate,
                   L!WriteUpdate
<1> QED  BY <1>1, <1>2, <1>4, <1>5, <1>6 DEF L!TaskStep, L!CreateStep

\* A step of a task's life takes no slot and frees none.
LEMMA TaskKeeps ==
  ASSUME IInv, NEW t \in Tasks, TaskStep(t)
  PROVE  IInv'
<1>1. UNCHANGED <<pendingTasks, hand, requeue, running, currentRunning, submitted>>
  BY DEF TaskStep, queueVars
<1>2. Goes(t)  BY TaskGoes DEF IInv, TaskStep
<1>3. Types' /\ SlotInv'  BY <1>1, <1>2 DEF IInv, Types, SlotInv, Goes
<1>4. HeldInv'  BY <1>1, <1>2 DEF IInv, HeldInv, Goes
<1>5. Under' = Under /\ Under \subseteq Tasks
  BY <1>1 DEF Under, IInv, Types
<1>6. SubmittedInv'  BY <1>1, <1>2, <1>5 DEF IInv, SubmittedInv, Goes
<1> QED  BY <1>3, <1>4, <1>6 DEF IInv

\* createContainer begins, with the state of the submission.
LEMMA RunTaskKeeps ==
  ASSUME IInv, NEW t \in Tasks, RunTask(t)
  PROVE  IInv'
<1>1. /\ UNCHANGED <<pendingTasks, hand, requeue, running, currentRunning>>
      /\ submitted' = [submitted EXCEPT ![t] = "None"] /\ t \in running
      /\ \/ run' = [run EXCEPT ![t] = "creating"]
         \/ run' = [run EXCEPT ![t] = "done"]
  BY DEF RunTask, L!CreateContainer, queueVars
<1>2. Types /\ run \in [Tasks -> CreationPC]  BY DEF IInv, Types
<1>3. run' \in [Tasks -> CreationPC] /\ run'[t] # "idle"
      /\ \A u \in Tasks : u # t => run'[u] = run[u]
  BY <1>1, <1>2 DEF CreationPC
<1>4. Types' /\ SlotInv'  BY <1>1, <1>2, <1>3 DEF IInv, Types, SlotInv
<1>5. HeldInv'  BY <1>1, <1>3 DEF IInv, HeldInv
<1>6. Under' = Under /\ Under \subseteq Tasks
  BY <1>1 DEF Under, IInv, Types
<1>7. SubmittedInv'  BY <1>1, <1>2, <1>3, <1>6 DEF IInv, SubmittedInv, Types
<1> QED  BY <1>4, <1>5, <1>7 DEF IInv

\* A slot is freed when its task is no longer created.
LEMMA FreeSlotKeeps ==
  ASSUME IInv, NEW t \in Tasks, FreeSlot(t)
  PROVE  IInv'
<1>1. /\ t \in running /\ running' = running \ {t} /\ run[t] = "done"
      /\ currentRunning' = currentRunning - 1
      /\ UNCHANGED <<pendingTasks, hand, requeue, run, submitted>>
  BY DEF FreeSlot, D!RunTaskReturn, taskVars
<1>2. Types  BY DEF IInv
<1>3. /\ Cardinality(running) \in Nat /\ Cardinality(running') = Cardinality(running) - 1
      /\ Cardinality(running') \in Nat
  <2>1. running' \subseteq Tasks  BY <1>1, <1>2 DEF Types
  <2> QED  BY <1>1, <1>2, <2>1, Slots DEF Types
<1>4. Types' /\ SlotInv'
  BY <1>1, <1>2, <1>3, ServiceAssumption DEF IInv, Types, SlotInv
<1>5. HeldInv'  BY <1>1 DEF IInv, HeldInv
<1>6. Under' \subseteq Under  BY <1>1 DEF Under
<1>7. SubmittedInv'  BY <1>1, <1>6 DEF IInv, SubmittedInv
<1> QED  BY <1>4, <1>5, <1>7 DEF IInv

\* A crash leaves an empty queue, free slots and no creation.
LEMMA CrashKeeps == IInv /\ Crash => IInv'
<1> SUFFICES ASSUME IInv, Crash  PROVE IInv'
  OBVIOUS
<1>1. /\ pendingTasks' = <<>> /\ hand' = {} /\ requeue' = {} /\ running' = {}
      /\ currentRunning' = 0 /\ submitted' = [t \in Tasks |-> "None"]
      /\ run' = [t \in Tasks |-> IF run[t] = "idle" THEN "idle" ELSE "done"]
  BY DEF Crash, L!Crash
<1>2. Types'
  <2>1. <<>> \in Seq(Tasks)  OBVIOUS
  <2> QED  BY <1>1, <2>1 DEF Types, CreationPC
<1>3. SlotInv'  BY <1>1, FS_EmptySet, ServiceAssumption DEF SlotInv
<1>4. SubmittedInv' /\ HeldInv'  BY <1>1 DEF SubmittedInv, Under, HeldInv
<1> QED  BY <1>2, <1>3, <1>4 DEF IInv

-----------------------------------------------------------------------------
(* The inductive invariant *)

\* No slot is taken at the beginning.
LEMMA InitInv == Init => IInv
<1> SUFFICES ASSUME Init  PROVE IInv
  OBVIOUS
<1>1. /\ pendingTasks = <<>> /\ hand = {} /\ requeue = {} /\ running = {}
      /\ currentRunning = 0 /\ submitted = [t \in Tasks |-> "None"]
      /\ run = [t \in Tasks |-> "idle"]
  BY DEF Init, D!Init, L!Init
<1>2. Types
  <2>1. <<>> \in Seq(Tasks)  OBVIOUS
  <2> QED  BY <1>1, <2>1 DEF Types, CreationPC
<1>3. SlotInv  BY <1>1, FS_EmptySet, ServiceAssumption DEF SlotInv
<1>4. SubmittedInv /\ HeldInv  BY <1>1 DEF SubmittedInv, Under, HeldInv
<1> QED  BY <1>2, <1>3, <1>4 DEF IInv

\* Every step of the service keeps the invariant.
LEMMA NextInv == IInv /\ [Next]_vars => IInv'
<1> SUFFICES ASSUME IInv, [Next]_vars  PROVE IInv'
  OBVIOUS
<1>1. CASE UpdateTasks \/ UNCHANGED vars
  <2>1. UNCHANGED <<pendingTasks, hand, requeue, running, currentRunning, run, submitted>>
    BY <1>1 DEF UpdateTasks, L!UpdateTasks, vars, queueVars, taskVars
  <2>2. Types' /\ SlotInv'  BY <2>1 DEF IInv, Types, SlotInv
  <2>3. Under' = Under  BY <2>1 DEF Under
  <2> QED  BY <2>1, <2>2, <2>3, MovedOn
<1> QED
  BY <1>1, AddTaskKeeps, DispatcherKeeps, RunTaskKeeps, FreeSlotKeeps, TaskKeeps,
     CrashKeeps DEF Next

\* The invariant holds in every reachable state.
LEMMA Invariance == Spec => []IInv
BY InitInv, NextInv, PTL DEF Spec

-----------------------------------------------------------------------------
(* The theorems *)

\* A container is created inside a slot only, and never more than maxConcurrent
\* at a time (worker_service.go:92, 107, 131).
THEOREM CreationsBounded == Spec => []CreationInSlot
<1>1. IInv => CreationInSlot
  <2> SUFFICES ASSUME IInv  PROVE CreationInSlot
    OBVIOUS
  <2> DEFINE C == {t \in Tasks : run[t] \in {"creating", "created"}}
  <2>1. C \subseteq running  BY DEF IInv, HeldInv
  <2>2. IsFiniteSet(running)  BY FS_Subset, ServiceAssumption DEF IInv, Types
  <2>3. IsFiniteSet(C) /\ Cardinality(C) <= Cardinality(running)
    BY <2>1, <2>2, FS_Subset
  <2>4. Cardinality(C) \in Nat /\ Cardinality(running) \in Nat
    BY <2>2, <2>3, FS_CardinalityType
  <2>5. Cardinality(C) <= maxConcurrent
    BY <2>3, <2>4, ServiceAssumption DEF IInv, Types, SlotInv
  <2> QED  BY <2>5 DEF IInv, HeldInv, CreationInSlot
<1> QED  BY <1>1, Invariance, PTL

\* A step of the service is a step of the life cycle, or changes nothing of it.
LEMMA LifecycleStep == IInv /\ [Next]_vars => [L!Next]_(L!vars)
<1> SUFFICES ASSUME IInv, [Next]_vars  PROVE [L!Next]_(L!vars)
  OBVIOUS
<1>1. UNCHANGED taskVars => UNCHANGED L!vars  BY DEF taskVars, L!vars
<1>2. ASSUME NEW t \in Tasks, RunTask(t)  PROVE L!Next
  <2>1. t \in Under /\ run[t] = "idle"
    BY <1>2 DEF RunTask, L!CreateContainer, Under
  <2>2. submitted[t] \in State  BY <2>1 DEF IInv, SubmittedInv
  <2>3. State = L!State  BY DEF State, L!State
  <2> QED  BY <1>2, <2>2, <2>3 DEF RunTask, L!Next
<1>3. ASSUME NEW t \in Tasks, TaskStep(t)  PROVE L!Next
  BY <1>3 DEF TaskStep, L!Next
<1>4. CASE UpdateTasks \/ Crash  BY <1>4 DEF UpdateTasks, Crash, L!Next
<1>5. ASSUME NEW t \in Tasks, FreeSlot(t) \/ \E s \in State : AddTask(t, s)
      PROVE  UNCHANGED taskVars
  BY <1>5 DEF FreeSlot, AddTask
<1>6. CASE DispatcherStep  BY <1>1, <1>6 DEF DispatcherStep
<1>7. CASE UNCHANGED vars  BY <1>1, <1>7 DEF vars
<1> QED  BY <1>1, <1>2, <1>3, <1>4, <1>5, <1>6, <1>7 DEF Next

\* The service implements the life cycle of its tasks: the queue, the loop and
\* the slots decide only when createContainer begins, and it begins with a
\* state a task was submitted in (worker_service.go:86-203).  What is proved of
\* TaskLifecycle therefore holds of the service.
THEOREM ImplementsLifecycle == Spec => LifecycleSpec
<1>1. Init => L!Init  BY DEF Init
<1>2. IInv /\ [Next]_vars => [L!Next]_(L!vars)  BY LifecycleStep
<1> QED  BY <1>1, <1>2, Invariance, PTL DEF Spec, LifecycleSpec, L!Spec

\* The queue, the loop and the slots take the steps of the dispatcher, whatever
\* becomes of the tasks in their slots, up to a crash, after which nothing is
\* left of them (worker_service.go:49-66, 86-134).
THEOREM QueueIsDispatcher == Spec => DispatchesOrForgets
<1>1. [Next]_vars => [D!Next \/ D!Init']_queueVars
  <2> SUFFICES ASSUME [Next]_vars  PROVE [D!Next \/ D!Init']_queueVars
    OBVIOUS
  <2>0. State = D!State  BY DEF State, D!State
  <2>1. ASSUME NEW t \in Tasks, NEW s \in State, AddTask(t, s)  PROVE D!Next
    BY <2>0, <2>1 DEF AddTask, D!Next
  <2>2. ASSUME NEW t \in Tasks, FreeSlot(t)  PROVE D!Next
    BY <2>2 DEF FreeSlot, D!Next
  <2>3. CASE DispatcherStep  BY <2>3 DEF DispatcherStep, D!Next
  <2>4. ASSUME NEW t \in Tasks, RunTask(t) \/ TaskStep(t)  PROVE UNCHANGED queueVars
    BY <2>4 DEF RunTask, TaskStep
  <2>5. CASE UpdateTasks \/ UNCHANGED vars  BY <2>5 DEF UpdateTasks, vars
  <2>6. CASE Crash  BY <2>6 DEF Crash, D!Init
  <2> QED  BY <2>1, <2>2, <2>3, <2>4, <2>5, <2>6 DEF Next
<1> QED  BY <1>1, PTL DEF Spec, DispatchesOrForgets
=============================================================================
