-------------------------- MODULE DispatcherProofs --------------------------
(***************************************************************************)
(* Safety of the dispatcher for every set of tasks, queue size and limit.  *)
(***************************************************************************)
EXTENDS Dispatcher, FiniteSetTheorems, TLAPS

-----------------------------------------------------------------------------
\* Sending to the channel adds one element behind the others.
LEMMA AppendElements ==
  ASSUME NEW S, NEW q \in Seq(S), NEW e \in S
  PROVE  /\ Append(q, e) \in Seq(S)
         /\ Elements(Append(q, e)) = Elements(q) \cup {e}
         /\ NoRepeats(q) /\ e \notin Elements(q) => NoRepeats(Append(q, e))
<1>1. /\ Append(q, e) \in Seq(S)
      /\ Len(Append(q, e)) = Len(q) + 1
      /\ \A i \in 1..Len(q) : Append(q, e)[i] = q[i]
      /\ Append(q, e)[Len(q) + 1] = e
      /\ Len(q) \in Nat
  OBVIOUS
<1>2. Elements(Append(q, e)) = Elements(q) \cup {e}
  BY <1>1 DEF Elements
<1>3. ASSUME NoRepeats(q), e \notin Elements(q)
      PROVE  NoRepeats(Append(q, e))
  BY <1>1, <1>3 DEF Elements, NoRepeats
<1> QED
  BY <1>1, <1>2, <1>3

\* Receiving from a channel without repetitions removes its head from it.
LEMMA TailElements ==
  ASSUME NEW S, NEW q \in Seq(S), q # <<>>, NoRepeats(q)
  PROVE  /\ Tail(q) \in Seq(S)
         /\ Head(q) \in S
         /\ NoRepeats(Tail(q))
         /\ Elements(q) = Elements(Tail(q)) \cup {Head(q)}
         /\ Head(q) \notin Elements(Tail(q))
<1>1. /\ Tail(q) \in Seq(S)
      /\ Len(q) \in Nat \ {0}
      /\ Len(Tail(q)) = Len(q) - 1
      /\ \A i \in 1..(Len(q) - 1) : Tail(q)[i] = q[i + 1]
      /\ Head(q) = q[1]
      /\ q[1] \in S
  OBVIOUS
<1>2. NoRepeats(Tail(q))
  BY <1>1 DEF NoRepeats
<1>3. Head(q) \notin Elements(Tail(q))
  BY <1>1 DEF NoRepeats, Elements
<1>4. Elements(q) = Elements(Tail(q)) \cup {Head(q)}
  <2>1. \A x \in Elements(q) : x \in Elements(Tail(q)) \cup {Head(q)}
    <3> SUFFICES ASSUME NEW i \in 1..Len(q), q[i] # q[1]
                 PROVE  q[i] \in Elements(Tail(q))
      BY <1>1 DEF Elements
    <3>1. i - 1 \in 1..(Len(q) - 1) /\ Tail(q)[i - 1] = q[i]
      BY <1>1
    <3> QED BY <3>1, <1>1 DEF Elements
  <2>2. \A x \in Elements(Tail(q)) : x \in Elements(q)
    BY <1>1 DEF Elements
  <2>3. Head(q) \in Elements(q)
    BY <1>1 DEF Elements
  <2> QED BY <2>1, <2>2, <2>3
<1> QED
  BY <1>1, <1>2, <1>3, <1>4

-----------------------------------------------------------------------------
\* No task is accepted, and nothing runs, before the first AddTask.
LEMMA InitIInv == Init => IInv
<1> SUFFICES ASSUME Init PROVE IInv
  OBVIOUS
<1>1. TypeOK /\ HandInv
  <2>1. pendingTasks \in Seq(Tasks)
    BY DEF Init
  <2>2. caller \in [Tasks -> {"none", "sending", "returned", "rejected"}]
    BY DEF Init
  <2> QED BY <2>1, <2>2 DEF Init, TypeOK, HandInv
<1>2. ConcurrencyLimit
  BY FS_EmptySet, DispatcherAssumption DEF Init, ConcurrencyLimit
<1>3. OnePlace
  BY DEF Init, OnePlace, NoRepeats, Accepted, InChannel, Elements
<1> QED BY <1>1, <1>2, <1>3 DEF IInv

\* A step that only moves callers between "sending" and "returned" accepts
\* and refuses nobody.
LEMMA UnblockAccepts ==
  ASSUME NEW q, caller \in [Tasks -> {"none", "sending", "returned", "rejected"}],
         caller' = Unblock(q)
  PROVE  /\ caller' \in [Tasks -> {"none", "sending", "returned", "rejected"}]
         /\ Accepted' = Accepted
<1>1. \A t \in Tasks : caller'[t] \in {"sending", "returned"}
                         <=> caller[t] \in {"sending", "returned"}
  BY DEF Unblock
<1> QED BY <1>1 DEF Accepted, Unblock

\* The running tasks are finitely many, so their number is a natural number
\* that follows every insertion and removal.
LEMMA SlotCount ==
  ASSUME NEW R \in SUBSET Tasks, NEW t \in Tasks
  PROVE  /\ Cardinality(R) \in Nat
         /\ t \notin R => Cardinality(R \cup {t}) = Cardinality(R) + 1
         /\ t \in R => Cardinality(R \ {t}) = Cardinality(R) - 1
                       /\ Cardinality(R \ {t}) \in Nat
<1>1. IsFiniteSet(R)
  BY FS_Subset, DispatcherAssumption
<1>2. Cardinality(R) \in Nat
  BY <1>1, FS_CardinalityType
<1>3. ASSUME t \notin R PROVE Cardinality(R \cup {t}) = Cardinality(R) + 1
  BY <1>1, <1>3, FS_AddElement
<1>4. ASSUME t \in R PROVE Cardinality(R \ {t}) = Cardinality(R) - 1
                           /\ Cardinality(R \ {t}) \in Nat
  BY <1>1, <1>4, FS_RemoveElement, FS_CardinalityType
<1> QED BY <1>2, <1>3, <1>4

\* Every step of a caller, of the loop, of a re-queueing goroutine and of
\* runTask preserves the invariant.
LEMMA NextIInv == IInv /\ [Next]_vars => IInv'
<1> SUFFICES ASSUME IInv, [Next]_vars PROVE IInv'
  OBVIOUS
<1> USE DEF IInv
<1>1. ASSUME NEW t \in Tasks, NEW s \in State, AddTask(t, s)
      PROVE  IInv'
  <2>1. CASE IsComplete(s)
    <3>1. /\ caller' = [caller EXCEPT ![t] = "rejected"]
          /\ UNCHANGED <<pendingTasks, loop, hand, requeue, running, finished,
                         currentRunning, cancelled>>
          /\ caller[t] = "none"
      BY <1>1, <2>1 DEF AddTask
    <3>2. Accepted' = Accepted
      BY <3>1 DEF Accepted, TypeOK
    <3>3. TypeOK' BY <3>1 DEF TypeOK
    <3> QED
      BY <3>1, <3>2, <3>3
      DEF HandInv, ConcurrencyLimit, OnePlace, InChannel
  <2>2. CASE ~IsComplete(s)
    <3> DEFINE r == IF Len(pendingTasks) < queueSize THEN "returned" ELSE "sending"
    <3>1. /\ caller' = [caller EXCEPT ![t] = r]
          /\ r \in {"returned", "sending"}
          /\ pendingTasks' = Append(pendingTasks, t)
          /\ UNCHANGED <<loop, hand, requeue, running, finished,
                         currentRunning, cancelled>>
          /\ caller[t] = "none"
      BY <1>1, <2>2 DEF AddTask
    <3> HIDE DEF r
    <3>2. Accepted' = Accepted \cup {t} /\ t \notin Accepted
      BY <3>1 DEF Accepted, TypeOK
    <3>3. /\ pendingTasks' \in Seq(Tasks)
          /\ InChannel' = InChannel \cup {t}
          /\ t \notin InChannel => NoRepeats(pendingTasks')
      BY <3>1, AppendElements DEF TypeOK, InChannel, OnePlace
    <3>4. TypeOK'
      BY <3>1, <3>3 DEF TypeOK
    <3>5. OnePlace'
      BY <3>1, <3>2, <3>3 DEF OnePlace
    <3>6. HandInv' /\ ConcurrencyLimit'
      BY <3>1 DEF HandInv, ConcurrencyLimit
    <3> QED BY <3>4, <3>5, <3>6
  <2> QED BY <2>1, <2>2
<1>2. CASE Receive
  <2> DEFINE t == Head(pendingTasks)
  <2>1. /\ t \in Tasks
        /\ pendingTasks' \in Seq(Tasks)
        /\ NoRepeats(pendingTasks')
        /\ InChannel = InChannel' \cup {t}
        /\ t \notin InChannel'
    BY <1>2, TailElements DEF Receive, TypeOK, OnePlace, InChannel
  <2>2. /\ hand = {} /\ hand' = {t} /\ loop' = "received"
        /\ caller' = Unblock(Tail(pendingTasks))
        /\ UNCHANGED <<requeue, running, finished, currentRunning, cancelled>>
    BY <1>2 DEF Receive, HandInv
  <2> HIDE DEF t
  <2>3. /\ caller' \in [Tasks -> {"none", "sending", "returned", "rejected"}]
        /\ Accepted' = Accepted
    BY <2>2, UnblockAccepts DEF TypeOK
  <2>4. TypeOK'
    BY <2>1, <2>2, <2>3 DEF TypeOK
  <2>5. OnePlace'
    BY <2>1, <2>2, <2>3 DEF OnePlace
  <2>6. HandInv' /\ ConcurrencyLimit'
    BY <2>1, <2>2 DEF HandInv, ConcurrencyLimit
  <2> QED BY <2>4, <2>5, <2>6
<1>3. CASE NoSlot
  BY <1>3 DEF NoSlot, TypeOK, HandInv, ConcurrencyLimit, OnePlace, Accepted,
              InChannel
<1>4. CASE Requeue
  <2>1. Accepted' = Accepted /\ InChannel' = InChannel
    BY <1>4 DEF Requeue, Accepted, InChannel
  <2> QED
    BY <1>4, <2>1 DEF Requeue, TypeOK, HandInv, ConcurrencyLimit, OnePlace
<1>5. ASSUME NEW t \in Tasks, RequeueSend(t)
      PROVE  IInv'
  <2>1. /\ t \in requeue /\ requeue' = requeue \ {t}
        /\ pendingTasks' = Append(pendingTasks, t)
        /\ UNCHANGED <<caller, loop, hand, running, finished, currentRunning,
                       cancelled>>
    BY <1>5 DEF RequeueSend
  <2>2. Accepted' = Accepted
    BY <2>1 DEF Accepted
  <2>3. /\ pendingTasks' \in Seq(Tasks)
        /\ InChannel' = InChannel \cup {t}
        /\ t \notin InChannel => NoRepeats(pendingTasks')
    BY <2>1, AppendElements DEF TypeOK, InChannel, OnePlace
  <2>4. TypeOK'
    BY <2>1, <2>3 DEF TypeOK
  <2>5. OnePlace'
    BY <2>1, <2>2, <2>3 DEF OnePlace
  <2>6. HandInv' /\ ConcurrencyLimit'
    BY <2>1 DEF HandInv, ConcurrencyLimit
  <2> QED BY <2>4, <2>5, <2>6
<1>6. CASE TakeSlot
  <2>1. PICK t \in Tasks : hand = {t}
    BY <1>6 DEF TakeSlot, HandInv
  <2>2. /\ t \notin running
        /\ running' = running \cup {t} /\ hand' = {} /\ loop' = "select"
        /\ currentRunning' = currentRunning + 1
        /\ currentRunning < maxConcurrent
        /\ UNCHANGED <<caller, pendingTasks, requeue, finished, cancelled>>
    BY <1>6, <2>1 DEF TakeSlot, OnePlace
  <2>3. Accepted' = Accepted /\ InChannel' = InChannel
    BY <2>2 DEF Accepted, InChannel
  <2>4. Cardinality(running') = Cardinality(running) + 1
    BY <2>2, SlotCount DEF TypeOK
  <2>5. TypeOK' /\ HandInv'
    BY <2>2 DEF TypeOK, HandInv
  <2>6. ConcurrencyLimit'
    BY <2>2, <2>4, DispatcherAssumption DEF TypeOK, ConcurrencyLimit
  <2>7. OnePlace'
    BY <2>1, <2>2, <2>3 DEF OnePlace
  <2> QED BY <2>5, <2>6, <2>7
<1>7. ASSUME NEW t \in Tasks, RunTaskReturn(t)
      PROVE  IInv'
  <2>1. /\ t \in running /\ running' = running \ {t}
        /\ finished' = finished \cup {t}
        /\ currentRunning' = currentRunning - 1
        /\ UNCHANGED <<caller, pendingTasks, loop, hand, requeue, cancelled>>
    BY <1>7 DEF RunTaskReturn
  <2>2. Accepted' = Accepted /\ InChannel' = InChannel
    BY <2>1 DEF Accepted, InChannel
  <2>3. /\ Cardinality(running') = Cardinality(running) - 1
        /\ Cardinality(running') \in Nat
    BY <2>1, SlotCount DEF TypeOK
  <2>4. ConcurrencyLimit'
    BY <2>1, <2>3, DispatcherAssumption DEF TypeOK, ConcurrencyLimit
  <2>5. TypeOK' /\ HandInv'
    BY <2>1, <2>3 DEF TypeOK, HandInv, ConcurrencyLimit
  <2>6. OnePlace'
    BY <2>1, <2>2 DEF OnePlace
  <2> QED BY <2>4, <2>5, <2>6
<1>8. CASE Shutdown
  BY <1>8 DEF Shutdown, TypeOK, HandInv, ConcurrencyLimit, OnePlace, Accepted,
              InChannel
<1>9. CASE ExitLoop
  BY <1>9 DEF ExitLoop, TypeOK, HandInv, ConcurrencyLimit, OnePlace, Accepted,
              InChannel
<1>10. CASE UNCHANGED vars
  BY <1>10 DEF vars, TypeOK, HandInv, ConcurrencyLimit, OnePlace, Accepted,
               InChannel
<1> QED
  BY <1>1, <1>2, <1>3, <1>4, <1>5, <1>6, <1>7, <1>8, <1>9, <1>10 DEF Next

\* The dispatcher is type correct in every reachable state, whatever the
\* number of tasks, the queue size and the concurrency limit.
THEOREM TypeCorrect == Spec => []TypeOK
<1>1. Init => IInv BY InitIInv
<1>2. IInv /\ [Next]_vars => IInv' BY NextIInv
<1>3. IInv => TypeOK BY DEF IInv
<1> QED BY <1>1, <1>2, <1>3, PTL DEF Spec

\* currentRunning always equals the number of live runTask goroutines and
\* never exceeds maxConcurrent (worker_service.go:91-108, 123-128).
THEOREM SlotsRespected == Spec => []ConcurrencyLimit
<1>1. Init => IInv BY InitIInv
<1>2. IInv /\ [Next]_vars => IInv' BY NextIInv
<1>3. IInv => ConcurrencyLimit BY DEF IInv
<1> QED BY <1>1, <1>2, <1>3, PTL DEF Spec

\* No accepted task is ever dropped or doubled between the channel, the
\* loop, the re-queueing goroutines and runTask (worker_service.go:89-111).
THEOREM NoTaskLost == Spec => []OnePlace
<1>1. Init => IInv BY InitIInv
<1>2. IInv /\ [Next]_vars => IInv' BY NextIInv
<1>3. IInv => OnePlace BY DEF IInv
<1> QED BY <1>1, <1>2, <1>3, PTL DEF Spec

-----------------------------------------------------------------------------
\* A sender that has not been served yet stands behind the buffer.
SendersWait == \A t \in Tasks : caller[t] = "sending" => t \in Blocked(pendingTasks)

\* A send blocks its sender exactly when the buffer is full, and releases nobody.
LEMMA AppendBlocks ==
  ASSUME NEW q \in Seq(Tasks), NEW e \in Tasks
  PROVE  /\ Blocked(q) \subseteq Blocked(Append(q, e))
         /\ Len(q) >= queueSize => e \in Blocked(Append(q, e))
         /\ Len(q) < queueSize => Blocked(Append(q, e)) = {}
<1>1. /\ Len(q) \in Nat /\ Len(Append(q, e)) = Len(q) + 1
      /\ \A i \in 1..Len(q) : Append(q, e)[i] = q[i]
      /\ Append(q, e)[Len(q) + 1] = e
  OBVIOUS
<1>2. queueSize \in Nat  BY DispatcherAssumption
<1>3. Blocked(q) \subseteq Blocked(Append(q, e))
  BY <1>1, <1>2 DEF Blocked
<1>4. ASSUME Len(q) >= queueSize  PROVE e \in Blocked(Append(q, e))
  <2>1. Len(q) + 1 \in (queueSize + 1)..Len(Append(q, e))  BY <1>1, <1>2, <1>4
  <2> QED  BY <1>1, <2>1 DEF Blocked
<1>5. ASSUME Len(q) < queueSize  PROVE Blocked(Append(q, e)) = {}
  BY <1>1, <1>2, <1>5 DEF Blocked
<1> QED  BY <1>3, <1>4, <1>5

\* What BackPressure says of one task and one step.
HeldBack(t) ==
  /\ caller'[t] = "sending" => t \in Blocked(pendingTasks')
  /\ caller'[t] = "returned" /\ caller[t] # "returned" => t \notin Blocked(pendingTasks')

\* After every step a caller waits exactly while its task is beyond the
\* buffer.
LEMMA SenderStep ==
  ASSUME TypeOK, SendersWait, [Next]_vars, NEW t \in Tasks
  PROVE  HeldBack(t)
<1>0. /\ pendingTasks \in Seq(Tasks) /\ queueSize \in Nat
      /\ caller \in [Tasks -> {"none", "sending", "returned", "rejected"}]
  BY DispatcherAssumption DEF TypeOK
<1>1. ASSUME NEW u \in Tasks, NEW s \in State, AddTask(u, s)
      PROVE  HeldBack(t)
  <2>1. CASE IsComplete(s)
    BY <1>0, <1>1, <2>1 DEF AddTask, HeldBack, SendersWait
  <2>2. CASE ~IsComplete(s)
    <3> DEFINE r == IF Len(pendingTasks) < queueSize THEN "returned" ELSE "sending"
    <3>1. /\ caller' = [caller EXCEPT ![u] = r]
          /\ pendingTasks' = Append(pendingTasks, u)
      BY <1>1, <2>2 DEF AddTask
    <3>2. Len(pendingTasks) \in Nat  BY <1>0
    <3>3. CASE t = u
      <4>1. caller'[t] = r  BY <1>0, <3>1, <3>3
      <4>2. r = "sending" => t \in Blocked(pendingTasks')
        BY <1>0, <3>1, <3>2, <3>3, AppendBlocks
      <4>3. r = "returned" => Blocked(pendingTasks') = {}
        BY <1>0, <3>1, <3>2, AppendBlocks
      <4> QED  BY <4>1, <4>2, <4>3 DEF HeldBack
    <3>4. CASE t # u
      <4>1. caller'[t] = caller[t]  BY <1>0, <3>1, <3>4
      <4>2. Blocked(pendingTasks) \subseteq Blocked(pendingTasks')
        BY <1>0, <3>1, AppendBlocks
      <4> QED  BY <4>1, <4>2 DEF HeldBack, SendersWait
    <3> QED  BY <3>3, <3>4
  <2> QED  BY <2>1, <2>2
<1>2. CASE Receive
  <2>1. caller'[t] = IF caller[t] = "sending" /\ t \notin Blocked(pendingTasks')
                       THEN "returned" ELSE caller[t]
    BY <1>2 DEF Receive, Unblock
  <2> QED  BY <2>1 DEF HeldBack
<1>3. ASSUME NEW u \in Tasks, RequeueSend(u)  PROVE HeldBack(t)
  <2>1. caller' = caller /\ pendingTasks' = Append(pendingTasks, u)
    BY <1>3 DEF RequeueSend
  <2>2. Blocked(pendingTasks) \subseteq Blocked(pendingTasks')
    BY <1>0, <2>1, AppendBlocks
  <2> QED  BY <2>1, <2>2 DEF HeldBack, SendersWait
<1>4. CASE \/ NoSlot \/ Requeue \/ TakeSlot \/ Shutdown \/ ExitLoop \/ UNCHANGED vars
           \/ \E u \in Tasks : RunTaskReturn(u)
  <2>1. UNCHANGED <<caller, pendingTasks>>
    BY <1>4 DEF NoSlot, Requeue, TakeSlot, Shutdown, ExitLoop, vars, RunTaskReturn
  <2> QED  BY <2>1 DEF HeldBack, SendersWait, Blocked
<1> QED
  BY <1>1, <1>2, <1>3, <1>4 DEF Next

\* A caller of AddTask waits exactly while its task is beyond the buffer,
\* through every re-queueing that competes with it (worker_service.go:152).
THEOREM CallersHeldBack == Spec => BackPressure
<1>1. Init => SendersWait  BY DEF Init, SendersWait
<1>2. TypeOK /\ SendersWait /\ [Next]_vars => SendersWait'
  BY SenderStep DEF SendersWait, HeldBack
<1>3. TypeOK /\ SendersWait /\ [Next]_vars =>
        [\A t \in Tasks :
           /\ caller'[t] = "sending" => t \in Blocked(pendingTasks')
           /\ caller'[t] = "returned" /\ caller[t] # "returned" =>
                t \notin Blocked(pendingTasks')]_vars
  BY SenderStep DEF HeldBack
<1> QED  BY <1>1, <1>2, <1>3, TypeCorrect, PTL DEF Spec, BackPressure

-----------------------------------------------------------------------------
\* Every step of the dispatcher is a step of the slot pool or changes none
\* of what the pool sees.
LEMMA PoolStep == IInv /\ [Next]_vars => [Pool!Next]_(Pool!poolVars)
<1> SUFFICES ASSUME IInv, [Next]_vars
             PROVE  [Pool!Next]_(Pool!poolVars)
  OBVIOUS
<1> USE DEF IInv, Pool!poolVars
<1>1. ASSUME NEW t \in Tasks, NEW s \in State, AddTask(t, s)
      PROVE  [Pool!Next]_(Pool!poolVars)
  <2>1. CASE IsComplete(s)
    <3>1. Accepted' = Accepted /\ UNCHANGED <<running, finished>>
      BY <1>1, <2>1 DEF AddTask, Accepted, TypeOK
    <3> QED BY <3>1
  <2>2. CASE ~IsComplete(s)
    <3>1. /\ Accepted' = Accepted \cup {t} /\ t \notin Accepted
          /\ UNCHANGED <<running, finished>>
      BY <1>1, <2>2 DEF AddTask, Accepted, TypeOK
    <3>2. Pool!Accept(t)
      BY <3>1 DEF Pool!Accept, OnePlace
    <3> QED BY <3>2 DEF Pool!Next
  <2> QED BY <2>1, <2>2
<1>2. CASE Receive
  <2>1. Accepted' = Accepted
    BY <1>2, UnblockAccepts DEF Receive, TypeOK
  <2> QED BY <1>2, <2>1 DEF Receive
<1>3. CASE TakeSlot
  <2>1. PICK t \in Tasks : hand = {t}
    BY <1>3 DEF TakeSlot, HandInv
  <2>2. /\ Accepted' = Accepted
        /\ running' = running \cup {t} /\ finished' = finished
        /\ Cardinality(running) < maxConcurrent
    BY <1>3, <2>1 DEF TakeSlot, Accepted, ConcurrencyLimit
  <2>3. t \in Accepted \ (running \cup finished)
    BY <2>1 DEF OnePlace
  <2>4. Pool!Start(t)
    BY <2>2, <2>3 DEF Pool!Start, Pool!Cardinality, Cardinality
  <2> QED BY <2>4 DEF Pool!Next
<1>4. ASSUME NEW t \in Tasks, RunTaskReturn(t)
      PROVE  [Pool!Next]_(Pool!poolVars)
  <2>1. /\ Accepted' = Accepted /\ t \in running
        /\ running' = running \ {t} /\ finished' = finished \cup {t}
    BY <1>4 DEF RunTaskReturn, Accepted
  <2>2. Pool!Finish(t)
    BY <2>1 DEF Pool!Finish
  <2> QED BY <2>2 DEF Pool!Next
<1>5. CASE \/ NoSlot \/ Requeue \/ Shutdown \/ ExitLoop
           \/ \E t \in Tasks : RequeueSend(t)
  <2>1. UNCHANGED <<caller, running, finished>>
    BY <1>5 DEF NoSlot, Requeue, Shutdown, ExitLoop, RequeueSend
  <2> QED BY <2>1 DEF Accepted
<1>6. CASE UNCHANGED vars
  BY <1>6 DEF vars, Accepted
<1> QED
  BY <1>1, <1>2, <1>3, <1>4, <1>5, <1>6 DEF Next

\* The dispatcher implements the slot pool: seen from outside, an accepted
\* task waits, starts once in a free slot and finishes, and the queue, its
\* order and the re-queueing are invisible (worker_service.go:86-154).
THEOREM ImplementsPool == Spec => PoolSpec
<1>1. Init => Pool!Init
  BY DEF Init, Pool!Init, Accepted
<1>2. Init => IInv BY InitIInv
<1>3. IInv /\ [Next]_vars => IInv' BY NextIInv
<1>4. IInv /\ [Next]_vars => [Pool!Next]_(Pool!poolVars)
  BY PoolStep
<1> QED BY <1>1, <1>2, <1>3, <1>4, PTL DEF Spec, PoolSpec, Pool!Spec

=============================================================================
