----------------------------- MODULE Dispatcher -----------------------------
(***************************************************************************)
(* The pending queue and the dispatch loop of WorkerService                *)
(* (internal/adapters/worker/worker_service.go, lines 55-154 and 584-589). *)
(*                                                                         *)
(* pendingTasks is the Go channel: its first queueSize elements are the    *)
(* buffer, the ones behind them are goroutines blocked in a send, which    *)
(* the runtime serves in arrival order.  AddTask callers and the           *)
(* re-queueing goroutines are both senders; the loop is the only receiver. *)
(***************************************************************************)
EXTENDS Integers, Sequences, FiniteSets, TaskStates

CONSTANTS Tasks,          \* one submission (AddTask call) per element
          queueSize,      \* capacity of pendingTasks
          maxConcurrent   \* limit of concurrent runTask goroutines

ASSUME DispatcherAssumption ==
  /\ IsFiniteSet(Tasks)
  /\ queueSize \in Nat
  /\ maxConcurrent \in Nat

VARIABLES
  caller,          \* what became of the AddTask call of each task
  pendingTasks,    \* the channel: buffer, then blocked senders
  loop,            \* where dispatchLoop is
  hand,            \* the task the loop has received, if any ({} or {t})
  requeue,         \* re-queueing goroutines that have not sent yet
  running,         \* tasks with a live runTask goroutine
  finished,        \* tasks whose runTask has returned
  currentRunning,  \* the slot counter, guarded by mu
  cancelled        \* w.ctx is done

vars == <<caller, pendingTasks, loop, hand, requeue, running, finished,
          currentRunning, cancelled>>

-----------------------------------------------------------------------------
\* The tasks whose sender is blocked on a full channel q.
Blocked(q) == {q[i] : i \in (queueSize + 1)..Len(q)}

\* AddTask returns as soon as its send is no longer blocked.
Unblock(q) ==
  [t \in Tasks |-> IF caller[t] = "sending" /\ t \notin Blocked(q)
                     THEN "returned" ELSE caller[t]]

Init ==
  /\ caller = [t \in Tasks |-> "none"]
  /\ pendingTasks = <<>>
  /\ loop = "select"
  /\ hand = {}
  /\ requeue = {}
  /\ running = {}
  /\ finished = {}
  /\ currentRunning = 0
  /\ cancelled = FALSE

\* Slip: AddTask sends in a goroutine, as the loop does when it re-queues.
AddTaskAsync(t, s) ==
  /\ caller[t] = "none"
  /\ \/ /\ IsComplete(s)
        /\ caller' = [caller EXCEPT ![t] = "rejected"]
        /\ UNCHANGED pendingTasks
     \/ /\ ~IsComplete(s)
        /\ pendingTasks' = Append(pendingTasks, t)
        /\ caller' = [caller EXCEPT ![t] = "returned"]
  /\ UNCHANGED <<loop, hand, requeue, running, finished, currentRunning,
                 cancelled>>

\* AddTask(t) with t in state s: refused when s is final, else sent to the
\* channel, where the caller blocks while the buffer is full.
AddTask(t, s) ==
  /\ caller[t] = "none"
  /\ \/ /\ IsComplete(s)
        /\ caller' = [caller EXCEPT ![t] = "rejected"]
        /\ UNCHANGED pendingTasks
     \/ /\ ~IsComplete(s)
        /\ pendingTasks' = Append(pendingTasks, t)
        /\ caller' = [caller EXCEPT ![t] =
             IF Len(pendingTasks) < queueSize THEN "returned" ELSE "sending"]
  /\ UNCHANGED <<loop, hand, requeue, running, finished, currentRunning,
                 cancelled>>

\* case t := <-w.pendingTasks
Receive ==
  /\ loop = "select"
  /\ pendingTasks # <<>>
  /\ pendingTasks' = Tail(pendingTasks)
  /\ caller' = Unblock(Tail(pendingTasks))
  /\ hand' = {Head(pendingTasks)}
  /\ loop' = "received"
  /\ UNCHANGED <<requeue, running, finished, currentRunning, cancelled>>

\* No slot: unlock and sleep one second with the task in hand.
NoSlot ==
  /\ loop = "received"
  /\ currentRunning >= maxConcurrent
  /\ loop' = "sleeping"
  /\ UNCHANGED <<caller, pendingTasks, hand, requeue, running, finished,
                 currentRunning, cancelled>>

\* Slip: the loop forgets the task it holds.
RequeueDrops ==
  /\ loop = "sleeping"
  /\ hand' = {}
  /\ loop' = "select"
  /\ UNCHANGED <<caller, pendingTasks, requeue, running, finished,
                 currentRunning, cancelled>>

\* Slip: the loop sends the task back itself, and blocks on a full buffer.
RequeueBlocks ==
  /\ loop = "sleeping"
  /\ Len(pendingTasks) < queueSize
  /\ pendingTasks' = Append(pendingTasks, CHOOSE t \in hand : TRUE)
  /\ hand' = {}
  /\ loop' = "select"
  /\ UNCHANGED <<caller, requeue, running, finished, currentRunning, cancelled>>

\* After the sleep: hand the task to a goroutine that will send it again.
Requeue ==
  /\ loop = "sleeping"
  /\ requeue' = requeue \cup hand
  /\ hand' = {}
  /\ loop' = "select"
  /\ UNCHANGED <<caller, pendingTasks, running, finished, currentRunning,
                 cancelled>>

\* The goroutine's w.pendingTasks <- tt.
RequeueSend(t) ==
  /\ t \in requeue
  /\ requeue' = requeue \ {t}
  /\ pendingTasks' = Append(pendingTasks, t)
  /\ UNCHANGED <<caller, loop, hand, running, finished, currentRunning,
                 cancelled>>

\* Slip: the slot is not counted.
TakeSlotUncounted ==
  /\ loop = "received"
  /\ currentRunning < maxConcurrent
  /\ running' = running \cup hand
  /\ hand' = {}
  /\ loop' = "select"
  /\ UNCHANGED <<caller, pendingTasks, requeue, finished, currentRunning,
                 cancelled>>

\* Slip: > for >= in the test of the limit.
TakeSlotOneMore ==
  /\ loop = "received"
  /\ currentRunning <= maxConcurrent
  /\ currentRunning' = currentRunning + 1
  /\ running' = running \cup hand
  /\ hand' = {}
  /\ loop' = "select"
  /\ UNCHANGED <<caller, pendingTasks, requeue, finished, cancelled>>

\* A slot: count it under the mutex, then go w.runTask(t).
TakeSlot ==
  /\ loop = "received"
  /\ currentRunning < maxConcurrent
  /\ currentRunning' = currentRunning + 1
  /\ running' = running \cup hand
  /\ hand' = {}
  /\ loop' = "select"
  /\ UNCHANGED <<caller, pendingTasks, requeue, finished, cancelled>>

\* Slip: the slot is not given back when createContainer fails.
RunTaskReturnKeepsSlot(t) ==
  /\ t \in running
  /\ running' = running \ {t}
  /\ finished' = finished \cup {t}
  /\ currentRunning' \in {currentRunning, currentRunning - 1}
  /\ UNCHANGED <<caller, pendingTasks, loop, hand, requeue, cancelled>>

\* Slip: a task whose createContainer fails is queued again.
RunTaskReturnRetries(t) ==
  /\ t \in running
  /\ running' = running \ {t}
  /\ requeue' = requeue \cup {t}
  /\ currentRunning' = currentRunning - 1
  /\ UNCHANGED <<caller, pendingTasks, loop, hand, finished, cancelled>>

\* createContainer has returned, with or without an error; the deferred
\* function of runTask gives the slot back.
RunTaskReturn(t) ==
  /\ t \in running
  /\ running' = running \ {t}
  /\ finished' = finished \cup {t}
  /\ currentRunning' = currentRunning - 1
  /\ UNCHANGED <<caller, pendingTasks, loop, hand, requeue, cancelled>>

Shutdown ==
  /\ ~cancelled
  /\ cancelled' = TRUE
  /\ UNCHANGED <<caller, pendingTasks, loop, hand, requeue, running, finished,
                 currentRunning>>

\* case <-w.ctx.Done(); when a task is ready too, select picks either.
ExitLoop ==
  /\ loop = "select"
  /\ cancelled
  /\ loop' = "exited"
  /\ UNCHANGED <<caller, pendingTasks, hand, requeue, running, finished,
                 currentRunning, cancelled>>

Next ==
  \/ \E t \in Tasks :
       (\E s \in State : AddTask(t, s)) \/ RequeueSend(t) \/ RunTaskReturn(t)
  \/ Receive \/ NoSlot \/ Requeue \/ TakeSlot
  \/ Shutdown \/ ExitLoop

Spec == Init /\ [][Next]_vars

\* The Go scheduler runs every runnable goroutine; createContainer returns
\* (the container runtime answers); select chooses uniformly among ready
\* cases, so a cancelled context is not passed over for ever.
Fairness ==
  /\ WF_vars(Receive) /\ WF_vars(NoSlot) /\ WF_vars(Requeue)
  /\ WF_vars(TakeSlot)
  /\ \A t \in Tasks : WF_vars(RequeueSend(t)) /\ WF_vars(RunTaskReturn(t))
  /\ SF_vars(ExitLoop)

FairSpec == Spec /\ Fairness

-----------------------------------------------------------------------------
\* The type of every variable.
TypeOK ==
  /\ caller \in [Tasks -> {"none", "sending", "returned", "rejected"}]
  /\ pendingTasks \in Seq(Tasks)
  /\ loop \in {"select", "received", "sleeping", "exited"}
  /\ hand \in SUBSET Tasks
  /\ requeue \in SUBSET Tasks
  /\ running \in SUBSET Tasks
  /\ finished \in SUBSET Tasks
  /\ currentRunning \in Nat
  /\ cancelled \in BOOLEAN

\* The elements of a channel, and that none is in it twice.
Elements(q) == {q[i] : i \in 1..Len(q)}
NoRepeats(q) == \A i, k \in 1..Len(q) : q[i] = q[k] => i = k

Accepted == {t \in Tasks : caller[t] \in {"sending", "returned"}}
InChannel == Elements(pendingTasks)

\* The slot counter never drifts from the goroutines it counts, and they
\* never exceed the limit (worker_service.go:43-45, 91-108, 123-128).
ConcurrencyLimit ==
  /\ currentRunning = Cardinality(running)
  /\ Cardinality(running) <= maxConcurrent

\* An accepted task is in exactly one place - once in the channel, in the
\* loop's hand, with a re-queueing goroutine, in runTask or finished - so
\* bouncing through the queue neither drops nor doubles it
\* (worker_service.go:89-111).
OnePlace ==
  /\ NoRepeats(pendingTasks)
  /\ Accepted = InChannel \cup hand \cup requeue \cup running \cup finished
  /\ InChannel \cap (hand \cup requeue \cup running \cup finished) = {}
  /\ hand \cap (requeue \cup running \cup finished) = {}
  /\ requeue \cap (running \cup finished) = {}
  /\ running \cap finished = {}

\* A caller of AddTask is held back exactly while its task is beyond the
\* buffer: it returns only when the task has found room, and does not stay
\* blocked for a task the loop has taken (worker_service.go:152).
BackPressure ==
  [][\A t \in Tasks :
       /\ caller'[t] = "sending" => t \in Blocked(pendingTasks')
       /\ caller'[t] = "returned" /\ caller[t] # "returned" =>
            t \notin Blocked(pendingTasks')]_vars

\* Every accepted task reaches a slot and gives it back, however often it was
\* re-queued, unless the service is shut down (worker_service.go:86-134).
AcceptedTaskRuns ==
  \A t \in Tasks : (t \in Accepted) ~> (t \in finished \/ cancelled)

\* Shutdown ends the loop even if tasks keep arriving from re-queueing
\* goroutines (worker_service.go:113-115, 584-585).
ShutdownEndsLoop == cancelled ~> (loop = "exited")

\* The loop holds a task exactly between the receive and the end of the
\* iteration; with TypeOK, ConcurrencyLimit and OnePlace this is inductive.
HandInv ==
  /\ loop \in {"select", "exited"} => hand = {}
  /\ loop \in {"received", "sleeping"} => \E t \in Tasks : hand = {t}

IInv == TypeOK /\ HandInv /\ ConcurrencyLimit /\ OnePlace

\* The dispatcher implements the slot pool: every step of the loop, of a
\* caller or of a re-queueing goroutine is a pool step or invisible.
Pool == INSTANCE SlotPool
          WITH waiting <- Accepted \ (running \cup finished),
               active <- running
PoolSpec == Pool!Spec
=============================================================================
