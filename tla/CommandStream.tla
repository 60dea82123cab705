---------------------------- MODULE CommandStream ----------------------------
(***************************************************************************)
(* One command on its way through WorkerClient.ExecuteCommand              *)
(* (internal/adapters/grpc/client/worker_client.go:30-95).  Three          *)
(* goroutines share the unbuffered channel outputChan:                     *)
(*   caller    called ExecuteCommand: the goroutine of StartTask           *)
(*             (worker_service.go:287-308), which cancels the context and  *)
(*             closes the channel when the call returns, or a plain user   *)
(*             of the client, which does neither;                          *)
(*   receiver  the client's goroutine that copies the stream to the        *)
(*             channel and closes it (worker_client.go:56-92);             *)
(*   consumer  processTaskOutput (worker_service.go:323-384), which leaves *)
(*             when the context is done, or a user's loop over the channel *)
(* StartTask's goroutines also tell the observers of the task, each in a   *)
(* goroutine of its own (worker_service.go:465-484), and write the task    *)
(* that a StopTask writes meanwhile.  As in TaskLifecycle the store keeps  *)
(* copies; its other writers are left to that module.                      *)
(***************************************************************************)
EXTENDS Integers, Sequences, TaskStates

CONSTANTS Observers,    \* who may register for the output of the task
          Final,        \* the names of a final state that the worker may send
          MaxMessages,  \* bound: messages that the worker sends
          MaxFaults     \* bound: errors of the store

ASSUME StreamAssumption ==
  /\ Final \subseteq {"COMPLETED", "FAILED", "BUSY"}
  /\ MaxMessages \in Nat /\ MaxFaults \in Nat

VARIABLES
  inStartTask,   \* is StartTask the caller, or a plain user? never changes
  caller, receiver, consumer,   \* where the goroutines are
  held,        \* the message the receiver is sending
  sent,        \* what the server has sent on the stream
  received,    \* how much of it Recv has returned
  server,      \* the handler in the worker
  end,         \* how the stream ended, "open" before
  ctxDone,     \* the command's context is cancelled or timed out
  closes,      \* how often outputChan was closed
  panicked,    \* a goroutine closed, or sent to, the closed channel
  delivered,   \* the outputs the consumer has received
  starter,     \* StartTask itself, after it has started the goroutines
  registered,  \* w.Observers of the task
  told,        \* what observers are told
  status,      \* the stored state of the task, Running at the start
  copy,        \* what updateTaskStatus last got
  stop,        \* where a call of StopTask is
  faults       \* errors of the store so far

stream == <<receiver, held, sent, received, server, end, delivered>>
observing == <<starter, registered, told>>
db == <<status, copy, stop, faults>>
vars == <<inStartTask, caller, consumer, stream, ctxDone, closes, panicked,
          observing, db>>

\* A message is the State field and the position on the stream, 0 for the error
\* that the client adds.
StreamError == <<"failed", 0>>
Message == ({"RUNNING", "failed"} \cup Final) \X Nat

\* What the service itself tells the observers.
Started == <<"Running", -1>>
Failure == <<"failed", -1>>
Stopped == <<"completed", -1>>
Report == Message \cup {Started, Failure, Stopped}

Init ==
  /\ inStartTask \in BOOLEAN
  /\ caller = "calling"
  /\ receiver = "none"
  /\ consumer = "select"
  /\ held = StreamError
  /\ sent = <<>>
  /\ received = 0
  /\ server = "none"
  /\ end = "open"
  /\ ctxDone = FALSE
  /\ closes = 0
  /\ panicked = FALSE
  /\ delivered = <<>>
  /\ starter = IF inStartTask THEN "notify" ELSE "none"
  /\ registered = {}
  /\ told = {}
  /\ status = "Running" /\ copy = "Running" /\ stop = "none" /\ faults = 0

\* The store returns an error.
StoreError == faults < MaxFaults /\ faults' = faults + 1

\* Db.Put by those who only log its error.
Put(s) == \/ status' = s /\ UNCHANGED faults
          \/ StoreError /\ UNCHANGED status

-----------------------------------------------------------------------------
\* RegisterObserver, at any time.
RegisterObserver(o) ==
  /\ inStartTask /\ o \notin registered
  /\ registered' = registered \cup {o}
  /\ UNCHANGED <<caller, consumer, stream, ctxDone, closes, panicked, starter,
                 told, db>>

\* Slip: nobody is told once the context of the command is done.
NotifyObserversInContext(m) ==
  told' = told \cup (IF ctxDone THEN {} ELSE registered \X {m})

\* NotifyObservers: every observer registered now, each in a goroutine of its
\* own, so that the calls of Notify are made in any order.
NotifyObservers(m) == told' = told \cup (registered \X {m})

\* The last lines of StartTask: its goroutines are at work already.
NotifyRunning ==
  /\ starter = "notify"
  /\ NotifyObservers(Started)
  /\ starter' = "returned"
  /\ UNCHANGED <<caller, consumer, stream, ctxDone, closes, panicked,
                 registered, db>>

-----------------------------------------------------------------------------
\* The stream cannot be opened or the request not sent.
ExecuteError ==
  /\ caller = "calling"
  /\ caller' = "refused"
  /\ UNCHANGED <<consumer, stream, ctxDone, closes, panicked, observing,
                 db>>

\* The request is on its way; the receiver starts and the call returns nil.
ExecuteCommand ==
  /\ caller = "calling"
  /\ ~ctxDone
  /\ caller' = IF inStartTask THEN "cancel" ELSE "returned"
  /\ receiver' = "recv"
  /\ server' = "running"
  /\ UNCHANGED <<consumer, held, sent, received, end, ctxDone, closes,
                 panicked, delivered, observing, db>>

\* StartTask's goroutine on an error: the observers are told first.
NotifyRefused ==
  /\ inStartTask /\ caller = "refused"
  /\ NotifyObservers(Failure)
  /\ caller' = "failing"
  /\ UNCHANGED <<consumer, stream, ctxDone, closes, panicked, starter,
                 registered, db>>

\* Slip: the error is only logged.
FailTaskSilent ==
  /\ inStartTask /\ caller = "failing"
  /\ caller' = "cancel"
  /\ UNCHANGED <<consumer, stream, ctxDone, closes, panicked, observing,
                 db>>

\* Then failTask with its Running copy: it stores Failed, whatever is stored by
\* now, and tells the observers once more, stored or not.
FailTask ==
  /\ inStartTask /\ caller = "failing"
  /\ Put("Failed")
  /\ NotifyObservers(Failure)
  /\ caller' = "cancel"
  /\ UNCHANGED <<consumer, stream, ctxDone, closes, panicked, starter,
                 registered, copy, stop>>

\* defer cancel() of StartTask's goroutine.
Cancel ==
  /\ inStartTask /\ caller = "cancel"
  /\ ctxDone' = TRUE
  /\ caller' = "close"
  /\ UNCHANGED <<consumer, stream, closes, panicked, observing, db>>

\* close(outputChan): a second close panics.
CloseChannel ==
  /\ closes' = closes + 1
  /\ panicked' = (closes > 0)

\* defer close(outputChan) of StartTask's goroutine.
CallerClose ==
  /\ inStartTask /\ caller = "close"
  /\ CloseChannel
  /\ caller' = "done"
  /\ UNCHANGED <<consumer, stream, ctxDone, observing, db>>

\* The context is done: by the deadline that StartTask gives it, or because a
\* plain user ends his, who need not.
ContextEnds ==
  /\ ~ctxDone
  /\ ctxDone' = TRUE
  /\ UNCHANGED <<caller, consumer, stream, closes, panicked, observing, db>>

Timeout == inStartTask /\ ContextEnds
UserCancels == ~inStartTask /\ ContextEnds

-----------------------------------------------------------------------------
\* The worker sends a line of output; the goroutines that do are not joined,
\* so one may come after the final message, until the handler returns.
ServerOutput ==
  /\ server \in {"running", "final"} /\ end = "open"
  /\ Len(sent) < MaxMessages
  /\ sent' = Append(sent, <<"RUNNING", Len(sent) + 1>>)
  /\ UNCHANGED <<caller, receiver, consumer, held, received, server, end,
                 ctxDone, closes, panicked, delivered, observing, db>>

\* The result of the process, the refusal of a busy worker or an error.
ServerFinal(s) ==
  /\ server = "running" /\ end = "open"
  /\ Len(sent) < MaxMessages
  /\ sent' = Append(sent, <<s, Len(sent) + 1>>)
  /\ server' = "final"
  /\ UNCHANGED <<caller, receiver, consumer, held, received, end, ctxDone,
                 closes, panicked, delivered, observing, db>>

\* The handler returns nil, which the client sees as io.EOF.
ServerReturn ==
  /\ server = "final" /\ end = "open"
  /\ end' = "eof"
  /\ server' = "done"
  /\ UNCHANGED <<caller, receiver, consumer, held, sent, received, ctxDone,
                 closes, panicked, delivered, observing, db>>

\* The handler returns an error or the connection breaks.
StreamBreaks ==
  /\ receiver # "none" /\ end = "open"
  /\ end' = "error"
  /\ server' = "done"
  /\ UNCHANGED <<caller, receiver, consumer, held, sent, received, ctxDone,
                 closes, panicked, delivered, observing, db>>

-----------------------------------------------------------------------------
\* Slip: the channel is closed at io.EOF and by the deferred close.
RecvClosesAtEOF ==
  /\ receiver = "recv"
  /\ \/ /\ received < Len(sent)
        /\ received' = received + 1
        /\ held' = sent[received + 1]
        /\ receiver' = "send"
        /\ UNCHANGED <<closes, panicked>>
     \/ /\ received = Len(sent) /\ end = "eof"
        /\ receiver' = "closing"
        /\ CloseChannel
        /\ UNCHANGED <<received, held>>
  /\ UNCHANGED <<caller, consumer, sent, server, end, ctxDone, delivered,
                 observing, db>>

\* workerStream.Recv returns the next message, io.EOF or an error; once the
\* context is done it may return the error before what is left of the stream.
Recv ==
  /\ receiver = "recv"
  /\ \/ /\ received < Len(sent)
        /\ received' = received + 1
        /\ held' = sent[received + 1]
        /\ receiver' = "send"
     \/ /\ received = Len(sent) /\ end = "eof"
        /\ receiver' = "closing"
        /\ UNCHANGED <<received, held>>
     \/ /\ ctxDone \/ (received = Len(sent) /\ end = "error")
        /\ held' = StreamError
        /\ receiver' = "sendError"
        /\ UNCHANGED received
  /\ UNCHANGED <<caller, consumer, sent, server, end, ctxDone, closes,
                 panicked, delivered, observing, db>>

\* Slip: no return after a stream error.
AfterSendLoops(m) == "recv"

\* Slip: the loop ends at the names the worker uses, with output still to come.
AfterSendUpperCase(m) ==
  IF m[1] \in Final \cup {"failed"} THEN "closing" ELSE "recv"

\* Where the receiver goes when m has been sent: the loop ends on the states
\* the client takes for final, and after a stream error.
AfterSend(m) == IF m[1] \in {"completed", "failed"} THEN "closing" ELSE "recv"

\* outputChan <- held meets the consumer's receive.
Deliver ==
  /\ receiver \in {"send", "sendError"}
  /\ consumer = "select" /\ closes = 0
  /\ delivered' = Append(delivered, held)
  /\ receiver' = AfterSend(held)
  /\ consumer' = "handling"
  /\ UNCHANGED <<caller, held, sent, received, server, end, ctxDone, closes,
                 panicked, observing, db>>

\* case <-ctx.Done() of the send; the send of a stream error has no such case.
GiveUpSend ==
  /\ receiver = "send" /\ ctxDone
  /\ receiver' = "closing"
  /\ UNCHANGED <<caller, consumer, held, sent, received, server, end, ctxDone,
                 closes, panicked, delivered, observing, db>>

\* A send to the closed channel panics.
SendOnClosed ==
  /\ receiver \in {"send", "sendError"} /\ closes > 0
  /\ panicked' = TRUE
  /\ UNCHANGED <<caller, consumer, stream, ctxDone, closes, observing,
                 db>>

\* Slip: no deferred close.
ReceiverLeaves ==
  /\ receiver = "closing"
  /\ receiver' = "done"
  /\ UNCHANGED <<caller, consumer, held, sent, received, server, end, ctxDone,
                 closes, panicked, delivered, observing, db>>

\* defer close(outputChan) of the receiver.
ReceiverClose ==
  /\ receiver = "closing"
  /\ CloseChannel
  /\ receiver' = "done"
  /\ UNCHANGED <<caller, consumer, held, sent, received, server, end, ctxDone,
                 delivered, observing, db>>

-----------------------------------------------------------------------------
\* Where updateTaskStatus takes a task: only the lower-case names count, and
\* only a valid transition.
target == [running |-> "Running", completed |-> "Completed", failed |-> "Failed"]
after(s, name) == IF ValidStateTransition(s, target[name]) THEN target[name] ELSE s

\* A plain user is done with an output.
Consume ==
  /\ ~inStartTask /\ consumer = "handling"
  /\ consumer' = "select"
  /\ UNCHANGED <<caller, stream, ctxDone, closes, panicked, observing,
                 db>>

\* processTaskOutput tells the observers of an output.
NotifyOutput ==
  /\ inStartTask /\ consumer = "handling"
  /\ NotifyObservers(delivered[Len(delivered)])
  /\ consumer' = "updating"
  /\ UNCHANGED <<caller, stream, ctxDone, closes, panicked, starter,
                 registered, db>>

\* Then updateTaskStatus gets the task; it returns on an error and on a state
\* it does not know.
GetTask ==
  /\ consumer = "updating"
  /\ LET name == delivered[Len(delivered)][1]
     IN IF name \in DOMAIN target
          THEN \/ /\ copy' = after(status, name)
                  /\ consumer' = "storing" /\ UNCHANGED faults
               \/ StoreError /\ consumer' = "select" /\ UNCHANGED copy
          ELSE consumer' = "select" /\ UNCHANGED <<copy, faults>>
  /\ UNCHANGED <<caller, stream, ctxDone, closes, panicked, observing, status,
                 stop>>

\* And puts it back.
PutTask ==
  /\ consumer = "storing"
  /\ Put(copy)
  /\ consumer' = "select"
  /\ UNCHANGED <<caller, stream, ctxDone, closes, panicked, observing, copy,
                 stop>>

\* A plain user reads no more.
UserLeaves ==
  /\ ~inStartTask /\ consumer = "select"
  /\ consumer' = "left"
  /\ UNCHANGED <<caller, stream, ctxDone, closes, panicked, observing, db>>

\* The channel is closed, or processTaskOutput sees the context done.
ConsumerEnd ==
  /\ consumer = "select"
  /\ closes > 0 \/ (inStartTask /\ ctxDone)
  /\ consumer' = "done"
  /\ UNCHANGED <<caller, stream, ctxDone, closes, panicked, observing,
                 db>>

-----------------------------------------------------------------------------
\* StopTask of a caller that has read the task as Running, maybe long ago.
StopTask ==
  /\ inStartTask /\ stop = "none"
  /\ \/ status' = "Stopping" /\ stop' = "deleting" /\ UNCHANGED faults
     \/ StoreError /\ stop' = "end" /\ UNCHANGED status
  /\ UNCHANGED <<caller, consumer, stream, ctxDone, closes, panicked, observing,
                 copy>>

\* DeleteContainerSandbox takes the worker away, in the middle of whatever it
\* was sending; as it may fall silent or its stream break at any time
\* (StreamBreaks), nothing more changes here.  If it succeeds StopTask stores
\* Completed, whatever is stored by now, and tells the observers.
StopCompleted ==
  /\ stop = "deleting"
  /\ stop' = "end"
  /\ \/ status' = "Completed" /\ NotifyObservers(Stopped) /\ UNCHANGED faults
     \/ StoreError /\ UNCHANGED <<status, told>>
  /\ UNCHANGED <<caller, consumer, stream, ctxDone, closes, panicked, starter,
                 registered, copy>>

\* If it fails: failTask with the Stopping copy.
StopFailed ==
  /\ stop = "deleting"
  /\ stop' = "end"
  /\ Put("Failed")
  /\ NotifyObservers(Failure)
  /\ UNCHANGED <<caller, consumer, stream, ctxDone, closes, panicked, starter,
                 registered, copy>>

\* A panic ends the process.
alive == ~panicked /\ UNCHANGED inStartTask

CallerStep ==
  alive /\ (\/ ExecuteError \/ ExecuteCommand
            \/ NotifyRefused \/ FailTask
            \/ Cancel \/ CallerClose)
DeadlineStep == alive /\ Timeout
ServerStep ==
  alive /\ (\/ ServerOutput \/ ServerReturn \/ StreamBreaks
            \/ \E s \in Final : ServerFinal(s))
ReceiverStep ==
  alive /\ (Recv \/ Deliver \/ GiveUpSend \/ SendOnClosed \/ ReceiverClose)
ConsumerStep ==
  alive /\ (Consume \/ NotifyOutput \/ GetTask \/ PutTask \/ ConsumerEnd)
StopStep == alive /\ (StopCompleted \/ StopFailed)
StarterStep == alive /\ NotifyRunning
UserStep ==
  alive /\ (\/ UserCancels \/ UserLeaves \/ StopTask
            \/ \E o \in Observers : RegisterObserver(o))

Next ==
  \/ CallerStep \/ DeadlineStep \/ ServerStep \/ ReceiverStep \/ ConsumerStep
  \/ StopStep \/ StarterStep \/ UserStep

Spec == Init /\ [][Next]_vars

\* Goroutines run, and so does a StopTask; the context of StartTask has a
\* deadline that passes.  A plain user's context need not end, nor need he read
\* on, and the worker owes nothing.
Fairness ==
  /\ WF_vars(CallerStep) /\ WF_vars(DeadlineStep)
  /\ WF_vars(ReceiverStep) /\ WF_vars(ConsumerStep)
  /\ WF_vars(StopStep) /\ WF_vars(StarterStep)

FairSpec == Spec /\ Fairness

-----------------------------------------------------------------------------
\* The type of every variable.
TypeOK ==
  /\ inStartTask \in BOOLEAN
  /\ caller \in {"calling", "refused", "failing", "cancel", "close",
                "done", "returned"}
  /\ receiver \in {"none", "recv", "send", "sendError", "closing", "done"}
  /\ consumer \in {"select", "handling", "updating", "storing", "left", "done"}
  /\ held \in Message
  /\ sent \in Seq(Message)
  /\ received \in 0..Len(sent)
  /\ server \in {"none", "running", "final", "done"}
  /\ end \in {"open", "eof", "error"}
  /\ ctxDone \in BOOLEAN
  /\ closes \in 0..2
  /\ panicked \in BOOLEAN
  /\ delivered \in Seq(Message)
  /\ starter \in {"none", "notify", "returned"}
  /\ registered \subseteq Observers
  /\ told \subseteq registered \X Report
  /\ status \in {"Running", "Stopping", "Completed", "Failed"}
  /\ copy \in {"Running", "Stopping", "Completed", "Failed"}
  /\ stop \in {"none", "deleting", "end"}
  /\ faults \in 0..MaxFaults

\* The consumer sees the stream from its beginning, in order, without gaps or
\* repetitions, and after it at most the one error the client adds
\* (worker_client.go:58-91).
OutputOrder ==
  LET n == Len(delivered)
      copied(k) == k <= received /\ \A i \in 1..k : delivered[i] = sent[i]
  IN copied(n) \/ (n > 0 /\ delivered[n] = StreamError /\ copied(n - 1))

\* A channel that its receiver closed while the context was alive has carried the whole
\* output, or ends with an error: a user cannot take half of the output for
\* all of it (worker_client.go:58-91).
AllOrError ==
  receiver = "done" /\ closes > 0 /\ ~ctxDone =>
    \/ end = "eof" /\ delivered = sent
    \/ Len(delivered) > 0 /\ delivered[Len(delivered)] = StreamError

\* A plain user of the client is safe: outputChan is not closed twice, and
\* nothing is sent on it once it is closed (worker_client.go:57, 65, 83).
ClosedOnce == ~inStartTask => ~panicked

\* A user who reads on gets to the end of the channel once the stream has ended,
\* well or not, or the context has: the receiver closes it.  A worker that falls
\* silent keeps a user waiting who has set no deadline (worker_client.go:57-92).
ChannelCloses ==
  caller = "returned" /\ (end # "open" \/ ctxDone)
    ~> (closes = 1 /\ consumer = "done") \/ consumer = "left"

\* When the command cannot be sent, the task does not stay Running and the
\* consumer of its output ends: it is stored as Failed, or Completed by a
\* StopTask, unless the store refuses (worker_service.go:287-307, 331-339,
\* 389-425, 451-453).
RefusedCommandSettles ==
  (inStartTask /\ caller = "refused")
    ~> (consumer = "done" /\ (IsComplete(status) \/ faults > 0))

\* An observer that was told of an output is told of every later one, whoever
\* registers meanwhile and however the command ends (worker_service.go:334,
\* 471-484).
ObserversMissNothing ==
  LET handled == IF consumer = "handling" THEN Len(delivered) - 1
                                          ELSE Len(delivered)
  IN \A o \in Observers : \A i, j \in 1..handled :
       <<o, delivered[i]>> \in told /\ i < j => <<o, delivered[j]>> \in told

\* An observer may be told of a failure before it is stored, but not of the
\* failure of a task that stays Running: the store comes to Failed, or to
\* Completed where a StopTask has broken the stream, unless it returned an error
\* or the process ends (worker_service.go:300-306, 334-335, 344-380, 389-425).
ToldFailureSettles ==
  (\E n \in told : n[2] \in {StreamError, Failure})
    ~> (IsComplete(status) \/ faults > 0 \/ panicked)

-----------------------------------------------------------------------------
\* "Ejecutar una tarea básica (echo) hasta completarla": the output channel of
\* a task that StartTask executes is not closed twice, nor used once closed
\* (test/worker_test.go:42, worker_service.go:288, worker_client.go:57).
NoPanic == ~panicked
=============================================================================
