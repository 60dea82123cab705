----------------------------- MODULE HealthCheck -----------------------------
(***************************************************************************)
(* One health check of a Running task: CheckTaskHealth                     *)
(* (internal/adapters/worker/worker_service.go:489-521), the goroutines of *)
(* WorkerClient.StartHealthCheck it starts (worker_client.go:114-159) and  *)
(* the handler in the worker (worker_process_server.go:160-179).           *)
(*                                                                         *)
(* StartMetricsCollection and ReportMetrics (worker_client.go:162-207,     *)
(* worker_process_server.go:181-205) are the same poller and handler.      *)
(***************************************************************************)
EXTENDS Integers

CONSTANT Answers   \* what a worker may answer: IsHealthy, a subset of BOOLEAN
                   \* (the handler in this repository answers TRUE only)

ASSUME AnswersAssumption == Answers \subseteq BOOLEAN

VARIABLES
  poller,     \* the client's goroutine
  checker,    \* CheckTaskHealth
  handler,    \* HealthCheck in the worker
  request,    \* a request is on the stream
  response,   \* the answer on the stream or in the poller's hand, if any
  broken,     \* the stream is broken
  ctxDone,    \* the check's context is done
  timedOut,   \* history: because its deadline passed
  ill,        \* history: CheckTaskHealth received an unhealthy answer
  closed,     \* healthChan is closed
  failed      \* failTask was called

healthVars == <<poller, checker, handler, request, response, broken, ctxDone,
                timedOut, ill, closed, failed>>
stream == <<request, response, broken>>
verdict == <<timedOut, ill, failed>>

HealthInit ==
  /\ poller = "opening"
  /\ checker = "select"
  /\ handler = "none"
  /\ request = FALSE
  /\ response = {}
  /\ broken = FALSE
  /\ ctxDone = FALSE
  /\ timedOut = FALSE
  /\ ill = FALSE
  /\ closed = FALSE
  /\ failed = FALSE

-----------------------------------------------------------------------------
\* client.HealthCheck(ctx): on an error the call ends and healthChan is never
\* closed.
OpenStream ==
  /\ poller = "opening"
  /\ \/ poller' = "waiting" /\ handler' = "receiving" /\ ~ctxDone
     \/ poller' = "refused" /\ UNCHANGED handler
  /\ UNCHANGED <<checker, stream, ctxDone, verdict, closed>>

\* The ticker fires: send a request, or find the stream broken.
SendRequest ==
  /\ poller = "waiting"
  /\ \/ ~broken /\ request' = TRUE /\ poller' = "receiving"
     \/ /\ broken \/ ctxDone
        /\ poller' = "closing" /\ UNCHANGED request
  /\ UNCHANGED <<checker, handler, response, broken, ctxDone, verdict, closed>>

\* stream.Recv: the answer, or the end of the stream.
RecvResponse ==
  /\ poller = "receiving"
  /\ \/ response # {} /\ poller' = "delivering"
     \/ /\ broken \/ ctxDone
        /\ poller' = "closing"
  /\ UNCHANGED <<checker, handler, stream, ctxDone, verdict, closed>>

\* healthChan <- resp meets the receive in CheckTaskHealth.
Deliver ==
  /\ poller = "delivering" /\ checker = "select"
  /\ poller' = "waiting"
  /\ response' = {}
  /\ \/ TRUE \in response /\ UNCHANGED <<checker, ill>>
     \/ FALSE \in response /\ checker' = "failing" /\ ill' = TRUE
  /\ UNCHANGED <<handler, request, broken, ctxDone, timedOut, failed, closed>>

\* Slip: healthChan <- resp without the case for the context.
PollerDoneWaiting ==
  /\ poller = "waiting" /\ ctxDone
  /\ poller' = "closing"
  /\ UNCHANGED <<checker, handler, stream, ctxDone, verdict, closed>>

\* case <-ctx.Done() of the poller's two selects.
PollerDone ==
  /\ poller \in {"waiting", "delivering"} /\ ctxDone
  /\ poller' = "closing"
  /\ UNCHANGED <<checker, handler, stream, ctxDone, verdict, closed>>

\* defer close(healthChan)
PollerClose ==
  /\ poller = "closing"
  /\ closed' = TRUE
  /\ poller' = "done"
  /\ UNCHANGED <<checker, handler, stream, ctxDone, verdict>>

-----------------------------------------------------------------------------
\* The worker answers a request and sleeps before it receives the next one.
Answer(isHealthy) ==
  /\ handler = "receiving" /\ request /\ ~broken
  /\ request' = FALSE
  /\ response' = {isHealthy}
  /\ handler' = "sleeping"
  /\ UNCHANGED <<poller, checker, broken, ctxDone, verdict, closed>>

HandlerWakes ==
  /\ handler = "sleeping"
  /\ handler' = "receiving"
  /\ UNCHANGED <<poller, checker, stream, ctxDone, verdict, closed>>

\* The worker dies or the connection breaks.
StreamBreaks ==
  /\ handler # "none" /\ ~broken
  /\ broken' = TRUE
  /\ UNCHANGED <<poller, checker, handler, request, response, ctxDone, verdict,
                 closed>>

\* The deadline of the task's timeout passes.
Timeout ==
  /\ ~ctxDone
  /\ ctxDone' = TRUE
  /\ timedOut' = TRUE
  /\ UNCHANGED <<poller, checker, handler, stream, ill, failed, closed>>

-----------------------------------------------------------------------------
\* Slip: a closed channel is taken for an unhealthy answer.
CheckerEndFails ==
  /\ checker = "select" /\ closed
  /\ checker' = "failing"
  /\ UNCHANGED <<poller, handler, stream, ctxDone, verdict, closed>>

\* healthChan is closed: return, with the deferred cancel.
CheckerEnd ==
  /\ checker = "select" /\ closed
  /\ checker' = "done"
  /\ ctxDone' = TRUE
  /\ UNCHANGED <<poller, handler, stream, verdict, closed>>

\* case <-ctx.Done() of CheckTaskHealth.
CheckerTimeout ==
  /\ checker = "select" /\ ctxDone
  /\ checker' = "failing"
  /\ UNCHANGED <<poller, handler, stream, ctxDone, verdict, closed>>

\* failTask, return, and the deferred cancel.
FailTask ==
  /\ checker = "failing"
  /\ failed' = TRUE
  /\ checker' = "done"
  /\ ctxDone' = TRUE
  /\ UNCHANGED <<poller, handler, stream, timedOut, ill, closed>>

PollerStep ==
  OpenStream \/ SendRequest \/ RecvResponse \/ Deliver \/ PollerDone \/ PollerClose
CheckerStep == CheckerEnd \/ CheckerTimeout \/ FailTask
HandlerStep ==
  HandlerWakes \/ StreamBreaks \/ \E isHealthy \in Answers : Answer(isHealthy)

HealthNext == PollerStep \/ CheckerStep \/ HandlerStep \/ Timeout

HealthSpec == HealthInit /\ [][HealthNext]_healthVars

\* The goroutines of the service run and the deadline passes; nothing is asked
\* of the worker.
Fairness ==
  WF_healthVars(PollerStep) /\ WF_healthVars(CheckerStep) /\ WF_healthVars(Timeout)

FairSpec == HealthSpec /\ Fairness

-----------------------------------------------------------------------------
\* The type of every variable.
HealthTypeOK ==
  /\ poller \in {"opening", "refused", "waiting", "receiving", "delivering",
                 "closing", "done"}
  /\ checker \in {"select", "failing", "done"}
  /\ handler \in {"none", "receiving", "sleeping"}
  /\ request \in BOOLEAN /\ response \in {{}, {TRUE}, {FALSE}} /\ broken \in BOOLEAN
  /\ ctxDone \in BOOLEAN /\ timedOut \in BOOLEAN /\ ill \in BOOLEAN
  /\ closed \in BOOLEAN /\ failed \in BOOLEAN

\* A task is failed by its health check only after an unhealthy answer or the
\* deadline; a stream that cannot be opened, or breaks, does not fail it
\* (worker_service.go:508-518).
FailureJustified == failed => ill \/ timedOut

\* Neither goroutine outlives the check: whatever the worker does, both end
\* (worker_service.go:500-520, worker_client.go:121-155).
CheckEnds == <>[](checker = "done" /\ poller \in {"refused", "done"})
=============================================================================
