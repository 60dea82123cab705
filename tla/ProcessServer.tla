---------------------------- MODULE ProcessServer ----------------------------
(***************************************************************************)
(* WorkerProcessServer.ExecuteCommand in the worker                        *)
(* (internal/adapters/grpc/server/worker_process_server.go:15-148).        *)
(*                                                                         *)
(* gRPC runs every call in its own goroutine, and the flag busy is read    *)
(* and written without a lock.  A call that starts a process has two more  *)
(* goroutines, one per pipe, that nobody waits for.                        *)
(***************************************************************************)
EXTENDS Integers, Sequences

CONSTANTS Calls,      \* the ExecuteCommand calls the worker receives
          MaxLines    \* bound: lines a process writes

ASSUME ServerAssumption == MaxLines \in Nat

Pipes == {"stdout", "stderr"}

VARIABLES
  busy,      \* ws.busy
  pc,        \* where the handler of each call is
  proc,      \* its process: "none", "running" or "exited"
  written,   \* lines the process has written to each pipe
  reader,    \* the goroutine of each pipe: "idle", "reading" or "ended"
  buffered,  \* lines its bufio.Reader has taken from the pipe
  handled,   \* lines it has handed to stream.Send
  sent       \* the messages of the call, in order

vars == <<busy, pc, proc, written, reader, buffered, handled, sent>>
output == <<written, reader, buffered, handled>>

\* A message carries its State and, for output, the pipe and the line.
Result(s) == [state |-> s, pipe |-> "none", line |-> 0]
Output(p, n) == [state |-> "RUNNING", pipe |-> p, line |-> n]

Init ==
  /\ busy = FALSE
  /\ pc = [c \in Calls |-> "idle"]
  /\ proc = [c \in Calls |-> "none"]
  /\ written = [c \in Calls |-> [p \in Pipes |-> 0]]
  /\ reader = [c \in Calls |-> [p \in Pipes |-> "idle"]]
  /\ buffered = [c \in Calls |-> [p \in Pipes |-> 0]]
  /\ handled = [c \in Calls |-> [p \in Pipes |-> 0]]
  /\ sent = [c \in Calls |-> <<>>]

Goto(c, from, to) == pc[c] = from /\ pc' = [pc EXCEPT ![c] = to]
Send(c, m) == sent' = [sent EXCEPT ![c] = Append(@, m)]

-----------------------------------------------------------------------------
\* if ws.busy: answer BUSY and return.
RefuseBusy(c) ==
  /\ busy
  /\ Goto(c, "idle", "returned")
  /\ Send(c, Result("BUSY"))
  /\ UNCHANGED <<busy, proc, output>>

PassCheck(c) ==
  /\ ~busy
  /\ Goto(c, "idle", "admitted")
  /\ UNCHANGED <<busy, proc, output, sent>>

\* ws.busy = true
SetBusy(c) ==
  /\ Goto(c, "admitted", "receiving")
  /\ busy' = TRUE
  /\ UNCHANGED <<proc, output, sent>>

\* Slip: the flag is not cleared on the early returns.
RejectRequestBusy(c) ==
  /\ Goto(c, "receiving", "returned")
  /\ Send(c, Result("FAILED")) \/ UNCHANGED sent
  /\ UNCHANGED <<busy, proc, output>>

\* The request: lost, without a command, or one that cannot be started.
RejectRequest(c) ==
  /\ Goto(c, "receiving", "leaving")
  /\ Send(c, Result("FAILED")) \/ UNCHANGED sent
  /\ UNCHANGED <<busy, proc, output>>

\* cmd.Start succeeds; the goroutines of the two pipes start.
StartProcess(c) ==
  /\ Goto(c, "receiving", "waiting")
  /\ proc' = [proc EXCEPT ![c] = "running"]
  /\ reader' = [reader EXCEPT ![c] = [p \in Pipes |-> "reading"]]
  /\ UNCHANGED <<busy, written, buffered, handled, sent>>

\* cmd.Wait: the process has exited; the pipes are closed, read or not.
Wait(c) ==
  /\ proc[c] = "exited"
  /\ Goto(c, "waiting", "reporting")
  /\ UNCHANGED <<busy, proc, output, sent>>

\* The message with the result, COMPLETED or FAILED.
SendResult(c) ==
  /\ Goto(c, "reporting", "leaving")
  /\ \E s \in {"COMPLETED", "FAILED"} : Send(c, Result(s))
  /\ UNCHANGED <<busy, proc, output>>

\* The deferred ws.busy = false, and the return.
ClearBusy(c) ==
  /\ Goto(c, "leaving", "returned")
  /\ busy' = FALSE
  /\ UNCHANGED <<proc, output, sent>>

-----------------------------------------------------------------------------
\* The process writes a line, and exits some time.
WriteLine(c, p) ==
  /\ proc[c] = "running"
  /\ written[c]["stdout"] + written[c]["stderr"] < MaxLines
  /\ written' = [written EXCEPT ![c][p] = @ + 1]
  /\ UNCHANGED <<busy, pc, proc, reader, buffered, handled, sent>>

Exit(c) ==
  /\ proc[c] = "running"
  /\ proc' = [proc EXCEPT ![c] = "exited"]
  /\ UNCHANGED <<busy, pc, output, sent>>

\* reader.ReadString finds no line in its buffer and reads from the pipe what
\* is there, one line or more, while the pipe is open.
FillBuffer(c, p) ==
  /\ reader[c][p] = "reading" /\ handled[c][p] = buffered[c][p]
  /\ pc[c] = "waiting"
  /\ \E n \in (buffered[c][p] + 1)..written[c][p] :
       buffered' = [buffered EXCEPT ![c][p] = n]
  /\ UNCHANGED <<busy, pc, proc, written, reader, handled, sent>>

\* Slip: every line is sent by a goroutine of its own.
SendLineAnyOrder(c, p) ==
  /\ handled[c][p] < buffered[c][p]
  /\ handled' = [handled EXCEPT ![c][p] = @ + 1]
  /\ \E n \in (handled[c][p] + 1)..buffered[c][p] : Send(c, Output(p, n))
  /\ UNCHANGED <<busy, pc, proc, written, reader, buffered>>

\* The next line of the buffer goes to stream.Send, which has no effect once
\* the handler has returned.
SendLine(c, p) ==
  /\ handled[c][p] < buffered[c][p]
  /\ handled' = [handled EXCEPT ![c][p] = @ + 1]
  /\ IF pc[c] # "returned" THEN Send(c, Output(p, handled[c][p] + 1))
                           ELSE UNCHANGED sent
  /\ UNCHANGED <<busy, pc, proc, written, reader, buffered>>

\* io.EOF when the process is gone and all is read, an error when the pipe
\* was closed under the reader.
EndReader(c, p) ==
  /\ reader[c][p] = "reading" /\ handled[c][p] = buffered[c][p]
  /\ \/ proc[c] = "exited" /\ buffered[c][p] = written[c][p]
     \/ pc[c] \in {"reporting", "leaving", "returned"}
  /\ reader' = [reader EXCEPT ![c][p] = "ended"]
  /\ UNCHANGED <<busy, pc, proc, written, buffered, handled, sent>>

Next ==
  \E c \in Calls :
    \/ RefuseBusy(c) \/ PassCheck(c) \/ SetBusy(c)
    \/ RejectRequest(c) \/ StartProcess(c) \/ Wait(c)
    \/ SendResult(c) \/ ClearBusy(c) \/ Exit(c)
    \/ \E p \in Pipes :
         WriteLine(c, p) \/ FillBuffer(c, p) \/ SendLine(c, p) \/ EndReader(c, p)

Spec == Init /\ [][Next]_vars

-----------------------------------------------------------------------------
Messages == [state : {"RUNNING", "BUSY", "COMPLETED", "FAILED"},
             pipe : Pipes \cup {"none"}, line : 0..MaxLines]

\* The type of every variable.
TypeOK ==
  /\ busy \in BOOLEAN
  /\ pc \in [Calls -> {"idle", "admitted", "receiving", "waiting", "reporting",
                       "leaving", "returned"}]
  /\ proc \in [Calls -> {"none", "running", "exited"}]
  /\ written \in [Calls -> [Pipes -> 0..MaxLines]]
  /\ reader \in [Calls -> [Pipes -> {"idle", "reading", "ended"}]]
  /\ buffered \in [Calls -> [Pipes -> 0..MaxLines]]
  /\ handled \in [Calls -> [Pipes -> 0..MaxLines]]
  /\ sent \in [Calls -> Seq(Messages)]

\* The worker is never left busy for ever: while the flag is set some call
\* that will clear it is in progress, on every path out of the handler and
\* however the calls interleave (worker_process_server.go:25-37).
BusyHasOwner ==
  busy => \E c \in Calls :
            pc[c] \in {"receiving", "waiting", "reporting", "leaving"}

\* The lines of one pipe that the client gets are the first ones the process
\* wrote, in order, none twice; only the end can be missing
\* (worker_process_server.go:83-123).
PipeOrder ==
  \A c \in Calls, p \in Pipes : \A i \in 1..Len(sent[c]) :
    sent[c][i].pipe = p =>
      /\ sent[c][i].line >= 1
      /\ \A n \in 1..(sent[c][i].line - 1) :
           \E j \in 1..(i - 1) : sent[c][j] = Output(p, n)
      /\ \A j \in 1..(i - 1) :
           sent[c][j].pipe = p => sent[c][j].line < sent[c][i].line
=============================================================================
