------------------------- MODULE ProcessServerProofs -------------------------
(***************************************************************************)
(* Safety of ExecuteCommand in the worker, for every set of calls and      *)
(* every number of lines; and of its other call, the health check, with    *)
(* the client that asks for it.                                            *)
(***************************************************************************)
EXTENDS ProcessServer, HealthCheck, TLAPS

\* What the stream of c has of pipe p: the first lines, each once and in order;
\* all that the reader has handled, until the handler returns.
Ordered(c, p) ==
  \A i \in 1..Len(sent[c]) :
    sent[c][i].pipe = p =>
      /\ sent[c][i].line >= 1 /\ sent[c][i].line <= handled[c][p]
      /\ \A n \in 1..(sent[c][i].line - 1) :
           \E j \in 1..(i - 1) : sent[c][j] = Output(p, n)
      /\ \A j \in 1..(i - 1) :
           sent[c][j].pipe = p => sent[c][j].line < sent[c][i].line
Complete(c, p) ==
  pc[c] # "returned" =>
    \A n \in 1..handled[c][p] :
      \E i \in 1..Len(sent[c]) : sent[c][i] = Output(p, n)
PipeInv == \A c \in Calls, p \in Pipes : Ordered(c, p) /\ Complete(c, p)

IInv == TypeOK /\ BusyHasOwner /\ PipeInv

\* A field of one pipe changes.
LEMMA Updated ==
  ASSUME NEW D, NEW f \in [Calls -> [Pipes -> D]], NEW g, NEW v \in D,
         NEW c \in Calls, NEW p \in Pipes, g = [f EXCEPT ![c][p] = v]
  PROVE  /\ g \in [Calls -> [Pipes -> D]]
         /\ g[c][p] = v
         /\ \A d \in Calls, q \in Pipes :
              d # c \/ q # p => g[d][q] = f[d][q]
  OBVIOUS

\* A message joins the others of its call.
LEMMA Appended ==
  ASSUME TypeOK, NEW c \in Calls, NEW m \in Messages, Send(c, m)
  PROVE  /\ sent' \in [Calls -> Seq(Messages)]
         /\ sent'[c] = Append(sent[c], m)
         /\ \A d \in Calls \ {c} : sent'[d] = sent[d]
  BY DEF TypeOK, Send

\* The step of a handler.
LEMMA Went ==
  ASSUME TypeOK, NEW c \in Calls, NEW s, NEW t, Goto(c, s, t),
         t \in {"idle", "admitted", "receiving", "waiting", "reporting",
                "leaving", "returned"}
  PROVE  /\ pc[c] = s /\ pc'[c] = t
         /\ \A d \in Calls \ {c} : pc'[d] = pc[d]
         /\ pc' \in [Calls -> {"idle", "admitted", "receiving", "waiting",
                               "reporting", "leaving", "returned"}]
  BY DEF TypeOK, Goto

\* What is sent is a message.
LEMMA Sent ==
  ASSUME TypeOK, NEW c \in Calls, NEW i \in 1..Len(sent[c])
  PROVE  sent[c][i] \in Messages /\ sent[c][i].line \in Nat
<1>1. sent[c] \in Seq(Messages)
  BY DEF TypeOK
<1>2. sent[c][i] \in Messages
  BY <1>1
<1> QED BY <1>2, ServerAssumption DEF Messages

\* Nothing of the pipe is sent.
LEMMA Quiet ==
  ASSUME NEW c \in Calls, NEW p \in Pipes, Ordered(c, p), Complete(c, p),
         sent'[c] = sent[c], handled'[c][p] = handled[c][p],
         pc[c] = "returned" => pc'[c] = "returned"
  PROVE  Ordered(c, p)' /\ Complete(c, p)'
  BY DEF Ordered, Complete, Output

\* A message that is not of this pipe leaves the order of its lines alone.
LEMMA OtherMessage ==
  ASSUME TypeOK, NEW c \in Calls, NEW p \in Pipes, Ordered(c, p), Complete(c, p),
         NEW m \in Messages, sent'[c] = Append(sent[c], m), m.pipe # p,
         handled'[c][p] = handled[c][p],
         pc[c] = "returned" => pc'[c] = "returned"
  PROVE  Ordered(c, p)' /\ Complete(c, p)'
<1>1. sent[c] \in Seq(Messages) /\ Len(sent[c]) \in Nat
  BY DEF TypeOK
<1>2. /\ Len(sent'[c]) = Len(sent[c]) + 1
      /\ sent'[c][Len(sent[c]) + 1] = m
      /\ \A i \in 1..Len(sent[c]) : sent'[c][i] = sent[c][i]
  BY <1>1
<1>3. Ordered(c, p)'
  <2> SUFFICES ASSUME NEW i \in 1..Len(sent'[c]), sent'[c][i].pipe = p
               PROVE  /\ sent'[c][i].line >= 1 /\ sent'[c][i].line <= handled'[c][p]
                      /\ \A n \in 1..(sent'[c][i].line - 1) :
                           \E j \in 1..(i - 1) : sent'[c][j] = Output(p, n)
                      /\ \A j \in 1..(i - 1) :
                           sent'[c][j].pipe = p => sent'[c][j].line < sent'[c][i].line
    BY DEF Ordered, Output
  <2>1. i \in 1..Len(sent[c])
    BY <1>1, <1>2
  <2>2. \A j \in 1..(i - 1) : j \in 1..Len(sent[c])
    BY <1>1, <2>1
  <2> QED BY <1>2, <2>1, <2>2 DEF Ordered
<1>4. Complete(c, p)'
  BY <1>1, <1>2 DEF Complete, Output
<1> QED BY <1>3, <1>4

\* The next line of the pipe is sent.
LEMMA NextLine ==
  ASSUME TypeOK, NEW c \in Calls, NEW p \in Pipes, Ordered(c, p), Complete(c, p),
         pc[c] # "returned",
         sent'[c] = Append(sent[c], Output(p, handled[c][p] + 1)),
         handled'[c][p] = handled[c][p] + 1
  PROVE  Ordered(c, p)' /\ Complete(c, p)'
<1> DEFINE h == handled[c][p]
<1>1. sent[c] \in Seq(Messages) /\ Len(sent[c]) \in Nat /\ h \in Nat
  BY ServerAssumption DEF TypeOK
<1>2. /\ Len(sent'[c]) = Len(sent[c]) + 1
      /\ sent'[c][Len(sent[c]) + 1] = Output(p, h + 1)
      /\ \A i \in 1..Len(sent[c]) : sent'[c][i] = sent[c][i]
  BY <1>1
<1>3. Output(p, h + 1).pipe = p /\ Output(p, h + 1).line = h + 1
  BY DEF Output
<1>4. \A n \in 1..h : \E i \in 1..Len(sent[c]) : sent[c][i] = Output(p, n)
  BY DEF Complete
<1> HIDE DEF h
<1>5. Ordered(c, p)'
  <2> SUFFICES ASSUME NEW i \in 1..Len(sent'[c]), sent'[c][i].pipe = p
               PROVE  /\ sent'[c][i].line >= 1 /\ sent'[c][i].line <= handled'[c][p]
                      /\ \A n \in 1..(sent'[c][i].line - 1) :
                           \E j \in 1..(i - 1) : sent'[c][j] = Output(p, n)
                      /\ \A j \in 1..(i - 1) :
                           sent'[c][j].pipe = p => sent'[c][j].line < sent'[c][i].line
    BY DEF Ordered, Output
  <2>1. CASE i \in 1..Len(sent[c])
    <3>1. \A j \in 1..(i - 1) : j \in 1..Len(sent[c])
      BY <1>1, <2>1
    <3>2. sent[c][i].line \in Nat
      BY <2>1, Sent
    <3>3. /\ sent[c][i].line >= 1 /\ sent[c][i].line <= h
          /\ \A n \in 1..(sent[c][i].line - 1) :
               \E j \in 1..(i - 1) : sent[c][j] = Output(p, n)
          /\ \A j \in 1..(i - 1) :
               sent[c][j].pipe = p => sent[c][j].line < sent[c][i].line
      BY <1>2, <2>1 DEF Ordered, h
    <3>4. sent[c][i].line <= handled'[c][p]
      BY <1>1, <3>2, <3>3 DEF h
    <3> QED BY <1>2, <2>1, <3>1, <3>3, <3>4
  <2>2. CASE i = Len(sent[c]) + 1
    <3>1. i - 1 = Len(sent[c]) /\ sent'[c][i].line = h + 1 /\ (h + 1) - 1 = h
      <4>1. i - 1 = Len(sent[c]) /\ (h + 1) - 1 = h
        BY <1>1, <2>2
      <4>2. sent'[c][i].line = h + 1
        BY <1>2, <1>3, <2>2
      <4> QED BY <4>1, <4>2
    <3>2. \A n \in 1..h : \E j \in 1..(i - 1) : sent'[c][j] = Output(p, n)
      BY <1>2, <1>4, <3>1
    <3>3. \A j \in 1..Len(sent[c]) :
            sent[c][j].pipe = p => sent[c][j].line < h + 1
      <4> SUFFICES ASSUME NEW j \in 1..Len(sent[c]), sent[c][j].pipe = p
                   PROVE  sent[c][j].line < h + 1
        OBVIOUS
      <4>1. sent[c][j].line \in Nat
        BY Sent
      <4>2. sent[c][j].line <= h
        BY DEF Ordered, h
      <4> QED BY <1>1, <4>1, <4>2
    <3>4. h + 1 >= 1 /\ h + 1 <= handled'[c][p]
      BY <1>1 DEF h
    <3> QED BY <1>2, <3>1, <3>2, <3>3, <3>4
  <2> QED BY <1>1, <1>2, <2>1, <2>2
<1>6. Complete(c, p)'
  <2>1. \A n \in 1..(h + 1) : n \in 1..h \/ n = h + 1
    BY <1>1
  <2>2. \A n \in 1..(h + 1) :
          \E i \in 1..Len(sent'[c]) : sent'[c][i] = Output(p, n)
    <3> SUFFICES ASSUME NEW n \in 1..(h + 1)
                 PROVE  \E i \in 1..Len(sent'[c]) : sent'[c][i] = Output(p, n)
      OBVIOUS
    <3>1. CASE n = h + 1
      <4>1. Len(sent[c]) + 1 \in 1..Len(sent'[c])
        BY <1>1, <1>2
      <4> QED BY <1>2, <3>1, <4>1
    <3>2. CASE n \in 1..h
      <4>1. PICK i \in 1..Len(sent[c]) : sent[c][i] = Output(p, n)
        BY <1>4, <3>2
      <4>2. i \in 1..Len(sent'[c]) /\ sent'[c][i] = Output(p, n)
        BY <1>1, <1>2, <4>1
      <4> QED BY <4>2
    <3> QED BY <2>1, <3>1, <3>2
  <2> QED BY <2>2 DEF Complete, Output, h
<1> QED BY <1>5, <1>6

\* A line that nobody gets.
LEMMA LineDropped ==
  ASSUME TypeOK, NEW c \in Calls, NEW p \in Pipes, Ordered(c, p),
         pc'[c] = "returned", sent'[c] = sent[c],
         handled'[c][p] = handled[c][p] + 1
  PROVE  Ordered(c, p)' /\ Complete(c, p)'
<1>1. /\ handled[c][p] \in Nat
      /\ \A i \in 1..Len(sent[c]) : sent[c][i].line \in Nat
  BY Sent, ServerAssumption DEF TypeOK
<1>2. \A i \in 1..Len(sent[c]) :
        sent[c][i].line <= handled[c][p] => sent[c][i].line <= handled'[c][p]
  BY <1>1
<1> QED BY <1>2 DEF Ordered, Complete, Output

-----------------------------------------------------------------------------
\* A step without a line of output, with a message of the handler or without.
LEMMA NoLine ==
  ASSUME IInv, UNCHANGED <<handled, sent>>,
         \A c \in Calls : pc[c] = "returned" => pc'[c] = "returned"
  PROVE  PipeInv'
  BY Quiet DEF IInv, PipeInv

\* What the handler itself sends is of no pipe and disturbs none.
LEMMA HandlerSends ==
  ASSUME IInv, NEW c \in Calls, NEW m \in Messages, m.pipe = "none", Send(c, m),
         UNCHANGED handled,
         \A d \in Calls : pc[d] = "returned" => pc'[d] = "returned"
  PROVE  PipeInv' /\ sent' \in [Calls -> Seq(Messages)]
<1>1. /\ sent' \in [Calls -> Seq(Messages)]
      /\ sent'[c] = Append(sent[c], m)
      /\ \A d \in Calls \ {c} : sent'[d] = sent[d]
  BY Appended DEF IInv
<1>2. ASSUME NEW d \in Calls, NEW p \in Pipes
      PROVE  Ordered(d, p)' /\ Complete(d, p)'
  <2>1. Ordered(d, p) /\ Complete(d, p) /\ TypeOK /\ m.pipe # p
    BY DEF IInv, PipeInv, Pipes
  <2>2. CASE d = c
    BY <1>1, <2>1, <2>2, OtherMessage
  <2>3. CASE d # c
    BY <1>1, <2>1, <2>3, Quiet
  <2> QED BY <2>2, <2>3
<1> QED BY <1>1, <1>2 DEF PipeInv

\* A result is a message of no pipe.
LEMMA ResultMessage ==
  ASSUME NEW s \in {"BUSY", "COMPLETED", "FAILED"}
  PROVE  Result(s) \in Messages /\ Result(s).pipe = "none"
<1>1. 0 \in 0..MaxLines
  BY ServerAssumption
<1> QED BY <1>1 DEF Result, Messages

\* A handler moves on, and tells its client or not.
LEMMA HandlerKeeps ==
  ASSUME IInv, NEW c \in Calls, NEW s, NEW t, Goto(c, s, t), s # "returned",
         t \in {"idle", "admitted", "receiving", "waiting", "reporting",
                "leaving", "returned"},
         \/ UNCHANGED sent
         \/ \E r \in {"BUSY", "COMPLETED", "FAILED"} : Send(c, Result(r)),
         UNCHANGED <<written, buffered, handled>>,
         proc' \in [Calls -> {"none", "running", "exited"}],
         reader' \in [Calls -> [Pipes -> {"idle", "reading", "ended"}]],
         busy' \in BOOLEAN,
         busy' => \/ t \in {"receiving", "waiting", "reporting", "leaving"}
                  \/ busy /\ s \notin {"receiving", "waiting", "reporting",
                                       "leaving"}
  PROVE  IInv'
<1>1. /\ pc[c] = s /\ pc'[c] = t
      /\ \A d \in Calls \ {c} : pc'[d] = pc[d]
      /\ pc' \in [Calls -> {"idle", "admitted", "receiving", "waiting",
                            "reporting", "leaving", "returned"}]
  BY Went DEF IInv
<1>2. \A d \in Calls : pc[d] = "returned" => pc'[d] = "returned"
  BY <1>1
<1>3. PipeInv' /\ sent' \in [Calls -> Seq(Messages)]
  <2>1. CASE UNCHANGED sent
    BY <1>2, <2>1, NoLine DEF IInv, TypeOK
  <2>2. CASE \E r \in {"BUSY", "COMPLETED", "FAILED"} : Send(c, Result(r))
    <3>1. PICK r \in {"BUSY", "COMPLETED", "FAILED"} : Send(c, Result(r))
      BY <2>2
    <3> QED BY <1>2, <3>1, ResultMessage, HandlerSends
  <2> QED BY <2>1, <2>2
<1>4. TypeOK'
  BY <1>1, <1>3 DEF IInv, TypeOK
<1>5. BusyHasOwner'
  <2> SUFFICES ASSUME busy'
               PROVE  \E d \in Calls :
                        pc'[d] \in {"receiving", "waiting", "reporting",
                                    "leaving"}
    BY DEF BusyHasOwner
  <2>1. CASE t \in {"receiving", "waiting", "reporting", "leaving"}
    BY <1>1, <2>1
  <2>2. CASE busy /\ s \notin {"receiving", "waiting", "reporting", "leaving"}
    BY <1>1, <2>2 DEF IInv, BusyHasOwner
  <2> QED BY <2>1, <2>2
<1> QED BY <1>3, <1>4, <1>5 DEF IInv

\* The process or a reader takes a step without a message.
LEMMA SilentStep ==
  ASSUME IInv, UNCHANGED <<busy, pc, handled, sent>>,
         proc' \in [Calls -> {"none", "running", "exited"}],
         written' \in [Calls -> [Pipes -> 0..MaxLines]],
         reader' \in [Calls -> [Pipes -> {"idle", "reading", "ended"}]],
         buffered' \in [Calls -> [Pipes -> 0..MaxLines]]
  PROVE  IInv'
<1>1. PipeInv'
  BY NoLine
<1>2. TypeOK' /\ BusyHasOwner'
  BY DEF IInv, TypeOK, BusyHasOwner
<1> QED BY <1>1, <1>2 DEF IInv

\* The server is idle at the beginning and has read nothing.
LEMMA InitIInv == Init => IInv
<1> SUFFICES ASSUME Init PROVE IInv
  OBVIOUS
<1>1. TypeOK
  <2>1. 0 \in 0..MaxLines /\ <<>> \in Seq(Messages)
    BY ServerAssumption
  <2> QED BY <2>1 DEF Init, TypeOK
<1>2. BusyHasOwner
  BY DEF Init, BusyHasOwner
<1>3. PipeInv
  BY DEF Init, PipeInv, Ordered, Complete
<1> QED BY <1>1, <1>2, <1>3 DEF IInv

\* The steps of the handler keep the invariant.
LEMMA CallSteps ==
  ASSUME IInv, NEW c \in Calls,
         \/ RefuseBusy(c) \/ PassCheck(c) \/ SetBusy(c) \/ RejectRequest(c)
         \/ StartProcess(c) \/ Wait(c) \/ SendResult(c) \/ ClearBusy(c)
  PROVE  IInv'
<1>1. /\ proc \in [Calls -> {"none", "running", "exited"}]
      /\ reader \in [Calls -> [Pipes -> {"idle", "reading", "ended"}]]
      /\ busy \in BOOLEAN
  BY DEF IInv, TypeOK
<1>2. CASE RefuseBusy(c)
  BY <1>1, <1>2, HandlerKeeps DEF RefuseBusy, output
<1>3. CASE PassCheck(c)
  BY <1>1, <1>3, HandlerKeeps DEF PassCheck, output
<1>4. CASE SetBusy(c)
  BY <1>1, <1>4, HandlerKeeps DEF SetBusy, output
<1>5. CASE RejectRequest(c)
  BY <1>1, <1>5, HandlerKeeps DEF RejectRequest, output
<1>6. CASE StartProcess(c)
  <2>1. /\ proc' \in [Calls -> {"none", "running", "exited"}]
        /\ reader' \in [Calls -> [Pipes -> {"idle", "reading", "ended"}]]
    <3>1. [p \in Pipes |-> "reading"] \in [Pipes -> {"idle", "reading", "ended"}]
      OBVIOUS
    <3> QED BY <1>1, <1>6, <3>1 DEF StartProcess
  <2> QED BY <1>1, <1>6, <2>1, HandlerKeeps DEF StartProcess
<1>7. CASE Wait(c)
  BY <1>1, <1>7, HandlerKeeps DEF Wait, output
<1>8. CASE SendResult(c)
  BY <1>1, <1>8, HandlerKeeps DEF SendResult, output
<1>9. CASE ClearBusy(c)
  BY <1>1, <1>9, HandlerKeeps DEF ClearBusy, output
<1> QED BY <1>2, <1>3, <1>4, <1>5, <1>6, <1>7, <1>8, <1>9

\* The exit of a process leaves what was read of its pipes.
LEMMA ExitStep ==
  ASSUME IInv, NEW c \in Calls, Exit(c)
  PROVE  IInv'
<1>1. proc' \in [Calls -> {"none", "running", "exited"}]
  BY DEF IInv, TypeOK, Exit
<1> QED BY <1>1, SilentStep DEF Exit, output, IInv, TypeOK

\* Only SendLine adds to what a reader has handled.
LEMMA SendLineStep ==
  ASSUME IInv, NEW c \in Calls, NEW p \in Pipes, SendLine(c, p)
  PROVE  IInv'
<1> DEFINE n == handled[c][p] + 1
<1>1. handled \in [Calls -> [Pipes -> 0..MaxLines]] /\ TypeOK
  BY DEF IInv, TypeOK
<1>2. n \in 0..MaxLines
  <2>1. buffered[c][p] \in 0..MaxLines /\ handled[c][p] \in 0..MaxLines
    BY <1>1 DEF TypeOK
  <2>2. handled[c][p] < buffered[c][p]
    BY DEF SendLine
  <2> QED BY <2>1, <2>2, ServerAssumption
<1>3. handled' = [handled EXCEPT ![c][p] = n]
  BY DEF SendLine
<1>4. UNCHANGED <<busy, pc, proc, written, reader, buffered>>
  BY DEF SendLine
<1>5. /\ handled' \in [Calls -> [Pipes -> 0..MaxLines]]
      /\ handled'[c][p] = n
      /\ \A d \in Calls, q \in Pipes :
           d # c \/ q # p => handled'[d][q] = handled[d][q]
  <2> HIDE DEF n
  <2> QED BY <1>1, <1>2, <1>3, Updated
<1>6. Output(p, n) \in Messages /\ Output(p, n).pipe = p
  BY <1>2 DEF Output, Messages
<1>7. PipeInv' /\ sent' \in [Calls -> Seq(Messages)]
  <2>1. \A d \in Calls, q \in Pipes : Ordered(d, q) /\ Complete(d, q)
    BY DEF IInv, PipeInv
  <2>2. CASE pc[c] # "returned"
    <3>1. Send(c, Output(p, n))
      BY <2>2 DEF SendLine
    <3>2. /\ sent' \in [Calls -> Seq(Messages)]
          /\ sent'[c] = Append(sent[c], Output(p, n))
          /\ \A d \in Calls \ {c} : sent'[d] = sent[d]
      BY <1>1, <1>6, <3>1, Appended
    <3>3. Ordered(c, p)' /\ Complete(c, p)'
      BY <1>1, <1>5, <2>1, <2>2, <3>2, NextLine
    <3>4. ASSUME NEW q \in Pipes \ {p} PROVE Ordered(c, q)' /\ Complete(c, q)'
      BY <1>1, <1>4, <1>5, <1>6, <2>1, <3>2, OtherMessage
    <3>5. ASSUME NEW d \in Calls \ {c}, NEW q \in Pipes
          PROVE  Ordered(d, q)' /\ Complete(d, q)'
      BY <1>4, <1>5, <2>1, <3>2, Quiet
    <3> QED BY <3>2, <3>3, <3>4, <3>5 DEF PipeInv
  <2>3. CASE pc[c] = "returned"
    <3>1. sent' = sent
      BY <2>3 DEF SendLine
    <3>2. Ordered(c, p)' /\ Complete(c, p)'
      BY <1>1, <1>4, <1>5, <2>1, <2>3, <3>1, LineDropped
    <3>3. ASSUME NEW d \in Calls, NEW q \in Pipes, d # c \/ q # p
          PROVE  Ordered(d, q)' /\ Complete(d, q)'
      BY <1>4, <1>5, <2>1, <3>1, <3>3, Quiet
    <3> QED BY <1>1, <3>1, <3>2, <3>3 DEF PipeInv, TypeOK
  <2> QED BY <2>2, <2>3
<1>8. TypeOK' /\ BusyHasOwner'
  BY <1>4, <1>5, <1>7 DEF IInv, TypeOK, BusyHasOwner
<1> QED BY <1>7, <1>8 DEF IInv

\* Writing a line and reading it into the buffer send nothing.
LEMMA PipeSteps ==
  ASSUME IInv, NEW c \in Calls, NEW p \in Pipes,
         WriteLine(c, p) \/ FillBuffer(c, p) \/ EndReader(c, p)
  PROVE  IInv'
<1>1. /\ written \in [Calls -> [Pipes -> 0..MaxLines]]
      /\ buffered \in [Calls -> [Pipes -> 0..MaxLines]]
      /\ reader \in [Calls -> [Pipes -> {"idle", "reading", "ended"}]]
      /\ proc \in [Calls -> {"none", "running", "exited"}]
  BY DEF IInv, TypeOK
<1>2. CASE WriteLine(c, p)
  <2>1. PICK n : /\ n = written[c][p] + 1
                 /\ written' = [written EXCEPT ![c][p] = n]
    BY <1>2 DEF WriteLine
  <2>2. n \in 0..MaxLines
    <3>1. /\ written[c]["stdout"] \in Nat /\ written[c]["stderr"] \in Nat
          /\ written[c]["stdout"] + written[c]["stderr"] < MaxLines
          /\ p = "stdout" \/ p = "stderr"
      BY <1>1, <1>2, ServerAssumption DEF WriteLine, Pipes
    <3> QED BY <2>1, <3>1, ServerAssumption
  <2>3. written' \in [Calls -> [Pipes -> 0..MaxLines]]
    BY <1>1, <2>1, <2>2, Updated
  <2> QED BY <1>1, <1>2, <2>3, SilentStep DEF WriteLine
<1>3. CASE FillBuffer(c, p)
  <2>1. PICK n \in (buffered[c][p] + 1)..written[c][p] :
          buffered' = [buffered EXCEPT ![c][p] = n]
    BY <1>3 DEF FillBuffer
  <2>2. n \in 0..MaxLines
    <3>1. buffered[c][p] \in 0..MaxLines /\ written[c][p] \in 0..MaxLines
      BY <1>1
    <3> QED BY <2>1, <3>1, ServerAssumption
  <2>3. buffered' \in [Calls -> [Pipes -> 0..MaxLines]]
    BY <1>1, <2>1, <2>2, Updated
  <2> QED BY <1>1, <1>3, <2>3, SilentStep DEF FillBuffer
<1>4. CASE EndReader(c, p)
  <2>1. reader' = [reader EXCEPT ![c][p] = "ended"]
    BY <1>4 DEF EndReader
  <2>2. reader' \in [Calls -> [Pipes -> {"idle", "reading", "ended"}]]
    BY <1>1, <2>1, Updated
  <2> QED BY <1>1, <1>4, <2>2, SilentStep DEF EndReader
<1> QED BY <1>2, <1>3, <1>4

\* Every step of the server keeps the invariant.
LEMMA NextIInv == IInv /\ [Next]_vars => IInv'
<1> SUFFICES ASSUME IInv, [Next]_vars PROVE IInv'
  OBVIOUS
<1>1. CASE UNCHANGED vars
  BY <1>1, SilentStep DEF vars, IInv, TypeOK
<1>2. CASE Next
  <2>1. PICK c \in Calls :
          \/ RefuseBusy(c) \/ PassCheck(c) \/ SetBusy(c)
          \/ RejectRequest(c) \/ StartProcess(c) \/ Wait(c)
          \/ SendResult(c) \/ ClearBusy(c) \/ Exit(c)
          \/ \E p \in Pipes :
               \/ WriteLine(c, p) \/ FillBuffer(c, p)
               \/ SendLine(c, p) \/ EndReader(c, p)
    BY <1>2 DEF Next
  <2> QED BY <2>1, CallSteps, ExitStep, SendLineStep, PipeSteps
<1> QED BY <1>1, <1>2

\* The invariant holds in every reachable state.
LEMMA Inductive == Spec => []IInv
  BY InitIInv, NextIInv, PTL DEF Spec

\* Every variable stays in its type; in particular no reader handles more lines
\* than a process may write (worker_process_server.go:21-148).
THEOREM TypeCorrect == Spec => []TypeOK
<1>1. IInv => TypeOK
  BY DEF IInv
<1> QED BY <1>1, Inductive, PTL

\* However many calls interleave over the flag, it is never left set without a
\* call that will clear it (worker_process_server.go:25-37).
THEOREM NeverLeftBusy == Spec => []BusyHasOwner
<1>1. IInv => BusyHasOwner
  BY DEF IInv
<1> QED BY <1>1, Inductive, PTL

\* The stream has the first lines of each pipe, in order and without a gap,
\* however the readers and the handler interleave
\* (worker_process_server.go:83-123).
THEOREM LinesInOrder == Spec => []PipeOrder
<1>1. IInv => PipeOrder
  BY DEF IInv, PipeInv, Ordered, PipeOrder
<1> QED BY <1>1, Inductive, PTL

-----------------------------------------------------------------------------
(* The other call of the server: one health check *)

\* A verdict has its reason; and until CheckTaskHealth ends, and with it cancels
\* the context, the context ends by its deadline only.
HealthInv ==
  /\ checker = "select" => (ctxDone => timedOut)
  /\ checker = "failing" => ill \/ timedOut
  /\ failed => ill \/ timedOut

\* There is no verdict at the beginning.
LEMMA HealthBegins == HealthInit => HealthInv
BY DEF HealthInit, HealthInv

\* Every step of the check, its poller, the handler and the stream keeps HealthInv.
LEMMA HealthGoesOn == HealthInv /\ [HealthNext]_healthVars => HealthInv'
<1> SUFFICES ASSUME HealthInv, [HealthNext]_healthVars  PROVE HealthInv'
  OBVIOUS
<1>1. ASSUME UNCHANGED <<checker, ctxDone, timedOut, ill, failed>>  PROVE HealthInv'
  BY <1>1 DEF HealthInv
<1>2. CASE \/ OpenStream \/ SendRequest \/ RecvResponse \/ PollerDone
           \/ PollerClose
  BY <1>1, <1>2 DEF OpenStream, SendRequest, RecvResponse, PollerDone,
                    PollerClose, verdict
<1>3. CASE HandlerStep
  BY <1>1, <1>3 DEF HandlerStep, HandlerWakes, StreamBreaks, Answer, verdict
<1>4. CASE Deliver
  BY <1>4 DEF Deliver, HealthInv
<1>5. CASE Timeout
  BY <1>5 DEF Timeout, HealthInv
<1>6. CASE CheckerEnd
  BY <1>6 DEF CheckerEnd, verdict, HealthInv
<1>7. CASE CheckerTimeout
  BY <1>7 DEF CheckerTimeout, verdict, HealthInv
<1>8. CASE FailTask
  BY <1>8 DEF FailTask, HealthInv
<1>9. CASE UNCHANGED healthVars
  BY <1>1, <1>9 DEF healthVars, verdict
<1> QED
  BY <1>2, <1>3, <1>4, <1>5, <1>6, <1>7, <1>8, <1>9 DEF HealthNext, PollerStep, CheckerStep

\* A health check fails its task only after an unhealthy answer or the deadline,
\* never because the stream is refused or breaks, or because the check itself
\* cancelled its context (worker_service.go:500-520, worker_client.go:114-159).
THEOREM HealthFailsJustly == HealthSpec => []FailureJustified
<1>1. HealthInv => FailureJustified  BY DEF HealthInv, FailureJustified
<1> QED  BY <1>1, HealthBegins, HealthGoesOn, PTL DEF HealthSpec
=============================================================================
