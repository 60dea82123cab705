------------------------- MODULE CommandStreamProofs -------------------------
(***************************************************************************)
(* Safety of the output channel of a command, for every set of observers   *)
(* and every number of outputs.                                            *)
(***************************************************************************)
EXTENDS CommandStream, SequenceTheorems, TLAPS

\* What the server has sent is numbered, and none of it is an error of the
\* client.
SentInv ==
  \A i \in 1..Len(sent) : sent[i][1] \in {"RUNNING"} \cup Final /\ sent[i][2] = i

\* The channel is closed once by each of those who do; the receiver of a plain
\* user is alone in that.
CloseInv ==
  /\ closes = (IF caller = "done" THEN 1 ELSE 0)
              + (IF receiver = "done" THEN 1 ELSE 0)
  /\ caller \in {"calling", "refused", "failing"} => receiver = "none"
  /\ ~inStartTask => /\ caller \in {"calling", "refused", "returned"}
                     /\ ~panicked /\ registered = {}

\* The first k outputs are the first k messages.
Copied(k) == \A i \in 1..k : delivered[i] = sent[i]

\* How far the consumer is, at each place of the receiver.
FlowInv ==
  /\ receiver = "none" => received = 0
  /\ receiver \in {"none", "recv", "sendError"} =>
       Len(delivered) = received /\ Copied(received)
  /\ receiver = "sendError" => held = StreamError
  /\ receiver = "send" =>
       /\ received > 0 /\ held = sent[received]
       /\ Len(delivered) = received - 1 /\ Copied(received - 1)
  /\ receiver \in {"closing", "done"} => OutputOrder
  /\ consumer = "handling" => Len(delivered) > 0

\* The receiver has left its loop with the whole stream, an error or a context
\* that was done.
LeftInv ==
  receiver \in {"closing", "done"} /\ ~ctxDone =>
    \/ end = "eof" /\ delivered = sent
    \/ Len(delivered) > 0 /\ delivered[Len(delivered)] = StreamError

\* The outputs the consumer has told the observers of.
Handled == IF consumer = "handling" THEN Len(delivered) - 1 ELSE Len(delivered)

IInv == /\ TypeOK /\ SentInv /\ CloseInv /\ FlowInv /\ LeftInv
        /\ ObserversMissNothing

\* The streams as sequences of messages with lengths that are numbers.
LEMMA Lengths ==
  ASSUME TypeOK
  PROVE  /\ sent \in Seq(Message) /\ delivered \in Seq(Message)
         /\ Len(sent) \in Nat /\ Len(delivered) \in Nat
         /\ received \in Nat /\ received <= Len(sent)
         /\ \A i \in 1..Len(sent) : sent[i] \in Message
         /\ \A i \in 1..Len(delivered) : delivered[i] \in Message
<1>1. sent \in Seq(Message) /\ delivered \in Seq(Message) /\ received \in 0..Len(sent)
  BY DEF TypeOK
<1>2. Len(sent) \in Nat /\ Len(delivered) \in Nat
  BY <1>1
<1> QED BY <1>1, <1>2, ElementOfSeq

\* The error the client adds is a message like others.
LEMMA StreamErrorMessage == StreamError \in Message
  BY DEF StreamError, Message

\* What the service itself tells is not a message of the stream.
LEMMA OwnReports ==
  /\ Started \in Report /\ Failure \in Report /\ Stopped \in Report
  /\ Started \notin Message /\ Failure \notin Message /\ Stopped \notin Message
  /\ Message \subseteq Report
  BY DEF Started, Failure, Stopped, Report, Message

\* ObserversMissNothing in the names of this module.
LEMMA MissNothing ==
  ObserversMissNothing <=>
    \A o \in Observers : \A i, j \in 1..Handled :
      <<o, delivered[i]>> \in told /\ i < j => <<o, delivered[j]>> \in told
  BY DEF ObserversMissNothing, Handled

\* Of what is delivered, the order follows.
LEMMA FlowOrder ==
  ASSUME TypeOK, FlowInv
  PROVE  OutputOrder
<1>1. /\ Len(delivered) \in Nat /\ received \in Nat
  BY Lengths
<1>2. CASE receiver \in {"none", "recv", "sendError"}
  BY <1>1, <1>2 DEF FlowInv, OutputOrder, Copied
<1>3. CASE receiver = "send"
  BY <1>1, <1>3 DEF FlowInv, OutputOrder, Copied
<1>4. CASE receiver \in {"closing", "done"}
  BY <1>4 DEF FlowInv
<1> QED BY <1>2, <1>3, <1>4 DEF TypeOK

\* The outputs differ from each other.
LEMMA Distinct ==
  ASSUME TypeOK, SentInv, FlowInv, NEW i \in 1..Len(delivered),
         NEW j \in 1..Len(delivered), i < j
  PROVE  delivered[i] # delivered[j]
<1> DEFINE n == Len(delivered)
<1>1. n \in Nat /\ received \in Nat /\ received <= Len(sent) /\ Len(sent) \in Nat
  BY Lengths
<1>2. \A k \in 1..received : sent[k][2] = k
  BY <1>1 DEF SentInv
<1>3. CASE n <= received /\ \A k \in 1..n : delivered[k] = sent[k]
  BY <1>1, <1>2, <1>3
<1>4. CASE /\ delivered[n] = StreamError /\ n - 1 <= received
           /\ \A k \in 1..(n - 1) : delivered[k] = sent[k]
  <2>1. i \in 1..(n - 1) /\ i \in 1..received
    BY <1>1, <1>4
  <2>2. delivered[i][2] = i
    BY <1>2, <1>4, <2>1
  <2>3. CASE j = n
    <3>1. delivered[j][2] = 0
      BY <1>4, <2>3 DEF StreamError
    <3> QED BY <2>2, <3>1
  <2>4. CASE j # n
    <3>1. j \in 1..(n - 1) /\ j \in 1..received
      BY <1>1, <1>4, <2>4
    <3>2. delivered[j][2] = j
      BY <1>2, <1>4, <3>1
    <3> QED BY <2>2, <3>2
  <2> QED BY <2>3, <2>4
<1> QED BY <1>3, <1>4, FlowOrder DEF OutputOrder

\* A step of a goroutine that has no part in the stream.
LEMMA OffStream ==
  ASSUME IInv, UNCHANGED stream, ctxDone' \in BOOLEAN, ctxDone => ctxDone',
         consumer' \in {"select", "handling", "updating", "storing", "left",
                       "done"},
         consumer' = "handling" => consumer = "handling"
  PROVE  SentInv' /\ FlowInv' /\ LeftInv'
<1>1. UNCHANGED <<receiver, held, sent, received, server, end, delivered>>
  BY DEF stream
<1>2. SentInv'
  BY <1>1 DEF IInv, SentInv
<1>3. FlowInv'
  BY <1>1 DEF IInv, FlowInv, Copied, OutputOrder
<1>4. LeftInv'
  BY <1>1 DEF IInv, LeftInv
<1> QED BY <1>2, <1>3, <1>4

\* Nobody is told anything, and no output is handled.
LEMMA NobodyTold ==
  ASSUME IInv, UNCHANGED <<told, delivered>>,
         (consumer' = "handling") <=> (consumer = "handling")
  PROVE  ObserversMissNothing'
<1>1. Handled' = Handled /\ told' = told
  BY DEF Handled
<1> QED BY <1>1 DEF IInv, ObserversMissNothing, Handled

\* A report of the service's own is no output.
LEMMA OwnReportTold ==
  ASSUME IInv, NEW m \in {Started, Failure, Stopped}, UNCHANGED delivered,
         told' \in {told, told \cup (registered \X {m})},
         (consumer' = "handling") <=> (consumer = "handling")
  PROVE  ObserversMissNothing'
<1>1. Handled' = Handled /\ delivered' = delivered /\ Handled <= Len(delivered)
      /\ Handled \in Int
  BY Lengths DEF IInv, Handled
<1>2. \A i \in 1..Handled : delivered[i] # m
  <2>1. \A i \in 1..Handled : i \in 1..Len(delivered)
    BY <1>1, Lengths DEF IInv
  <2> QED BY <2>1, OwnReports, Lengths DEF IInv
<1>3. /\ \A o, l : <<o, l>> \in told => <<o, l>> \in told'
      /\ \A o, l : <<o, l>> \in told' => <<o, l>> \in told \/ l = m
  OBVIOUS
<1>4. \A o \in Observers : \A i, j \in 1..Handled :
        <<o, delivered[i]>> \in told' /\ i < j => <<o, delivered[j]>> \in told'
  BY <1>2, <1>3, MissNothing DEF IInv
<1> QED BY <1>1, <1>4 DEF ObserversMissNothing, Handled

\* A step of StartTask, its caller goroutine or a StopTask that may tell the
\* observers of the task, and may write the task.
LEMMA ServiceStep ==
  ASSUME IInv, NEW m \in {Started, Failure, Stopped},
         told' \in {told, told \cup (registered \X {m})},
         UNCHANGED <<inStartTask, caller, consumer, stream, ctxDone, closes,
                     panicked, registered, copy>>,
         starter' \in {"none", "notify", "returned"},
         status' \in {"Running", "Stopping", "Completed", "Failed"},
         stop' \in {"none", "deleting", "end"},
         faults' \in 0..MaxFaults
  PROVE  IInv'
<1>1. UNCHANGED <<receiver, delivered, held, sent, received, server, end>>
  BY DEF stream
<1>2. TypeOK'
  <2>1. told' \subseteq registered \X Report
    BY OwnReports DEF IInv, TypeOK
  <2> QED BY <1>1, <2>1 DEF IInv, TypeOK, db
<1>3. CloseInv'
  BY <1>1 DEF IInv, CloseInv
<1>4. SentInv' /\ FlowInv' /\ LeftInv'
  BY <1>1, OffStream DEF IInv, TypeOK
<1>5. ObserversMissNothing'
  BY <1>1, OwnReportTold
<1> QED BY <1>2, <1>3, <1>4, <1>5 DEF IInv

\* An error of the store is counted up to the bound.
LEMMA Faults ==
  ASSUME TypeOK
  PROVE  /\ StoreError => faults' \in 0..MaxFaults
         /\ UNCHANGED faults => faults' \in 0..MaxFaults
  BY StreamAssumption DEF TypeOK, StoreError

\* Nothing is sent, delivered or closed at the beginning.
LEMMA InitIInv == Init => IInv
<1> SUFFICES ASSUME Init PROVE IInv
  OBVIOUS
<1>1. Len(delivered) = 0 /\ Len(sent) = 0
  BY DEF Init
<1>2. TypeOK
  <2>1. sent \in Seq(Message) /\ delivered \in Seq(Message) /\ held \in Message
    BY StreamErrorMessage, EmptySeq DEF Init
  <2>2. received \in 0..Len(sent) /\ closes \in 0..2
    BY <1>1 DEF Init
  <2>3. /\ registered = {} /\ told = {}
        /\ starter \in {"none", "notify", "returned"}
    BY DEF Init
  <2>4. /\ inStartTask \in BOOLEAN /\ ctxDone \in BOOLEAN /\ panicked \in BOOLEAN
        /\ caller = "calling" /\ receiver = "none" /\ consumer = "select"
        /\ server = "none" /\ end = "open"
        /\ status = "Running" /\ copy = "Running" /\ stop = "none"
    BY DEF Init
  <2>5. faults \in 0..MaxFaults
    BY StreamAssumption DEF Init
  <2> QED BY <2>1, <2>2, <2>3, <2>4, <2>5 DEF TypeOK
<1>3. SentInv /\ CloseInv /\ FlowInv /\ LeftInv
  BY <1>1 DEF Init, SentInv, CloseInv, FlowInv, Copied, LeftInv
<1>4. ObserversMissNothing
  BY <1>1 DEF Init, ObserversMissNothing
<1> QED BY <1>2, <1>3, <1>4 DEF IInv

-----------------------------------------------------------------------------
\* The steps of the caller and of the deadline.
LEMMA CallerSteps ==
  ASSUME IInv, alive,
         \/ ExecuteError \/ NotifyRefused \/ FailTask
         \/ Cancel \/ Timeout \/ UserCancels
  PROVE  IInv'
<1> USE DEF ContextEnds, Timeout, UserCancels
<1>1. /\ UNCHANGED <<inStartTask, stream, consumer, closes, panicked, starter,
                     registered, copy, stop>>
      /\ UNCHANGED <<receiver, delivered, held, sent, received, server, end>>
  BY DEF alive, ExecuteError, NotifyRefused, FailTask, Cancel, observing, stream, db
<1>2. /\ ctxDone' \in BOOLEAN /\ (ctxDone => ctxDone')
      /\ caller' \in {"refused", "failing", "cancel", "close", caller}
  BY DEF ExecuteError, NotifyRefused, FailTask, Cancel, IInv, TypeOK
<1>3. /\ (caller # "done" /\ caller' # "done") \/ caller' = caller
      /\ caller' \in {"calling", "refused", "failing"} =>
           caller \in {"calling", "refused", "failing"}
      /\ ~inStartTask => caller' \in {"calling", "refused", "returned"}
  BY DEF ExecuteError, NotifyRefused, FailTask, Cancel, IInv, CloseInv
<1>4. told' \in {told, told \cup (registered \X {Failure})}
  BY DEF ExecuteError, NotifyRefused, FailTask, Cancel, NotifyObservers, observing
<1>5. SentInv' /\ FlowInv' /\ LeftInv'
  BY <1>1, <1>2, OffStream DEF IInv, TypeOK
<1>6. CloseInv'
  BY <1>1, <1>3 DEF IInv, CloseInv
<1>7. TypeOK'
  <2>1. told' \subseteq registered \X Report
    BY <1>4, OwnReports DEF IInv, TypeOK
  <2>2. caller' \in {"calling", "refused", "failing", "cancel", "close", "done",
                     "returned"}
    BY <1>2 DEF IInv, TypeOK
  <2>3. status' \in {"Running", "Stopping", "Completed", "Failed"}
    BY DEF ExecuteError, NotifyRefused, FailTask, Cancel, Put, db, IInv, TypeOK
  <2>4. faults' \in 0..MaxFaults
    BY Faults DEF ExecuteError, NotifyRefused, FailTask, Cancel, Put, db, IInv
  <2> QED BY <1>1, <1>2, <2>1, <2>2, <2>3, <2>4 DEF IInv, TypeOK, db
<1>8. ObserversMissNothing'
  BY <1>1, <1>4, OwnReportTold
<1> QED BY <1>5, <1>6, <1>7, <1>8 DEF IInv

\* ExecuteCommand starts the receiver before anything is received.
LEMMA ExecuteCommands == IInv /\ alive /\ ExecuteCommand => IInv'
<1> SUFFICES ASSUME IInv, alive, ExecuteCommand PROVE IInv'
  OBVIOUS
<1>1. /\ UNCHANGED <<inStartTask, consumer, held, sent, received, end, ctxDone,
                     closes, panicked, delivered, starter, registered,
                     told, db>>
      /\ caller = "calling" /\ receiver' = "recv" /\ server' = "running"
      /\ caller' = IF inStartTask THEN "cancel" ELSE "returned"
  BY DEF alive, ExecuteCommand, observing
<1>2. receiver = "none"
  BY <1>1 DEF IInv, CloseInv
<1>3. TypeOK'
  BY <1>1 DEF IInv, TypeOK, db
<1>4. SentInv' /\ CloseInv' /\ LeftInv'
  BY <1>1, <1>2 DEF IInv, SentInv, CloseInv, LeftInv
<1>5. FlowInv'
  BY <1>1, <1>2 DEF IInv, FlowInv, Copied
<1>6. ObserversMissNothing'
  BY <1>1, NobodyTold
<1> QED BY <1>3, <1>4, <1>5, <1>6 DEF IInv

\* The caller closes the channel once, and never the one of a plain user.
LEMMA CallerCloses == IInv /\ alive /\ CallerClose => IInv'
<1> SUFFICES ASSUME IInv, alive, CallerClose PROVE IInv'
  OBVIOUS
<1>1. /\ UNCHANGED <<inStartTask, consumer, stream, ctxDone, starter, registered,
                     told, db>>
      /\ UNCHANGED <<receiver, delivered, held, sent, received, server, end>>
      /\ inStartTask /\ caller = "close" /\ caller' = "done"
      /\ closes' = closes + 1 /\ panicked' = (closes > 0)
  BY DEF alive, CallerClose, CloseChannel, observing, stream
<1>2. CloseInv'
  BY <1>1 DEF IInv, CloseInv
<1>3. closes' \in 0..2
  BY <1>1, <1>2 DEF CloseInv
<1>4. TypeOK'
  BY <1>1, <1>3 DEF IInv, TypeOK, db
<1>5. SentInv' /\ FlowInv' /\ LeftInv'
  BY <1>1, OffStream DEF IInv, TypeOK, db
<1>6. ObserversMissNothing'
  BY <1>1, NobodyTold
<1> QED BY <1>2, <1>4, <1>5, <1>6 DEF IInv

\* The server adds to the stream while that is open.
LEMMA ServerSends ==
  ASSUME IInv, alive, NEW s \in {"RUNNING"} \cup Final, end = "open",
         sent' = Append(sent, <<s, Len(sent) + 1>>),
         server' \in {"none", "running", "final", "done"},
         UNCHANGED <<caller, receiver, consumer, held, received, end, ctxDone,
                     closes, panicked, delivered, observing, db>>
  PROVE  IInv'
<1>1. /\ UNCHANGED <<starter, registered, told, inStartTask>>
      /\ sent \in Seq(Message) /\ Len(sent) \in Nat /\ received \in 0..Len(sent)
  BY Lengths DEF alive, observing, IInv, TypeOK
<1>2. <<s, Len(sent) + 1>> \in Message
  BY <1>1 DEF Message
<1>3. /\ sent' \in Seq(Message) /\ Len(sent') = Len(sent) + 1
      /\ sent'[Len(sent) + 1] = <<s, Len(sent) + 1>>
      /\ \A i \in 1..Len(sent) : sent'[i] = sent[i]
  BY <1>1, <1>2
<1>4. TypeOK'
  <2>1. received \in 0..Len(sent')
    BY <1>1, <1>3
  <2> QED BY <1>1, <1>3, <2>1 DEF IInv, TypeOK, db
<1>5. SentInv'
  <2>1. \A i \in 1..(Len(sent) + 1) : i \in 1..Len(sent) \/ i = Len(sent) + 1
    BY <1>1
  <2> QED BY <1>1, <1>3, <2>1 DEF IInv, SentInv
<1>6. CloseInv' /\ LeftInv'
  BY <1>1 DEF IInv, CloseInv, LeftInv
<1>7. \A i \in 1..received : sent'[i] = sent[i]
  BY <1>1, <1>3
<1>8. FlowInv'
  <2>1. ASSUME NEW k \in Int, k <= received, Copied(k)
        PROVE  Copied(k)'
    <3>1. \A i \in 1..k : i \in 1..received
      BY <1>1, <2>1
    <3>2. \A i \in 1..k : delivered'[i] = sent'[i]
      BY <1>1, <1>7, <2>1, <3>1 DEF Copied
    <3> QED BY <3>2 DEF Copied
  <2>2. OutputOrder => OutputOrder'
    <3>1. Len(delivered) \in Nat
      BY Lengths DEF IInv
    <3>2. \A k : k \in Int /\ k <= received =>
            \A i \in 1..k : sent'[i] = sent[i]
      BY <1>1, <1>7
    <3>3. Len(delivered) \in Int /\ Len(delivered) - 1 \in Int
      BY <3>1
    <3> QED BY <1>1, <3>2, <3>3 DEF OutputOrder
  <2>3. receiver = "send" => received \in 1..received
    BY <1>1 DEF IInv, FlowInv
  <2> QED BY <1>1, <1>7, <2>1, <2>2, <2>3 DEF IInv, FlowInv
<1>9. ObserversMissNothing'
  BY <1>1, NobodyTold
<1> QED BY <1>4, <1>5, <1>6, <1>8, <1>9 DEF IInv

\* The stream ends once.
LEMMA ServerEnds ==
  ASSUME IInv, alive, ServerReturn \/ StreamBreaks
  PROVE  IInv'
<1>1. /\ UNCHANGED <<inStartTask, caller, receiver, consumer, held, sent, received,
                     ctxDone, closes, panicked, delivered, starter, registered,
                     told, db>>
      /\ end = "open" /\ end' \in {"eof", "error"} /\ server' = "done"
  BY DEF alive, ServerReturn, StreamBreaks, observing
<1>2. TypeOK'
  BY <1>1 DEF IInv, TypeOK, db
<1>3. SentInv' /\ CloseInv' /\ LeftInv'
  BY <1>1 DEF IInv, SentInv, CloseInv, LeftInv
<1>4. FlowInv'
  BY <1>1 DEF IInv, FlowInv, Copied, OutputOrder
<1>5. ObserversMissNothing'
  BY <1>1, NobodyTold
<1> QED BY <1>2, <1>3, <1>4, <1>5 DEF IInv

-----------------------------------------------------------------------------
\* The receiver takes the next message, the end or an error.
LEMMA Recvs == IInv /\ alive /\ Recv => IInv'
<1> SUFFICES ASSUME IInv, alive, Recv PROVE IInv'
  OBVIOUS
<1>1. /\ UNCHANGED <<inStartTask, caller, consumer, sent, server, end, ctxDone,
                     closes, panicked, delivered, starter, registered,
                     told, db>>
      /\ receiver = "recv"
  BY DEF alive, Recv, observing
<1>2. /\ sent \in Seq(Message) /\ delivered \in Seq(Message)
      /\ Len(sent) \in Nat /\ Len(delivered) \in Nat
      /\ received \in Nat /\ received <= Len(sent)
      /\ \A i \in 1..Len(sent) : sent[i] \in Message
  BY Lengths DEF IInv
<1>3. /\ Len(delivered) = received /\ Copied(received)
      /\ consumer = "handling" => Len(delivered) > 0
  BY <1>1 DEF IInv, FlowInv
<1>4. CASE /\ received < Len(sent) /\ received' = received + 1
           /\ held' = sent[received + 1] /\ receiver' = "send"
  <2>1. held' \in Message /\ received' \in 0..Len(sent)
    BY <1>2, <1>4
  <2>2. TypeOK'
    BY <1>1, <1>4, <2>1 DEF IInv, TypeOK, db
  <2>3. received' - 1 = received
    BY <1>2, <1>4
  <2>4. FlowInv'
    BY <1>1, <1>2, <1>3, <1>4, <2>3 DEF FlowInv, Copied
  <2> QED BY <1>1, <1>4, <2>2, <2>4, NobodyTold DEF IInv, SentInv, CloseInv, LeftInv
<1>5. CASE /\ received = Len(sent) /\ end = "eof" /\ receiver' = "closing"
           /\ UNCHANGED <<received, held>>
  <2>1. TypeOK'
    BY <1>1, <1>5 DEF IInv, TypeOK, db
  <2>2. OutputOrder'
    BY <1>1, <1>2, <1>3, <1>5 DEF OutputOrder, Copied
  <2>3. FlowInv'
    BY <1>1, <1>3, <1>5, <2>2 DEF FlowInv
  <2>4. delivered = sent
    BY <1>2, <1>3, <1>5, SeqEqual DEF Copied
  <2>5. LeftInv'
    BY <1>1, <1>5, <2>4 DEF LeftInv
  <2> QED BY <1>1, <1>5, <2>1, <2>3, <2>5, NobodyTold DEF IInv, SentInv, CloseInv
<1>6. CASE /\ held' = StreamError /\ receiver' = "sendError"
           /\ UNCHANGED received
  <2>1. TypeOK'
    BY <1>1, <1>6, StreamErrorMessage DEF IInv, TypeOK, db
  <2>2. FlowInv'
    BY <1>1, <1>3, <1>6 DEF FlowInv, Copied
  <2> QED BY <1>1, <1>6, <2>1, <2>2, NobodyTold DEF IInv, SentInv, CloseInv, LeftInv
<1> QED BY <1>4, <1>5, <1>6 DEF Recv

\* The message reaches the consumer: the receiver goes on after one of the
\* server's, and leaves after its own.
LEMMA Delivers == IInv /\ alive /\ Deliver => IInv'
<1> SUFFICES ASSUME IInv, alive, Deliver PROVE IInv'
  OBVIOUS
<1> DEFINE n == Len(delivered)
<1>1. /\ UNCHANGED <<inStartTask, caller, held, sent, received, server, end,
                     ctxDone, closes, panicked, starter, registered,
                     told, db>>
      /\ receiver \in {"send", "sendError"} /\ consumer = "select"
      /\ delivered' = Append(delivered, held) /\ receiver' = AfterSend(held)
      /\ consumer' = "handling"
  BY DEF alive, Deliver, observing
<1>2. /\ sent \in Seq(Message) /\ delivered \in Seq(Message)
      /\ Len(sent) \in Nat /\ n \in Nat
      /\ received \in Nat /\ received <= Len(sent) /\ held \in Message
  BY Lengths DEF IInv, TypeOK, db
<1>3. /\ delivered' \in Seq(Message) /\ Len(delivered') = n + 1
      /\ delivered'[n + 1] = held
      /\ \A i \in 1..n : delivered'[i] = delivered[i]
      /\ \A i \in 1..(n + 1) : i \in 1..n \/ i = n + 1
      /\ (n + 1) - 1 = n
  BY <1>1, <1>2
<1> HIDE DEF n
<1>4. TypeOK'
  <2>1. receiver' \in {"none", "recv", "send", "sendError", "closing", "done"}
    BY <1>1 DEF AfterSend
  <2> QED BY <1>1, <1>3, <2>1 DEF IInv, TypeOK, db
<1>5. SentInv' /\ CloseInv'
  <2>1. receiver' # "done"
    BY <1>1 DEF AfterSend
  <2> QED BY <1>1, <2>1 DEF IInv, SentInv, CloseInv
<1>6. ASSUME receiver = "send" PROVE FlowInv' /\ LeftInv'
  <2>1. /\ received > 0 /\ held = sent[received]
        /\ n = received - 1 /\ Copied(received - 1)
    BY <1>6 DEF IInv, FlowInv, n
  <2>2. held[1] \in {"RUNNING"} \cup Final
    BY <1>2, <2>1 DEF IInv, SentInv
  <2>3. receiver' = "recv"
    BY <1>1, <2>2, StreamAssumption DEF AfterSend
  <2>4. received = n + 1
    BY <1>2, <2>1
  <2>5. \A i \in 1..received : delivered'[i] = sent[i]
    BY <1>3, <2>1, <2>4 DEF Copied
  <2>6. FlowInv'
    <3>1. Len(delivered') > 0
      BY <1>2, <1>3
    <3> QED BY <1>1, <1>3, <2>3, <2>4, <2>5, <3>1 DEF FlowInv, Copied
  <2>7. LeftInv'
    BY <2>3 DEF LeftInv
  <2> QED BY <2>6, <2>7
<1>7. ASSUME receiver = "sendError" PROVE FlowInv' /\ LeftInv'
  <2>1. held = StreamError /\ n = received /\ Copied(received)
    BY <1>7 DEF IInv, FlowInv, n
  <2>2. receiver' = "closing"
    BY <1>1, <2>1 DEF AfterSend, StreamError
  <2>3. \A i \in 1..n : delivered'[i] = sent[i]
    BY <1>3, <2>1 DEF Copied
  <2>4. Len(delivered') > 0 /\ delivered'[Len(delivered')] = StreamError
    BY <1>2, <1>3, <2>1
  <2>5. OutputOrder'
    BY <1>1, <1>2, <1>3, <2>1, <2>3, <2>4 DEF OutputOrder, StreamError
  <2>6. FlowInv'
    BY <2>2, <2>4, <2>5 DEF FlowInv
  <2>7. LeftInv'
    BY <2>4 DEF LeftInv, StreamError
  <2> QED BY <2>6, <2>7
<1>8. ObserversMissNothing'
  <2>1. Handled = n /\ Handled' = n /\ told' = told
    BY <1>1, <1>3 DEF Handled, n
  <2>2. \A o \in Observers : \A i, j \in 1..n :
          <<o, delivered[i]>> \in told /\ i < j => <<o, delivered[j]>> \in told
    BY <2>1, MissNothing DEF IInv
  <2>3. \A o \in Observers : \A i, j \in 1..n :
          <<o, delivered'[i]>> \in told /\ i < j => <<o, delivered'[j]>> \in told
    BY <1>3, <2>2
  <2> QED BY <2>1, <2>3 DEF ObserversMissNothing, Handled
<1> QED BY <1>1, <1>4, <1>5, <1>6, <1>7, <1>8 DEF IInv

\* The receiver drops a message only when the context is done.
LEMMA ReceiverGivesUp == IInv /\ alive /\ GiveUpSend => IInv'
<1> SUFFICES ASSUME IInv, alive, GiveUpSend PROVE IInv'
  OBVIOUS
<1>1. /\ UNCHANGED <<inStartTask, caller, consumer, held, sent, received, server,
                     end, ctxDone, closes, panicked, delivered, starter,
                     registered, told, db>>
      /\ receiver = "send" /\ ctxDone /\ receiver' = "closing"
  BY DEF alive, GiveUpSend, observing
<1>2. TypeOK'
  BY <1>1 DEF IInv, TypeOK, db
<1>3. OutputOrder'
  <2>1. OutputOrder
    BY FlowOrder DEF IInv
  <2> QED BY <1>1, <2>1 DEF OutputOrder
<1>4. SentInv' /\ CloseInv' /\ FlowInv' /\ LeftInv'
  BY <1>1, <1>3 DEF IInv, SentInv, CloseInv, FlowInv, LeftInv
<1> QED BY <1>1, <1>2, <1>4, NobodyTold DEF IInv

\* Only where StartTask closes the channel as well.
LEMMA SendsOnClosed == IInv /\ alive /\ SendOnClosed => IInv'
<1> SUFFICES ASSUME IInv, alive, SendOnClosed PROVE IInv'
  OBVIOUS
<1>1. /\ UNCHANGED <<inStartTask, caller, consumer, stream, ctxDone, closes,
                     starter, registered, told, db>>
      /\ UNCHANGED <<receiver, delivered, held, sent, received, server, end>>
      /\ receiver \in {"send", "sendError"} /\ closes > 0 /\ panicked' = TRUE
  BY DEF alive, SendOnClosed, observing, stream
<1>2. inStartTask
  BY <1>1 DEF IInv, CloseInv
<1>3. TypeOK'
  BY <1>1 DEF IInv, TypeOK, db
<1>4. CloseInv'
  BY <1>1, <1>2 DEF IInv, CloseInv
<1>5. SentInv' /\ FlowInv' /\ LeftInv'
  BY <1>1, OffStream DEF IInv, TypeOK, db
<1> QED BY <1>1, <1>3, <1>4, <1>5, NobodyTold DEF IInv

\* The receiver closes the channel once, behind what it has delivered.
LEMMA ReceiverCloses == IInv /\ alive /\ ReceiverClose => IInv'
<1> SUFFICES ASSUME IInv, alive, ReceiverClose PROVE IInv'
  OBVIOUS
<1>1. /\ UNCHANGED <<inStartTask, caller, consumer, held, sent, received, server,
                     end, ctxDone, delivered, starter, registered, told, db>>
      /\ receiver = "closing" /\ receiver' = "done"
      /\ closes' = closes + 1 /\ panicked' = (closes > 0)
  BY DEF alive, ReceiverClose, CloseChannel, observing
<1>2. CloseInv'
  <2>1. closes' = (IF caller' = "done" THEN 1 ELSE 0)
                  + (IF receiver' = "done" THEN 1 ELSE 0)
    BY <1>1 DEF IInv, CloseInv
  <2>2. ~inStartTask => ~(closes > 0)
    BY <1>1 DEF IInv, CloseInv
  <2>3. ~inStartTask => ~panicked'
    BY <1>1, <2>2
  <2>4. /\ caller' \notin {"calling", "refused", "failing"}
        /\ ~inStartTask => caller' \in {"calling", "refused", "returned"}
        /\ ~inStartTask => registered' = {}
    BY <1>1 DEF IInv, CloseInv
  <2> QED BY <1>1, <2>1, <2>3, <2>4 DEF CloseInv
<1>3. closes' \in 0..2
  BY <1>1, <1>2 DEF CloseInv
<1>4. TypeOK'
  BY <1>1, <1>3 DEF IInv, TypeOK, db
<1>5. OutputOrder'
  <2>1. OutputOrder
    BY <1>1 DEF IInv, FlowInv
  <2> QED BY <1>1, <2>1 DEF OutputOrder
<1>6. SentInv' /\ FlowInv' /\ LeftInv'
  BY <1>1, <1>5 DEF IInv, SentInv, FlowInv, LeftInv
<1> QED BY <1>1, <1>2, <1>4, <1>6, NobodyTold DEF IInv

-----------------------------------------------------------------------------
\* The consumer without the observers; a plain user has none.
LEMMA ConsumerSteps ==
  ASSUME IInv, alive, Consume \/ GetTask \/ PutTask \/ UserLeaves \/ ConsumerEnd
  PROVE  IInv'
<1>1. /\ UNCHANGED <<inStartTask, caller, stream, ctxDone, closes, panicked,
                     starter, registered, told, stop>>
      /\ UNCHANGED <<receiver, delivered, held, sent, received, server, end>>
      /\ consumer' \in {"select", "storing", "left", "done"}
      /\ consumer = "handling" => ~inStartTask
  BY DEF alive, Consume, GetTask, PutTask, UserLeaves, ConsumerEnd, observing,
         stream, db
<1>2. /\ status' \in {"Running", "Stopping", "Completed", "Failed"}
      /\ copy' \in {"Running", "Stopping", "Completed", "Failed"}
      /\ faults' \in 0..MaxFaults
  <2>1. CASE Consume \/ UserLeaves \/ ConsumerEnd
    BY <2>1 DEF Consume, UserLeaves, ConsumerEnd, db, IInv, TypeOK
  <2>2. CASE GetTask
    <3>1. UNCHANGED status /\ faults' \in 0..MaxFaults
      BY <2>2, Faults DEF GetTask, IInv
    <3>2. copy' = copy \/ \E s \in DOMAIN target : copy' = after(status, s)
      BY <2>2 DEF GetTask
    <3>3. \A s \in DOMAIN target :
            after(status, s) \in {"Running", "Completed", "Failed", status}
      BY DEF after, target
    <3> QED BY <3>1, <3>2, <3>3 DEF IInv, TypeOK
  <2>3. CASE PutTask
    <3>1. faults' \in 0..MaxFaults /\ copy' = copy
          /\ status' \in {status, copy}
      BY <2>3, Faults DEF PutTask, Put, IInv
    <3> QED BY <3>1 DEF IInv, TypeOK
  <2> QED BY <2>1, <2>2, <2>3
<1>3. TypeOK'
  BY <1>1, <1>2 DEF IInv, TypeOK
<1>4. CloseInv'
  BY <1>1 DEF IInv, CloseInv
<1>5. SentInv' /\ FlowInv' /\ LeftInv'
  BY <1>1, OffStream DEF IInv, TypeOK
<1>6. ObserversMissNothing'
  <2>1. CASE consumer # "handling"
    BY <1>1, <2>1, NobodyTold
  <2>2. CASE consumer = "handling"
    <3>1. registered = {}
      BY <1>1, <2>2 DEF IInv, CloseInv
    <3>2. told' = {}
      BY <1>1, <3>1 DEF IInv, TypeOK
    <3> QED BY <3>2 DEF ObserversMissNothing
  <2> QED BY <2>1, <2>2
<1> QED BY <1>3, <1>4, <1>5, <1>6 DEF IInv

\* All who are registered hear of the output, those who heard of an earlier one
\* among them.
LEMMA OutputTold == IInv /\ alive /\ NotifyOutput => IInv'
<1> SUFFICES ASSUME IInv, alive, NotifyOutput PROVE IInv'
  OBVIOUS
<1> DEFINE n == Len(delivered)
           m == delivered[n]
<1>1. /\ UNCHANGED <<inStartTask, caller, stream, ctxDone, closes, panicked,
                     starter, registered, db>>
      /\ UNCHANGED <<receiver, delivered, held, sent, received, server, end>>
      /\ consumer = "handling" /\ consumer' = "updating"
      /\ told' = told \cup (registered \X {m})
  BY DEF alive, NotifyOutput, NotifyObservers, stream
<1>2. n \in Nat /\ n > 0 /\ m \in Message
  BY <1>1, Lengths DEF IInv, FlowInv
<1>3. TypeOK'
  <2>1. told' \subseteq registered \X Report
    BY <1>1, <1>2, OwnReports DEF IInv, TypeOK, db
  <2> QED BY <1>1, <2>1 DEF IInv, TypeOK, db
<1>4. CloseInv'
  BY <1>1 DEF IInv, CloseInv
<1>5. SentInv' /\ FlowInv' /\ LeftInv'
  BY <1>1, OffStream DEF IInv, TypeOK, db
<1>6. ObserversMissNothing'
  <2>1. Handled = n - 1 /\ Handled' = n
    BY <1>1 DEF Handled
  <2>2. told' = told \cup (registered \X {m})
    BY <1>1
  <2>3. \A o \in Observers : \A l : (<<o, l>> \in told => o \in registered)
    BY DEF IInv, TypeOK
  <2>4. ASSUME NEW o \in Observers, NEW i \in 1..n, NEW j \in 1..n, i < j,
               <<o, delivered[i]>> \in told'
        PROVE  <<o, delivered[j]>> \in told'
    <3>1. i \in 1..(n - 1)
      BY <1>2, <2>4
    <3>2. delivered[i] # m
      BY <1>2, <3>1, Distinct DEF IInv
    <3>3. <<o, delivered[i]>> \in told /\ o \in registered
      BY <2>2, <2>3, <2>4, <3>2
    <3>4. CASE j = n
      BY <2>2, <3>3, <3>4
    <3>5. CASE j # n
      <4>1. j \in 1..(n - 1)
        BY <1>2, <3>5
      <4> QED BY <2>1, <2>2, <2>4, <3>1, <3>3, <4>1, MissNothing DEF IInv
    <3> QED BY <3>4, <3>5
  <2>5. delivered' = delivered
    BY <1>1
  <2> HIDE DEF n, m
  <2> QED BY <2>1, <2>4, <2>5 DEF ObserversMissNothing, Handled
<1> QED BY <1>3, <1>4, <1>5, <1>6 DEF IInv

\* A new observer was told of nothing, so that it has missed nothing.
LEMMA Registers ==
  ASSUME IInv, alive, NEW o \in Observers, RegisterObserver(o)
  PROVE  IInv'
<1>1. /\ UNCHANGED <<inStartTask, caller, consumer, stream, ctxDone, closes,
                     panicked, starter, told, db>>
      /\ UNCHANGED <<receiver, delivered, held, sent, received, server, end>>
      /\ inStartTask /\ registered' = registered \cup {o}
  BY DEF alive, RegisterObserver, stream
<1>2. TypeOK'
  <2>1. registered \subseteq registered' /\ registered' \subseteq Observers
    BY <1>1 DEF IInv, TypeOK, db
  <2>2. told' \subseteq registered' \X Report
    BY <1>1, <2>1 DEF IInv, TypeOK, db
  <2> QED BY <1>1, <2>1, <2>2 DEF IInv, TypeOK, db
<1>3. CloseInv'
  BY <1>1 DEF IInv, CloseInv
<1>4. SentInv' /\ FlowInv' /\ LeftInv'
  BY <1>1, OffStream DEF IInv, TypeOK, db
<1> QED BY <1>1, <1>2, <1>3, <1>4, NobodyTold DEF IInv

\* What StartTask and a StopTask do to the task and tell of it.
LEMMA ServiceSteps ==
  ASSUME IInv, alive, NotifyRunning \/ StopTask \/ StopCompleted \/ StopFailed
  PROVE  IInv'
<1>1. /\ UNCHANGED <<inStartTask, caller, consumer, stream, ctxDone, closes,
                     panicked, registered, copy>>
      /\ \E m \in {Started, Failure, Stopped} :
           told' \in {told, told \cup (registered \X {m})}
  BY DEF alive, NotifyRunning, StopTask, StopCompleted, StopFailed, NotifyObservers,
         observing, db
<1>2. /\ starter' \in {"none", "notify", "returned"}
      /\ status' \in {"Running", "Stopping", "Completed", "Failed"}
      /\ stop' \in {"none", "deleting", "end"}
  BY DEF NotifyRunning, StopTask, StopCompleted, StopFailed, Put, observing, db,
         IInv, TypeOK
<1>3. faults' \in 0..MaxFaults
  BY Faults DEF NotifyRunning, StopTask, StopCompleted, StopFailed, Put, db, IInv
<1> QED BY <1>1, <1>2, <1>3, ServiceStep

\* Every step of the stream keeps the invariant.
LEMMA NextIInv == IInv /\ [Next]_vars => IInv'
<1> SUFFICES ASSUME IInv, [Next]_vars PROVE IInv'
  OBVIOUS
<1>1. CASE UNCHANGED vars
  <2>1. /\ UNCHANGED <<inStartTask, caller, consumer, stream, ctxDone, closes,
                       panicked, starter, registered, told, db>>
        /\ UNCHANGED <<receiver, delivered, held, sent, received, server, end>>
    BY <1>1 DEF vars, stream, observing
  <2>2. TypeOK' /\ CloseInv'
    BY <2>1 DEF IInv, TypeOK, CloseInv, db
  <2>3. SentInv' /\ FlowInv' /\ LeftInv'
    BY <2>1, OffStream DEF IInv, TypeOK, db
  <2> QED BY <2>1, <2>2, <2>3, NobodyTold DEF IInv
<1>2. CASE CallerStep
  BY <1>2, CallerSteps, ExecuteCommands, CallerCloses DEF CallerStep
<1>3. CASE DeadlineStep
  BY <1>3, CallerSteps DEF DeadlineStep
<1>4. CASE ServerStep
  <2>1. CASE ServerOutput /\ alive
    BY <2>1, ServerSends DEF ServerOutput, IInv, TypeOK
  <2>2. CASE alive /\ \E s \in Final : ServerFinal(s)
    BY <2>2, ServerSends DEF ServerFinal
  <2> QED BY <1>4, <2>1, <2>2, ServerEnds DEF ServerStep
<1>5. CASE ReceiverStep
  BY <1>5, Recvs, Delivers, ReceiverGivesUp, SendsOnClosed, ReceiverCloses
     DEF ReceiverStep
<1>6. CASE ConsumerStep
  BY <1>6, ConsumerSteps, OutputTold DEF ConsumerStep
<1>7. CASE UserStep
  BY <1>7, Registers, CallerSteps, ConsumerSteps, ServiceSteps DEF UserStep
<1>8. CASE StarterStep \/ StopStep
  BY <1>8, ServiceSteps DEF StarterStep, StopStep
<1> QED BY <1>1, <1>2, <1>3, <1>4, <1>5, <1>6, <1>7, <1>8 DEF Next

\* The invariant holds in every reachable state.
LEMMA Inductive == Spec => []IInv
  BY InitIInv, NextIInv, PTL DEF Spec

-----------------------------------------------------------------------------
\* Every variable stays in its type (worker_client.go:30-95).
THEOREM TypeCorrect == Spec => []TypeOK
<1>1. IInv => TypeOK
  BY DEF IInv
<1> QED BY <1>1, Inductive, PTL

\* The consumer gets the stream from its beginning and in order, and after it at
\* most the error the client adds, whoever cancels or closes what and when
\* (worker_client.go:58-91).
THEOREM OutputsInOrder == Spec => []OutputOrder
<1>1. IInv => OutputOrder
  BY FlowOrder DEF IInv
<1> QED BY <1>1, Inductive, PTL

\* The channel does not end silently in the middle of the output
\* (worker_client.go:58-91).
THEOREM WholeOrFailed == Spec => []AllOrError
<1>1. IInv => AllOrError
  BY DEF IInv, LeftInv, AllOrError
<1> QED BY <1>1, Inductive, PTL

\* The channel of a plain user is closed once and not used after
\* (worker_client.go:57, 65, 83).
THEOREM PlainUserSafe == Spec => []ClosedOnce
<1>1. IInv => ClosedOnce
  BY DEF IInv, CloseInv, ClosedOnce
<1> QED BY <1>1, Inductive, PTL

\* Whoever is told of an output is told of every later one
\* (worker_service.go:334, 471-484).
THEOREM ObserversHearAll == Spec => []ObserversMissNothing
<1>1. IInv => ObserversMissNothing
  BY DEF IInv
<1> QED BY <1>1, Inductive, PTL

=============================================================================
