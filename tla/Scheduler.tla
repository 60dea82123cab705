------------------------------ MODULE Scheduler ------------------------------
(***************************************************************************)
(* The manager's choice of a node (internal/adapters/scheduler/            *)
(* scheduler.go, internal/adapters/node/node.go:35-72, SelectWorker and    *)
(* UpdateNodeStats in internal/adapters/manager/manager.go:95-109,         *)
(* 172-183).                                                               *)
(*                                                                         *)
(* Nodes are the positions 0 .. numNodes - 1 of the manager's slice.       *)
(* Greedy and Epvm ask every candidate for its stats twice and read the    *)
(* CPU counters of both answers afterwards.  GetStats returns a pointer to *)
(* the node's own Stats, so that both answers are one struct, which        *)
(* another goroutine, UpdateNodeStats, overwrites meanwhile.               *)
(*                                                                         *)
(* A score is a fraction <<a, b>> standing for the floating-point number   *)
(* a / b; a fraction with b = 0 is an infinity.  Greedy's score is the CPU *)
(* usage, divided by a constant that changes no comparison; Epvm's is a    *)
(* level of Levels, an input: the powers of CPU load in it cancel, what    *)
(* memory and tasks add is positive.                                       *)
(***************************************************************************)
EXTENDS Integers, Sequences, SequencesExt

CONSTANTS numNodes,    \* number of worker nodes
          Levels,      \* costs Epvm may compute for a node
          Readings,    \* CPU counters a node may report: a busy and an idle one,
                       \* each a sum of several
          Word,        \* 2^w for the width of a counter (2^64 in the code)
          DiskTotal    \* disk of a node, as its stats report it

ASSUME SchedulerAssumption ==
  /\ numNodes \in Nat \ {0}
  /\ Levels \subseteq Nat \ {0}
  /\ Readings \subseteq [idle : Nat, busy : Nat]
  /\ Word \in Nat \ {0}
  /\ DiskTotal \in Nat

Nodes == 0..(numNodes - 1)

VARIABLES
  scheduler,    \* the one New has chosen
  LastWorker,   \* of the RoundRobin scheduler
  disk,         \* Disk of each node: 0 until its stats are read
  cpu,          \* the CPU counters in Stats of each node
  call,         \* SelectWorker with Greedy or Epvm, under way or ended
  picks         \* history: the last numNodes picks of RoundRobin

schedulerVars == <<scheduler, LastWorker, disk, cpu, call, picks>>

\* No SelectWorker yet.  The call's fields: its candidates and the position of
\* the one it is at, the counters it has read of that one, the map of scores,
\* the chosen node, and whether UpdateNodeStats came between two such reads.
noCall == [pc |-> "none", candidates |-> <<>>, at |-> 0, reads |-> <<>>,
           scores |-> <<>>, node |-> -1, refreshed |-> FALSE]

SchedulerInit ==
  /\ scheduler \in {"roundrobin", "greedy", "epvm"}
  /\ LastWorker = 0
  /\ disk = [n \in Nodes |-> 0]
  /\ cpu = [n \in Nodes |-> [idle |-> 0, busy |-> 0]]
  /\ call = noCall
  /\ picks = <<>>

-----------------------------------------------------------------------------
\* The comparison of two scores.
less(x, y) == x[1] * y[2] < y[1] * x[2]

\* A Go map read: the zero value for a node without a score.
Read(scores, n) == IF n \in DOMAIN scores THEN scores[n] ELSE <<0, 1>>

\* Slip: <= for <.
PickLast(scores, candidates) ==
  LET best[i \in 1..Len(candidates)] ==
        IF i = 1 \/ ~less(Read(scores, best[i - 1]), Read(scores, candidates[i]))
          THEN candidates[i] ELSE best[i - 1]
  IN best[Len(candidates)]

\* Pick, the same loop in the three schedulers: the first candidate, replaced
\* by every later one with a lower score.
Pick(scores, candidates) ==
  LET best[i \in 1..Len(candidates)] ==
        IF i = 1 \/ less(Read(scores, candidates[i]), Read(scores, best[i - 1]))
          THEN candidates[i] ELSE best[i - 1]
  IN best[Len(candidates)]

\* selectCandidateNodes: the nodes with room for d on disk, in order; nothing
\* ever adds to DiskAllocated.
selectCandidateNodes(d) ==
  LET found[i \in 0..numNodes] ==
        IF i = 0 THEN <<>>
        ELSE IF d <= disk[i - 1] THEN Append(found[i - 1], i - 1) ELSE found[i - 1]
  IN found[numNodes]

\* Slip: no reset at the end of the slice.
TurnStays == IF LastWorker + 1 < numNodes THEN LastWorker + 1 ELSE LastWorker

\* The node whose turn it is.
Turn == IF LastWorker + 1 < numNodes THEN LastWorker + 1 ELSE 0

\* SelectWorker with the RoundRobin scheduler: scores 0.1 and 1.0.
SelectRoundRobin ==
  LET n == Pick([k \in Nodes |-> IF k = Turn THEN <<1, 10>> ELSE <<1, 1>>],
                [i \in 1..numNodes |-> i - 1])
  IN /\ scheduler = "roundrobin"
     /\ LastWorker' = Turn
     /\ picks' = IF Len(picks) < numNodes THEN Append(picks, n)
                                          ELSE Append(Tail(picks), n)
     /\ UNCHANGED <<scheduler, disk, cpu, call>>

-----------------------------------------------------------------------------
\* node.GetStats of a node that answers: its fields take what it reports.
GetStats(n) ==
  /\ disk' = [disk EXCEPT ![n] = DiskTotal]
  /\ \E r \in Readings : cpu' = [cpu EXCEPT ![n] = r]

\* UpdateNodeStats, in a goroutine of its own, asks a node.
UpdateNodeStats(n) ==
  /\ GetStats(n)
  /\ call' = [call EXCEPT !.refreshed =
                @ \/ /\ call.pc = "reading" /\ call.reads # <<>>
                     /\ call.candidates[call.at] = n]
  /\ UNCHANGED <<scheduler, LastWorker, picks>>

\* SelectWorker for a task that needs d on disk; without candidates it returns
\* an error.
SelectByLoad(d) ==
  LET candidates == selectCandidateNodes(d)
  IN /\ scheduler \in {"greedy", "epvm"} /\ call.pc \in {"none", "chosen"}
     /\ candidates # <<>>
     /\ call' = [noCall EXCEPT !.pc = "first", !.candidates = candidates, !.at = 1]
     /\ UNCHANGED <<scheduler, LastWorker, disk, cpu, picks>>

\* The call with these scores and its present candidate done.
nextCandidate(scores) ==
  IF call.at < Len(call.candidates)
    THEN [call EXCEPT !.pc = "first", !.at = @ + 1, !.reads = <<>>, !.scores = scores]
    ELSE [call EXCEPT !.pc = "picking", !.reads = <<>>, !.scores = scores]

\* calculateCpuUsage asks its candidate, once and three seconds later again; a
\* candidate that does not answer is skipped, without a score.
AskCandidate ==
  /\ call.pc \in {"first", "second"}
  /\ \/ /\ GetStats(call.candidates[call.at])
        /\ call' = [call EXCEPT !.pc = IF @ = "first" THEN "second" ELSE "reading"]
     \/ /\ call' = nextCandidate(call.scores)
        /\ UNCHANGED <<disk, cpu>>
  /\ UNCHANGED <<scheduler, LastWorker, picks>>

\* The counters of stat1 and stat2 are read in this order, the idle ones and
\* then the others: stat1 and stat2 are both the address of the node's Stats.
ReadCounter ==
  LET stat == cpu[call.candidates[call.at]]
  IN /\ call.pc = "reading" /\ Len(call.reads) < 4
     /\ call' = [call EXCEPT !.reads =
                   Append(@, IF Len(@) < 2 THEN stat.idle ELSE stat.busy)]
     /\ UNCHANGED <<scheduler, LastWorker, disk, cpu, picks>>

\* The usage from the four counters; their differences are unsigned.
calculateCpuUsage(reads) ==
  LET idle == (reads[2] - reads[1]) % Word
      total == (reads[2] + reads[4] - reads[1] - reads[3]) % Word
  IN IF total = 0 /\ idle = 0 THEN <<0, 1>> ELSE <<total - idle, total>>

\* Score enters the candidate in its map.
Score ==
  /\ call.pc = "reading" /\ Len(call.reads) = 4
  /\ \E s \in IF scheduler = "greedy" THEN {calculateCpuUsage(call.reads)}
                                      ELSE Levels \X {1} :
       call' = nextCandidate(
                 [n \in DOMAIN call.scores \cup {call.candidates[call.at]} |->
                    IF n = call.candidates[call.at] THEN s ELSE call.scores[n]])
  /\ UNCHANGED <<scheduler, LastWorker, disk, cpu, picks>>

\* SelectWorker returns the node that Pick takes.
Choose ==
  /\ call.pc = "picking"
  /\ call' = [call EXCEPT !.pc = "chosen", !.node = Pick(call.scores, call.candidates)]
  /\ UNCHANGED <<scheduler, LastWorker, disk, cpu, picks>>

SchedulerNext ==
  \/ SelectRoundRobin
  \/ \E n \in Nodes : UpdateNodeStats(n)
  \/ \E d \in 0..(DiskTotal + 1) : SelectByLoad(d)
  \/ AskCandidate \/ ReadCounter \/ Score \/ Choose

SchedulerSpec == SchedulerInit /\ [][SchedulerNext]_schedulerVars

-----------------------------------------------------------------------------
\* The type of every variable.
SchedulerTypeOK ==
  /\ LastWorker \in Nodes
  /\ disk \in [Nodes -> {0, DiskTotal}]
  /\ picks \in Seq(Nodes) /\ Len(picks) <= numNodes
  /\ call.candidates \in Seq(Nodes)
  /\ call.pc \notin {"none", "chosen"} => call.at \in 1..Len(call.candidates)

\* Round robin is fair: among any numNodes picks in a row every node occurs
\* exactly once, although the first pick skips node 0 (scheduler.go:32-72).
RoundRobinFair == \A i, k \in 1..Len(picks) : picks[i] = picks[k] => i = k

\* Which load decides.  With Epvm it is the cost, if every candidate answers:
\* the first one of least cost is chosen.  One that does not answer, "skipping"
\* in the log, is read from the map as cost 0 and chosen before all that do.
\* With Greedy nothing the nodes report decides, for stat1 is stat2: the first
\* candidate is chosen, unless UpdateNodeStats overwrites the Stats of one
\* between two reads (scheduler.go:97-133, 144-190, 195-226, node.go:69-71).
ChoiceFollowsCost ==
  LET c == call.candidates
      scores == call.scores
  IN call.pc = "chosen" =>
       /\ scheduler = "greedy" /\ ~call.refreshed => call.node = c[1]
       /\ scheduler = "epvm" =>
            \E j \in 1..Len(c) :
              /\ call.node = c[j]
              /\ \A k \in 1..Len(c) :
                   IF c[j] \in DOMAIN scores
                     THEN /\ c[k] \in DOMAIN scores
                          /\ \/ less(scores[c[j]], scores[c[k]])
                             \/ ~less(scores[c[k]], scores[c[j]]) /\ j <= k
                     ELSE c[k] \in DOMAIN scores \/ j <= k
=============================================================================
