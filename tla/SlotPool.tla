------------------------------ MODULE SlotPool ------------------------------
(***************************************************************************)
(* What the dispatcher of the WorkerService promises, with the channel, the *)
(* loop and the re-queueing left out: an accepted task waits, is started    *)
(* once, when fewer than maxConcurrent others are active, and finishes.     *)
(***************************************************************************)
EXTENDS Integers, FiniteSets

CONSTANTS Tasks,          \* the tasks that may be submitted
          maxConcurrent   \* the number of slots

VARIABLES waiting,   \* accepted, not started
          active,    \* holding a slot
          finished   \* slot given back

poolVars == <<waiting, active, finished>>

Init == waiting = {} /\ active = {} /\ finished = {}

Accept(t) ==
  /\ t \notin waiting \cup active \cup finished
  /\ waiting' = waiting \cup {t}
  /\ UNCHANGED <<active, finished>>

Start(t) ==
  /\ t \in waiting
  /\ Cardinality(active) < maxConcurrent
  /\ waiting' = waiting \ {t}
  /\ active' = active \cup {t}
  /\ UNCHANGED finished

Finish(t) ==
  /\ t \in active
  /\ active' = active \ {t}
  /\ finished' = finished \cup {t}
  /\ UNCHANGED waiting

Next == \E t \in Tasks : Accept(t) \/ Start(t) \/ Finish(t)

Spec == Init /\ [][Next]_poolVars
=============================================================================
