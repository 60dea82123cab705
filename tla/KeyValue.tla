------------------------------ MODULE KeyValue ------------------------------
(***************************************************************************)
(* What a caller of ports.Store may expect of a store on disk: a write of  *)
(* a value is called, takes effect at one moment and then returns nil, or  *)
(* has no effect and returns an error.  Nothing else changes a stored      *)
(* value, and a stored value is one that a caller had finished.            *)
(***************************************************************************)
CONSTANTS Clients, Keys, Values,
          None      \* nothing is stored

VARIABLES kv,       \* the stored value of each key
          write     \* the write each client has called: [step, key, value]

vars == <<kv, write>>

NoWrite == [step |-> "none", key |-> None, value |-> None]

Init ==
  /\ kv = [k \in Keys |-> None]
  /\ write = [c \in Clients |-> NoWrite]

\* A Put of v or, with None, a Delete.
Call(c, k, v) ==
  /\ write[c] = NoWrite
  /\ write' = [write EXCEPT ![c] = [step |-> "called", key |-> k, value |-> v]]
  /\ UNCHANGED kv

Effect(c) ==
  /\ write[c].step = "called"
  /\ kv' = [kv EXCEPT ![write[c].key] = write[c].value]
  /\ write' = [write EXCEPT ![c].step = "nil"]

Fail(c) ==
  /\ write[c].step = "called"
  /\ write' = [write EXCEPT ![c].step = "error"]
  /\ UNCHANGED kv

Return(c) ==
  /\ write[c].step \in {"nil", "error"}
  /\ write' = [write EXCEPT ![c] = NoWrite]
  /\ UNCHANGED kv

\* The process ends: nobody gets an answer, and what is stored stays.
Crash ==
  /\ write' = [c \in Clients |-> NoWrite]
  /\ UNCHANGED kv

Next ==
  \/ \E c \in Clients :
       \/ \E k \in Keys, v \in Values \cup {None} : Call(c, k, v)
       \/ Effect(c) \/ Fail(c) \/ Return(c)
  \/ Crash

Spec == Init /\ [][Next]_vars
=============================================================================
