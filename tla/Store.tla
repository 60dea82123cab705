-------------------------------- MODULE Store --------------------------------
(***************************************************************************)
(* The stores behind ports.Store (internal/adapters/store): the in-memory  *)
(* one, a Go map of pointers without a lock, and the bolt ones for tasks   *)
(* and events, which encode a value in a transaction and decode it into a  *)
(* new object.  The two in-memory types differ in the Go type of the       *)
(* values only, the two bolt types in Count as well.                       *)
(*                                                                         *)
(* Clients are the goroutines of a service: each works on an object, which *)
(* it changes field by field; the content of an object is a pair of fields *)
(* and it is finished when they agree.                                     *)
(***************************************************************************)
EXTENDS Integers, Sequences, FiniteSets

CONSTANTS Clients, Keys, Values,
          Objects,       \* places of the heap
          None,          \* no object, nothing stored
          MaxFaults,     \* bound: errors of the file system
          MaxRestarts    \* bound: restarts of the process

ASSUME StoreAssumption ==
  /\ None \notin Objects \cup Values \cup (Values \X Values)
  /\ IsFiniteSet(Clients) /\ IsFiniteSet(Keys) /\ IsFiniteSet(Objects)
  /\ Cardinality(Objects) > Cardinality(Clients) + Cardinality(Keys)
  /\ MaxFaults \in Nat /\ MaxRestarts \in Nat

VARIABLES
  kind,       \* "memory", "tasks" or "events", which name the bucket too, or
              \* "unknown": "redis" and every other type
  store,      \* "closed", "open" or "nil", what the factory returned
  Db,         \* the in-memory map: object of each key
  file,       \* the bucket on disk: content of each key
  bucket,     \* the bucket exists
  heap,       \* content of each object
  ref,        \* the object each client works on
  editing,    \* the value a client is in the middle of writing
  call,       \* the call of each client: [op, key, step]
  tx,         \* the write transaction: [client, content], or <<>>
  panicked,   \* "no", or what ended the process
  faults, restarts

vars == <<kind, store, Db, file, bucket, heap, ref, editing, call, tx,
          panicked, faults, restarts>>

memory == <<Db, heap, ref, editing>>
disk == <<file, bucket>>

idle == [op |-> "no", key |-> None, step |-> "idle"]
up == store # "closed" /\ panicked = "no"
finished(v) == <<v, v>>

Kinds == {"memory", "tasks", "events", "unknown"}

Init ==
  /\ kind \in Kinds
  /\ store = "closed"
  /\ Db = [k \in Keys |-> None]
  /\ file = [k \in Keys |-> None]
  /\ bucket = FALSE
  /\ heap = [o \in Objects |-> None]
  /\ ref = [c \in Clients |-> None]
  /\ editing = [c \in Clients |-> None]
  /\ call = [c \in Clients |-> idle]
  /\ tx = <<>>
  /\ panicked = "no"
  /\ faults = 0 /\ restarts = 0

Fault == faults < MaxFaults /\ faults' = faults + 1

-----------------------------------------------------------------------------
\* NewStore, or New of the manager: a store in memory is empty.  A file that
\* cannot be opened gives a nil store, and the error is logged or overwritten;
\* so does a type that their switch has no case for, without an error.
\* CreateBucket fails because the bucket is there, or for another reason; in
\* either case the store is used.
Open ==
  /\ store = "closed"
  /\ \/ /\ kind # "unknown"
        /\ store' = "open"
        /\ bucket' = (kind # "memory")
        /\ UNCHANGED faults
     \/ /\ kind \in {"tasks", "events"} /\ Fault
        /\ store' \in {"open", "nil"}
        /\ UNCHANGED bucket
     \/ /\ kind = "unknown"
        /\ store' = "nil"
        /\ UNCHANGED <<bucket, faults>>
  /\ UNCHANGED <<kind, file, memory, call, tx, panicked, restarts>>

\* What the process holds in memory is lost, and nobody gets an answer.
Lose ==
  /\ Db' = [k \in Keys |-> None]
  /\ heap' = [o \in Objects |-> None]
  /\ ref' = [c \in Clients |-> None]
  /\ editing' = [c \in Clients |-> None]
  /\ call' = [c \in Clients |-> idle]
  /\ tx' = <<>>

\* The process panics.
Panic(reason) ==
  /\ panicked' = reason
  /\ Lose
  /\ UNCHANGED <<kind, store, disk, faults, restarts>>

\* The process ends, now or by an earlier panic; the file stays.
Crash ==
  /\ store # "closed" /\ restarts < MaxRestarts
  /\ restarts' = restarts + 1
  /\ store' = "closed"
  /\ panicked' = "no"
  /\ Lose
  /\ UNCHANGED <<kind, disk, faults>>

-----------------------------------------------------------------------------
\* An object nobody refers to; its content is forgotten.
free(o) == o \notin {ref[c] : c \in Clients} \cup {Db[k] : k \in Keys}
fresh == CHOOSE o \in Objects : free(o)
collect(h) ==
  heap' = [o \in Objects |->
    IF o \in {ref'[c] : c \in Clients} \cup {Db'[k] : k \in Keys}
      THEN h[o] ELSE None]

\* A client makes a task.
NewTask(c, v) ==
  /\ up /\ call[c] = idle /\ editing[c] = None
  /\ ref' = [ref EXCEPT ![c] = fresh]
  /\ UNCHANGED Db
  /\ collect([heap EXCEPT ![fresh] = finished(v)])
  /\ UNCHANGED <<kind, store, disk, editing, call, tx, panicked,
                 faults, restarts>>

\* A client changes one field of its object, and then the other.
Edit(c, v) ==
  /\ up /\ call[c] = idle /\ ref[c] # None /\ editing[c] \in {None, v}
  /\ IF editing[c] = None
       THEN /\ heap' = [heap EXCEPT ![ref[c]][1] = v]
            /\ editing' = [editing EXCEPT ![c] = v]
       ELSE /\ heap' = [heap EXCEPT ![ref[c]][2] = v]
            /\ editing' = [editing EXCEPT ![c] = None]
  /\ UNCHANGED <<kind, store, Db, ref, disk, call, tx, panicked, faults,
                 restarts>>

\* A client calls the store; a nil store is a nil pointer.
Call(c, op, k) ==
  /\ up /\ call[c] = idle /\ editing[c] = None
  /\ op = "put" => ref[c] # None
  /\ IF store = "nil" THEN Panic("nil")
     ELSE /\ call' = [call EXCEPT ![c] = [op |-> op, key |-> k, step |-> "called"]]
          /\ UNCHANGED <<kind, store, memory, disk, tx, panicked, faults,
                         restarts>>

\* The call of c is at this step.
at(c, step) == up /\ call[c].step = step
goto(c, step) == call' = [call EXCEPT ![c].step = step]

writes(op) == op \in {"put", "delete"}

\* A call returns.
return(c) == call' = [call EXCEPT ![c] = idle]

-----------------------------------------------------------------------------
\* The in-memory store: a call enters a map operation.  When another one is
\* inside and one of them writes, the run-time may notice and end the process.
EnterMap(c) ==
  /\ kind = "memory" /\ at(c, "called")
  /\ \/ /\ goto(c, "inside")
        /\ UNCHANGED <<kind, store, memory, disk, tx, panicked, faults,
                       restarts>>
     \/ /\ \E d \in Clients : /\ at(d, "inside")
                               /\ (writes(call[c].op) \/ writes(call[d].op))
        /\ Panic("race")

\* It leaves: Put stores the pointer, Get and List hand it out, Delete of a
\* missing key is an error.
LeaveMap(c) ==
  LET k == call[c].key
  IN /\ at(c, "inside")
     /\ CASE call[c].op = "put" -> Db' = [Db EXCEPT ![k] = ref[c]] /\ UNCHANGED ref
          [] call[c].op = "get" /\ Db[k] # None ->
               ref' = [ref EXCEPT ![c] = Db[k]] /\ UNCHANGED Db
          [] call[c].op = "delete" -> Db' = [Db EXCEPT ![k] = None] /\ UNCHANGED ref
          [] OTHER -> UNCHANGED <<Db, ref>>
     /\ return(c)
     /\ collect(heap)
     /\ UNCHANGED <<kind, store, editing, disk, tx, panicked, faults, restarts>>

-----------------------------------------------------------------------------
\* The bolt stores.  Update runs one transaction at a time: the bucket is
\* looked up, and the value encoded; without a bucket it is a nil pointer.
BeginUpdate(c) ==
  /\ kind # "memory" /\ at(c, "called") /\ writes(call[c].op) /\ tx = <<>>
  /\ \/ ~bucket /\ Panic("bucket")
     \/ /\ bucket
        /\ tx' = <<c, IF call[c].op = "put" THEN heap[ref[c]] ELSE None>>
        /\ goto(c, "update")
        /\ UNCHANGED <<kind, store, memory, disk, panicked, faults,
                       restarts>>

\* Slip: the error of Update is dropped.
CommitUnchecked(c) ==
  /\ at(c, "update")
  /\ goto(c, "nil")
  /\ \/ /\ file' = [file EXCEPT ![call[c].key] = tx[2]]
        /\ UNCHANGED faults
     \/ Fault /\ UNCHANGED file
  /\ tx' = <<>>
  /\ UNCHANGED <<kind, store, memory, bucket, panicked, restarts>>

\* The transaction commits, or is rolled back; deleting a missing key is no
\* error.
Commit(c) ==
  /\ at(c, "update")
  /\ \/ /\ file' = [file EXCEPT ![call[c].key] = tx[2]]
        /\ goto(c, "nil")
        /\ UNCHANGED faults
     \/ /\ Fault
        /\ goto(c, "error")
        /\ UNCHANGED file
  /\ tx' = <<>>
  /\ UNCHANGED <<kind, store, memory, bucket, panicked, restarts>>

\* Put or Delete returns what Update returned.
ReturnUpdate(c) ==
  /\ at(c, "nil") \/ at(c, "error")
  /\ return(c)
  /\ UNCHANGED <<kind, store, memory, disk, tx, panicked, faults, restarts>>

\* A client gets an object of its own with content v.
decode(c, v) ==
  /\ UNCHANGED Db
  /\ ref' = [ref EXCEPT ![c] = fresh]
  /\ collect([heap EXCEPT ![fresh] = v])

\* Get and List: a View transaction sees what is committed, and decodes a value
\* that is there.
View(c) ==
  LET v == file[call[c].key]
  IN /\ kind # "memory" /\ at(c, "called") /\ call[c].op = "get"
     /\ \/ ~bucket /\ Panic("bucket")
        \/ /\ bucket
           /\ IF v = None THEN UNCHANGED <<Db, heap, ref>> ELSE decode(c, v)
           /\ return(c)
           /\ UNCHANGED <<kind, store, editing, disk, tx, panicked, faults,
                          restarts>>

\* Slip: EventStore.Count looks for the tasks, like TaskStore.Count.
CountTasks(c) ==
  /\ kind # "memory" /\ at(c, "called") /\ call[c].op = "count"
  /\ IF bucket /\ kind = "tasks"
       THEN /\ return(c)
            /\ UNCHANGED <<kind, store, memory, disk, tx, panicked, faults, restarts>>
       ELSE Panic("bucket")

\* Count: TaskStore looks for the bucket "tasks", which is the one it is always
\* made with, EventStore for its own.
Count(c) ==
  /\ kind # "memory" /\ at(c, "called") /\ call[c].op = "count"
  /\ \/ ~bucket /\ Panic("bucket")
     \/ /\ bucket
        /\ return(c)
        /\ UNCHANGED <<kind, store, memory, disk, tx, panicked, faults, restarts>>

Next ==
  \/ Open \/ Crash
  \/ \E c \in Clients :
       \/ \E v \in Values : NewTask(c, v) \/ Edit(c, v)
       \/ \E op \in {"put", "get", "delete", "count"}, k \in Keys : Call(c, op, k)
       \/ EnterMap(c) \/ LeaveMap(c)
       \/ BeginUpdate(c) \/ Commit(c) \/ ReturnUpdate(c)
       \/ View(c) \/ Count(c)

Spec == Init /\ [][Next]_vars

-----------------------------------------------------------------------------
Content == Values \X Values
Calls == [op : {"no", "put", "get", "delete", "count"}, key : Keys \cup {None},
          step : {"idle", "called", "inside", "update", "nil", "error"}]

\* The type of every variable.
TypeOK ==
  /\ kind \in Kinds
  /\ store \in {"closed", "open", "nil"}
  /\ Db \in [Keys -> Objects \cup {None}]
  /\ file \in [Keys -> Content \cup {None}]
  /\ bucket \in BOOLEAN
  /\ heap \in [Objects -> Content \cup {None}]
  /\ ref \in [Clients -> Objects \cup {None}]
  /\ \A c \in Clients : ref[c] # None => heap[ref[c]] # None
  /\ editing \in [Clients -> Values \cup {None}]
  /\ call \in [Clients -> Calls]
  /\ tx = <<>> \/ tx \in Clients \X (Content \cup {None})
  /\ panicked \in {"no", "nil", "race", "bucket"}
  /\ faults \in 0..MaxFaults /\ restarts \in 0..MaxRestarts

\* The write c has called, as its caller sees it; there is none to see when
\* nothing is on disk.
writeOf(c) ==
  IF kind = "memory" \/ ~writes(call[c].op)
    THEN [step |-> "none", key |-> None, value |-> None]
    ELSE [step |-> IF call[c].step = "update" THEN "called" ELSE call[c].step,
          key |-> call[c].key,
          value |-> IF call[c].op = "put" THEN heap[ref[c]] ELSE None]
write == [c \in Clients |-> writeOf(c)]

\* A bolt store is what KeyValue promises, over crashes and restarts and with
\* clients that change their objects all the time: a write that returned nil is
\* stored as it was called, one that failed is not, and no other step touches
\* what is stored (store.go:118-137, 172-241, 250-370).
KV == INSTANCE KeyValue WITH
  Values <- {finished(v) : v \in Values},
  kv <- file
KVSpec == KV!Spec

\* The store ends the process by a nil pointer only if the file system failed
\* when it was opened, or the type is one the factory does not know: the bucket
\* is found again after every restart, and the one Count looks for is the one
\* of the store (factory.go:16-30, store.go:130-133, 143-159, 262-265, 283-298).
PanicJustified ==
  panicked \in {"nil", "bucket"} =>
    faults > 0 \/ (kind = "unknown" /\ panicked = "nil")
=============================================================================
