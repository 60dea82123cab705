----------------------------- MODULE StoreProofs -----------------------------
(***************************************************************************)
(* Safety of the stores, and the bolt stores as implementations of         *)
(* KeyValue, for every set of clients, keys, values and objects.           *)
(***************************************************************************)
EXTENDS Store, FiniteSetTheorems, TLAPS

Finished == {finished(v) : v \in Values}
Cell == Content \cup {None}
\* A call is under way in an open store only, its client leaves its object
\* alone meanwhile, and the transaction is that of the call it belongs to.
Called(c) ==
  /\ \/ call[c] = idle
     \/ /\ up /\ store = "open" /\ editing[c] = None
        /\ call[c].op # "no" /\ call[c].key \in Keys /\ call[c].step # "idle"
  /\ call[c].op = "put" => ref[c] # None
  /\ call[c].step = "inside" => kind = "memory"
  /\ call[c].step \in {"update", "nil", "error"} =>
       kind # "memory" /\ writes(call[c].op)
  /\ call[c].step = "update" =>
       tx = <<c, IF call[c].op = "put" THEN heap[ref[c]] ELSE None>>
CallInv == \A c \in Clients : Called(c)

\* What the map refers to is there.
MapInv == \A k \in Keys : Db[k] # None => heap[Db[k]] # None

\* The object of c is finished, unless c is changing it.
Written(c) ==
  ref[c] # None => IF editing[c] = None THEN heap[ref[c]] \in Finished
                                        ELSE heap[ref[c]][1] = editing[c]

\* With a bolt store every client has an object of its own, and what is stored
\* is finished.
ObjectInv ==
  kind # "memory" =>
    /\ \A k \in Keys : Db[k] = None /\ file[k] \in Finished \cup {None}
    /\ \A c, d \in Clients : ref[c] = ref[d] => c = d \/ ref[c] = None
    /\ \A c \in Clients : Written(c)

\* Only an error of the file system, or an unknown type, leaves the service
\* without a store, and only the error the store without its bucket.
BucketInv ==
  /\ store = "nil" => faults > 0 \/ kind = "unknown"
  /\ store = "open" => kind # "unknown"
  /\ kind # "memory" /\ store = "open" /\ ~bucket => faults > 0
  /\ PanicJustified

IInv == TypeOK /\ CallInv /\ MapInv /\ ObjectInv /\ BucketInv

\* There is an object that nobody refers to.
LEMMA Fresh ==
  ASSUME TypeOK
  PROVE  /\ fresh \in Objects
         /\ \A c \in Clients : ref[c] # fresh
         /\ \A k \in Keys : Db[k] # fresh
<1> DEFINE R == {ref[c] : c \in Clients}
           D == {Db[k] : k \in Keys}
<1>1. IsFiniteSet(R) /\ Cardinality(R) <= Cardinality(Clients)
  <2>1. ref \in Surjection(Clients, R)
    BY DEF TypeOK, Surjection
  <2> QED BY <2>1, FS_Surjection, StoreAssumption
<1>2. IsFiniteSet(D) /\ Cardinality(D) <= Cardinality(Keys)
  <2>1. Db \in Surjection(Keys, D)
    BY DEF TypeOK, Surjection
  <2> QED BY <2>1, FS_Surjection, StoreAssumption
<1>3. /\ IsFiniteSet(R \cup D)
      /\ Cardinality(R \cup D) <= Cardinality(Clients) + Cardinality(Keys)
  <2>1. /\ IsFiniteSet(R \cup D)
        /\ Cardinality(R \cup D) =
             Cardinality(R) + Cardinality(D) - Cardinality(R \cap D)
    BY <1>1, <1>2, FS_Union
  <2>2. IsFiniteSet(R \cap D)
    BY <1>1, FS_Intersection
  <2>3. /\ Cardinality(R) \in Nat /\ Cardinality(D) \in Nat
        /\ Cardinality(R \cap D) \in Nat
        /\ Cardinality(Clients) \in Nat /\ Cardinality(Keys) \in Nat
    BY <1>1, <1>2, <2>2, FS_CardinalityType, StoreAssumption
  <2> QED BY <1>1, <1>2, <2>1, <2>3
<1>4. \E o \in Objects : o \notin R \cup D
  <2> SUFFICES ASSUME Objects \subseteq R \cup D PROVE FALSE
    OBVIOUS
  <2>1. Cardinality(Objects) <= Cardinality(R \cup D)
    BY <1>3, FS_Subset
  <2>2. /\ Cardinality(Objects) \in Nat /\ Cardinality(R \cup D) \in Nat
        /\ Cardinality(Clients) \in Nat /\ Cardinality(Keys) \in Nat
    BY <1>3, FS_CardinalityType, StoreAssumption
  <2> QED BY <1>3, <2>1, <2>2, StoreAssumption
<1>5. fresh \in Objects /\ free(fresh)
  BY <1>4 DEF fresh, free
<1> QED BY <1>5 DEF free

\* The collection keeps what is referred to.
LEMMA Collected ==
  ASSUME NEW h, h \in [Objects -> Cell], collect(h)
  PROVE  /\ heap' \in [Objects -> Cell]
         /\ \A c \in Clients : ref'[c] \in Objects => heap'[ref'[c]] = h[ref'[c]]
         /\ \A k \in Keys : Db'[k] \in Objects => heap'[Db'[k]] = h[Db'[k]]
  BY DEF collect, Cell

\* A process that ends leaves nobody with a call.
LEMMA Lost ==
  ASSUME Lose, kind' = kind, file' = file, TypeOK, ObjectInv
  PROVE  /\ CallInv' /\ MapInv' /\ ObjectInv'
         /\ \A c \in Clients : call'[c] = idle
         /\ Db' \in [Keys -> Objects \cup {None}] /\ heap' \in [Objects -> Cell]
         /\ ref' \in [Clients -> Objects \cup {None}]
         /\ \A c \in Clients : ref'[c] = None
         /\ editing' \in [Clients -> Values \cup {None}]
         /\ call' \in [Clients -> Calls] /\ tx' = <<>>
<1>1. /\ \A c \in Clients : call'[c] = idle
      /\ Db' \in [Keys -> Objects \cup {None}] /\ heap' \in [Objects -> Cell]
      /\ ref' \in [Clients -> Objects \cup {None}]
      /\ \A c \in Clients : ref'[c] = None
      /\ \A k \in Keys : Db'[k] = None
      /\ editing' \in [Clients -> Values \cup {None}]
      /\ call' \in [Clients -> Calls] /\ tx' = <<>>
  BY DEF Lose, Cell, idle, Calls
<1>2. CallInv'
  BY <1>1 DEF CallInv, Called, idle
<1>3. MapInv'
  BY <1>1 DEF MapInv
<1>4. ObjectInv'
  BY <1>1 DEF ObjectInv, Written
<1> QED BY <1>1, <1>2, <1>3, <1>4

\* A panic forgets what is in memory, for a reason that BucketInv allows.
LEMMA Panics ==
  ASSUME IInv, NEW r \in {"nil", "race", "bucket"}, Panic(r),
         r = "nil" => faults > 0 \/ kind = "unknown",
         r = "bucket" => faults > 0
  PROVE  IInv'
<1> USE DEF IInv
<1>1. Lose /\ kind' = kind /\ file' = file
  BY DEF Panic, disk
<1>2. CallInv' /\ MapInv' /\ ObjectInv'
  BY <1>1, Lost
<1>3. TypeOK'
  <2>1. /\ Db' \in [Keys -> Objects \cup {None}] /\ heap' \in [Objects -> Cell]
        /\ ref' \in [Clients -> Objects \cup {None}]
        /\ \A c \in Clients : ref'[c] = None
        /\ editing' \in [Clients -> Values \cup {None}]
        /\ call' \in [Clients -> Calls] /\ tx' = <<>>
    BY <1>1, Lost
  <2>2. /\ UNCHANGED <<kind, store, file, bucket, faults, restarts>>
        /\ panicked' = r
    BY DEF Panic, disk
  <2> QED BY <2>1, <2>2 DEF TypeOK, Cell
<1>4. BucketInv'
  BY DEF Panic, disk, BucketInv, PanicJustified
<1> QED BY <1>2, <1>3, <1>4

\* A client that a step does not touch.
LEMMA CallFrame ==
  ASSUME NEW d \in Clients, Called(d), UNCHANGED <<kind, store, panicked>>,
         call'[d] = call[d], editing'[d] = editing[d], ref'[d] = ref[d],
         kind # "memory" /\ call[d].op = "put" =>
           heap'[ref[d]] = heap[ref[d]],
         call[d].step = "update" => tx' = tx
  PROVE  Called(d)'
  BY DEF Called, up, writes

\* An object that is not touched stays as finished as it was.
LEMMA WrittenFrame ==
  ASSUME NEW d \in Clients, Written(d), editing'[d] = editing[d],
         ref'[d] = ref[d], heap'[ref[d]] = heap[ref[d]]
  PROVE  Written(d)'
  BY DEF Written

\* A step that leaves the objects alone.
LEMMA MemoryFrame ==
  ASSUME UNCHANGED <<kind, memory>>
  PROVE  /\ MapInv => MapInv'
         /\ ObjectInv /\ (\A k \in Keys : kind # "memory" =>
                            file'[k] \in Finished \cup {None}) => ObjectInv'
  BY DEF memory, MapInv, ObjectInv, Written

\* The store is closed and nobody has an object at the beginning.
LEMMA InitIInv == Init => IInv
<1> SUFFICES ASSUME Init PROVE IInv
  OBVIOUS
<1>1. TypeOK
  <2>1. idle \in Calls
    BY DEF idle, Calls
  <2>2. /\ Db \in [Keys -> Objects \cup {None}]
        /\ file \in [Keys -> Content \cup {None}]
        /\ heap \in [Objects -> Content \cup {None}]
    BY DEF Init
  <2>3. /\ ref \in [Clients -> Objects \cup {None}]
        /\ \A c \in Clients : ref[c] = None
        /\ editing \in [Clients -> Values \cup {None}]
        /\ call \in [Clients -> Calls]
    BY <2>1 DEF Init
  <2>4. faults \in 0..MaxFaults /\ restarts \in 0..MaxRestarts
    <3>1. 0 \in 0..MaxFaults /\ 0 \in 0..MaxRestarts
      BY StoreAssumption
    <3> QED BY <3>1 DEF Init
  <2>5. /\ tx = <<>>
        /\ panicked \in {"no", "nil", "race", "bucket"}
        /\ kind \in Kinds
        /\ store \in {"closed", "open", "nil"} /\ bucket \in BOOLEAN
    BY DEF Init
  <2> QED BY <2>2, <2>3, <2>4, <2>5 DEF TypeOK
<1>2. CallInv /\ MapInv /\ ObjectInv /\ BucketInv
  BY DEF Init, CallInv, Called, MapInv, ObjectInv, Written, BucketInv,
     PanicJustified, idle
<1> QED BY <1>1, <1>2 DEF IInv

\* A factory that gives no store, or one without its bucket, met an error.
LEMMA Opens == IInv /\ Open => IInv'
<1> SUFFICES ASSUME IInv, Open PROVE IInv'
  OBVIOUS
<1> USE DEF IInv
<1>1. /\ UNCHANGED <<kind, file, memory, call, tx, panicked, restarts>>
      /\ UNCHANGED <<Db, heap, ref, editing>>
      /\ store = "closed" /\ store' \in {"open", "nil"}
      /\ bucket' \in BOOLEAN
      /\ \/ faults' = faults
         \/ faults' = faults + 1 /\ faults < MaxFaults
  BY DEF Open, Fault, memory, TypeOK
<1>2. TypeOK'
  BY <1>1, StoreAssumption DEF TypeOK
<1>3. CallInv'
  BY <1>1 DEF CallInv, Called, up, idle
<1>4. MapInv' /\ ObjectInv'
  BY <1>1, MemoryFrame DEF ObjectInv
<1>5. BucketInv'
  <2>1. faults \in Nat
    BY DEF TypeOK
  <2> QED BY <1>1, <2>1 DEF Open, Fault, BucketInv, PanicJustified
<1> QED BY <1>2, <1>3, <1>4, <1>5

\* After a crash there are no objects and no calls, and the file is as it was.
LEMMA Crashes == IInv /\ Crash => IInv'
<1> SUFFICES ASSUME IInv, Crash PROVE IInv'
  OBVIOUS
<1> USE DEF IInv
<1>1. Lose /\ kind' = kind /\ file' = file
  BY DEF Crash, disk
<1>2. CallInv' /\ MapInv' /\ ObjectInv'
  BY <1>1, Lost
<1>3. TypeOK'
  <2>1. /\ Db' \in [Keys -> Objects \cup {None}] /\ heap' \in [Objects -> Cell]
        /\ ref' \in [Clients -> Objects \cup {None}]
        /\ \A c \in Clients : ref'[c] = None
        /\ editing' \in [Clients -> Values \cup {None}]
        /\ call' \in [Clients -> Calls] /\ tx' = <<>>
    BY <1>1, Lost
  <2>2. /\ UNCHANGED <<kind, file, bucket, faults>>
        /\ panicked' = "no" /\ store' = "closed"
        /\ restarts' = restarts + 1 /\ restarts < MaxRestarts
    BY DEF Crash, disk
  <2> QED BY <2>1, <2>2, StoreAssumption DEF TypeOK, Cell
<1>4. BucketInv'
  BY DEF Crash, disk, BucketInv, PanicJustified
<1> QED BY <1>2, <1>3, <1>4

\* One field of a value is changed.
LEMMA OneField ==
  ASSUME NEW p \in Content, NEW v \in Values
  PROVE  /\ [p EXCEPT ![1] = v] = <<v, p[2]>>
         /\ [p EXCEPT ![2] = v] = <<p[1], v>>
         /\ <<v, p[2]>> \in Content /\ <<p[1], v>> \in Content
  BY DEF Content

\* A client changes its own object, outside of its calls.
LEMMA Edits ==
  ASSUME IInv, NEW c \in Clients, NEW v \in Values, Edit(c, v)
  PROVE  IInv'
<1> USE DEF IInv
<1> DEFINE o == ref[c]
<1>1. /\ up /\ call[c] = idle /\ o # None /\ editing[c] \in {None, v}
      /\ UNCHANGED <<kind, store, Db, ref, file, bucket, call, tx, panicked,
                     faults, restarts>>
  BY DEF Edit, disk
<1>2. /\ ref \in [Clients -> Objects \cup {None}]
      /\ heap \in [Objects -> Content \cup {None}]
      /\ editing \in [Clients -> Values \cup {None}]
      /\ \A d \in Clients : ref[d] # None => heap[ref[d]] # None
      /\ Db \in [Keys -> Objects \cup {None}]
  BY DEF TypeOK
<1>3. o \in Objects /\ heap[o] \in Content /\ None \notin Content
  BY <1>1, <1>2, StoreAssumption DEF Content
<1>4. PICK w \in Content :
        /\ heap' = [heap EXCEPT ![o] = w]
        /\ \/ /\ editing[c] = None
              /\ editing' = [editing EXCEPT ![c] = v] /\ w[1] = v
           \/ /\ editing[c] = v
              /\ editing' = [editing EXCEPT ![c] = None]
              /\ w = <<heap[o][1], v>>
  <2>1. CASE editing[c] = None
    <3>1. heap' = [heap EXCEPT ![o] = [heap[o] EXCEPT ![1] = v]]
      BY <2>1 DEF Edit
    <3>2. editing' = [editing EXCEPT ![c] = v]
      BY <2>1 DEF Edit
    <3>3. <<v, heap[o][2]>>[1] = v
      OBVIOUS
    <3> HIDE DEF o
    <3> QED BY <1>3, <2>1, <3>1, <3>2, <3>3, OneField
  <2>2. CASE editing[c] # None
    <3>1. heap' = [heap EXCEPT ![o] = [heap[o] EXCEPT ![2] = v]]
      BY <2>2 DEF Edit
    <3>2. editing' = [editing EXCEPT ![c] = None]
      BY <2>2 DEF Edit
    <3> HIDE DEF o
    <3> QED BY <1>1, <1>3, <2>2, <3>1, <3>2, OneField
  <2> QED BY <2>1, <2>2
<1>5. /\ heap' \in [Objects -> Content \cup {None}]
      /\ heap'[o] = w
      /\ \A p \in Objects \ {o} : heap'[p] = heap[p]
      /\ editing' \in [Clients -> Values \cup {None}]
      /\ \A d \in Clients \ {c} : editing'[d] = editing[d]
  BY <1>2, <1>3, <1>4
<1>6. TypeOK'
  <2>1. \A d \in Clients : ref[d] # None => heap'[ref[d]] # None
    BY <1>2, <1>3, <1>5
  <2> QED BY <1>1, <1>5, <2>1 DEF TypeOK
<1>7. CallInv'
  <2> SUFFICES ASSUME NEW d \in Clients PROVE Called(d)'
    BY DEF CallInv
  <2>1. CASE d = c
    BY <1>1, <2>1 DEF Called, idle
  <2>2. CASE d # c
    <3>1. kind # "memory" /\ ref[d] # None => ref[d] # o
      BY <1>1, <2>2 DEF ObjectInv
    <3>2. kind # "memory" /\ call[d].op = "put" => heap'[ref[d]] = heap[ref[d]]
      BY <1>2, <1>5, <3>1 DEF CallInv, Called
    <3> QED BY <1>1, <1>5, <2>2, <3>2, CallFrame DEF CallInv
  <2> QED BY <2>1, <2>2
<1>8. MapInv'
  BY <1>1, <1>2, <1>3, <1>5 DEF MapInv
<1>9. ObjectInv'
  <2> SUFFICES ASSUME kind # "memory" PROVE ObjectInv'
    BY <1>1 DEF ObjectInv
  <2>1. ASSUME NEW d \in Clients PROVE Written(d)'
    <3>1. CASE d = c
      <4>1. CASE editing[c] = None
        BY <1>1, <1>2, <1>4, <1>5, <3>1, <4>1, StoreAssumption DEF Written
      <4>2. CASE editing[c] # None
        <5>1. heap[o][1] = v
          BY <1>1, <4>2 DEF ObjectInv, Written
        <5>2. w \in Finished /\ editing'[c] = None
          BY <1>2, <1>4, <4>2, <5>1 DEF Finished, finished
        <5> QED BY <1>1, <1>5, <3>1, <5>2 DEF Written
      <4> QED BY <4>1, <4>2
    <3>2. CASE d # c
      <4>1. ref[d] # None => heap'[ref[d]] = heap[ref[d]]
        BY <1>1, <1>2, <1>5, <3>2 DEF ObjectInv
      <4> QED BY <1>1, <1>5, <3>2, <4>1 DEF ObjectInv, Written
    <3> QED BY <3>1, <3>2
  <2> QED BY <1>1, <2>1 DEF ObjectInv
<1>10. BucketInv'
  BY <1>1 DEF BucketInv, PanicJustified
<1> QED BY <1>6, <1>7, <1>8, <1>9, <1>10

\* The call of a client returns, and nothing else happens.
LEMMA Returned ==
  ASSUME IInv, NEW c \in Clients, return(c),
         UNCHANGED <<kind, store, memory, disk, tx, panicked, faults, restarts>>
  PROVE  IInv'
<1> USE DEF IInv
<1>1. /\ call' \in [Clients -> Calls] /\ call'[c] = idle
      /\ \A d \in Clients \ {c} : call'[d] = call[d]
  <2>1. idle \in Calls /\ call \in [Clients -> Calls]
    BY DEF idle, Calls, TypeOK
  <2> QED BY <2>1 DEF return
<1>2. UNCHANGED <<Db, heap, ref, editing, file, bucket>>
  BY DEF memory, disk
<1>3. TypeOK'
  BY <1>1, <1>2 DEF TypeOK
<1>4. CallInv'
  <2> SUFFICES ASSUME NEW d \in Clients PROVE Called(d)'
    BY DEF CallInv
  <2>1. CASE d = c
    BY <1>1, <2>1 DEF Called, idle
  <2>2. CASE d # c
    BY <1>1, <1>2, <2>2, CallFrame DEF CallInv
  <2> QED BY <2>1, <2>2
<1>5. MapInv' /\ ObjectInv'
  BY <1>2, MemoryFrame DEF ObjectInv
<1>6. BucketInv'
  BY <1>2 DEF BucketInv, PanicJustified
<1> QED BY <1>3, <1>4, <1>5, <1>6

\* A client gets a new object; the others keep theirs.
LEMMA NewObject ==
  ASSUME TypeOK, MapInv, NEW c \in Clients, NEW v \in Content,
         ref' = [ref EXCEPT ![c] = fresh], UNCHANGED Db,
         collect([heap EXCEPT ![fresh] = v])
  PROVE  /\ heap' \in [Objects -> Content \cup {None}]
         /\ ref' \in [Clients -> Objects \cup {None}]
         /\ ref'[c] = fresh /\ fresh \in Objects /\ heap'[fresh] = v
         /\ \A d \in Clients : ref[d] # fresh
         /\ \A d \in Clients \ {c} :
              ref'[d] = ref[d] /\ (ref[d] # None => heap'[ref[d]] = heap[ref[d]])
         /\ \A d \in Clients : ref'[d] # None => heap'[ref'[d]] # None
         /\ MapInv'
<1>1. /\ ref \in [Clients -> Objects \cup {None}]
      /\ heap \in [Objects -> Cell]
      /\ \A d \in Clients : ref[d] # None => heap[ref[d]] # None
      /\ Db \in [Keys -> Objects \cup {None}]
  BY DEF TypeOK, Cell
<1>2. /\ fresh \in Objects
      /\ \A d \in Clients : ref[d] # fresh
      /\ \A k \in Keys : Db[k] # fresh
  BY Fresh
<1> DEFINE h == [heap EXCEPT ![fresh] = v]
<1>3. /\ h \in [Objects -> Cell] /\ h[fresh] = v
      /\ \A p \in Objects \ {fresh} : h[p] = heap[p]
  BY <1>1, <1>2 DEF Cell
<1>4. /\ ref' \in [Clients -> Objects \cup {None}]
      /\ ref'[c] = fresh
      /\ \A d \in Clients \ {c} : ref'[d] = ref[d]
  BY <1>1, <1>2
<1> HIDE DEF h
<1>5. /\ heap' \in [Objects -> Cell]
      /\ \A d \in Clients : ref'[d] \in Objects => heap'[ref'[d]] = h[ref'[d]]
      /\ \A k \in Keys : Db[k] \in Objects => heap'[Db[k]] = h[Db[k]]
  BY <1>3, Collected DEF h
<1>6. None \notin Content
  BY StoreAssumption DEF Content
<1>7. heap'[fresh] = v
  BY <1>2, <1>3, <1>4, <1>5
<1>8. \A d \in Clients \ {c} :
        ref'[d] = ref[d] /\ (ref[d] # None => heap'[ref[d]] = heap[ref[d]])
  BY <1>1, <1>2, <1>3, <1>4, <1>5
<1>9. \A d \in Clients : ref'[d] # None => heap'[ref'[d]] # None
  BY <1>1, <1>4, <1>6, <1>7, <1>8
<1>10. MapInv'
  BY <1>1, <1>2, <1>3, <1>5 DEF MapInv
<1> QED BY <1>2, <1>4, <1>5, <1>7, <1>8, <1>9, <1>10 DEF Cell

\* The other clients do not notice, and with a bolt store every client still
\* has an object of its own.
LEMMA NewObjectFrame ==
  ASSUME IInv, NEW c \in Clients, NEW v \in Content,
         ref' = [ref EXCEPT ![c] = fresh],
         collect([heap EXCEPT ![fresh] = v]),
         UNCHANGED <<kind, store, Db, file, bucket, editing, tx, panicked,
                     faults, restarts>>,
         kind # "memory" => v \in Finished,
         editing[c] = None, call' = [call EXCEPT ![c] = idle]
  PROVE  IInv'
<1> USE DEF IInv
<1>1. /\ heap' \in [Objects -> Content \cup {None}]
      /\ ref' \in [Clients -> Objects \cup {None}]
      /\ ref'[c] = fresh /\ fresh \in Objects /\ heap'[fresh] = v
      /\ \A d \in Clients : ref[d] # fresh
      /\ \A d \in Clients \ {c} :
           ref'[d] = ref[d] /\ (ref[d] # None => heap'[ref[d]] = heap[ref[d]])
      /\ \A d \in Clients : ref'[d] # None => heap'[ref'[d]] # None
      /\ MapInv'
  BY NewObject
<1>2. /\ call' \in [Clients -> Calls] /\ call'[c] = idle
      /\ \A d \in Clients \ {c} : call'[d] = call[d]
  <2>1. idle \in Calls /\ call \in [Clients -> Calls]
    BY DEF idle, Calls, TypeOK
  <2> QED BY <2>1
<1>3. TypeOK'
  BY <1>1, <1>2 DEF TypeOK
<1>4. CallInv'
  <2> SUFFICES ASSUME NEW d \in Clients PROVE Called(d)'
    BY DEF CallInv
  <2>1. CASE d = c
    BY <1>2, <2>1 DEF Called, idle
  <2>2. CASE d # c
    <3>1. kind # "memory" /\ call[d].op = "put" => heap'[ref[d]] = heap[ref[d]]
      BY <1>1, <2>2 DEF CallInv, Called
    <3> QED BY <1>1, <1>2, <2>2, <3>1, CallFrame DEF CallInv
  <2> QED BY <2>1, <2>2
<1>5. ObjectInv'
  <2> SUFFICES ASSUME kind # "memory" PROVE ObjectInv'
    BY DEF ObjectInv
  <2>1. ASSUME NEW d \in Clients PROVE Written(d)'
    <3>1. CASE d = c
      BY <1>1, <3>1 DEF Written
    <3>2. CASE d # c
      BY <1>1, <3>2 DEF ObjectInv, Written
    <3> QED BY <3>1, <3>2
  <2>2. \A d, e \in Clients : ref'[d] = ref'[e] => d = e \/ ref'[d] = None
    BY <1>1 DEF ObjectInv
  <2>3. \A k \in Keys : Db'[k] = None /\ file'[k] \in Finished \cup {None}
    BY DEF ObjectInv
  <2> QED BY <2>1, <2>2, <2>3 DEF ObjectInv
<1>6. BucketInv'
  BY DEF BucketInv, PanicJustified
<1> QED BY <1>1, <1>3, <1>4, <1>5, <1>6

\* A new object is finished and belongs to its client alone.
LEMMA NewTasks ==
  ASSUME IInv, NEW c \in Clients, NEW v \in Values, NewTask(c, v)
  PROVE  IInv'
<1>1. finished(v) \in Content /\ finished(v) \in Finished
  BY DEF finished, Finished, Content
<1>2. call[c] = idle /\ editing[c] = None
  BY DEF NewTask
<1>3. call' = [call EXCEPT ![c] = idle]
  BY <1>2 DEF NewTask, IInv, TypeOK
<1> QED BY <1>1, <1>2, <1>3, NewObjectFrame DEF NewTask, disk

\* A bolt store hands out new objects, decoded from what is stored.
LEMMA Views ==
  ASSUME IInv, NEW c \in Clients, View(c)
  PROVE  IInv'
<1> DEFINE v == file[call[c].key]
<1>1. Called(c) /\ call[c] # idle
  BY DEF View, IInv, CallInv, at, idle
<1>2. up /\ store = "open" /\ editing[c] = None /\ call[c].key \in Keys
  BY <1>1 DEF Called
<1>3. kind # "memory"
  BY DEF View
<1>4. CASE ~bucket /\ Panic("bucket")
  BY <1>2, <1>3, <1>4, Panics DEF IInv, BucketInv, PanicJustified
<1>5. CASE /\ bucket /\ v = None /\ UNCHANGED <<Db, heap, ref>> /\ return(c)
           /\ UNCHANGED <<kind, store, editing, disk, tx, panicked, faults,
                          restarts>>
  BY <1>5, Returned DEF disk, memory
<1>6. CASE /\ bucket /\ v # None /\ decode(c, v) /\ return(c)
           /\ UNCHANGED <<kind, store, editing, disk, tx, panicked, faults,
                          restarts>>
  <2>1. v \in Content /\ v \in Finished
    BY <1>2, <1>3, <1>6 DEF IInv, TypeOK, ObjectInv
  <2> QED BY <1>2, <1>6, <2>1, NewObjectFrame DEF decode, return, disk
<1> QED BY <1>4, <1>5, <1>6 DEF View

\* Count reads; without its bucket it panics, which takes an earlier error.
LEMMA Counts ==
  ASSUME IInv, NEW c \in Clients, Count(c)
  PROVE  IInv'
<1>1. Called(c) /\ call[c] # idle
  BY DEF Count, IInv, CallInv, at, idle
<1>2. store = "open" /\ kind # "memory"
  BY <1>1 DEF Called, Count
<1>3. CASE ~bucket /\ Panic("bucket")
  BY <1>2, <1>3, Panics DEF IInv, BucketInv, PanicJustified
<1>4. CASE /\ bucket /\ return(c)
           /\ UNCHANGED <<kind, store, memory, disk, tx, panicked, faults, restarts>>
  BY <1>4, Returned
<1> QED BY <1>3, <1>4 DEF Count

\* A write that has been committed, or was refused, returns.
LEMMA ReturnUpdates ==
  ASSUME IInv, NEW c \in Clients, ReturnUpdate(c)
  PROVE  IInv'
  BY Returned DEF ReturnUpdate

\* The call of a client goes on, to a state that fits, and what is in memory
\* stays.
LEMMA GoesOn ==
  ASSUME IInv, NEW c \in Clients, NEW i \in Calls, call' = [call EXCEPT ![c] = i],
         UNCHANGED <<kind, store, memory, bucket, panicked, restarts>>,
         Called(c)', faults' \in 0..MaxFaults, faults' >= faults,
         tx' = <<>> \/ tx' \in Clients \X (Content \cup {None}),
         \A d \in Clients \ {c} : call[d].step = "update" => tx' = tx,
         file' \in [Keys -> Content \cup {None}],
         \A k \in Keys : kind # "memory" => file'[k] \in Finished \cup {None}
  PROVE  IInv'
<1> USE DEF IInv
<1>1. /\ call' \in [Clients -> Calls]
      /\ \A d \in Clients \ {c} : call'[d] = call[d]
  BY DEF TypeOK
<1>2. UNCHANGED <<Db, heap, ref, editing>>
  BY DEF memory
<1>3. TypeOK'
  BY <1>1, <1>2 DEF TypeOK
<1>4. CallInv'
  <2> SUFFICES ASSUME NEW d \in Clients PROVE Called(d)'
    BY DEF CallInv
  <2>1. CASE d = c
    BY <2>1
  <2>2. CASE d # c
    BY <1>1, <1>2, <2>2, CallFrame DEF CallInv
  <2> QED BY <2>1, <2>2
<1>5. MapInv' /\ ObjectInv'
  BY MemoryFrame
<1>6. BucketInv'
  <2>1. faults \in Nat /\ faults' \in Nat
    BY StoreAssumption DEF TypeOK
  <2> QED BY <2>1 DEF BucketInv, PanicJustified
<1> QED BY <1>3, <1>4, <1>5, <1>6

\* What GoesOn asks for, of a step that changes neither the disk nor the count
\* of errors.
LEMMA Steady ==
  ASSUME IInv, UNCHANGED <<file, faults>>
  PROVE  /\ faults' \in 0..MaxFaults /\ faults' >= faults
         /\ file' \in [Keys -> Content \cup {None}]
         /\ \A k \in Keys : kind # "memory" => file'[k] \in Finished \cup {None}
<1>1. faults \in 0..MaxFaults
  BY DEF IInv, TypeOK
<1>2. faults' >= faults
  BY <1>1, StoreAssumption
<1> QED BY <1>1, <1>2 DEF IInv, TypeOK, ObjectInv

\* A call begins with an object that is finished.
LEMMA CallsIn ==
  ASSUME IInv, NEW c \in Clients, NEW op \in {"put", "get", "delete", "count"},
         NEW k \in Keys, Call(c, op, k)
  PROVE  IInv'
<1>1. CASE store = "nil"
  BY <1>1, Panics DEF Call, IInv, BucketInv, PanicJustified
<1>2. CASE store # "nil"
  <2> DEFINE i == [op |-> op, key |-> k, step |-> "called"]
  <2>1. /\ call' = [call EXCEPT ![c] = i] /\ up /\ editing[c] = None
        /\ op = "put" => ref[c] # None
        /\ UNCHANGED <<kind, store, memory, disk, tx, panicked, faults, restarts>>
    BY <1>2 DEF Call
  <2>2. store = "open"
    BY <1>2, <2>1 DEF up, IInv, TypeOK
  <2>3. i \in Calls
    BY DEF Calls
  <2>4. call'[c] = i
    BY <2>1 DEF IInv, TypeOK
  <2>5. Called(c)'
    BY <2>1, <2>2, <2>4 DEF Called, up, memory
  <2>6. UNCHANGED <<file, bucket>>
    BY <2>1 DEF disk
  <2>7. tx' = <<>> \/ tx' \in Clients \X (Content \cup {None})
    BY <2>1 DEF IInv, TypeOK
  <2> HIDE DEF i
  <2> QED BY <2>1, <2>3, <2>5, <2>6, <2>7, GoesOn, Steady
<1> QED BY <1>1, <1>2

\* The call of a client takes a step.
LEMMA Step ==
  ASSUME IInv, NEW c \in Clients, NEW s, goto(c, s),
         s \in {"idle", "called", "inside", "update", "nil", "error"}
  PROVE  \E i \in Calls : /\ call' = [call EXCEPT ![c] = i] /\ call'[c] = i
                          /\ i.op = call[c].op /\ i.key = call[c].key /\ i.step = s
<1>1. call[c] \in Calls /\ call \in [Clients -> Calls]
  BY DEF IInv, TypeOK
<1> DEFINE i == [call[c] EXCEPT !.step = s]
<1>2. /\ i \in Calls
      /\ i.op = call[c].op /\ i.key = call[c].key /\ i.step = s
  BY <1>1 DEF Calls
<1>3. call' = [call EXCEPT ![c] = i]
  BY DEF goto
<1>4. call'[c] = i
  BY <1>1, <1>3
<1> QED BY <1>2, <1>3, <1>4

\* A map operation begins, or races with another.
LEMMA EnterMaps ==
  ASSUME IInv, NEW c \in Clients, EnterMap(c)
  PROVE  IInv'
<1>1. CASE /\ goto(c, "inside")
           /\ UNCHANGED <<kind, store, memory, disk, tx, panicked, faults,
                          restarts>>
  <2>1. PICK i \in Calls : /\ call' = [call EXCEPT ![c] = i] /\ call'[c] = i
                           /\ i.op = call[c].op /\ i.key = call[c].key
                           /\ i.step = "inside"
    BY <1>1, Step
  <2>2. kind = "memory" /\ Called(c) /\ up /\ call[c].step = "called"
    BY DEF EnterMap, IInv, CallInv, at
  <2>3. call[c] # idle
    BY <2>2 DEF idle
  <2>4. Called(c)'
    BY <1>1, <2>1, <2>2, <2>3 DEF Called, up, memory
  <2>5. UNCHANGED <<file, bucket>>
    BY <1>1 DEF disk
  <2>6. tx' = <<>> \/ tx' \in Clients \X (Content \cup {None})
    BY <1>1 DEF IInv, TypeOK
  <2> QED BY <1>1, <2>1, <2>4, <2>5, <2>6, GoesOn, Steady
<1>2. CASE Panic("race")
  BY <1>2, Panics
<1> QED BY <1>1, <1>2 DEF EnterMap

\* A transaction encodes the object of the call it belongs to.
LEMMA BeginUpdates ==
  ASSUME IInv, NEW c \in Clients, BeginUpdate(c)
  PROVE  IInv'
<1>1. /\ kind # "memory" /\ Called(c) /\ up /\ call[c].step = "called"
      /\ writes(call[c].op) /\ tx = <<>>
  BY DEF BeginUpdate, IInv, CallInv, at
<1>2. call[c] # idle
  BY <1>1 DEF idle
<1>3. CASE ~bucket /\ Panic("bucket")
  BY <1>1, <1>2, <1>3, Panics DEF IInv, BucketInv, Called
<1>4. CASE /\ tx' = <<c, IF call[c].op = "put" THEN heap[ref[c]] ELSE None>>
           /\ goto(c, "update")
           /\ UNCHANGED <<kind, store, memory, disk, panicked, faults,
                          restarts>>
  <2>1. PICK i \in Calls : /\ call' = [call EXCEPT ![c] = i] /\ call'[c] = i
                           /\ i.op = call[c].op /\ i.key = call[c].key
                           /\ i.step = "update"
    BY <1>4, Step
  <2>2. Called(c)'
    BY <1>1, <1>2, <1>4, <2>1 DEF Called, up, memory
  <2>3. UNCHANGED <<file, bucket>>
    BY <1>4 DEF disk
  <2>4. tx' \in Clients \X (Content \cup {None})
    <3>1. call[c].op = "put" => heap[ref[c]] \in Content \cup {None}
      BY <1>1 DEF IInv, TypeOK, Called
    <3> QED BY <1>4, <3>1
  <2>5. \A d \in Clients : call[d].step # "update"
    <3> SUFFICES ASSUME NEW d \in Clients, call[d].step = "update" PROVE FALSE
      OBVIOUS
    <3>1. tx = <<d, IF call[d].op = "put" THEN heap[ref[d]] ELSE None>>
      BY DEF IInv, CallInv, Called
    <3> QED BY <1>1, <3>1
  <2> QED BY <1>4, <2>1, <2>2, <2>3, <2>4, <2>5, GoesOn, Steady
<1> QED BY <1>3, <1>4 DEF BeginUpdate

\* A transaction stores a finished value, or fails.
LEMMA Commits ==
  ASSUME IInv, NEW c \in Clients, Commit(c)
  PROVE  IInv'
<1> DEFINE w == IF call[c].op = "put" THEN heap[ref[c]] ELSE None
<1>1. /\ Called(c) /\ up /\ call[c].step = "update"
      /\ UNCHANGED <<kind, store, memory, bucket, panicked, restarts>>
      /\ tx' = <<>>
  BY DEF Commit, IInv, CallInv, at
<1>2. /\ call[c] # idle /\ kind # "memory" /\ writes(call[c].op)
      /\ tx = <<c, w>>
  BY <1>1 DEF idle, Called
<1>3. /\ call[c].key \in Keys /\ editing[c] = None
      /\ call[c].op = "put" => ref[c] # None
  BY <1>1, <1>2 DEF Called
<1>4. w \in Finished \cup {None} /\ w \in Content \cup {None}
  <2>1. call[c].op = "put" => heap[ref[c]] \in Finished
    BY <1>2, <1>3 DEF IInv, ObjectInv, Written
  <2>2. call[c].op = "put" => heap[ref[c]] \in Content \cup {None}
    BY <1>3 DEF IInv, TypeOK
  <2> QED BY <2>1, <2>2
<1>5. PICK s \in {"nil", "error"} :
        /\ goto(c, s)
        /\ \/ /\ s = "nil" /\ faults' = faults
              /\ file' = [file EXCEPT ![call[c].key] = w]
           \/ s = "error" /\ Fault /\ file' = file
  <2>1. tx[2] = w
    BY <1>2
  <2> HIDE DEF w
  <2> QED BY <2>1 DEF Commit
<1>6. PICK i \in Calls : /\ call' = [call EXCEPT ![c] = i] /\ call'[c] = i
                         /\ i.op = call[c].op /\ i.key = call[c].key
                         /\ i.step = s
  BY <1>5, Step
<1>7. Called(c)'
  BY <1>1, <1>2, <1>6 DEF Called, up, memory
<1>8. faults' \in 0..MaxFaults /\ faults' >= faults
  <2>1. faults \in 0..MaxFaults
    BY DEF IInv, TypeOK
  <2> QED BY <1>5, <2>1, StoreAssumption DEF Fault
<1>9. /\ file' \in [Keys -> Content \cup {None}]
      /\ \A k \in Keys : file'[k] \in Finished \cup {None}
  <2>1. /\ file \in [Keys -> Content \cup {None}]
        /\ \A k \in Keys : file[k] \in Finished \cup {None}
    BY <1>2 DEF IInv, TypeOK, ObjectInv
  <2> HIDE DEF w
  <2> QED BY <1>3, <1>4, <1>5, <2>1
<1>10. \A d \in Clients \ {c} : call[d].step # "update"
  <2> SUFFICES ASSUME NEW d \in Clients \ {c}, call[d].step = "update"
               PROVE  FALSE
    OBVIOUS
  <2>1. tx = <<d, IF call[d].op = "put" THEN heap[ref[d]] ELSE None>>
    BY DEF IInv, CallInv, Called
  <2> QED BY <1>2, <2>1
<1> QED BY <1>1, <1>6, <1>7, <1>8, <1>9, <1>10, GoesOn

\* The map takes and gives the pointers themselves, so that the objects stay
\* where they are.
LEMMA LeaveMaps ==
  ASSUME IInv, NEW c \in Clients, LeaveMap(c)
  PROVE  IInv'
<1> USE DEF IInv
<1>1. /\ Called(c) /\ up /\ call[c].step = "inside" /\ return(c)
      /\ collect(heap)
      /\ UNCHANGED <<kind, store, editing, file, bucket, tx, panicked, faults,
                     restarts>>
  BY DEF LeaveMap, CallInv, at, disk
<1>2. call[c] # idle /\ kind = "memory"
  BY <1>1 DEF Called, idle
<1>3. /\ call[c].key \in Keys
      /\ call[c].op = "put" => ref[c] # None
  BY <1>1, <1>2 DEF Called
<1>4. /\ ref \in [Clients -> Objects \cup {None}]
      /\ Db \in [Keys -> Objects \cup {None}]
      /\ heap \in [Objects -> Cell]
      /\ \A d \in Clients : ref[d] # None => heap[ref[d]] # None
  BY DEF TypeOK, Cell
<1>5. /\ Db' \in [Keys -> Objects \cup {None}]
      /\ ref' \in [Clients -> Objects \cup {None}]
      /\ \A k \in Keys : Db'[k] # None => heap[Db'[k]] # None
      /\ \A d \in Clients : ref'[d] # None => heap[ref'[d]] # None
      /\ \A d \in Clients \ {c} : ref'[d] = ref[d]
  <2> DEFINE k == call[c].key
  <2>1. CASE call[c].op = "put"
    <3>1. Db' = [Db EXCEPT ![k] = ref[c]] /\ ref' = ref
      BY <2>1 DEF LeaveMap
    <3> QED BY <1>3, <1>4, <2>1, <3>1 DEF MapInv
  <2>2. CASE call[c].op = "get" /\ Db[k] # None
    <3>1. ref' = [ref EXCEPT ![c] = Db[k]] /\ Db' = Db
      BY <2>2 DEF LeaveMap
    <3> QED BY <1>3, <1>4, <2>2, <3>1 DEF MapInv
  <2>3. CASE call[c].op = "delete"
    <3>1. Db' = [Db EXCEPT ![k] = None] /\ ref' = ref
      BY <2>3 DEF LeaveMap
    <3> QED BY <1>3, <1>4, <3>1 DEF MapInv
  <2>4. CASE /\ call[c].op \notin {"put", "delete"}
             /\ ~(call[c].op = "get" /\ Db[k] # None)
    <3>1. Db' = Db /\ ref' = ref
      BY <2>4 DEF LeaveMap
    <3> QED BY <1>4, <3>1 DEF MapInv
  <2> QED BY <2>1, <2>2, <2>3, <2>4
<1>6. /\ heap' \in [Objects -> Cell]
      /\ \A d \in Clients : ref'[d] \in Objects => heap'[ref'[d]] = heap[ref'[d]]
      /\ \A k \in Keys : Db'[k] \in Objects => heap'[Db'[k]] = heap[Db'[k]]
  BY <1>1, <1>4, Collected
<1>7. /\ call' \in [Clients -> Calls] /\ call'[c] = idle
      /\ \A d \in Clients \ {c} : call'[d] = call[d]
  <2>1. idle \in Calls /\ call \in [Clients -> Calls]
    BY DEF idle, Calls, TypeOK
  <2> QED BY <1>1, <2>1 DEF return
<1>8. TypeOK'
  <2>1. \A d \in Clients : ref'[d] # None => heap'[ref'[d]] # None
    BY <1>5, <1>6
  <2> QED BY <1>1, <1>5, <1>6, <1>7, <2>1 DEF TypeOK, Cell
<1>9. CallInv'
  <2> SUFFICES ASSUME NEW d \in Clients PROVE Called(d)'
    BY DEF CallInv
  <2>1. CASE d = c
    BY <1>7, <2>1 DEF Called, idle
  <2>2. CASE d # c
    BY <1>1, <1>2, <1>5, <1>7, <2>2, CallFrame DEF CallInv
  <2> QED BY <2>1, <2>2
<1>10. MapInv'
  BY <1>5, <1>6 DEF MapInv
<1>11. ObjectInv' /\ BucketInv'
  BY <1>1, <1>2 DEF ObjectInv, BucketInv, PanicJustified
<1> QED BY <1>8, <1>9, <1>10, <1>11

\* Every step of the clients and the process keeps the invariant.
LEMMA NextIInv == IInv /\ [Next]_vars => IInv'
<1> SUFFICES ASSUME IInv, [Next]_vars PROVE IInv'
  OBVIOUS
<1>1. CASE UNCHANGED vars
  BY <1>1 DEF vars, IInv, TypeOK, CallInv, Called, MapInv, ObjectInv, Written,
              BucketInv, PanicJustified, up
<1>2. CASE Open
  BY <1>2, Opens
<1>3. CASE Crash
  BY <1>3, Crashes
<1>4. CASE \E c \in Clients :
             \/ \E v \in Values : NewTask(c, v) \/ Edit(c, v)
             \/ \E op \in {"put", "get", "delete", "count"}, k \in Keys :
                  Call(c, op, k)
             \/ EnterMap(c) \/ LeaveMap(c)
             \/ BeginUpdate(c) \/ Commit(c) \/ ReturnUpdate(c)
             \/ View(c) \/ Count(c)
  BY <1>4, NewTasks, Edits, CallsIn, EnterMaps, LeaveMaps, BeginUpdates,
     Commits, ReturnUpdates, Views, Counts
<1> QED BY <1>1, <1>2, <1>3, <1>4 DEF Next

\* The invariant holds in every reachable state.
LEMMA Inductive == Spec => []IInv
  BY InitIInv, NextIInv, PTL DEF Spec

\* Every variable stays in its type, and every object a client works on is
\* there (store.go:1-370, factory.go:9-30).
THEOREM TypeCorrect == Spec => []TypeOK
<1>1. IInv => TypeOK
  BY DEF IInv
<1> QED BY <1>1, Inductive, PTL

\* Whatever the clients and the file system do, a nil pointer ends the process
\* only after an error when the store was opened, or where its type is not one
\* the factory knows (factory.go:16-30, store.go:130-133, 143-159, 262-265,
\* 283-298).
THEOREM PanicJustifiedAlways == Spec => []PanicJustified
<1>1. IInv => PanicJustified
  BY DEF IInv, BucketInv, PanicJustified
<1> QED BY <1>1, Inductive, PTL

-----------------------------------------------------------------------------
\* The write of one client changes, or nobody's.
LEMMA WriteUpdated ==
  ASSUME NEW c \in Clients, NEW w, writeOf(c)' = w,
         \A d \in Clients \ {c} : writeOf(d)' = writeOf(d)
  PROVE  write' = [write EXCEPT ![c] = w]
  BY DEF write

\* A step that leaves the file and the writes is none of KeyValue.
LEMMA Stutters ==
  ASSUME UNCHANGED file, \A d \in Clients : writeOf(d)' = writeOf(d)
  PROVE  UNCHANGED KV!vars
  BY DEF write, KV!vars

\* The write of a client that a step does not touch.
LEMMA WriteFrame ==
  ASSUME NEW d \in Clients, UNCHANGED kind, call'[d] = call[d],
         call[d].op = "put" => heap'[ref'[d]] = heap[ref[d]]
  PROVE  writeOf(d)' = writeOf(d)
  BY DEF writeOf, writes

\* To KeyValue a call that reads is no call at all.
LEMMA NotWriting ==
  ASSUME NEW c \in Clients, ~writes(call[c].op)
  PROVE  writeOf(c) = KV!NoWrite
  BY DEF writeOf, KV!NoWrite

\* When the process ends, by itself or not, nobody has called a write.
LEMMA AllLost ==
  ASSUME IInv, Lose, UNCHANGED <<kind, disk>>
  PROVE  KV!Crash
<1>1. \A c \in Clients : call'[c] = idle
  BY Lost DEF IInv, disk
<1>2. ASSUME NEW c \in Clients PROVE writeOf(c)' = KV!NoWrite
  <2>1. ~writes(call'[c].op)
    BY <1>1 DEF writes, idle
  <2> QED BY <2>1 DEF writeOf, writes, KV!NoWrite
<1>3. write' = [c \in Clients |-> KV!NoWrite]
  BY <1>2 DEF write
<1> QED BY <1>3 DEF KV!Crash, disk

\* To KeyValue a panic is a crash.
LEMMA PanicCrashes == IInv /\ (\E r : Panic(r)) => KV!Crash
  BY AllLost DEF Panic

\* The in-memory stores have no file, and a caller has no write on disk.
LEMMA InMemory ==
  ASSUME IInv, Next, kind = "memory"
  PROVE  UNCHANGED KV!vars
<1>1. kind' = kind
  BY DEF Next, Open, Crash, NewTask, Edit, Call, EnterMap, LeaveMap, BeginUpdate,
         Commit, ReturnUpdate, View, Count, Panic
<1>2. ASSUME NEW c \in Clients PROVE ~Commit(c)
  BY DEF Commit, at, IInv, CallInv, Called
<1>3. file' = file
  BY <1>2 DEF Next, Open, Crash, NewTask, Edit, Call, EnterMap, LeaveMap,
         BeginUpdate, ReturnUpdate, View, Count, Panic, disk
<1>4. \A d \in Clients : writeOf(d)' = writeOf(d)
  BY <1>1 DEF writeOf
<1> QED BY <1>3, <1>4, Stutters

\* The steps with objects are not seen: a client with a write under way leaves
\* its object alone, and nobody else has it.
LEMMA ObjectSteps ==
  ASSUME IInv, kind # "memory", NEW c \in Clients, NEW v \in Values,
         NewTask(c, v) \/ Edit(c, v)
  PROVE  UNCHANGED KV!vars
<1>1. /\ call[c] = idle /\ UNCHANGED <<kind, file, call>>
  BY DEF NewTask, Edit, disk
<1>2. ASSUME NEW d \in Clients \ {c}
      PROVE  call[d].op = "put" => heap'[ref'[d]] = heap[ref[d]]
  <2> SUFFICES ASSUME call[d].op = "put" PROVE heap'[ref'[d]] = heap[ref[d]]
    OBVIOUS
  <2>1. ref[d] # None
    BY DEF IInv, CallInv, Called
  <2>2. CASE NewTask(c, v)
    <3>1. finished(v) \in Content
      BY DEF finished, Content
    <3> QED BY <2>1, <2>2, <3>1, NewObject DEF NewTask, IInv
  <2>3. CASE Edit(c, v)
    <3>1. ref[d] # ref[c] /\ ref[d] \in Objects
      BY <2>1, <2>3 DEF IInv, ObjectInv, TypeOK
    <3>2. heap'[ref[d]] = heap[ref[d]]
      BY <2>3, <3>1 DEF Edit, IInv, TypeOK
    <3> QED BY <2>3, <3>2 DEF Edit
  <2> QED BY <2>2, <2>3
<1>3. call[c].op # "put"
  BY <1>1 DEF idle
<1>4. \A d \in Clients : writeOf(d)' = writeOf(d)
  BY <1>1, <1>2, <1>3, WriteFrame
<1> QED BY <1>1, <1>4, Stutters

\* A Put or a Delete is called with what is finished; the other calls are not
\* seen.
LEMMA CallStep ==
  ASSUME IInv, kind # "memory", NEW c \in Clients, NEW k \in Keys,
         NEW op \in {"put", "get", "delete", "count"}, Call(c, op, k)
  PROVE  [KV!Next]_KV!vars
<1>1. CASE store = "nil"
  BY <1>1, PanicCrashes DEF Call, KV!Next
<1>2. CASE store # "nil"
  <2> DEFINE v == IF op = "put" THEN heap[ref[c]] ELSE None
  <2>1. /\ call[c] = idle /\ editing[c] = None
        /\ op = "put" => ref[c] # None
        /\ call' = [call EXCEPT ![c] =
                      [op |-> op, key |-> k, step |-> "called"]]
        /\ UNCHANGED <<kind, heap, ref, file>>
    BY <1>2 DEF Call, memory, disk
  <2>2. /\ call'[c] = [op |-> op, key |-> k, step |-> "called"]
        /\ \A d \in Clients \ {c} : call'[d] = call[d]
    BY <2>1 DEF IInv, TypeOK
  <2>3. \A d \in Clients \ {c} : writeOf(d)' = writeOf(d)
    BY <2>1, <2>2, WriteFrame
  <2>4. writeOf(c) = KV!NoWrite
    BY <2>1, NotWriting DEF idle, writes
  <2>5. CASE writes(op)
    <3>1. writeOf(c)' = [step |-> "called", key |-> k, value |-> v]
      BY <2>1, <2>2, <2>5 DEF writeOf, writes
    <3>2. v \in {finished(w) : w \in Values} \cup {None}
      BY <2>1 DEF IInv, ObjectInv, Written, Finished
    <3> HIDE DEF v
    <3>3. write' = [write EXCEPT ![c] =
                      [step |-> "called", key |-> k, value |-> v]]
      BY <2>3, <3>1, WriteUpdated
    <3>4. write[c] = KV!NoWrite
      BY <2>4 DEF write
    <3>5. KV!Call(c, k, v)
      BY <2>1, <3>3, <3>4 DEF KV!Call
    <3> QED BY <3>2, <3>5 DEF KV!Next
  <2>6. CASE ~writes(op)
    <3>1. writeOf(c)' = KV!NoWrite
      BY <2>2, <2>6 DEF writeOf, writes, KV!NoWrite
    <3> QED BY <2>1, <2>3, <2>4, <3>1, Stutters
  <2> QED BY <2>5, <2>6
<1> QED BY <1>1, <1>2

\* A transaction begins unseen.
LEMMA BeginStep ==
  ASSUME IInv, kind # "memory", NEW c \in Clients, BeginUpdate(c)
  PROVE  [KV!Next]_KV!vars
<1>1. CASE Panic("bucket")
  BY <1>1, PanicCrashes DEF KV!Next
<1>2. CASE /\ goto(c, "update")
           /\ UNCHANGED <<kind, store, memory, disk, panicked, faults,
                          restarts>>
  <2>1. PICK i \in Calls : /\ call' = [call EXCEPT ![c] = i] /\ call'[c] = i
                           /\ i.op = call[c].op /\ i.key = call[c].key
                           /\ i.step = "update"
    BY <1>2, Step
  <2>2. call[c].step = "called" /\ UNCHANGED <<kind, heap, ref, file>>
    BY <1>2 DEF BeginUpdate, at, memory, disk
  <2>3. \A d \in Clients \ {c} : call'[d] = call[d]
    BY <2>1 DEF IInv, TypeOK
  <2>4. \A d \in Clients \ {c} : writeOf(d)' = writeOf(d)
    BY <2>2, <2>3, WriteFrame
  <2>5. writeOf(c)' = writeOf(c)
    BY <2>1, <2>2 DEF writeOf, writes
  <2> QED BY <2>2, <2>4, <2>5, Stutters
<1> QED BY <1>1, <1>2 DEF BeginUpdate

\* The write takes effect when its transaction commits, and fails when that is
\* rolled back.
LEMMA CommitStep ==
  ASSUME IInv, kind # "memory", NEW c \in Clients, Commit(c)
  PROVE  KV!Effect(c) \/ KV!Fail(c)
<1> DEFINE w == IF call[c].op = "put" THEN heap[ref[c]] ELSE None
<1>1. /\ Called(c) /\ call[c].step = "update"
      /\ UNCHANGED <<kind, heap, ref>>
  BY DEF Commit, IInv, CallInv, at, memory
<1>2. writes(call[c].op) /\ tx = <<c, w>> /\ tx[2] = w
  BY <1>1 DEF Called
<1>3. /\ write[c] = [step |-> "called", key |-> call[c].key, value |-> w]
      /\ writeOf(c) = write[c]
  BY <1>1, <1>2 DEF writeOf, write
<1>4. ASSUME NEW s \in {"nil", "error"}, goto(c, s)
      PROVE  write' = [write EXCEPT ![c].step = s]
  <2>1. PICK i \in Calls : /\ call' = [call EXCEPT ![c] = i] /\ call'[c] = i
                           /\ i.op = call[c].op /\ i.key = call[c].key
                           /\ i.step = s
    BY <1>4, Step
  <2>2. \A d \in Clients \ {c} : call'[d] = call[d]
    BY <2>1 DEF IInv, TypeOK
  <2>3. \A d \in Clients \ {c} : writeOf(d)' = writeOf(d)
    BY <1>1, <2>2, WriteFrame
  <2>4. writeOf(c)' = [step |-> s, key |-> call[c].key, value |-> w]
    BY <1>1, <1>2, <2>1 DEF writeOf, writes
  <2> HIDE DEF w
  <2>5. writeOf(c)' = [write[c] EXCEPT !.step = s]
    BY <1>3, <2>4
  <2> QED BY <2>3, <2>5, WriteUpdated
<1>5. CASE goto(c, "nil") /\ file' = [file EXCEPT ![call[c].key] = tx[2]]
  <2> HIDE DEF w
  <2> QED BY <1>2, <1>3, <1>4, <1>5 DEF KV!Effect
<1>6. CASE goto(c, "error") /\ file' = file
  <2> HIDE DEF w
  <2> QED BY <1>3, <1>4, <1>6 DEF KV!Fail
<1> QED BY <1>5, <1>6 DEF Commit

\* The answer to a write is that of KeyValue.
LEMMA ReturnStep ==
  ASSUME IInv, kind # "memory", NEW c \in Clients, ReturnUpdate(c)
  PROVE  KV!Return(c)
<1>1. /\ Called(c) /\ call[c].step \in {"nil", "error"}
      /\ call' = [call EXCEPT ![c] = idle]
      /\ UNCHANGED <<kind, heap, ref, file>>
  BY DEF ReturnUpdate, return, at, IInv, CallInv, memory, disk
<1>2. write[c].step \in {"nil", "error"}
  BY <1>1 DEF Called, write, writeOf
<1>3. /\ call'[c] = idle
      /\ \A d \in Clients \ {c} : call'[d] = call[d]
  BY <1>1 DEF IInv, TypeOK
<1>4. \A d \in Clients \ {c} : writeOf(d)' = writeOf(d)
  BY <1>1, <1>3, WriteFrame
<1>5. writeOf(c)' = KV!NoWrite
  BY <1>3 DEF writeOf, writes, idle, KV!NoWrite
<1>6. write' = [write EXCEPT ![c] = KV!NoWrite]
  BY <1>4, <1>5, WriteUpdated
<1> QED BY <1>1, <1>2, <1>6 DEF KV!Return

\* A reader does not change what is stored.
LEMMA ReadStep ==
  ASSUME IInv, kind # "memory", NEW c \in Clients, View(c) \/ Count(c)
  PROVE  [KV!Next]_KV!vars
<1>1. CASE Panic("bucket")
  BY <1>1, PanicCrashes DEF KV!Next
<1>2. CASE ~Panic("bucket")
  <2>1. /\ call[c].op \in {"get", "count"} /\ Called(c)
        /\ call' = [call EXCEPT ![c] = idle]
        /\ UNCHANGED <<kind, file>>
    BY <1>2 DEF View, Count, return, IInv, CallInv, disk
  <2>2. /\ call'[c] = idle
        /\ \A d \in Clients \ {c} : call'[d] = call[d]
    BY <2>1 DEF IInv, TypeOK
  <2>3. writeOf(c) = KV!NoWrite /\ writeOf(c)' = KV!NoWrite
    BY <2>1, <2>2 DEF writeOf, writes, idle, KV!NoWrite
  <2>4. ASSUME NEW d \in Clients \ {c}
        PROVE  call[d].op = "put" => heap'[ref'[d]] = heap[ref[d]]
    <3> SUFFICES ASSUME call[d].op = "put" PROVE heap'[ref'[d]] = heap[ref[d]]
      OBVIOUS
    <3>1. ref[d] # None
      BY DEF IInv, CallInv, Called
    <3>2. CASE UNCHANGED <<heap, ref>>
      BY <3>2
    <3>3. CASE file[call[c].key] # None /\ decode(c, file[call[c].key])
      <4>1. call[c].key \in Keys
        BY <1>2, <2>1 DEF Called, View, Count, at, idle
      <4>2. file[call[c].key] \in Content
        BY <3>3, <4>1 DEF IInv, TypeOK
      <4> QED BY <3>1, <3>3, <4>2, NewObject DEF decode, IInv
    <3> QED BY <1>2, <3>2, <3>3 DEF View, Count, memory
  <2>5. \A d \in Clients \ {c} : writeOf(d)' = writeOf(d)
    BY <2>1, <2>2, <2>4, WriteFrame
  <2> QED BY <2>1, <2>3, <2>5, Stutters
<1> QED BY <1>1, <1>2

\* Nothing is stored or under way at the beginning.
LEMMA InitKV == Init => KV!Init
<1> SUFFICES ASSUME Init PROVE KV!Init
  OBVIOUS
<1>1. ASSUME NEW c \in Clients PROVE writeOf(c) = KV!NoWrite
  BY NotWriting DEF Init, idle, writes
<1>2. write = [c \in Clients |-> KV!NoWrite]
  BY <1>1 DEF write
<1> QED BY <1>2 DEF Init, KV!Init

\* Every step of a bolt store is one of KeyValue or leaves it alone.
LEMMA NextKV == IInv /\ [Next]_vars => [KV!Next]_KV!vars
<1> SUFFICES ASSUME IInv, [Next]_vars PROVE [KV!Next]_KV!vars
  OBVIOUS
<1>1. CASE UNCHANGED vars
  <2>1. \A d \in Clients : writeOf(d)' = writeOf(d)
    BY <1>1 DEF vars, writeOf, writes
  <2> QED BY <1>1, <2>1, Stutters DEF vars
<1>2. CASE Next /\ kind = "memory"
  BY <1>2, InMemory
<1>3. CASE kind # "memory" /\ Open
  <2>1. \A d \in Clients : writeOf(d)' = writeOf(d)
    BY <1>3 DEF Open, memory, writeOf, writes
  <2> QED BY <1>3, <2>1, Stutters DEF Open
<1>4. CASE Crash
  BY <1>4, AllLost DEF Crash, KV!Next
<1>5. CASE kind # "memory" /\ \E c \in Clients :
             \/ \E v \in Values : NewTask(c, v) \/ Edit(c, v)
             \/ \E op \in {"put", "get", "delete", "count"}, k \in Keys :
                  Call(c, op, k)
             \/ EnterMap(c) \/ LeaveMap(c)
             \/ BeginUpdate(c) \/ Commit(c) \/ ReturnUpdate(c)
             \/ View(c) \/ Count(c)
  <2>1. PICK c \in Clients :
             \/ \E v \in Values : NewTask(c, v) \/ Edit(c, v)
             \/ \E op \in {"put", "get", "delete", "count"}, k \in Keys :
                  Call(c, op, k)
             \/ EnterMap(c) \/ LeaveMap(c)
             \/ BeginUpdate(c) \/ Commit(c) \/ ReturnUpdate(c)
             \/ View(c) \/ Count(c)
    BY <1>5
  <2>2. CASE \E v \in Values : NewTask(c, v) \/ Edit(c, v)
    BY <1>5, <2>2, ObjectSteps
  <2>3. CASE \E op \in {"put", "get", "delete", "count"}, k \in Keys :
               Call(c, op, k)
    BY <1>5, <2>3, CallStep
  <2>4. CASE EnterMap(c) \/ LeaveMap(c)
    BY <1>5, <2>4 DEF EnterMap, LeaveMap, at, IInv, CallInv, Called
  <2>5. CASE BeginUpdate(c)
    BY <1>5, <2>5, BeginStep
  <2>6. CASE Commit(c)
    BY <1>5, <2>6, CommitStep DEF KV!Next
  <2>7. CASE ReturnUpdate(c)
    BY <1>5, <2>7, ReturnStep DEF KV!Next
  <2>8. CASE View(c) \/ Count(c)
    BY <1>5, <2>8, ReadStep
  <2> QED BY <2>1, <2>2, <2>3, <2>4, <2>5, <2>6, <2>7, <2>8
<1> QED BY <1>1, <1>2, <1>3, <1>4, <1>5 DEF Next

\* A store is a KeyValue, over crashes and restarts: a write that returned nil
\* is stored as its caller finished it, one that failed is not, and nothing else
\* changes what is stored (store.go:118-137, 172-241, 250-370).
THEOREM ImplementsKeyValue == Spec => KVSpec
  BY InitKV, NextKV, Inductive, PTL DEF Spec, KVSpec, KV!Spec

=============================================================================
