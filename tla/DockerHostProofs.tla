-------------------------- MODULE DockerHostProofs --------------------------
(***************************************************************************)
(* What holds of a Docker host for any number of pools, ids, workers,      *)
(* sandboxes, deleters, failing calls and containers that stop.            *)
(***************************************************************************)
EXTENDS DockerHost, FiniteSetTheorems, TLAPS

\* The container made by pool p when k of its containers are started.
containerOf(p, k) ==
  [owner |-> p,
   name |-> IF k = 0 THEN <<"manager", id[p]>> ELSE <<"worker", id[p], k>>,
   net |-> networkID[p]]

Finished == {"ready", "cleaning", "cleaned"}

\* What is kept in started is what was made, in the order of the code.
StartedInv(p) ==
  /\ \A k \in 1..Len(started[p]) : started[p][k] = containerOf(p, k - 1)
  /\ IF pc[p] \in {"idle", "network", "failed"}
     THEN started[p] = <<>> ELSE networkID[p] \in Network
  /\ pc[p] \in {"creating", "starting"} => Len(started[p]) <= count
  /\ pc[p] = "inspecting" => Len(started[p]) = 1
  /\ pc[p] \in Finished \cup {"dialing"} => Len(started[p]) = count + 1

\* The containers of a pool: those that are kept and the one in the making.
MadeInv(p) ==
  /\ pc[p] \in {"idle", "network"} => made(p) = {}
  /\ pc[p] \in {"creating", "inspecting", "dialing", "ready"} =>
       made(p) = ToSet(started[p])
  /\ pc[p] = "starting" => /\ made(p) = ToSet(started[p]) \cup {current(p)}
                           /\ current(p) \notin running \cup stopped
  /\ pc[p] \in {"cleaning", "cleaned"} => made(p) \subseteq ToSet(started[p])

\* The containers that an unfinished Cleanup has left behind.
left(p) == made(p) \ ToSet(todo[p])

TodoInv(p) ==
  /\ pc[p] # "cleaning" => todo[p] = <<>>
  /\ pc[p] = "cleaning" =>
       /\ ToSet(todo[p]) \subseteq made(p)
       /\ \A i, j \in 1..Len(todo[p]) : todo[p][i] = todo[p][j] => i = j
       /\ todo[p] # <<>> => todo[p][Len(todo[p])] = containerOf(p, 0)
  /\ pc[p] \in {"cleaning", "cleaned"} =>
       IsFiniteSet(left(p)) /\ Cardinality(left(p)) <= faults

\* What a construction leaves that failed although no call of the daemon did.
StrandedInv(p) ==
  pc[p] = "failed" /\ faults = 0 =>
    /\ \A c \in made(p) : c \notin running /\ (c \in stopped => c.net \notin networks)
    /\ \A c \in made(p) : c.name[1] = "worker" =>
         \E m \in made(p) : m.name = <<"manager", id[p]>>

\* While no call has failed, the network of a pool that is cleaned up stays
\* only for a pool that has started a container on it.
NetworkInv(p) ==
  pc[p] = "cleaned" /\ faults = 0 /\ networkID[p] \in networks =>
    \E q \in Pools \ {p} : networkID[q] = networkID[p] /\ started[q] # <<>>

\* A check has gone past running containers only.
CheckInv(p) ==
  check[p] # 0 =>
    /\ pc[p] \in Finished
    /\ check[p] <= Len(started[p])
    /\ steady[p] => \A j \in 1..(check[p] - 1) : started[p][j] \in running

PoolInv(p) == StartedInv(p) /\ MadeInv(p) /\ TodoInv(p) /\ StrandedInv(p)

\* A network that is known was made, by a call that will not make it again.
Used(n) == n \in Network /\ pc[n.owner] \notin {"idle", "network"}

DaemonInv ==
  /\ \A c, d \in containers : c.name = d.name => c = d
  /\ \A c \in running : c.net \in networks \cup {Bridge}
  /\ \A n \in networks : Used(n)
  /\ \A p \in Pools : networkID[p] \in Network => Used(networkID[p])
  /\ \A c \in containers : c.owner \in Pools =>
       Used(c.net) /\ c.name[2] = id[c.owner]

SandboxInv ==
  /\ \A c \in containers : c.owner \in Sandboxes =>
       c = own(c.owner) /\ sandbox[c.owner] # "idle"
  /\ \A d \in Deleters : \A c \in delete[d] : c.owner \in Sandboxes

IInv ==
  /\ TypeOK /\ DaemonInv /\ SandboxInv /\ FailedCreateLeavesNothing
  /\ \A p \in Pools : PoolInv(p) /\ NetworkInv(p) /\ CheckInv(p)

-----------------------------------------------------------------------------
(* The containers of a pool *)

\* What a container of a pool is made of; its name contains the pool's id.
LEMMA ContainerFields ==
  ASSUME TypeOK, NEW p \in Pools, NEW k \in 0..count, networkID[p] \in Network
  PROVE  /\ containerOf(p, k) \in Container
         /\ containerOf(p, k).owner = p
         /\ containerOf(p, k).net = networkID[p]
         /\ containerOf(p, k).name[2] = id[p]
         /\ k = 0 <=> containerOf(p, k).name[1] = "manager"
<1>1. id[p] \in PoolIDs  BY DEF TypeOK, PoolTypes
<1> QED  BY <1>1, PoolAssumption DEF containerOf, Container

\* The containers of one pool have different names.
LEMMA ContainersDiffer ==
  ASSUME NEW p \in Pools, NEW k \in Nat, NEW l \in Nat,
         containerOf(p, k).name = containerOf(p, l).name
  PROVE  k = l
BY DEF containerOf

\* The container in the making is the one after those kept.
LEMMA Current ==
  ASSUME TypeOK, NEW p \in Pools
  PROVE  /\ Len(started[p]) \in Nat
         /\ current(p) = containerOf(p, Len(started[p]))
<1>1. started[p] \in Seq(Container)  BY DEF TypeOK, PoolTypes
<1> QED  BY <1>1 DEF current, containerOf

\* A container that is kept is one of those its pool has made.
LEMMA Kept ==
  ASSUME TypeOK, NEW p \in Pools, StartedInv(p), NEW c \in ToSet(started[p])
  PROVE  /\ pc[p] \notin {"idle", "network", "failed"}
         /\ networkID[p] \in Network
         /\ \E k \in 1..Len(started[p]) : c = started[p][k] /\ c = containerOf(p, k - 1)
<1>1. started[p] \in Seq(Container)  BY DEF TypeOK, PoolTypes
<1>2. PICK k \in 1..Len(started[p]) : c = started[p][k]  BY <1>1 DEF ToSet
<1>3. started[p] # <<>>  BY <1>1, <1>2
<1> QED  BY <1>1, <1>2, <1>3 DEF StartedInv

-----------------------------------------------------------------------------
(* What a call to the daemon may do *)

\* A call for owner o, served or not.
Served(o) ==
  \/ UNCHANGED daemon
  \/ \E c \in Container : c.owner = o /\ (Create(c) \/ Start(c) \/ RemoveContainer(c))
  \/ \E n \in Network : ~Used(n) /\ CreateNetwork(n)
  \/ \E n \in Network : RemoveNetwork(n)

Counted == faults' \in 0..MaxFaults /\ faults' >= faults

\* What pool q and its containers see of a step of somebody else.
Quiet(q) ==
  /\ pc'[q] = pc[q] /\ networkID'[q] = networkID[q] /\ id' = id
  /\ started'[q] = started[q] /\ todo'[q] = todo[q]
  /\ made(q)' = made(q)
  /\ \A c \in made(q) :
       /\ c \in running' => c \in running \/ (c \in stopped /\ c.net \in networks \cup {Bridge})
       /\ c \in stopped' => c \in stopped \/ c \in running
  /\ \A n \in networks' : n \in networks \/ ~Used(n)

\* A call to the daemon leaves it well-typed.
LEMMA ServedTypes ==
  ASSUME TypeOK, Counted, NEW o, Served(o)
  PROVE  DaemonTypes'
<1>1. DaemonTypes  BY DEF TypeOK
<1>2. faults' \in 0..MaxFaults  BY DEF Counted
<1>3. CASE UNCHANGED daemon  BY <1>1, <1>2, <1>3 DEF daemon, DaemonTypes
<1>4. ASSUME NEW c \in Container, Create(c)  PROVE DaemonTypes'
  BY <1>1, <1>2, <1>4 DEF Create, DaemonTypes
<1>5. ASSUME NEW c \in Container, Start(c)  PROVE DaemonTypes'
  BY <1>1, <1>2, <1>5 DEF Start, CanStart, DaemonTypes
<1>6. ASSUME NEW c \in Container, RemoveContainer(c)  PROVE DaemonTypes'
  BY <1>1, <1>2, <1>6 DEF RemoveContainer, DaemonTypes
<1>7. ASSUME NEW n \in Network, CreateNetwork(n) \/ RemoveNetwork(n)  PROVE DaemonTypes'
  BY <1>1, <1>2, <1>7 DEF CreateNetwork, RemoveNetwork, DaemonTypes
<1> QED  BY <1>3, <1>4, <1>5, <1>6, <1>7 DEF Served

\* The daemon keeps names unique, and a running container on a network that
\* exists.
LEMMA ServedNames ==
  ASSUME TypeOK, DaemonInv, NEW o, Served(o)
  PROVE  /\ \A c, d \in containers' : c.name = d.name => c = d
         /\ \A c \in running' : c.net \in networks' \cup {Bridge}
<1>1. /\ \A c, d \in containers : c.name = d.name => c = d
      /\ \A c \in running : c.net \in networks \cup {Bridge}
  BY DEF DaemonInv
<1>2. CASE UNCHANGED daemon  BY <1>1, <1>2 DEF daemon
<1>3. ASSUME NEW c \in Container, Create(c) \/ Start(c) \/ RemoveContainer(c)
      PROVE  /\ \A d, e \in containers' : d.name = e.name => d = e
             /\ \A d \in running' : d.net \in networks' \cup {Bridge}
  BY <1>1, <1>3 DEF Create, CanCreate, Start, CanStart, RemoveContainer
<1>4. ASSUME NEW n \in Network, CreateNetwork(n) \/ RemoveNetwork(n)
      PROVE  /\ \A d, e \in containers' : d.name = e.name => d = e
             /\ \A d \in running' : d.net \in networks' \cup {Bridge}
  BY <1>1, <1>4 DEF CreateNetwork, RemoveNetwork, CanRemoveNetwork
<1> QED  BY <1>2, <1>3, <1>4 DEF Served

\* A call for one owner leaves the containers of the others alone.
LEMMA ServedOthers ==
  ASSUME NEW o, Served(o), NEW q \in Pools, q # o
  PROVE  /\ made(q)' = made(q)
         /\ \A c \in made(q) : /\ c \in running' <=> c \in running
                               /\ c \in stopped' <=> c \in stopped
<1>1. CASE UNCHANGED daemon  BY <1>1 DEF daemon, made
<1>2. ASSUME NEW c \in Container, c.owner = o, Create(c) \/ Start(c) \/ RemoveContainer(c)
      PROVE  /\ made(q)' = made(q)
             /\ \A d \in made(q) : /\ d \in running' <=> d \in running
                                   /\ d \in stopped' <=> d \in stopped
  BY <1>2 DEF Create, Start, RemoveContainer, made
<1>3. ASSUME NEW n \in Network, CreateNetwork(n) \/ RemoveNetwork(n)
      PROVE  /\ made(q)' = made(q)
             /\ \A d \in made(q) : /\ d \in running' <=> d \in running
                                   /\ d \in stopped' <=> d \in stopped
  BY <1>3 DEF CreateNetwork, RemoveNetwork, made
<1> QED  BY <1>1, <1>2, <1>3 DEF Served

\* A call makes a network only for a pool that has not had one made.
LEMMA ServedNetworks ==
  ASSUME NEW o, Served(o)
  PROVE  \A n \in networks' : n \in networks \/ ~Used(n)
BY DEF Served, daemon, Create, Start, RemoveContainer, CreateNetwork, RemoveNetwork

-----------------------------------------------------------------------------
(* The frame: what the others may do to a pool *)

\* A call by somebody else keeps what is known of a pool.
LEMMA Frame ==
  ASSUME TypeOK, DaemonInv, Counted, NEW q \in Pools, PoolInv(q), Quiet(q)
  PROVE  PoolInv(q)'
<1>1. /\ pc'[q] = pc[q] /\ networkID'[q] = networkID[q] /\ id' = id
      /\ started'[q] = started[q] /\ todo'[q] = todo[q] /\ made(q)' = made(q)
  BY DEF Quiet
<1>2. /\ faults \in Nat /\ faults' \in Nat /\ faults <= faults'
  BY DockerAssumption DEF TypeOK, DaemonTypes, Counted
<1>3. \A k : containerOf(q, k)' = containerOf(q, k)  BY <1>1 DEF containerOf
<1>4. current(q)' = current(q)  BY <1>1 DEF current
<1>5. StartedInv(q)'
  BY <1>1, <1>3 DEF PoolInv, StartedInv, Finished
<1>6. MadeInv(q)'
  <2>1. ASSUME pc[q] = "starting"  PROVE current(q) \notin running' \cup stopped'
    BY <2>1 DEF Quiet, PoolInv, MadeInv
  <2> QED  BY <1>1, <1>4, <2>1 DEF PoolInv, MadeInv
<1>7. TodoInv(q)'
  <2>1. left(q)' = left(q)  BY <1>1 DEF left
  <2>2. ASSUME pc[q] \in {"cleaning", "cleaned"}
        PROVE  IsFiniteSet(left(q)) /\ Cardinality(left(q)) <= faults'
    <3>1. IsFiniteSet(left(q)) /\ Cardinality(left(q)) <= faults
      BY <2>2 DEF PoolInv, TodoInv
    <3>2. Cardinality(left(q)) \in Nat  BY <3>1, FS_CardinalityType
    <3> QED  BY <3>1, <3>2, <1>2
  <2> QED  BY <1>1, <1>3, <2>1, <2>2 DEF PoolInv, TodoInv
<1>8. StrandedInv(q)'
  <2> SUFFICES ASSUME pc[q] = "failed", faults' = 0
               PROVE  /\ \A c \in made(q) : /\ c \notin running'
                                            /\ c \in stopped' => c.net \notin networks'
                      /\ \A c \in made(q) : c.name[1] = "worker" =>
                           \E m \in made(q) : m.name = <<"manager", id[q]>>
    BY <1>1 DEF StrandedInv
  <2>1. faults = 0  BY <1>2
  <2>2. ASSUME NEW c \in made(q)
        PROVE  c \notin running' /\ (c \in stopped' => c.net \notin networks')
    <3>1. c \notin running /\ (c \in stopped => c.net \notin networks)
      BY <2>1 DEF PoolInv, StrandedInv
    <3>2. Used(c.net)  BY DEF DaemonInv, made
    <3>3. c.net # Bridge  BY <3>2, HostAssumption DEF Used
    <3> QED  BY <3>1, <3>2, <3>3 DEF Quiet
  <2> QED  BY <2>1, <2>2 DEF PoolInv, StrandedInv
<1> QED  BY <1>5, <1>6, <1>7, <1>8 DEF PoolInv

-----------------------------------------------------------------------------
(* What keeps two pools apart while no call has failed *)

\* A worker comes with the manager of its pool.
LEMMA HasManager ==
  ASSUME TypeOK, NEW p \in Pools, PoolInv(p), faults = 0,
         NEW d \in made(p), d.name[1] = "worker"
  PROVE  \E m \in made(p) : m.name = <<"manager", id[p]>>
<1> DEFINE m == containerOf(p, 0)
<1>1. m.name = <<"manager", id[p]>> /\ m.name[1] = "manager"  BY DEF containerOf
<1>2. started[p] \in Seq(Container) /\ todo[p] \in Seq(Container) /\ pc[p] \in Stages
  BY DEF TypeOK, PoolTypes
<1>3. current(p) = containerOf(p, Len(started[p]))  BY Current
<1>4. ASSUME started[p] # <<>>  PROVE m \in ToSet(started[p])
  <2>1. 1 \in 1..Len(started[p])  BY <1>2, <1>4
  <2>2. started[p][1] = m  BY <2>1 DEF PoolInv, StartedInv
  <2> QED  BY <1>2, <2>1, <2>2 DEF ToSet
<1>5. ASSUME d \in ToSet(started[p])  PROVE started[p] # <<>>
  BY <1>2, <1>5 DEF ToSet
<1>6. CASE pc[p] \in {"idle", "network"}  BY <1>6 DEF PoolInv, MadeInv
<1>7. CASE pc[p] \in {"creating", "inspecting", "dialing", "ready"}
  <2>1. made(p) = ToSet(started[p])  BY <1>7 DEF PoolInv, MadeInv
  <2> QED  BY <2>1, <1>1, <1>4, <1>5
<1>8. CASE pc[p] = "starting"
  <2>1. made(p) = ToSet(started[p]) \cup {current(p)}  BY <1>8 DEF PoolInv, MadeInv
  <2>2. CASE started[p] = <<>>
    <3>1. d = m  BY <1>3, <1>5, <2>1, <2>2
    <3> QED  BY <3>1, <1>1
  <2>3. CASE started[p] # <<>>  BY <1>1, <1>4, <2>1, <2>3
  <2> QED  BY <2>2, <2>3
<1>9. CASE pc[p] \in {"cleaning", "cleaned"}
  <2>1. IsFiniteSet(left(p)) /\ Cardinality(left(p)) <= 0
    BY <1>9 DEF PoolInv, TodoInv
  <2>2. Cardinality(left(p)) = 0  BY <2>1, FS_CardinalityType
  <2>3. left(p) = {}  BY <2>1, <2>2, FS_EmptySet
  <2>4. d \in ToSet(todo[p])  BY <2>3 DEF left
  <2>5. todo[p] # <<>>  BY <2>4, <1>2 DEF ToSet
  <2>6. pc[p] = "cleaning"  BY <1>9, <2>5 DEF PoolInv, TodoInv
  <2>7. m \in ToSet(todo[p])
    <3>1. todo[p][Len(todo[p])] = m  BY <2>5, <2>6 DEF PoolInv, TodoInv
    <3>2. Len(todo[p]) \in 1..Len(todo[p])  BY <1>2, <2>5
    <3> QED  BY <3>1, <3>2, <1>2 DEF ToSet
  <2>8. ToSet(todo[p]) \subseteq made(p)  BY <2>6 DEF PoolInv, TodoInv
  <2> QED  BY <1>1, <2>7, <2>8
<1>10. CASE pc[p] = "failed"  BY <1>10 DEF PoolInv, StrandedInv
<1> QED  BY <1>2, <1>6, <1>7, <1>8, <1>9, <1>10 DEF Stages

\* The name of the next worker of a pool that has its manager is free.
LEMMA WorkerNameFree ==
  ASSUME TypeOK, DaemonInv, SandboxInv, \A q \in Pools : PoolInv(q), faults = 0,
         NEW p \in Pools, pc[p] = "creating", started[p] # <<>>,
         NEW d \in containers
  PROVE  d.name # current(p).name
<1> SUFFICES ASSUME d.name = current(p).name  PROVE FALSE
  OBVIOUS
<1> DEFINE k == Len(started[p])
<1>1. started[p] \in Seq(Container)  BY DEF TypeOK, PoolTypes
<1>2. k \in Nat /\ k # 0  BY <1>1
<1>3. current(p) = containerOf(p, k)  BY Current
<1>4. d.name = <<"worker", id[p], k>>  BY <1>2, <1>3 DEF containerOf
<1>5. d.owner \in Pools \cup Sandboxes  BY DEF TypeOK, DaemonTypes, Container
<1>6. CASE d.owner \in Sandboxes
  <2>1. d.name = sname[d.owner]  BY <1>6 DEF SandboxInv, own
  <2>2. PICK i \in PoolIDs : d.name = <<"manager", i>>
    BY <1>6, <2>1 DEF TypeOK, SandboxTypes
  <2> QED  BY <1>4, <2>2
<1>7. CASE d.owner \in Pools
  <2> DEFINE q == d.owner
  <2>1. d \in made(q) /\ d.name[1] = "worker"  BY <1>4 DEF made
  <2>2. PICK m \in made(q) : m.name = <<"manager", id[q]>>  BY <1>7, <2>1, HasManager
  <2>3. id[q] = id[p]
    <3>1. d.name[2] = id[q]  BY <1>7 DEF DaemonInv
    <3> QED  BY <1>4, <3>1
  <2>4. made(p) = ToSet(started[p])  BY DEF PoolInv, MadeInv
  <2>5. started[p][1] \in made(p) /\ started[p][1] = containerOf(p, 0)
    <3>1. 1 \in 1..Len(started[p])  BY <1>2
    <3>2. started[p][1] = containerOf(p, 1 - 1)  BY <3>1 DEF PoolInv, StartedInv
    <3> QED  BY <3>1, <3>2, <2>4, <1>1 DEF ToSet
  <2>6. started[p][1].name = m.name  BY <2>2, <2>3, <2>5 DEF containerOf
  <2>7. started[p][1] = m  BY <2>2, <2>5, <2>6 DEF DaemonInv, made
  <2>8. q = p  BY <2>2, <2>5, <2>7 DEF made
  <2>9. d \in ToSet(started[p])  BY <2>1, <2>4, <2>8
  <2>10. PICK j \in 1..k : d = containerOf(p, j - 1)
    BY <2>9, Kept DEF PoolInv
  <2>11. j - 1 = k  BY <1>2, <1>3, <2>10, ContainersDiffer
  <2> QED  BY <1>2, <2>11
<1> QED  BY <1>5, <1>6, <1>7

\* A pool whose network has been removed runs nothing.
LEMMA LostNetwork ==
  ASSUME TypeOK, DaemonInv, NEW p \in Pools, PoolInv(p),
         pc[p] \in {"creating", "starting"}, networkID[p] \notin networks,
         NEW c \in made(p)
  PROVE  c.net = networkID[p] /\ c \notin running
<1>1. networkID[p] \in Network /\ networkID[p] # Bridge
  BY HostAssumption DEF PoolInv, StartedInv
<1>2. c.net = networkID[p]
  <2>1. CASE c \in ToSet(started[p])
    <3>1. PICK k \in 1..Len(started[p]) : c = containerOf(p, k - 1)
      BY <2>1, Kept DEF PoolInv
    <3> QED  BY <3>1 DEF containerOf
  <2>2. CASE c = current(p)  BY <2>2 DEF current
  <2> QED  BY <2>1, <2>2 DEF PoolInv, MadeInv
<1> QED  BY <1>1, <1>2 DEF DaemonInv

-----------------------------------------------------------------------------
(* The steps of a pool: its call, and what the others see of it *)

\* What a container that is to be created or started is.
LEMMA CurrentContainer ==
  ASSUME TypeOK, NEW p \in Pools, PoolInv(p), pc[p] \in {"creating", "starting"}
  PROVE  /\ current(p) \in Container /\ current(p).owner = p
         /\ current(p).net = networkID[p] /\ networkID[p] \in Network
         /\ current(p).name[2] = id[p]
<1>1. Len(started[p]) \in 0..count /\ networkID[p] \in Network
  BY Current, PoolAssumption DEF PoolInv, StartedInv
<1> QED  BY <1>1, Current, ContainerFields

\* What Cleanup is to remove is a container of the pool.
LEMMA NextToRemove ==
  ASSUME TypeOK, NEW p \in Pools, PoolInv(p), pc[p] = "cleaning", todo[p] # <<>>
  PROVE  /\ Head(todo[p]) \in Container /\ Head(todo[p]).owner = p
         /\ Head(todo[p]) \in made(p)
<1>1. todo[p] \in Seq(Container)  BY DEF TypeOK, PoolTypes
<1>2. Head(todo[p]) \in ToSet(todo[p])
  BY <1>1 DEF ToSet
<1> QED  BY <1>1, <1>2 DEF PoolInv, TodoInv, made

\* A step of a pool is a call to the daemon in its own name.
LEMMA PoolServed ==
  ASSUME TypeOK, NEW p \in Pools, PoolInv(p), PoolStep(p)
  PROVE  Served(p) /\ Counted
<1>0. MaxFaults \in Nat /\ faults \in 0..MaxFaults
  BY DockerAssumption DEF TypeOK, DaemonTypes
<1>a. ASSUME UNCHANGED daemon  PROVE Served(p)
  BY <1>a DEF Served
<1>b. ASSUME UNCHANGED faults \/ Fault  PROVE Counted
  BY <1>0, <1>b DEF Counted, Fault
<1>c. ASSUME UNCHANGED docker  PROVE UNCHANGED daemon /\ UNCHANGED faults
  BY <1>c DEF docker
<1>1. CASE ListNetworks(p)
  BY <1>1, <1>a, <1>b, <1>c DEF ListNetworks
<1>2. CASE MakeNetwork(p)
  <2> DEFINE n == [owner |-> p, name |-> id[p]]
  <2>1. n \in Network /\ ~Used(n)
    BY <1>2 DEF MakeNetwork, At, Network, Used, TypeOK, PoolTypes
  <2>2. CreateNetwork(n) => Served(p)  BY <2>1 DEF Served
  <2> QED  BY <1>2, <1>a, <1>b, <1>c, <2>2 DEF MakeNetwork, Succeeds, Fails
<1>3. CASE CreateContainer(p)
  <2>1. Create(current(p)) => Served(p)
    BY <1>3, CurrentContainer DEF CreateContainer, At, Served
  <2> QED  BY <1>3, <1>a, <1>b, <1>c, <2>1 DEF CreateContainer, Succeeds, Fails
<1>4. CASE StartContainer(p)
  <2>1. Start(current(p)) => Served(p)
    BY <1>4, CurrentContainer DEF StartContainer, At, Served
  <2> QED  BY <1>4, <1>a, <1>b, <1>c, <2>1 DEF StartContainer, Succeeds, Fails
<1>5. CASE InspectManager(p)
  BY <1>5, <1>a, <1>b, <1>c DEF InspectManager, Fails
<1>6. CASE Cleanup(p)
  BY <1>6, <1>a, <1>b, <1>c DEF Cleanup
<1>7. CASE CleanupContainer(p)
  <2>1. RemoveContainer(Head(todo[p])) => Served(p)
    BY <1>7, NextToRemove DEF CleanupContainer, At, Served
  <2> QED  BY <1>7, <1>a, <1>b, <1>c, <2>1 DEF CleanupContainer, Succeeds, Fails
<1>8. CASE CleanupNetwork(p)
  <2>1. networkID[p] \in Network
    BY <1>8 DEF CleanupNetwork, At, PoolInv, StartedInv
  <2>2. RemoveNetwork(networkID[p]) => Served(p)  BY <2>1 DEF Served
  <2> QED  BY <1>8, <1>a, <1>b, <1>c, <2>2 DEF CleanupNetwork, Succeeds, Fails
<1>9. CASE GetHealthStatus(p)
  BY <1>9, <1>a, <1>b, <1>c DEF GetHealthStatus
<1>10. CASE Inspect(p)
  BY <1>10, <1>a, <1>b DEF Inspect
<1> QED  BY <1>1, <1>2, <1>3, <1>4, <1>5, <1>6, <1>7, <1>8, <1>9, <1>10 DEF PoolStep

\* The variables of the other pools stay.
LEMMA PoolLocal ==
  ASSUME TypeOK, NEW p \in Pools, PoolStep(p), NEW q \in Pools, q # p
  PROVE  /\ pc'[q] = pc[q] /\ networkID'[q] = networkID[q] /\ id' = id
         /\ started'[q] = started[q] /\ todo'[q] = todo[q]
         /\ check'[q] = check[q]
<1> USE DEF Goto
<1>0. PoolTypes  BY DEF TypeOK
<1>1. ASSUME Fail(p)
      PROVE  /\ pc'[q] = pc[q] /\ networkID'[q] = networkID[q]
             /\ started'[q] = started[q]
  BY <1>0, <1>1 DEF Fail, PoolTypes
<1>2. CASE ListNetworks(p)  BY <1>0, <1>1, <1>2 DEF ListNetworks, PoolTypes
<1>3. CASE MakeNetwork(p)  BY <1>0, <1>1, <1>3 DEF MakeNetwork, PoolTypes
<1>4. CASE CreateContainer(p)  BY <1>0, <1>1, <1>4 DEF CreateContainer, PoolTypes
<1>5. CASE StartContainer(p)  BY <1>0, <1>1, <1>5 DEF StartContainer, PoolTypes
<1>6. CASE InspectManager(p)  BY <1>0, <1>1, <1>6 DEF InspectManager, PoolTypes
<1>7. CASE Cleanup(p)  BY <1>0, <1>7 DEF Cleanup, PoolTypes
<1>8. CASE CleanupContainer(p)  BY <1>0, <1>8 DEF CleanupContainer, PoolTypes
<1>9. CASE CleanupNetwork(p)  BY <1>0, <1>9 DEF CleanupNetwork, PoolTypes
<1>10. CASE GetHealthStatus(p)  BY <1>0, <1>10 DEF GetHealthStatus, PoolTypes
<1>11. CASE Inspect(p)  BY <1>0, <1>11 DEF Inspect, PoolTypes
<1> QED
  BY <1>2, <1>3, <1>4, <1>5, <1>6, <1>7, <1>8, <1>9, <1>10, <1>11 DEF PoolStep

\* To a pool, a step of another one is a call by somebody else.
LEMMA OthersQuiet ==
  ASSUME TypeOK, NEW p \in Pools, PoolStep(p), Served(p), NEW q \in Pools, q # p
  PROVE  Quiet(q)
BY PoolLocal, ServedOthers, ServedNetworks DEF Quiet

-----------------------------------------------------------------------------
(* Each step of a pool keeps what holds of it *)

\* Appending adds one element to a sequence and to its set.
LEMMA AppendSet ==
  ASSUME NEW S, NEW s \in Seq(S), NEW e \in S
  PROVE  /\ Append(s, e) \in Seq(S) /\ Len(Append(s, e)) = Len(s) + 1
         /\ ToSet(Append(s, e)) = ToSet(s) \cup {e}
<1>1. /\ Append(s, e) \in Seq(S) /\ Len(Append(s, e)) = Len(s) + 1
      /\ \A i \in 1..Len(s) : Append(s, e)[i] = s[i]
      /\ Append(s, e)[Len(s) + 1] = e
  OBVIOUS
<1>2. Len(s) \in Nat  OBVIOUS
<1>3. ASSUME NEW x \in ToSet(Append(s, e))  PROVE x \in ToSet(s) \cup {e}
  BY <1>1, <1>2, <1>3 DEF ToSet
<1>4. ASSUME NEW x \in ToSet(s) \cup {e}  PROVE x \in ToSet(Append(s, e))
  BY <1>1, <1>2, <1>4 DEF ToSet
<1> QED  BY <1>1, <1>3, <1>4

\* The history of the health checks keeps its type.
LEMMA WatchType ==
  ASSUME Watch  PROVE steady' \in [Pools -> BOOLEAN]
BY DEF Watch

\* A construction that fails keeps nothing.
LEMMA FailInv ==
  ASSUME TypeOK, NEW p \in Pools, Fail(p), id' = id, todo' = todo, check' = check,
         healthy' = healthy, Watch, PoolInv(p), pc[p] # "cleaning", StrandedInv(p)'
  PROVE  PoolTypes' /\ PoolInv(p)'
<1>1. PoolTypes  BY DEF TypeOK
<1>2. PoolTypes'  BY <1>1, WatchType DEF PoolTypes, Fail, Goto, Stages
<1>3. pc'[p] = "failed" /\ started'[p] = <<>> /\ todo'[p] = <<>>
  BY <1>1 DEF PoolTypes, Fail, Goto, PoolInv, TodoInv
<1>4. StartedInv(p)'  BY <1>3 DEF StartedInv, Finished
<1>5. MadeInv(p)' /\ TodoInv(p)'  BY <1>3 DEF MadeInv, TodoInv
<1> QED  BY <1>2, <1>4, <1>5 DEF PoolInv

\* After a call failed, a construction may leave anything behind.
LEMMA FaultStrandsFreely ==
  ASSUME TypeOK, Fault, NEW p  PROVE StrandedInv(p)'
BY DEF TypeOK, DaemonTypes, Fault, StrandedInv

\* createNetwork adopts a network that exists or goes on to make one.
LEMMA ListNetworksKeeps ==
  ASSUME TypeOK, NEW p \in Pools, PoolInv(p), ListNetworks(p), Watch
  PROVE  PoolTypes' /\ PoolInv(p)'
<1>0. pc[p] = "idle" /\ id' = id /\ todo' = todo /\ check' = check /\ healthy' = healthy
  BY DEF ListNetworks, At
<1>1. CASE Fail(p) /\ Fault
  BY <1>0, <1>1, FailInv, FaultStrandsFreely
<1>2. ASSUME UNCHANGED <<started, docker>>,
             \/ /\ Goto(p, "network") /\ UNCHANGED networkID
             \/ /\ Goto(p, "creating")
                /\ \E n \in Network : networkID' = [networkID EXCEPT ![p] = n]
      PROVE  PoolTypes' /\ PoolInv(p)'
  <2>1. PoolTypes  BY DEF TypeOK
  <2>2. PoolTypes'
    <3>1. pc' \in [Pools -> Stages]  BY <1>2, <2>1 DEF PoolTypes, Goto, Stages
    <3>2. networkID' \in [Pools -> Network \cup {None}]
      BY <1>2, <2>1 DEF PoolTypes
    <3> QED  BY <1>0, <1>2, <2>1, <3>1, <3>2, WatchType DEF PoolTypes
  <2>3. made(p) = {} /\ started[p] = <<>> /\ todo[p] = <<>>
    BY <1>0 DEF PoolInv, MadeInv, StartedInv, TodoInv
  <2>4. made(p)' = {} /\ started'[p] = <<>> /\ todo'[p] = <<>>
    BY <1>0, <1>2, <2>3 DEF made, docker, daemon
  <2>5. \/ pc'[p] = "network"
        \/ pc'[p] = "creating" /\ networkID'[p] \in Network
    BY <1>2, <2>1 DEF PoolTypes, Goto
  <2>6. StartedInv(p)'
    BY <2>4, <2>5, PoolAssumption DEF StartedInv, Finished
  <2>7. MadeInv(p)' /\ TodoInv(p)' /\ StrandedInv(p)'
    BY <2>4, <2>5 DEF MadeInv, TodoInv, StrandedInv, ToSet
  <2> QED  BY <2>2, <2>6, <2>7 DEF PoolInv
<1>3. networks \subseteq Network  BY DEF TypeOK, DaemonTypes
<1> QED  BY <1>1, <1>2, <1>3 DEF ListNetworks

\* createNetwork made its network, or the construction fails with nothing
\* made.
LEMMA MakeNetworkKeeps ==
  ASSUME TypeOK, NEW p \in Pools, PoolInv(p), MakeNetwork(p), Watch
  PROVE  PoolTypes' /\ PoolInv(p)'
<1> DEFINE n == [owner |-> p, name |-> id[p]]
<1>0. pc[p] = "network" /\ id' = id /\ todo' = todo /\ check' = check /\ healthy' = healthy
  BY DEF MakeNetwork, At
<1>1. CASE Fails(TRUE, CreateNetwork(n)) /\ Fail(p)
  BY <1>0, <1>1, FailInv, FaultStrandsFreely DEF Fails
<1>2. ASSUME CreateNetwork(n), Goto(p, "creating"), UNCHANGED started,
             networkID' = [networkID EXCEPT ![p] = n]
      PROVE  PoolTypes' /\ PoolInv(p)'
  <2>1. PoolTypes  BY DEF TypeOK
  <2>2. n \in Network  BY <2>1 DEF PoolTypes, Network
  <2> HIDE DEF n
  <2>3. PoolTypes'  BY <1>0, <1>2, <2>1, <2>2, WatchType DEF PoolTypes, Goto, Stages
  <2>4. made(p) = {} /\ started[p] = <<>> /\ todo[p] = <<>>
    BY <1>0 DEF PoolInv, MadeInv, StartedInv, TodoInv
  <2>5. made(p)' = {} /\ started'[p] = <<>> /\ todo'[p] = <<>>
    BY <1>0, <1>2, <2>4 DEF made, CreateNetwork
  <2>6. pc'[p] = "creating" /\ networkID'[p] \in Network
    BY <1>2, <2>1, <2>2 DEF PoolTypes, Goto
  <2>7. StartedInv(p)'
    BY <2>5, <2>6, PoolAssumption DEF StartedInv, Finished
  <2>8. MadeInv(p)' /\ TodoInv(p)' /\ StrandedInv(p)'
    BY <2>5, <2>6 DEF MadeInv, TodoInv, StrandedInv, ToSet
  <2> QED  BY <2>3, <2>7, <2>8 DEF PoolInv
<1> QED  BY <1>1, <1>2 DEF MakeNetwork, Succeeds

\* A construction that fails although the daemon answered has lost its network,
\* or has made at most a manager that never ran.
LEMMA StrandedBy ==
  ASSUME TypeOK, DaemonInv, NEW p \in Pools, PoolInv(p), UNCHANGED docker, id' = id,
         pc[p] \in {"creating", "starting"},
         \/ networkID[p] \notin networks
         \/ /\ started[p] = <<>>
            /\ \A c \in made(p) : c \notin running \cup stopped
  PROVE  StrandedInv(p)'
<1>1. made(p)' = made(p) /\ running' = running /\ stopped' = stopped
      /\ networks' = networks /\ faults' = faults
  BY DEF docker, daemon, made
<1>2. \A c \in made(p) : c \notin running /\ (c \in stopped => c.net \notin networks)
  BY LostNetwork
<1>3. ASSUME faults = 0, NEW c \in made(p), c.name[1] = "worker"
      PROVE  \E m \in made(p) : m.name = <<"manager", id[p]>>
  BY <1>3, HasManager
<1> QED  BY <1>1, <1>2, <1>3 DEF StrandedInv

\* A container is made under a free name, or the construction fails; without a
\* failing call it is the name of a manager that was taken.
LEMMA CreateContainerKeeps ==
  ASSUME TypeOK, DaemonInv, SandboxInv, \A q \in Pools : PoolInv(q), NEW p \in Pools,
         CreateContainer(p), Watch
  PROVE  PoolTypes' /\ PoolInv(p)'
<1>0. /\ pc[p] = "creating" /\ id' = id /\ todo' = todo /\ check' = check
      /\ healthy' = healthy /\ PoolInv(p)
  BY DEF CreateContainer, At
<1> DEFINE c == current(p)
<1>a. /\ c \in Container /\ c.owner = p /\ c.net = networkID[p]
      /\ networkID[p] \in Network
  BY <1>0, CurrentContainer
<1>1. CASE Fail(p) /\ Fault  BY <1>0, <1>1, FailInv, FaultStrandsFreely
<1>2. CASE Fail(p) /\ ~CanCreate(c) /\ UNCHANGED docker
  <2>1. ASSUME faults = 0
        PROVE  \/ networkID[p] \notin networks
               \/ started[p] = <<>> /\ \A d \in made(p) : d \notin running \cup stopped
    <3>1. CASE started[p] = <<>>
      <4>1. made(p) = {}  BY <1>0, <3>1 DEF PoolInv, MadeInv, ToSet
      <4> QED  BY <3>1, <4>1
    <3>2. CASE started[p] # <<>>
      <4>1. \A d \in containers : d.name # c.name
        BY <1>0, <2>1, <3>2, WorkerNameFree
      <4> QED  BY <1>2, <1>a, <4>1 DEF CanCreate
    <3> QED  BY <3>1, <3>2
  <2>2. faults' = faults  BY <1>2 DEF docker
  <2>3. StrandedInv(p)'
    <3>1. CASE faults = 0  BY <1>0, <1>2, <2>1, <3>1, StrandedBy
    <3>2. CASE faults # 0  BY <2>2, <3>2 DEF StrandedInv
    <3> QED  BY <3>1, <3>2
  <2> QED  BY <1>0, <1>2, <2>3, FailInv
<1>3. ASSUME Create(c), Goto(p, "starting"), UNCHANGED <<networkID, started>>
      PROVE  PoolTypes' /\ PoolInv(p)'
  <2>1. PoolTypes  BY DEF TypeOK
  <2>2. PoolTypes'  BY <1>0, <1>3, <2>1, WatchType DEF PoolTypes, Goto, Stages
  <2>3. pc'[p] = "starting" /\ current(p)' = c
    BY <1>0, <1>3, <2>1 DEF PoolTypes, Goto, current
  <2>4. made(p)' = made(p) \cup {c}
    BY <1>3, <1>a DEF Create, made
  <2>5. \A k : containerOf(p, k)' = containerOf(p, k)
    BY <1>0, <1>3 DEF containerOf
  <2>6. c \notin running' \cup stopped'
    <3>1. c \notin containers  BY <1>3 DEF Create, CanCreate
    <3>2. running \cup stopped \subseteq containers  BY DEF TypeOK, DaemonTypes
    <3> QED  BY <1>3, <3>1, <3>2 DEF Create
  <2>7. StartedInv(p)'
    BY <1>0, <1>3, <2>3, <2>5 DEF PoolInv, StartedInv, Finished
  <2>8. MadeInv(p)'
    BY <1>0, <1>3, <2>3, <2>4, <2>6 DEF PoolInv, MadeInv
  <2>9. TodoInv(p)' /\ StrandedInv(p)'
    BY <1>0, <2>3 DEF PoolInv, TodoInv, StrandedInv
  <2> QED  BY <2>2, <2>7, <2>8, <2>9 DEF PoolInv
<1> QED  BY <1>1, <1>2, <1>3 DEF CreateContainer, Succeeds, Fails

\* A container that was started is kept; one that was not is what stays
\* unknown to a construction that fails.
LEMMA StartContainerKeeps ==
  ASSUME TypeOK, DaemonInv, NEW p \in Pools, PoolInv(p), StartContainer(p), Watch
  PROVE  PoolTypes' /\ PoolInv(p)'
<1>0. /\ pc[p] = "starting" /\ id' = id /\ todo' = todo /\ check' = check
      /\ healthy' = healthy
  BY DEF StartContainer, At
<1> DEFINE c == current(p)
           k == Len(started[p])
<1>a. /\ c \in Container /\ c.owner = p /\ c.net = networkID[p]
      /\ networkID[p] \in Network
  BY <1>0, CurrentContainer
<1>b. k \in Nat /\ c = containerOf(p, k) /\ k <= count
  BY <1>0, Current DEF PoolInv, StartedInv
<1>c. made(p) = ToSet(started[p]) \cup {c} /\ c \notin running \cup stopped
  BY <1>0 DEF PoolInv, MadeInv
<1>1. CASE Fail(p) /\ Fault  BY <1>0, <1>1, FailInv, FaultStrandsFreely
<1>2. CASE Fail(p) /\ ~CanStart(c) /\ UNCHANGED docker
  <2>1. \/ networkID[p] \notin networks
        \/ started[p] = <<>> /\ \A d \in made(p) : d \notin running \cup stopped
    <3>1. c \in containers  BY <1>c DEF made
    <3>2. CASE c.name[1] = "manager"
      <4>1. k = 0  BY <1>b, <3>2 DEF containerOf
      <4>2. started[p] \in Seq(Container)  BY DEF TypeOK, PoolTypes
      <4>3. started[p] = <<>>  BY <4>1, <4>2
      <4>4. made(p) = {c}  BY <1>c, <4>3 DEF ToSet
      <4> QED  BY <1>c, <4>3, <4>4
    <3>3. CASE c.name[1] # "manager"  BY <1>2, <1>a, <3>1, <3>3 DEF CanStart, publishes
    <3> QED  BY <3>2, <3>3
  <2>2. StrandedInv(p)'  BY <1>0, <1>2, <2>1, StrandedBy
  <2> QED  BY <1>0, <1>2, <2>2, FailInv
<1>3. ASSUME Start(c), started' = [started EXCEPT ![p] = Append(@, c)],
             Goto(p, afterStart(p)), UNCHANGED networkID
      PROVE  PoolTypes' /\ PoolInv(p)'
  <2>1. PoolTypes  BY DEF TypeOK
  <2>2. started[p] \in Seq(Container)  BY <2>1 DEF PoolTypes
  <2>3. started'[p] = Append(started[p], c)  BY <1>3, <2>1 DEF PoolTypes
  <2>4. /\ started'[p] \in Seq(Container) /\ Len(started'[p]) = k + 1
        /\ ToSet(started'[p]) = ToSet(started[p]) \cup {c}
    BY <1>a, <2>2, <2>3, AppendSet
  <2>5. /\ pc'[p] = afterStart(p)
        /\ afterStart(p) \in {"inspecting", "creating", "dialing"}
    BY <1>3, <2>1 DEF PoolTypes, Goto, afterStart
  <2>6. PoolTypes'
    <3>1. pc' \in [Pools -> Stages]  BY <1>3, <2>1, <2>5 DEF PoolTypes, Goto, Stages
    <3>2. started' \in [Pools -> Seq(Container)]  BY <1>3, <2>1, <2>3, <2>4 DEF PoolTypes
    <3> QED  BY <1>0, <1>3, <2>1, <3>1, <3>2, WatchType DEF PoolTypes
  <2>7. made(p)' = made(p)  BY <1>3 DEF Start, made
  <2>8. \A j : containerOf(p, j)' = containerOf(p, j)  BY <1>0, <1>3 DEF containerOf
  <2>9. StartedInv(p)'
    <3>1. ASSUME NEW j \in 1..Len(started'[p])
          PROVE  started'[p][j] = containerOf(p, j - 1)
      <4>1. CASE j = k + 1
        <5>1. started'[p][j] = c  BY <2>2, <2>3, <4>1
        <5>2. j - 1 = k  BY <1>b, <4>1
        <5> QED  BY <1>b, <5>1, <5>2
      <4>2. CASE j # k + 1
        <5>1. j \in 1..k  BY <1>b, <2>4, <4>2
        <5>2. started'[p][j] = started[p][j]  BY <2>2, <2>3, <5>1
        <5> QED  BY <5>1, <5>2 DEF PoolInv, StartedInv
      <4> QED  BY <4>1, <4>2
    <3>2. CASE started[p] = <<>>
      <4>1. k = 0 /\ pc'[p] = "inspecting"  BY <2>5, <3>2 DEF afterStart
      <4> QED  BY <1>3, <1>a, <2>4, <2>8, <3>1, <4>1 DEF StartedInv, Finished
    <3>3. CASE started[p] # <<>> /\ k < count
      <4>1. pc'[p] = "creating"  BY <2>5, <3>3 DEF afterStart
      <4>2. k + 1 <= count  BY <1>b, <3>3, PoolAssumption
      <4> QED  BY <1>3, <1>a, <2>4, <2>8, <3>1, <4>1, <4>2 DEF StartedInv, Finished
    <3>4. CASE started[p] # <<>> /\ ~(k < count)
      <4>1. pc'[p] = "dialing"  BY <2>5, <3>4 DEF afterStart
      <4>2. k + 1 = count + 1  BY <1>b, <3>4, PoolAssumption
      <4> QED  BY <1>3, <1>a, <2>4, <2>8, <3>1, <4>1, <4>2 DEF StartedInv, Finished
    <3> QED  BY <3>2, <3>3, <3>4
  <2>10. MadeInv(p)'
    BY <1>c, <2>4, <2>5, <2>7 DEF MadeInv
  <2>11. TodoInv(p)' /\ StrandedInv(p)'
    BY <1>0, <2>5 DEF PoolInv, TodoInv, StrandedInv
  <2> QED  BY <2>6, <2>9, <2>10, <2>11 DEF PoolInv
<1> QED  BY <1>1, <1>2, <1>3 DEF StartContainer, Succeeds, Fails

\* initWorkerClient changes nothing but the place of the construction.
LEMMA InspectManagerKeeps ==
  ASSUME TypeOK, NEW p \in Pools, PoolInv(p), InspectManager(p), Watch
  PROVE  PoolTypes' /\ PoolInv(p)'
<1>0. /\ pc[p] \in {"inspecting", "dialing"} /\ id' = id /\ todo' = todo
      /\ check' = check /\ healthy' = healthy
  BY DEF InspectManager
<1>1. PoolTypes  BY DEF TypeOK
<1>2. started[p][1] \in containers
  <2>1. started[p] \in Seq(Container)  BY <1>1 DEF PoolTypes
  <2>2. Len(started[p]) \in {1, count + 1}
    BY <1>0 DEF PoolInv, StartedInv, Finished
  <2>3. started[p][1] \in ToSet(started[p])  BY <2>1, <2>2, PoolAssumption DEF ToSet
  <2> QED  BY <1>0, <2>3 DEF PoolInv, MadeInv, made
<1>3. CASE Fail(p) /\ Fault  BY <1>0, <1>3, FailInv, FaultStrandsFreely
<1>4. ASSUME Goto(p, IF At(p, "dialing") THEN "ready"
                     ELSE IF count > 0 THEN "creating" ELSE "dialing"),
             UNCHANGED <<networkID, started, docker>>
      PROVE  PoolTypes' /\ PoolInv(p)'
  <2>1. PoolTypes'  BY <1>0, <1>1, <1>4, WatchType DEF PoolTypes, Goto, Stages
  <2>2. made(p)' = made(p)  BY <1>4 DEF docker, daemon, made
  <2>3. \A k : containerOf(p, k)' = containerOf(p, k)  BY <1>0, <1>4 DEF containerOf
  <2>4. \/ pc[p] = "dialing" /\ pc'[p] = "ready"
        \/ pc[p] = "inspecting" /\ count > 0 /\ pc'[p] = "creating"
        \/ pc[p] = "inspecting" /\ count = 0 /\ pc'[p] = "dialing"
    BY <1>0, <1>1, <1>4, PoolAssumption DEF PoolTypes, Goto, At
  <2>5. StartedInv(p)'
    <3>1. started' = started /\ networkID' = networkID /\ networkID[p] \in Network
      BY <1>0, <1>4 DEF PoolInv, StartedInv
    <3>2. \A k \in 1..Len(started[p]) : started[p][k] = containerOf(p, k - 1)
      BY DEF PoolInv, StartedInv
    <3>3. IF pc[p] = "dialing" THEN Len(started[p]) = count + 1 ELSE Len(started[p]) = 1
      BY <1>0 DEF PoolInv, StartedInv, Finished
    <3>4. count > 0 => 1 <= count  BY PoolAssumption
    <3>5. \A k \in 1..Len(started'[p]) : started'[p][k] = containerOf(p, k - 1)'
      BY <2>3, <3>1, <3>2
    <3>6. CASE pc[p] = "dialing" /\ pc'[p] = "ready"
      BY <3>1, <3>3, <3>5, <3>6 DEF StartedInv, Finished
    <3>7. CASE pc[p] = "inspecting" /\ count > 0 /\ pc'[p] = "creating"
      BY <3>1, <3>3, <3>4, <3>5, <3>7 DEF StartedInv, Finished
    <3>8. CASE pc[p] = "inspecting" /\ count = 0 /\ pc'[p] = "dialing"
      BY <3>1, <3>3, <3>5, <3>8 DEF StartedInv, Finished
    <3> QED  BY <2>4, <3>6, <3>7, <3>8
  <2>6. MadeInv(p)' /\ TodoInv(p)' /\ StrandedInv(p)'
    BY <1>0, <1>4, <2>2, <2>4 DEF PoolInv, MadeInv, TodoInv, StrandedInv
  <2> QED  BY <2>1, <2>5, <2>6 DEF PoolInv
<1> QED  BY <1>2, <1>3, <1>4 DEF InspectManager, Fails

\* Nothing of a finished pool changes but its stage and what is to be removed.
LEMMA FinishedStarted ==
  ASSUME TypeOK, NEW p \in Pools, PoolInv(p), pc[p] \in Finished, pc'[p] \in Finished,
         UNCHANGED <<id, networkID, started>>
  PROVE  StartedInv(p)' /\ StrandedInv(p)'
<1>1. \A k : containerOf(p, k)' = containerOf(p, k)  BY DEF containerOf
<1> QED  BY <1>1 DEF PoolInv, StartedInv, StrandedInv, Finished

\* The first element of a sequence goes to its end.
LEMMA Rotated ==
  ASSUME NEW S, NEW s \in Seq(S), s # <<>>
  PROVE  LET t == Append(Tail(s), Head(s))
         IN /\ t \in Seq(S) /\ t # <<>> /\ Len(t) = Len(s)
            /\ \A i \in 1..Len(s) : t[i] = IF i < Len(s) THEN s[i + 1] ELSE s[1]
            /\ ToSet(t) = ToSet(s)
<1> DEFINE t == Append(Tail(s), Head(s))
<1>1. Len(s) \in Nat /\ Len(s) > 0  OBVIOUS
<1>2. /\ Tail(s) \in Seq(S) /\ Len(Tail(s)) = Len(s) - 1 /\ Head(s) = s[1] /\ s[1] \in S
      /\ \A i \in 1..(Len(s) - 1) : Tail(s)[i] = s[i + 1]
  BY <1>1
<1>3. /\ t \in Seq(S) /\ Len(t) = Len(s)
      /\ \A i \in 1..Len(s) : t[i] = IF i < Len(s) THEN s[i + 1] ELSE s[1]
  <2> DEFINE u == Tail(s)
  <2>1. u \in Seq(S) /\ Len(u) = Len(s) - 1 /\ t = Append(u, s[1]) /\ s[1] \in S
    BY <1>2
  <2>2. \A i \in 1..(Len(s) - 1) : u[i] = s[i + 1]  BY <1>2
  <2> HIDE DEF u, t
  <2>3. /\ t \in Seq(S) /\ Len(t) = Len(s)
        /\ \A i \in 1..Len(u) : t[i] = u[i]
        /\ t[Len(u) + 1] = s[1]
    BY <1>1, <2>1
  <2> QED  BY <1>1, <2>1, <2>2, <2>3
<1> HIDE DEF t
<1>4. t # <<>>  BY <1>1, <1>3
<1>5. ASSUME NEW x \in ToSet(t)  PROVE x \in ToSet(s)
  <2>1. PICK i \in 1..Len(s) : x = t[i]  BY <1>3 DEF ToSet
  <2> QED  BY <1>1, <1>3, <2>1 DEF ToSet
<1>6. ASSUME NEW x \in ToSet(s)  PROVE x \in ToSet(t)
  <2>1. PICK i \in 1..Len(s) : x = s[i]  BY DEF ToSet
  <2>2. CASE i = 1
    <3>1. t[Len(s)] = x /\ Len(s) \in 1..Len(t)  BY <1>1, <1>3, <2>1, <2>2
    <3> QED  BY <1>3, <3>1 DEF ToSet
  <2>3. CASE i # 1
    <3>1. t[i - 1] = x /\ i - 1 \in 1..Len(t)  BY <1>1, <1>3, <2>1, <2>3
    <3> QED  BY <1>3, <3>1 DEF ToSet
  <2> QED  BY <2>2, <2>3
<1> QED  BY <1>3, <1>4, <1>5, <1>6 DEF t

\* Cleanup begins with all that the pool has made.
LEMMA CleanupKeeps ==
  ASSUME TypeOK, NEW p \in Pools, PoolInv(p), Cleanup(p), Watch
  PROVE  PoolTypes' /\ PoolInv(p)'
<1> DEFINE s == started[p]
           t == Append(Tail(started[p]), Head(started[p]))
<1>0. /\ pc[p] = "ready" /\ Goto(p, "cleaning") /\ todo' = [todo EXCEPT ![p] = t]
      /\ UNCHANGED <<docker, id, networkID, started, check, healthy>>
  BY DEF Cleanup, At
<1>1. PoolTypes  BY DEF TypeOK
<1>2. s \in Seq(Container) /\ Len(s) = count + 1 /\ s # <<>>
  BY <1>0, <1>1, PoolAssumption DEF PoolTypes, PoolInv, StartedInv, Finished
<1>3. /\ t \in Seq(Container) /\ t # <<>> /\ Len(t) = count + 1 /\ ToSet(t) = ToSet(s)
      /\ \A i \in 1..(count + 1) : t[i] = IF i < count + 1 THEN s[i + 1] ELSE s[1]
  BY <1>2, Rotated
<1>4. pc'[p] = "cleaning" /\ todo'[p] = t  BY <1>0, <1>1 DEF PoolTypes, Goto
<1> HIDE DEF t
<1>5. PoolTypes'  BY <1>0, <1>1, <1>3, WatchType DEF PoolTypes, Goto, Stages
<1>6. made(p)' = made(p) /\ made(p) = ToSet(s) /\ faults' = faults /\ faults \in Nat
  BY <1>0, DockerAssumption
  DEF docker, daemon, made, PoolInv, MadeInv, TypeOK, DaemonTypes
<1>7. StartedInv(p)' /\ StrandedInv(p)'
  BY <1>0, <1>4, FinishedStarted DEF Finished
<1>8. MadeInv(p)'  BY <1>0, <1>4, <1>6 DEF MadeInv
<1>9. TodoInv(p)'
  <2>1. \A k \in 1..(count + 1) : s[k] = containerOf(p, k - 1)
    BY <1>2 DEF PoolInv, StartedInv
  <2>2. \A k : containerOf(p, k)' = containerOf(p, k)  BY <1>0 DEF containerOf
  <2>3. ASSUME NEW i \in 1..(count + 1), NEW j \in 1..(count + 1), s[i] = s[j]
        PROVE  i = j
    <3>1. containerOf(p, i - 1).name = containerOf(p, j - 1).name
      BY <2>1, <2>3
    <3>2. i - 1 \in Nat /\ j - 1 \in Nat  OBVIOUS
    <3>3. i - 1 = j - 1  BY <3>1, <3>2, ContainersDiffer
    <3> QED  BY <3>3, PoolAssumption
  <2>4. ASSUME NEW i \in 1..(count + 1), NEW j \in 1..(count + 1), t[i] = t[j]
        PROVE  i = j
    <3> DEFINE from(k) == IF k < count + 1 THEN k + 1 ELSE 1
    <3>1. \A k \in 1..(count + 1) : from(k) \in 1..(count + 1) /\ t[k] = s[from(k)]
      BY <1>3, PoolAssumption
    <3>2. from(i) = from(j)  BY <2>3, <2>4, <3>1
    <3> QED  BY <3>2, PoolAssumption
  <2>5. t[count + 1] = containerOf(p, 0)
    <3>1. t[count + 1] = s[1]  BY <1>3, PoolAssumption
    <3>2. s[1] = containerOf(p, 1 - 1)  BY <2>1, PoolAssumption
    <3> QED  BY <3>1, <3>2
  <2>6. left(p)' = {}  BY <1>3, <1>4, <1>6 DEF left
  <2>7. IsFiniteSet(left(p)') /\ Cardinality(left(p)') <= faults'
    BY <1>6, <2>6, FS_EmptySet
  <2> QED
    BY <1>3, <1>4, <1>6, <2>2, <2>4, <2>5, <2>7 DEF TodoInv
<1> QED  BY <1>5, <1>7, <1>8, <1>9 DEF PoolInv

\* A sequence without its first element.
LEMMA Shorter ==
  ASSUME NEW S, NEW s \in Seq(S), s # <<>>,
         \A i, j \in 1..Len(s) : s[i] = s[j] => i = j
  PROVE  /\ Tail(s) \in Seq(S) /\ Len(Tail(s)) = Len(s) - 1
         /\ \A i \in 1..Len(Tail(s)) : Tail(s)[i] = s[i + 1]
         /\ \A i, j \in 1..Len(Tail(s)) : Tail(s)[i] = Tail(s)[j] => i = j
         /\ ToSet(Tail(s)) = ToSet(s) \ {Head(s)}
         /\ Head(s) \in ToSet(s)
<1> DEFINE u == Tail(s)
<1>1. Len(s) \in Nat /\ Len(s) > 0  OBVIOUS
<1>2. /\ u \in Seq(S) /\ Len(u) = Len(s) - 1 /\ Head(s) = s[1]
      /\ \A i \in 1..Len(u) : u[i] = s[i + 1]
  BY <1>1
<1> HIDE DEF u
<1>3. ASSUME NEW i \in 1..Len(u), NEW j \in 1..Len(u), u[i] = u[j]  PROVE i = j
  <2>1. s[i + 1] = s[j + 1] /\ i + 1 \in 1..Len(s) /\ j + 1 \in 1..Len(s)
    BY <1>1, <1>2, <1>3
  <2>2. i + 1 = j + 1  BY <2>1
  <2> QED  BY <2>2
<1>4. ASSUME NEW x \in ToSet(u)  PROVE x \in ToSet(s) /\ x # Head(s)
  <2>1. PICK i \in 1..Len(u) : x = u[i]  BY <1>2 DEF ToSet
  <2>2. x = s[i + 1] /\ i + 1 \in 1..Len(s) /\ 1 \in 1..Len(s) /\ i + 1 # 1
    BY <1>1, <1>2, <2>1
  <2>3. x # s[1]  BY <2>2
  <2> QED  BY <1>2, <2>2, <2>3 DEF ToSet
<1>5. ASSUME NEW x \in ToSet(s), x # Head(s)  PROVE x \in ToSet(u)
  <2>1. PICK i \in 1..Len(s) : x = s[i]  BY DEF ToSet
  <2>2. i # 1  BY <1>2, <1>5, <2>1
  <2>3. u[i - 1] = x /\ i - 1 \in 1..Len(u)  BY <1>1, <1>2, <2>1, <2>2
  <2> QED  BY <1>2, <2>3 DEF ToSet
<1>6. Head(s) \in ToSet(s)  BY <1>1, <1>2 DEF ToSet
<1> QED  BY <1>2, <1>3, <1>4, <1>5, <1>6 DEF u

\* Cleanup goes on after an error, which leaves one container more.
LEMMA CleanupContainerKeeps ==
  ASSUME TypeOK, NEW p \in Pools, PoolInv(p), CleanupContainer(p), Watch
  PROVE  PoolTypes' /\ PoolInv(p)'
<1> DEFINE s == todo[p]
           h == Head(todo[p])
<1>0. /\ pc[p] = "cleaning" /\ s # <<>> /\ todo' = [todo EXCEPT ![p] = Tail(s)]
      /\ UNCHANGED <<id, pc, networkID, started, check, healthy>>
  BY DEF CleanupContainer, At, TypeOK, PoolTypes
<1>1. PoolTypes  BY DEF TypeOK
<1>2. s \in Seq(Container)  BY <1>1 DEF PoolTypes
<1>3. /\ ToSet(s) \subseteq made(p)
      /\ \A i, j \in 1..Len(s) : s[i] = s[j] => i = j
      /\ s[Len(s)] = containerOf(p, 0)
      /\ IsFiniteSet(left(p)) /\ Cardinality(left(p)) <= faults
  BY <1>0 DEF PoolInv, TodoInv
<1>4. /\ Tail(s) \in Seq(Container) /\ Len(Tail(s)) = Len(s) - 1
      /\ \A i \in 1..Len(Tail(s)) : Tail(s)[i] = s[i + 1]
      /\ \A i, j \in 1..Len(Tail(s)) : Tail(s)[i] = Tail(s)[j] => i = j
      /\ ToSet(Tail(s)) = ToSet(s) \ {h} /\ h \in ToSet(s)
  BY <1>0, <1>2, <1>3, Shorter
<1>5. todo'[p] = Tail(s) /\ pc'[p] = "cleaning"  BY <1>0, <1>1 DEF PoolTypes
<1>6. PoolTypes'  BY <1>0, <1>1, <1>4, WatchType DEF PoolTypes
<1>7. StartedInv(p)' /\ StrandedInv(p)'
  BY <1>0, FinishedStarted DEF Finished
<1>8. faults \in Nat /\ h \in containers /\ h \in made(p)
  BY <1>3, <1>4, DockerAssumption DEF TypeOK, DaemonTypes, made
\* The container is gone, or a call has failed.
<1>9. \/ made(p)' = made(p) \ {h} /\ faults' \in {faults, faults + 1}
      \/ made(p)' = made(p) /\ faults' = faults + 1
  <2>1. RemoveContainer(h) => made(p)' = made(p) \ {h}
    BY DEF RemoveContainer, made
  <2>2. UNCHANGED daemon => made(p)' = made(p)  BY DEF daemon, made
  <2> QED  BY <1>8, <2>1, <2>2 DEF CleanupContainer, Succeeds, Fails, Fault
<1>10. MadeInv(p)'
  <2>1. made(p) \subseteq ToSet(started[p])  BY <1>0 DEF PoolInv, MadeInv
  <2>2. made(p)' \subseteq ToSet(started'[p])  BY <1>0, <1>9, <2>1
  <2> QED  BY <1>5, <2>2 DEF MadeInv
<1>11. TodoInv(p)'
  <2>1. IsFiniteSet(left(p)') /\ Cardinality(left(p)') <= faults'
    <3>1. CASE made(p)' = made(p) \ {h} /\ faults' \in {faults, faults + 1}
      <4>1. left(p)' = left(p)  BY <1>3, <1>4, <1>5, <3>1 DEF left
      <4>2. Cardinality(left(p)) \in Nat  BY <1>3, FS_CardinalityType
      <4> QED  BY <1>3, <1>8, <3>1, <4>1, <4>2
    <3>2. CASE made(p)' = made(p) /\ faults' = faults + 1
      <4>1. left(p)' = left(p) \cup {h} /\ h \notin left(p)
        BY <1>3, <1>4, <1>5, <3>2 DEF left
      <4>2. /\ IsFiniteSet(left(p) \cup {h})
            /\ Cardinality(left(p) \cup {h}) = Cardinality(left(p)) + 1
        BY <1>3, <4>1, FS_AddElement
      <4>3. Cardinality(left(p)) \in Nat  BY <1>3, FS_CardinalityType
      <4> QED  BY <1>3, <1>8, <3>2, <4>1, <4>2, <4>3
    <3> QED  BY <1>9, <3>1, <3>2
  <2>2. ToSet(todo'[p]) \subseteq made(p)'  BY <1>3, <1>4, <1>5, <1>9
  <2>3. ASSUME Tail(s) # <<>>  PROVE Tail(s)[Len(Tail(s))] = containerOf(p, 0)
    <3>1. Len(Tail(s)) \in 1..Len(Tail(s))  BY <1>4, <2>3
    <3>2. Tail(s)[Len(Tail(s))] = s[Len(Tail(s)) + 1]  BY <1>4, <3>1
    <3>3. Len(Tail(s)) + 1 = Len(s)  BY <1>2, <1>4
    <3> QED  BY <1>3, <3>2, <3>3
  <2>4. containerOf(p, 0)' = containerOf(p, 0)  BY <1>0 DEF containerOf
  <2> QED  BY <1>4, <1>5, <2>1, <2>2, <2>3, <2>4 DEF TodoInv
<1> QED  BY <1>6, <1>7, <1>10, <1>11 DEF PoolInv

\* Cleanup ends with its network, and leaves the containers as they are.
LEMMA CleanupNetworkKeeps ==
  ASSUME TypeOK, NEW p \in Pools, PoolInv(p), CleanupNetwork(p), Watch
  PROVE  PoolTypes' /\ PoolInv(p)'
<1>0. /\ pc[p] = "cleaning" /\ todo[p] = <<>> /\ Goto(p, "cleaned")
      /\ UNCHANGED <<id, networkID, started, todo, check, healthy>>
  BY DEF CleanupNetwork, At
<1>1. PoolTypes  BY DEF TypeOK
<1>2. PoolTypes'  BY <1>0, <1>1, WatchType DEF PoolTypes, Goto, Stages
<1>3. pc'[p] = "cleaned"  BY <1>0, <1>1 DEF PoolTypes, Goto
<1>4. faults \in Nat /\ made(p)' = made(p) /\ faults' \in {faults, faults + 1}
  BY DockerAssumption
  DEF TypeOK, DaemonTypes, CleanupNetwork, Succeeds, Fails, Fault, docker, daemon,
      RemoveNetwork, made
<1>5. StartedInv(p)' /\ StrandedInv(p)'
  BY <1>0, <1>3, FinishedStarted DEF Finished
<1>6. MadeInv(p)'  BY <1>0, <1>3, <1>4 DEF PoolInv, MadeInv
<1>7. TodoInv(p)'
  <2>1. IsFiniteSet(left(p)) /\ Cardinality(left(p)) <= faults
    BY <1>0 DEF PoolInv, TodoInv
  <2>2. left(p)' = left(p)  BY <1>0, <1>4 DEF left
  <2>3. Cardinality(left(p)) \in Nat  BY <2>1, FS_CardinalityType
  <2>4. IsFiniteSet(left(p)') /\ Cardinality(left(p)') <= faults'
    BY <1>4, <2>1, <2>2, <2>3
  <2> QED  BY <1>0, <1>3, <2>4 DEF TodoInv
<1> QED  BY <1>2, <1>5, <1>6, <1>7 DEF PoolInv

\* GetHealthStatus and its inspections leave the pool as it is.
LEMMA HealthKeeps ==
  ASSUME TypeOK, DaemonInv, NEW p \in Pools, PoolInv(p), CheckInv(p), Counted,
         GetHealthStatus(p) \/ Inspect(p), Watch
  PROVE  PoolTypes' /\ PoolInv(p)'
<1>0. UNCHANGED <<daemon, id, pc, networkID, started, todo>>
  BY DEF GetHealthStatus, Inspect, docker
<1>1. PoolTypes  BY DEF TypeOK
<1>2. check' \in [Pools -> 0..(count + 1)] /\ healthy' \in [Pools -> BOOLEAN]
  <2>1. CASE GetHealthStatus(p)  BY <1>1, <2>1, PoolAssumption DEF GetHealthStatus, PoolTypes
  <2>2. CASE Inspect(p)
    <3>1. check[p] \in 0..(count + 1) /\ check[p] # 0 /\ pc[p] \in Finished
          /\ check[p] <= Len(started[p]) /\ Len(started[p]) = count + 1
      BY <1>1, <2>2 DEF PoolTypes, Inspect, CheckInv, PoolInv, StartedInv
    <3>2. check[p] # Len(started[p]) => check[p] + 1 \in 0..(count + 1)
      BY <3>1, PoolAssumption
    <3>3. /\ check' = [check EXCEPT ![p] = check'[p]]
          /\ check'[p] \in {0, check[p] + 1}
          /\ check'[p] # 0 => check[p] # Len(started[p])
      BY <1>1, <2>2 DEF Inspect, PoolTypes
    <3>4. check'[p] \in 0..(count + 1)  BY <3>2, <3>3, PoolAssumption
    <3>5. healthy' \in [Pools -> BOOLEAN]  BY <1>1, <2>2 DEF Inspect, PoolTypes
    <3> QED  BY <1>1, <3>3, <3>4, <3>5 DEF PoolTypes
  <2> QED  BY <2>1, <2>2
<1>3. PoolTypes'  BY <1>0, <1>1, <1>2, WatchType DEF PoolTypes
<1>4. Quiet(p)  BY <1>0 DEF Quiet, daemon, made
<1> QED  BY <1>3, <1>4, Frame

-----------------------------------------------------------------------------
(* What a step of a pool makes of the daemon's state *)

\* The manager of a pool that is under construction is there.
LEMMA ManagerThere ==
  ASSUME TypeOK, NEW p \in Pools, PoolInv(p), pc[p] \in {"inspecting", "dialing"}
  PROVE  started[p][1] \in containers
<1>1. started[p] \in Seq(Container)  BY DEF TypeOK, PoolTypes
<1>2. Len(started[p]) \in {1, count + 1}  BY DEF PoolInv, StartedInv, Finished
<1>3. started[p][1] \in ToSet(started[p])  BY <1>1, <1>2, PoolAssumption DEF ToSet
<1> QED  BY <1>3 DEF PoolInv, MadeInv, made

\* What a step of pool p adds, and where the pool goes.
LEMMA PoolMakes ==
  ASSUME TypeOK, NEW p \in Pools, PoolStep(p)
  PROVE  /\ \A c \in containers' : c \in containers \/ (c = current(p) /\ pc[p] = "creating")
         /\ \A n \in networks' : n \in networks \/ (n.owner = p /\ pc'[p] \in {"creating", "failed"})
         /\ networkID'[p] \in {None, networkID[p]} \cup networks \cup networks'
         /\ pc'[p] \in {"idle", "network"} => pc[p] \in {"idle", "network"}
<1> USE DEF At, Succeeds, Fails
<1>0. PoolTypes  BY DEF TypeOK
<1>a. ASSUME Fail(p)  PROVE pc'[p] = "failed" /\ networkID'[p] = None
  BY <1>0, <1>a DEF Fail, Goto, PoolTypes
<1>b. \A l : Goto(p, l) => pc'[p] = l  BY <1>0 DEF Goto, PoolTypes
<1>c. ASSUME UNCHANGED daemon  PROVE containers' = containers /\ networks' = networks
  BY <1>c DEF daemon
<1>d. ASSUME UNCHANGED docker  PROVE UNCHANGED daemon
  BY <1>d DEF docker
<1>1. CASE ListNetworks(p)
  <2>1. networkID'[p] \in {None, networkID[p]} \cup networks
    BY <1>0, <1>1, <1>a DEF ListNetworks, PoolTypes
  <2> QED  BY <1>1, <2>1, <1>a, <1>b, <1>c, <1>d DEF ListNetworks
<1>2. CASE MakeNetwork(p)
  <2> DEFINE n == [owner |-> p, name |-> id[p]]
  <2>1. CreateNetwork(n) => containers' = containers /\ networks' = networks \cup {n}
    BY DEF CreateNetwork
  <2>2. networkID' = [networkID EXCEPT ![p] = n] => networkID'[p] = n
    BY <1>0 DEF PoolTypes
  <2>3. n.owner = p  OBVIOUS
  <2> HIDE DEF n
  <2> QED  BY <1>2, <1>a, <1>b, <1>c, <1>d, <2>1, <2>2, <2>3 DEF MakeNetwork, n
<1>3. CASE CreateContainer(p)
  <2>1. Create(current(p)) => /\ containers' = containers \cup {current(p)}
                              /\ networks' = networks
    BY DEF Create
  <2> QED  BY <1>3, <1>a, <1>b, <1>c, <1>d, <2>1 DEF CreateContainer
<1>4. CASE StartContainer(p)
  <2>1. Start(current(p)) => containers' = containers /\ networks' = networks
    BY DEF Start
  <2>2. afterStart(p) \notin {"idle", "network"}  BY DEF afterStart
  <2> QED  BY <1>4, <1>a, <1>b, <1>c, <1>d, <2>1, <2>2 DEF StartContainer
<1>5. CASE InspectManager(p)
  BY <1>5, <1>a, <1>b, <1>c, <1>d DEF InspectManager
<1>6. CASE Cleanup(p)
  BY <1>6, <1>b, <1>c, <1>d DEF Cleanup
<1>7. CASE CleanupContainer(p)
  <2>1. RemoveContainer(Head(todo[p])) =>
          containers' \subseteq containers /\ networks' = networks
    BY DEF RemoveContainer
  <2> QED  BY <1>7, <1>c, <1>d, <2>1 DEF CleanupContainer
<1>8. CASE CleanupNetwork(p)
  <2>1. RemoveNetwork(networkID[p]) =>
          containers' = containers /\ networks' \subseteq networks
    BY DEF RemoveNetwork
  <2> QED  BY <1>8, <1>b, <1>c, <1>d, <2>1 DEF CleanupNetwork
<1>9. CASE GetHealthStatus(p) \/ Inspect(p)
  BY <1>9, <1>c, <1>d DEF GetHealthStatus, Inspect
<1> QED  BY <1>1, <1>2, <1>3, <1>4, <1>5, <1>6, <1>7, <1>8, <1>9 DEF PoolStep

\* What a pool makes is in its name, and on a network that was made.
LEMMA PoolKeepsDaemon ==
  ASSUME TypeOK, DaemonInv, NEW p \in Pools, PoolInv(p), PoolStep(p), Served(p),
         DaemonTypes'
  PROVE  DaemonInv'
<1>1. /\ \A c \in containers' : c \in containers \/ (c = current(p) /\ pc[p] = "creating")
      /\ \A n \in networks' : n \in networks \/ (n.owner = p /\ pc'[p] \in {"creating", "failed"})
      /\ networkID'[p] \in {None, networkID[p]} \cup networks \cup networks'
      /\ pc'[p] \in {"idle", "network"} => pc[p] \in {"idle", "network"}
  BY PoolMakes
<1>2. \A q \in Pools : q # p =>
        pc'[q] = pc[q] /\ networkID'[q] = networkID[q]
  BY PoolLocal
<1>3. \A n \in Network : n.owner \in Pools  BY DEF Network
<1>4. ASSUME NEW n, Used(n)  PROVE Used(n)'
  BY <1>1, <1>2, <1>3, <1>4 DEF Used
<1>5. /\ \A c, d \in containers' : c.name = d.name => c = d
      /\ \A c \in running' : c.net \in networks' \cup {Bridge}
  BY ServedNames
<1>6. ASSUME NEW n \in networks'  PROVE Used(n)'
  <2>1. CASE n \in networks  BY <1>4, <2>1 DEF DaemonInv
  <2>2. CASE n.owner = p /\ pc'[p] \in {"creating", "failed"}
    BY <2>2 DEF Used, DaemonTypes
  <2> QED  BY <1>1, <2>1, <2>2
<1>7. ASSUME NEW q \in Pools, NEW n \in Network, networkID'[q] = n  PROVE Used(n)'
  <2>1. CASE n = networkID[q]  BY <1>4, <2>1 DEF DaemonInv
  <2>2. CASE n \in networks'  BY <1>6, <2>2
  <2>3. CASE n \in networks  BY <1>4, <2>3 DEF DaemonInv
  <2>4. n # None  BY HostAssumption
  <2> QED  BY <1>1, <1>2, <1>7, <2>1, <2>2, <2>3, <2>4
<1>8. ASSUME NEW c \in containers', c.owner \in Pools
      PROVE  Used(c.net)' /\ c.name[2] = id'[c.owner]
  <2>1. id' = id  BY DEF PoolStep, ListNetworks, MakeNetwork, CreateContainer,
      StartContainer, InspectManager, Cleanup, CleanupContainer, CleanupNetwork,
      GetHealthStatus, Inspect
  <2>2. CASE c \in containers
    <3>1. Used(c.net) /\ c.name[2] = id[c.owner]  BY <1>8, <2>2 DEF DaemonInv
    <3> QED  BY <1>4, <2>1, <3>1
  <2>3. CASE c = current(p) /\ pc[p] = "creating"
    <3>1. /\ c.owner = p /\ c.net = networkID[p] /\ networkID[p] \in Network
          /\ c.name[2] = id[p]
      BY <2>3, CurrentContainer
    <3>2. Used(c.net)  BY <3>1 DEF DaemonInv
    <3> QED  BY <1>4, <2>1, <3>1, <3>2
  <2> QED  BY <1>1, <2>2, <2>3
<1>9. \A q \in Pools : networkID'[q] \in Network => Used(networkID[q])'
  BY <1>7
<1> QED  BY <1>5, <1>6, <1>8, <1>9 DEF DaemonInv

-----------------------------------------------------------------------------
(* The check of a pool's health *)

\* A check goes on as long as its pool is finished.
LEMMA CheckFrame ==
  ASSUME TypeOK, NEW q \in Pools, CheckInv(q), Watch, check'[q] = check[q],
         pc[q] \in Finished => pc'[q] \in Finished /\ started'[q] = started[q]
  PROVE  CheckInv(q)'
<1> SUFFICES ASSUME check[q] # 0
             PROVE  /\ pc'[q] \in Finished /\ check[q] <= Len(started'[q])
                    /\ steady'[q] => \A j \in 1..(check[q] - 1) : started'[q][j] \in running'
  BY DEF CheckInv, Finished
<1>1. started[q] \in Seq(Container) /\ check[q] \in Nat
  BY PoolAssumption DEF TypeOK, PoolTypes
<1>2. pc[q] \in Finished /\ check[q] <= Len(started[q])  BY DEF CheckInv
<1>3. steady'[q] => /\ steady[q]
                    /\ \A c \in ToSet(started[q]) : c \in running <=> c \in running'
  BY DEF Watch
<1>4. \A j \in 1..(check[q] - 1) : started[q][j] \in ToSet(started[q])
  BY <1>1, <1>2 DEF ToSet
<1> QED  BY <1>2, <1>3, <1>4 DEF CheckInv

\* A check goes past a container only while it runs.
LEMMA PoolKeepsCheck ==
  ASSUME TypeOK, NEW p \in Pools, PoolInv(p), PoolStep(p), Watch, CheckInv(p)
  PROVE  CheckInv(p)'
<1>0. PoolTypes  BY DEF TypeOK
<1>1. CASE \/ ListNetworks(p) \/ MakeNetwork(p) \/ CreateContainer(p)
           \/ StartContainer(p) \/ InspectManager(p)
  <2>1. pc[p] \notin Finished /\ check' = check
    BY <1>1 DEF ListNetworks, MakeNetwork, CreateContainer, StartContainer,
                InspectManager, At, Finished
  <2> QED  BY <2>1, CheckFrame
<1>2. CASE Cleanup(p) \/ CleanupContainer(p) \/ CleanupNetwork(p)
  <2>1. pc'[p] \in Finished /\ check' = check /\ started' = started
    BY <1>0, <1>2
    DEF PoolTypes, Cleanup, CleanupContainer, CleanupNetwork, At, Goto, Finished
  <2> QED  BY <2>1, CheckFrame
<1>3. CASE GetHealthStatus(p)
  <2>1. /\ pc'[p] \in Finished /\ pc[p] \in Finished /\ check'[p] = 1
        /\ started' = started
    BY <1>0, <1>3 DEF PoolTypes, GetHealthStatus, Finished
  <2>2. Len(started[p]) = count + 1  BY <2>1 DEF PoolInv, StartedInv
  <2>3. check'[p] <= Len(started'[p])  BY <2>1, <2>2, PoolAssumption
  <2> QED  BY <2>1, <2>3 DEF CheckInv
<1>4. CASE Inspect(p)
  <2> DEFINE k == check[p]
  <2>1. /\ k \in Nat /\ k # 0 /\ started[p] \in Seq(Container)
        /\ pc[p] \in Finished /\ k <= Len(started[p])
        /\ pc' = pc /\ started' = started /\ running' = running
    BY <1>0, <1>4, PoolAssumption DEF PoolTypes, Inspect, CheckInv, daemon
  <2>2. \/ check'[p] = 0
        \/ check'[p] = k + 1 /\ k # Len(started[p]) /\ started[p][k] \in running
    BY <1>0, <1>4 DEF Inspect, PoolTypes
  <2>3. CASE check'[p] = 0  BY <2>3 DEF CheckInv
  <2>4. CASE check'[p] = k + 1 /\ k # Len(started[p]) /\ started[p][k] \in running
    <3>1. k + 1 <= Len(started[p])  BY <2>1, <2>4
    <3>2. steady'[p] => steady[p]  BY <2>1 DEF Watch
    <3>3. steady[p] => \A j \in 1..(k - 1) : started[p][j] \in running
      BY <2>1 DEF CheckInv
    <3>4. steady'[p] => \A j \in 1..((k + 1) - 1) : started[p][j] \in running
      BY <2>1, <2>4, <3>2, <3>3
    <3> QED  BY <2>1, <2>4, <3>1, <3>4 DEF CheckInv
  <2> QED  BY <2>2, <2>3, <2>4
<1> QED  BY <1>1, <1>2, <1>3, <1>4 DEF PoolStep

-----------------------------------------------------------------------------
(* The network of a pool that is cleaned up *)

\* A pool that has started a container keeps its network, or has lost it.
LEMMA Foothold ==
  ASSUME TypeOK, DaemonInv, SandboxInv, \A q \in Pools : PoolInv(q),
         NEW p \in Pools, PoolStep(p), Counted, faults' = 0, started[p] # <<>>
  PROVE  \/ networkID'[p] = networkID[p] /\ started'[p] # <<>>
         \/ networkID[p] \notin networks'
<1>0. PoolTypes  BY DEF TypeOK
<1>1. PoolInv(p) /\ faults = 0 /\ ~Fault
  BY DockerAssumption DEF TypeOK, DaemonTypes, Counted, Fault
<1>2. pc[p] \notin {"idle", "network"}  BY <1>1 DEF PoolInv, StartedInv
<1>3. ASSUME UNCHANGED <<networkID, started>>
      PROVE  networkID'[p] = networkID[p] /\ started'[p] # <<>>
  BY <1>3
<1>4. ASSUME UNCHANGED docker  PROVE networks' = networks
  BY <1>4 DEF docker, daemon
<1>5. CASE CreateContainer(p)
  <2>1. CASE ~CanCreate(current(p)) /\ UNCHANGED docker
    <3>1. pc[p] = "creating"  BY <1>5 DEF CreateContainer, At
    <3>2. current(p).net \notin networks
      BY <1>1, <2>1, <3>1, WorkerNameFree DEF CanCreate
    <3> QED  BY <1>4, <2>1, <3>1, <3>2, <1>1, CurrentContainer
  <2> QED  BY <1>1, <1>3, <1>5, <2>1 DEF CreateContainer, Succeeds, Fails
<1>6. CASE StartContainer(p)
  <2>0. pc[p] = "starting"  BY <1>6 DEF StartContainer, At
  <2>1. CASE ~CanStart(current(p)) /\ UNCHANGED docker
    <3>1. current(p) \in containers
      BY <1>1, <2>0 DEF PoolInv, MadeInv, made
    <3>2. current(p).name[1] = "worker"  BY DEF current
    <3>3. current(p).net \notin networks  BY <2>1, <3>1, <3>2 DEF CanStart, publishes
    <3> QED  BY <1>1, <1>4, <2>0, <2>1, <3>3, CurrentContainer
  <2>2. CASE started' = [started EXCEPT ![p] = Append(@, current(p))] /\ UNCHANGED networkID
    <3>1. started'[p] = Append(started[p], current(p))  BY <1>0, <2>2 DEF PoolTypes
    <3>2. current(p) \in Container /\ started[p] \in Seq(Container)
      BY <1>0, <1>1, <2>0, CurrentContainer DEF PoolTypes
    <3>3. Len(started'[p]) = Len(started[p]) + 1  BY <3>1, <3>2, AppendSet
    <3>4. started'[p] # <<>>  BY <3>2, <3>3
    <3> QED  BY <2>2, <3>4
  <2> QED  BY <1>1, <1>6, <2>1, <2>2 DEF StartContainer, Succeeds, Fails
<1>7. CASE InspectManager(p)
  BY <1>1, <1>3, <1>7, ManagerThere DEF InspectManager, Fails
<1>8. CASE \/ Cleanup(p) \/ CleanupContainer(p) \/ CleanupNetwork(p)
           \/ GetHealthStatus(p) \/ Inspect(p)
  BY <1>3, <1>8 DEF Cleanup, CleanupContainer, CleanupNetwork, GetHealthStatus, Inspect
<1> QED
  BY <1>2, <1>5, <1>6, <1>7, <1>8 DEF PoolStep, ListNetworks, MakeNetwork, At

\* While the others keep their network or have lost it, so does the claim.
LEMMA NetworkFrame ==
  ASSUME TypeOK, DaemonInv, Counted, NEW q \in Pools, NetworkInv(q),
         pc'[q] = "cleaned" => pc[q] = "cleaned" /\ networkID'[q] = networkID[q],
         \A n \in networks' : n \in networks \/ ~Used(n),
         StartedInv(q),
         faults' = 0 => \A r \in Pools : started[r] # <<>> =>
           \/ networkID'[r] = networkID[r] /\ started'[r] # <<>>
           \/ networkID[r] \notin networks'
  PROVE  NetworkInv(q)'
<1> SUFFICES ASSUME pc'[q] = "cleaned", faults' = 0, networkID'[q] \in networks'
             PROVE  \E r \in Pools \ {q} : networkID'[r] = networkID'[q] /\ started'[r] # <<>>
  BY DEF NetworkInv
<1>1. pc[q] = "cleaned" /\ networkID'[q] = networkID[q]  OBVIOUS
<1>2. faults = 0  BY DockerAssumption DEF TypeOK, DaemonTypes, Counted
<1>3. networkID[q] \in Network  BY <1>1 DEF StartedInv
<1>4. networkID[q] \in networks  BY <1>1, <1>3 DEF DaemonInv
<1>5. PICK r \in Pools \ {q} : networkID[r] = networkID[q] /\ started[r] # <<>>
  BY <1>1, <1>2, <1>4 DEF NetworkInv
<1> QED  BY <1>1, <1>5

\* The network could not be removed, as somebody runs on it.
LEMMA NetworkLeft ==
  ASSUME TypeOK, DaemonInv, SandboxInv, \A q \in Pools : PoolInv(q),
         NEW p \in Pools, CleanupNetwork(p), Counted
  PROVE  NetworkInv(p)'
<1> DEFINE n == networkID[p]
<1> SUFFICES ASSUME faults' = 0, n \in networks'
             PROVE  \E q \in Pools \ {p} : networkID[q] = n /\ started[q] # <<>>
  BY DEF NetworkInv, CleanupNetwork
<1>1. /\ pc[p] = "cleaning" /\ todo[p] = <<>> /\ PoolInv(p)
      /\ UNCHANGED <<networkID, started>>
  BY DEF CleanupNetwork, At
<1>2. faults = 0 /\ ~Fault
  BY DockerAssumption DEF TypeOK, DaemonTypes, Counted, Fault
<1>3. n \in networks /\ ~CanRemoveNetwork(n)
  BY <1>2 DEF CleanupNetwork, Succeeds, Fails, RemoveNetwork, docker, daemon
<1>4. PICK c \in running : c.net = n  BY <1>3 DEF CanRemoveNetwork
<1>5. c \in containers /\ c.owner \in Pools \cup Sandboxes
  BY DEF TypeOK, DaemonTypes, Container
<1>6. n \in Network /\ n # Bridge
  BY <1>1, HostAssumption DEF PoolInv, StartedInv
<1>7. c.owner \in Pools
  <2>1. c.owner \in Sandboxes => c.net = Bridge  BY <1>5 DEF SandboxInv, own
  <2> QED  BY <1>4, <1>5, <1>6, <2>1
<1> DEFINE q == c.owner
<1>8. PoolInv(q) /\ c \in made(q)  BY <1>5, <1>7 DEF made
<1>9. q # p
  <2>1. IsFiniteSet(left(p)) /\ Cardinality(left(p)) <= 0
    BY <1>1, <1>2 DEF PoolInv, TodoInv
  <2>2. Cardinality(left(p)) = 0  BY <2>1, FS_CardinalityType
  <2>3. left(p) = {}  BY <2>1, <2>2, FS_EmptySet
  <2>4. made(p) = {}  BY <1>1, <2>3 DEF left, ToSet
  <2> QED  BY <1>8, <2>4
<1>10. c \in ToSet(started[q])
  <2>1. pc[q] \in Stages  BY <1>7 DEF TypeOK, PoolTypes
  <2>2. pc[q] # "failed"  BY <1>2, <1>8 DEF PoolInv, StrandedInv
  <2> QED  BY <1>8, <2>1, <2>2 DEF PoolInv, MadeInv, Stages
<1>11. started[q] # <<>>  BY <1>10 DEF ToSet
<1>12. c.net = networkID[q]
  <2>1. PICK k \in 1..Len(started[q]) : c = containerOf(q, k - 1)
    BY <1>7, <1>8, <1>10, Kept DEF PoolInv
  <2> QED  BY <2>1 DEF containerOf
<1> QED  BY <1>4, <1>7, <1>9, <1>11, <1>12

\* While no call fails, a network outlives its pool only for another one on
\* it.
LEMMA PoolKeepsNetworks ==
  ASSUME TypeOK, DaemonInv, SandboxInv, \A q \in Pools : PoolInv(q) /\ NetworkInv(q),
         NEW p \in Pools, PoolStep(p), Counted, Served(p), NEW q \in Pools
  PROVE  NetworkInv(q)'
<1>1. \A n \in networks' : n \in networks \/ ~Used(n)  BY ServedNetworks
<1>2. ASSUME faults' = 0, NEW r \in Pools, started[r] # <<>>
      PROVE  \/ networkID'[r] = networkID[r] /\ started'[r] # <<>>
             \/ networkID[r] \notin networks'
  <2>1. CASE r = p  BY <1>2, <2>1, Foothold
  <2>2. CASE r # p  BY <1>2, <2>2, PoolLocal
  <2> QED  BY <2>1, <2>2
<1>3. CASE q # p  BY <1>1, <1>2, <1>3, PoolLocal, NetworkFrame DEF PoolInv
<1>4. CASE q = p /\ CleanupNetwork(p)  BY <1>4, NetworkLeft
<1>5. CASE q = p /\ ~CleanupNetwork(p)
  <2>0. PoolTypes  BY DEF TypeOK
  <2>a. \A l : Goto(p, l) => pc'[p] = l  BY <2>0 DEF Goto, PoolTypes
  <2>1. pc'[p] = "cleaned" => pc[p] = "cleaned" /\ networkID'[p] = networkID[p]
    <3>1. Fail(p) => pc'[p] = "failed"  BY <2>a DEF Fail
    <3>2. afterStart(p) # "cleaned"  BY DEF afterStart
    <3> QED
      BY <1>5, <2>a, <3>1, <3>2
      DEF PoolStep, ListNetworks, MakeNetwork, CreateContainer, StartContainer,
          InspectManager, Cleanup, CleanupContainer, GetHealthStatus, Inspect, At
  <2> QED  BY <1>1, <1>2, <1>5, <2>1, NetworkFrame DEF PoolInv
<1> QED  BY <1>3, <1>4, <1>5

-----------------------------------------------------------------------------
(* The sandboxes, and the containers that stop and restart *)

\* The container of a sandbox, on the default network.
LEMMA OwnContainer ==
  ASSUME TypeOK, NEW s \in Sandboxes
  PROVE  own(s) \in Container /\ own(s).owner = s /\ own(s).net = Bridge
BY DEF TypeOK, SandboxTypes, own, Container

\* A step by which no pool moves.
LEMMA PoolsStill ==
  ASSUME IInv, UNCHANGED pool, Watch, Counted, DaemonTypes', \A q \in Pools : Quiet(q)
  PROVE  PoolTypes' /\ \A q \in Pools : PoolInv(q)' /\ NetworkInv(q)' /\ CheckInv(q)'
<1>1. PoolTypes'
  BY WatchType DEF IInv, TypeOK, PoolTypes, pool
<1>2. ASSUME NEW q \in Pools  PROVE PoolInv(q)' /\ NetworkInv(q)' /\ CheckInv(q)'
  <2>1. PoolInv(q)'  BY Frame DEF IInv
  <2>2. CheckInv(q)'  BY CheckFrame DEF IInv, pool
  <2>3. NetworkInv(q)'  BY NetworkFrame DEF IInv, pool, Quiet, PoolInv
  <2> QED  BY <2>1, <2>2, <2>3
<1> QED  BY <1>1, <1>2

\* What it leaves of the daemon's invariant to show.
LEMMA DaemonStill ==
  ASSUME DaemonInv, UNCHANGED pool, networks' \subseteq networks,
         \A c \in containers' : c \in containers \/ c.owner \notin Pools,
         \A c, d \in containers' : c.name = d.name => c = d,
         \A c \in running' : c.net \in networks' \cup {Bridge}
  PROVE  DaemonInv'
<1>1. id' = id /\ pc' = pc /\ networkID' = networkID  BY DEF pool
<1>2. \A n : Used(n)' <=> Used(n)  BY <1>1 DEF Used
<1>3. \A q \in Pools : networkID'[q] \in Network => Used(networkID[q])'
  BY <1>1, <1>2 DEF DaemonInv
<1>4. \A n \in networks' : Used(n)'  BY <1>2 DEF DaemonInv
<1>5. \A c \in containers' : c.owner \in Pools => Used(c.net)' /\ c.name[2] = id'[c.owner]
  BY <1>1, <1>2 DEF DaemonInv
<1> QED  BY <1>3, <1>4, <1>5 DEF DaemonInv

\* A call for a sandbox's container.
SandboxCall(s) ==
  \/ UNCHANGED daemon
  \/ \E c \in Container : c.owner = s /\ (Create(c) \/ Start(c) \/ RemoveContainer(c))

\* To the pools, a call of a sandbox is one by somebody else.
LEMMA SandboxServed ==
  ASSUME IInv, NEW s \in Sandboxes, SandboxCall(s), Counted, UNCHANGED pool, Watch
  PROVE  /\ DaemonTypes' /\ PoolTypes' /\ DaemonInv'
         /\ \A q \in Pools : PoolInv(q)' /\ NetworkInv(q)' /\ CheckInv(q)'
<1>1. Served(s)  BY DEF SandboxCall, Served
<1>2. s \notin Pools  BY HostAssumption
<1>3. DaemonTypes'  BY <1>1, ServedTypes DEF IInv
<1>4. /\ networks' = networks
      /\ \A c \in containers' : c \in containers \/ c.owner \notin Pools
  BY <1>2 DEF SandboxCall, daemon, Create, Start, RemoveContainer
<1>5. DaemonInv'  BY <1>1, <1>4, ServedNames, DaemonStill DEF IInv
<1>6. \A q \in Pools : Quiet(q)
  BY <1>1, <1>2, <1>4, ServedOthers DEF Quiet, pool
<1> QED  BY <1>3, <1>5, <1>6, PoolsStill

\* The steps of a sandbox's construction.
LEMMA SandboxCalls ==
  ASSUME IInv, NEW s \in Sandboxes, SandboxStep(s)
  PROVE  SandboxCall(s) /\ Counted
<1>0. faults \in 0..MaxFaults /\ MaxFaults \in Nat
  BY DockerAssumption DEF IInv, TypeOK, DaemonTypes
<1>1. /\ Create(own(s)) => SandboxCall(s)
      /\ Start(own(s)) => SandboxCall(s)
      /\ RemoveContainer(own(s)) => SandboxCall(s)
      /\ UNCHANGED daemon => SandboxCall(s)
  BY OwnContainer DEF IInv, SandboxCall
<1>2. UNCHANGED faults \/ Fault => Counted  BY <1>0 DEF Counted, Fault
<1>3. UNCHANGED docker => UNCHANGED daemon /\ UNCHANGED faults  BY DEF docker
<1>4. CASE CreateSandbox(s)
  BY <1>1, <1>2, <1>3, <1>4 DEF CreateSandbox, Succeeds, Fails
<1>5. CASE StartSandbox(s)
  BY <1>1, <1>2, <1>3, <1>5 DEF StartSandbox, Succeeds, Fails
<1>6. CASE RemoveSandbox(s)
  BY <1>1, <1>2, <1>3, <1>6 DEF RemoveSandbox, Succeeds, Fails
<1>7. ASSUME NEW d \in Deleters, InspectSandbox(d, s)  PROVE SandboxCall(s) /\ Counted
  BY <1>1, <1>2, <1>7 DEF InspectSandbox
<1> QED  BY <1>4, <1>5, <1>6, <1>7 DEF SandboxStep

\* A sandbox's own variables, and what is known of its container.
LEMMA SandboxKeeps ==
  ASSUME IInv, NEW s \in Sandboxes, SandboxStep(s)
  PROVE  SandboxTypes' /\ SandboxInv' /\ FailedCreateLeavesNothing'
<1>0. SandboxTypes  BY DEF IInv, TypeOK
<1>1. sname' = sname
  BY DEF SandboxStep, CreateSandbox, StartSandbox, RemoveSandbox, InspectSandbox
<1>2. \A t : own(t)' = own(t)  BY <1>1 DEF own
<1>3. own(s) \in Container /\ own(s).owner = s  BY OwnContainer DEF IInv
<1>4. \A t \in Sandboxes : t # s => own(t) # own(s)  BY DEF own
<1>5. ASSUME sandbox[s] = "idle"  PROVE own(s) \notin containers
  BY <1>3, <1>5 DEF IInv, SandboxInv
<1>6. \A t \in Sandboxes : sandbox[t] = "error" /\ t \notin lost => own(t) \notin containers
  BY DEF IInv, FailedCreateLeavesNothing
<1>7. /\ \A c \in containers : c.owner \in Sandboxes =>
           c = own(c.owner) /\ sandbox[c.owner] # "idle"
      /\ \A d \in Deleters : \A c \in delete[d] : c.owner \in Sandboxes
  BY DEF IInv, SandboxInv
<1>a. UNCHANGED docker => containers' = containers /\ faults' = faults
  BY DEF docker, daemon
<1>b. UNCHANGED daemon => containers' = containers  BY DEF daemon
<1>c. Create(own(s)) => containers' = containers \cup {own(s)}  BY DEF Create
<1>d. Start(own(s)) => containers' = containers  BY DEF Start
<1>e. RemoveContainer(own(s)) => containers' = containers \ {own(s)}
  BY DEF RemoveContainer
<1>f. Fault => faults' # faults
  BY DockerAssumption DEF IInv, TypeOK, DaemonTypes, Fault
<1>g. noteFault(s) => /\ lost' \subseteq lost \cup {s} /\ lost \subseteq lost'
                      /\ (faults' # faults => s \in lost')
  BY DEF noteFault
\* The three claims from what a step does to sandbox, lost and containers.
<1>8. ASSUME NEW r \in Results \ {"idle"}, sandbox' = [sandbox EXCEPT ![s] = r],
             delete' = delete, lost \subseteq lost', lost' \subseteq lost \cup {s},
             containers' \ containers \subseteq {own(s)},
             r = "error" => own(s) \notin containers' \/ s \in lost'
      PROVE  SandboxTypes' /\ SandboxInv' /\ FailedCreateLeavesNothing'
  <2>1. SandboxTypes'  BY <1>0, <1>1, <1>8 DEF SandboxTypes
  <2>2. SandboxInv'
    <3>1. ASSUME NEW c \in containers', c.owner \in Sandboxes
          PROVE  c = own(c.owner) /\ sandbox'[c.owner] # "idle"
      <4>1. CASE c = own(s)  BY <1>0, <1>3, <1>8, <4>1 DEF SandboxTypes
      <4>2. CASE c \in containers  BY <1>0, <1>7, <1>8, <3>1, <4>2 DEF SandboxTypes
      <4> QED  BY <1>8, <4>1, <4>2
    <3> QED  BY <1>2, <1>7, <1>8, <3>1 DEF SandboxInv
  <2>3. ASSUME NEW t \in Sandboxes, sandbox'[t] = "error", t \notin lost'
        PROVE  own(t) \notin containers'
    <3>1. CASE t = s  BY <1>0, <1>8, <2>3, <3>1 DEF SandboxTypes
    <3>2. CASE t # s
      <4>1. sandbox[t] = "error" /\ t \notin lost
        BY <1>0, <1>8, <2>3, <3>2 DEF SandboxTypes
      <4> QED  BY <1>4, <1>6, <1>8, <3>2, <4>1
    <3> QED  BY <3>1, <3>2
  <2> QED  BY <1>2, <2>1, <2>2, <2>3 DEF FailedCreateLeavesNothing
<1>9. CASE CreateSandbox(s)
  <2>1. ASSUME Create(own(s)), sandbox' = [sandbox EXCEPT ![s] = "created"],
               UNCHANGED lost, delete' = delete
        PROVE  SandboxTypes' /\ SandboxInv' /\ FailedCreateLeavesNothing'
    BY <1>8, <1>c, <2>1 DEF Results
  <2>2. ASSUME UNCHANGED docker \/ Fails(CanCreate(own(s)), Create(own(s))),
               sandbox' = [sandbox EXCEPT ![s] = "error"], noteFault(s), delete' = delete,
               sandbox[s] = "idle"
        PROVE  SandboxTypes' /\ SandboxInv' /\ FailedCreateLeavesNothing'
    <3>1. \/ containers' = containers
          \/ faults' # faults /\ containers' \in {containers, containers \cup {own(s)}}
      BY <1>a, <1>b, <1>c, <1>f, <2>2 DEF Fails
    <3>2. own(s) \notin containers' \/ s \in lost'  BY <1>5, <1>g, <2>2, <3>1
    <3> QED  BY <1>8, <1>g, <2>2, <3>1, <3>2 DEF Results
  <2> QED  BY <1>9, <2>1, <2>2 DEF CreateSandbox, Succeeds
<1>10. CASE StartSandbox(s)
  <2>1. containers' = containers
    BY <1>10, <1>a, <1>b, <1>d DEF StartSandbox, Succeeds, Fails
  <2>2. /\ lost' = lost /\ delete' = delete
        /\ \/ sandbox' = [sandbox EXCEPT ![s] = "ok"]
           \/ sandbox' = [sandbox EXCEPT ![s] = "removing"]
    BY <1>10 DEF StartSandbox
  <2> QED  BY <1>8, <2>1, <2>2 DEF Results
<1>11. CASE RemoveSandbox(s)
  <2>1. /\ noteFault(s) /\ delete' = delete
        /\ sandbox' = [sandbox EXCEPT ![s] = "error"]
    BY <1>11 DEF RemoveSandbox
  <2>2. \/ containers' = containers \ {own(s)}
        \/ own(s) \notin containers /\ containers' = containers
        \/ faults' # faults /\ containers' = containers
    BY <1>11, <1>a, <1>b, <1>e, <1>f DEF RemoveSandbox, Succeeds, Fails
  <2> QED  BY <1>8, <1>g, <2>1, <2>2 DEF Results
<1>12. ASSUME NEW d \in Deleters, InspectSandbox(d, s)
       PROVE  SandboxTypes' /\ SandboxInv' /\ FailedCreateLeavesNothing'
  <2>1. /\ sandbox' = sandbox /\ lost' = lost /\ containers' = containers
        /\ delete' = delete \/ delete' = [delete EXCEPT ![d] = {own(s)}]
    BY <1>12 DEF InspectSandbox, daemon
  <2>2. SandboxTypes'  BY <1>0, <1>1, <1>3, <2>1 DEF SandboxTypes
  <2>3. \A e \in Deleters : \A c \in delete'[e] : c.owner \in Sandboxes
    BY <1>0, <1>3, <1>7, <2>1 DEF SandboxTypes
  <2>4. SandboxInv'  BY <1>2, <1>7, <2>1, <2>3 DEF SandboxInv
  <2>5. FailedCreateLeavesNothing'
    BY <1>2, <1>6, <2>1 DEF FailedCreateLeavesNothing
  <2> QED  BY <2>2, <2>4, <2>5
<1> QED  BY <1>9, <1>10, <1>11, <1>12 DEF SandboxStep

\* DeleteContainerSandbox removes a container of a sandbox.
LEMMA DeleteKeeps ==
  ASSUME IInv, NEW d \in Deleters, DeleteSandbox(d), UNCHANGED pool, Watch
  PROVE  IInv'
<1>0. SandboxTypes  BY DEF IInv, TypeOK
<1>1. PICK c \in delete[d] : \/ Succeeds(RemoveContainer(c))
                             \/ Fails(c \in containers, RemoveContainer(c))
  BY DEF DeleteSandbox
<1>2. c \in Container /\ c.owner \in Sandboxes
  BY <1>0 DEF SandboxTypes, IInv, SandboxInv
<1>3. RemoveContainer(c) \/ UNCHANGED daemon
  BY <1>1 DEF Succeeds, Fails, docker
<1>4. UNCHANGED faults \/ Fault  BY <1>1 DEF Succeeds, Fails, docker
<1>5. Counted
  BY <1>4, DockerAssumption DEF Counted, Fault, IInv, TypeOK, DaemonTypes
<1>6. SandboxCall(c.owner)  BY <1>2, <1>3 DEF SandboxCall
<1>7. /\ DaemonTypes' /\ PoolTypes' /\ DaemonInv'
      /\ \A q \in Pools : PoolInv(q)' /\ NetworkInv(q)' /\ CheckInv(q)'
  BY <1>2, <1>5, <1>6, SandboxServed
<1>8. containers' \subseteq containers  BY <1>3 DEF RemoveContainer, daemon
<1>9. /\ sname' = sname /\ sandbox' = sandbox /\ lost' = lost
      /\ delete' = [delete EXCEPT ![d] = {}]
  BY DEF DeleteSandbox
<1>10. SandboxTypes'  BY <1>0, <1>9 DEF SandboxTypes
<1>11. \A s : own(s)' = own(s)  BY <1>9 DEF own
<1>12. SandboxInv'
  <2>1. \A e \in Deleters : \A x \in delete'[e] : x.owner \in Sandboxes
    BY <1>0, <1>9 DEF SandboxTypes, IInv, SandboxInv
  <2> QED  BY <1>8, <1>9, <1>11, <2>1 DEF IInv, SandboxInv
<1>13. FailedCreateLeavesNothing'
  BY <1>8, <1>9, <1>11 DEF IInv, FailedCreateLeavesNothing
<1> QED  BY <1>7, <1>10, <1>12, <1>13 DEF IInv, TypeOK

\* A container stops by itself, or the daemon starts it again.
LEMMA DriftKeeps ==
  ASSUME IInv, NEW c, (c \in running /\ ContainerStops(c)) \/ (c \in stopped /\ ContainerRestarts(c)),
         UNCHANGED <<pool, sandboxVars>>, Watch
  PROVE  IInv'
<1>0. DaemonTypes /\ DaemonInv /\ TypeOK  BY DEF IInv, TypeOK
<1>1. containers' = containers /\ networks' = networks /\ faults' = faults
  BY DEF ContainerStops, ContainerRestarts, Start
<1>2. /\ \A d \in running' : d \in running \/ (d \in stopped /\ d.net \in networks \cup {Bridge})
      /\ \A d \in stopped' : d \in stopped \cup running
  BY DEF ContainerStops, ContainerRestarts, Start, CanStart
<1>3. DaemonTypes'
  <2>1. CASE ContainerStops(c)
    BY <1>0, <2>1, DockerAssumption DEF DaemonTypes, ContainerStops
  <2>2. CASE ContainerRestarts(c)
    BY <1>0, <2>2 DEF DaemonTypes, ContainerRestarts, Start, CanStart
  <2> QED  BY <2>1, <2>2
<1>4. Counted  BY <1>0, <1>1, DockerAssumption DEF Counted, DaemonTypes
<1>5. \A q \in Pools : Quiet(q)  BY <1>1, <1>2 DEF Quiet, pool, made
<1>6. PoolTypes' /\ \A q \in Pools : PoolInv(q)' /\ NetworkInv(q)' /\ CheckInv(q)'
  BY <1>3, <1>4, <1>5, PoolsStill DEF pool
<1>7. DaemonInv'
  BY <1>0, <1>1, <1>2, DaemonStill DEF DaemonInv
<1>8. SandboxTypes' /\ SandboxInv' /\ FailedCreateLeavesNothing'
  BY <1>1 DEF IInv, TypeOK, SandboxTypes, SandboxInv, FailedCreateLeavesNothing,
              sandboxVars, own
<1> QED  BY <1>3, <1>6, <1>7, <1>8 DEF IInv, TypeOK

\* A step of a pool leaves the sandboxes' containers alone.
LEMMA PoolKeeps ==
  ASSUME IInv, NEW p \in Pools, PoolStep(p), UNCHANGED sandboxVars, Watch
  PROVE  IInv'
<1>0. /\ TypeOK /\ DaemonInv /\ SandboxInv
      /\ \A q \in Pools : PoolInv(q) /\ NetworkInv(q) /\ CheckInv(q)
  BY DEF IInv
<1>1. Served(p) /\ Counted  BY <1>0, PoolServed
<1>2. DaemonTypes'  BY <1>0, <1>1, ServedTypes
<1>3. DaemonInv'  BY <1>0, <1>1, <1>2, PoolKeepsDaemon
<1>4. PoolTypes' /\ PoolInv(p)'
  BY <1>0, <1>1, ListNetworksKeeps, MakeNetworkKeeps, CreateContainerKeeps,
     StartContainerKeeps, InspectManagerKeeps, CleanupKeeps, CleanupContainerKeeps,
     CleanupNetworkKeeps, HealthKeeps DEF PoolStep
<1>5. ASSUME NEW q \in Pools  PROVE PoolInv(q)' /\ NetworkInv(q)' /\ CheckInv(q)'
  <2>1. NetworkInv(q)'  BY <1>0, <1>1, PoolKeepsNetworks
  <2>2. CASE q = p  BY <1>0, <1>4, <2>1, <2>2, PoolKeepsCheck
  <2>3. CASE q # p
    <3>1. PoolInv(q)'  BY <1>0, <1>1, <2>3, OthersQuiet, Frame
    <3>2. CheckInv(q)'  BY <1>0, <2>3, PoolLocal, CheckFrame
    <3> QED  BY <2>1, <3>1, <3>2
  <2> QED  BY <2>2, <2>3
<1>6. \A c \in containers' : c \in containers \/ c.owner = p
  <2>1. current(p).owner = p  BY DEF current
  <2> QED  BY <1>0, <2>1, PoolMakes
<1>7. p \notin Sandboxes  BY HostAssumption
<1>8. sname' = sname /\ sandbox' = sandbox /\ lost' = lost /\ delete' = delete
  BY DEF sandboxVars
<1>9. \A s : own(s)' = own(s) /\ own(s).owner = s  BY <1>8 DEF own
<1>10. SandboxTypes'  BY <1>0, <1>8 DEF TypeOK, SandboxTypes
<1>11. SandboxInv'  BY <1>0, <1>6, <1>7, <1>8, <1>9 DEF SandboxInv
<1>12. FailedCreateLeavesNothing'
  BY <1>6, <1>7, <1>8, <1>9 DEF IInv, FailedCreateLeavesNothing
<1> QED  BY <1>2, <1>3, <1>4, <1>5, <1>10, <1>11, <1>12 DEF IInv, TypeOK

\* Every step of a sandbox keeps the invariant.
LEMMA SandboxStepKeeps ==
  ASSUME IInv, NEW s \in Sandboxes, SandboxStep(s), UNCHANGED pool, Watch
  PROVE  IInv'
<1>1. SandboxCall(s) /\ Counted  BY SandboxCalls
<1>2. /\ DaemonTypes' /\ PoolTypes' /\ DaemonInv'
      /\ \A q \in Pools : PoolInv(q)' /\ NetworkInv(q)' /\ CheckInv(q)'
  BY <1>1, SandboxServed
<1>3. SandboxTypes' /\ SandboxInv' /\ FailedCreateLeavesNothing'  BY SandboxKeeps
<1> QED  BY <1>2, <1>3 DEF IInv, TypeOK

-----------------------------------------------------------------------------
(* The inductive invariant *)

\* A host without containers and with pools that are not yet constructed.
LEMMA InitInv == Init => IInv
<1> SUFFICES ASSUME Init  PROVE IInv
  OBVIOUS
<1> USE DEF Init, DockerInit, PoolInit, SandboxInit
<1>1. DaemonTypes  BY DockerAssumption DEF DaemonTypes
<1>2. PoolTypes
  <2>1. <<>> \in Seq(Container)  OBVIOUS
  <2> QED  BY <2>1, PoolAssumption DEF PoolTypes, Stages
<1>3. SandboxTypes  BY DEF SandboxTypes, Results
<1>4. DaemonInv  BY HostAssumption DEF DaemonInv
<1>5. SandboxInv /\ FailedCreateLeavesNothing  BY DEF SandboxInv, FailedCreateLeavesNothing
<1>6. ASSUME NEW p \in Pools  PROVE PoolInv(p) /\ NetworkInv(p) /\ CheckInv(p)
  <2>1. pc[p] = "idle" /\ started[p] = <<>> /\ todo[p] = <<>> /\ check[p] = 0 /\ made(p) = {}
    BY DEF made
  <2>2. StartedInv(p)  BY <2>1 DEF StartedInv, Finished
  <2>3. MadeInv(p) /\ TodoInv(p) /\ StrandedInv(p)
    BY <2>1 DEF MadeInv, TodoInv, StrandedInv
  <2>4. NetworkInv(p) /\ CheckInv(p)  BY <2>1 DEF NetworkInv, CheckInv
  <2> QED  BY <2>2, <2>3, <2>4 DEF PoolInv
<1> QED  BY <1>1, <1>2, <1>3, <1>4, <1>5, <1>6 DEF IInv, TypeOK

\* A step that changes nothing keeps the invariant.
LEMMA StutterInv == IInv /\ UNCHANGED vars => IInv'
<1> SUFFICES ASSUME IInv, UNCHANGED vars  PROVE IInv'
  OBVIOUS
<1>1. /\ UNCHANGED <<containers, running, stopped, networks, stops, faults>>
      /\ UNCHANGED <<id, pc, networkID, started, todo, check, healthy, steady>>
      /\ UNCHANGED <<sname, sandbox, lost, delete>>
  BY DEF vars, docker, daemon, poolVars, pool, sandboxVars
<1>2. TypeOK'
  BY <1>1 DEF IInv, TypeOK, DaemonTypes, PoolTypes, SandboxTypes
<1>3. DaemonInv'  BY <1>1 DEF IInv, DaemonInv, Used
<1>4. SandboxInv' /\ FailedCreateLeavesNothing'
  BY <1>1 DEF IInv, SandboxInv, FailedCreateLeavesNothing, own
<1>5. ASSUME NEW p \in Pools  PROVE PoolInv(p)' /\ NetworkInv(p)' /\ CheckInv(p)'
  <2>1. Quiet(p)  BY <1>1 DEF Quiet, made
  <2>2. Counted  BY <1>1, DockerAssumption DEF Counted, IInv, TypeOK, DaemonTypes
  <2>3. PoolInv(p)'  BY <2>1, <2>2, Frame DEF IInv
  <2>4. NetworkInv(p)' /\ CheckInv(p)'
    BY <1>1 DEF IInv, NetworkInv, CheckInv
  <2> QED  BY <2>3, <2>4
<1> QED  BY <1>2, <1>3, <1>4, <1>5 DEF IInv

\* Every step of the host keeps the invariant.
LEMMA NextInv == IInv /\ [Next]_vars => IInv'
<1> SUFFICES ASSUME IInv, [Next]_vars  PROVE IInv'
  OBVIOUS
<1>1. CASE UNCHANGED vars  BY <1>1, StutterInv
<1>2. CASE Next
  <2>1. Watch  BY <1>2 DEF Next
  <2>2. ASSUME NEW p \in Pools, PoolStep(p), UNCHANGED sandboxVars  PROVE IInv'
    BY <2>1, <2>2, PoolKeeps
  <2>3. ASSUME NEW s \in Sandboxes, SandboxStep(s), UNCHANGED pool  PROVE IInv'
    BY <2>1, <2>3, SandboxStepKeeps
  <2>4. ASSUME NEW d \in Deleters, DeleteSandbox(d), UNCHANGED pool  PROVE IInv'
    BY <2>1, <2>4, DeleteKeeps
  <2>5. ASSUME NEW c \in running, ContainerStops(c), UNCHANGED <<pool, sandboxVars>>
        PROVE  IInv'
    BY <2>1, <2>5, DriftKeeps
  <2>6. ASSUME NEW c \in stopped, ContainerRestarts(c), UNCHANGED <<pool, sandboxVars>>
        PROVE  IInv'
    BY <2>1, <2>6, DriftKeeps
  <2> QED  BY <1>2, <2>2, <2>3, <2>4, <2>5, <2>6 DEF Next
<1> QED  BY <1>1, <1>2

\* The invariant holds in every reachable state.
LEMMA Invariance == Spec => []IInv
BY InitInv, NextInv, PTL DEF Spec

-----------------------------------------------------------------------------
(* The theorems *)

\* Every variable keeps its type.
THEOREM TypeCorrect == Spec => []TypeOK
<1>1. IInv => TypeOK  BY DEF IInv
<1> QED  BY <1>1, Invariance, PTL

\* NewDockerHostPool returns a pool that knows every container it has made,
\* with nothing of it removed since (docker_pool.go:39-78, 132-237).
THEOREM PoolKnowsItsContainers == Spec => []ReadyTracksAll
<1>1. IInv => ReadyTracksAll
  BY DEF IInv, ReadyTracksAll, PoolInv, MadeInv, StartedInv, Finished, At
<1> QED  BY <1>1, Invariance, PTL

\* Two pools in use differ in their ids: both have a manager's container, and
\* the daemon has one container of a name (docker_pool.go:109-114, 133, 167).
THEOREM PoolsDiffer == Spec => []OnePoolPerID
<1>1. IInv => OnePoolPerID
  <2> SUFFICES ASSUME IInv, NEW p \in Pools, NEW q \in Pools, pc[p] = "ready",
                      pc[q] = "ready", id[p] = id[q]
               PROVE  p = q
    BY DEF OnePoolPerID, At
  <2>1. ASSUME NEW r \in Pools, pc[r] = "ready"
        PROVE  containerOf(r, 0) \in made(r)
    <3>1. started[r] \in Seq(Container)  BY DEF IInv, TypeOK, PoolTypes
    <3>2. Len(started[r]) = count + 1 /\ made(r) = ToSet(started[r])
      BY <2>1 DEF IInv, PoolInv, StartedInv, MadeInv, Finished
    <3>3. 1 \in 1..Len(started[r])  BY <3>2, PoolAssumption
    <3>4. started[r][1] = containerOf(r, 1 - 1)
      BY <3>3 DEF IInv, PoolInv, StartedInv
    <3> QED  BY <3>1, <3>2, <3>3, <3>4 DEF ToSet
  <2>2. containerOf(p, 0).name = containerOf(q, 0).name  BY DEF containerOf
  <2>3. containerOf(p, 0) = containerOf(q, 0)
    BY <2>1, <2>2 DEF IInv, DaemonInv, made
  <2> QED  BY <2>3 DEF containerOf
<1> QED  BY <1>1, Invariance, PTL

\* Cleanup leaves at most one container for each call that failed, and its
\* network only when a call failed or another pool is on it
\* (docker_pool.go:372-397).
THEOREM CleanupIsThorough == Spec => []CleanupRemovesAll
<1>1. IInv => CleanupRemovesAll
  <2> SUFFICES ASSUME IInv, NEW p \in Pools, pc[p] = "cleaned"
               PROVE  /\ Cardinality(made(p)) <= faults
                      /\ \/ networkID[p] \notin networks
                         \/ faults > 0
                         \/ \E q \in Pools \ {p} : networkID[q] = networkID[p]
    BY DEF CleanupRemovesAll, At
  <2>1. todo[p] = <<>> /\ Cardinality(left(p)) <= faults
    BY DEF IInv, PoolInv, TodoInv
  <2>2. left(p) = made(p)  BY <2>1 DEF left, ToSet
  <2>3. faults = 0 \/ faults > 0  BY DockerAssumption DEF IInv, TypeOK, DaemonTypes
  <2> QED  BY <2>1, <2>2, <2>3 DEF IInv, NetworkInv
<1> QED  BY <1>1, Invariance, PTL

\* A CreateContainerSandbox that failed has left no container, unless the
\* daemon failed to create or to remove it (docker_sandbox.go:185-193).
THEOREM SandboxCleansUp == Spec => []FailedCreateLeavesNothing
<1>1. IInv => FailedCreateLeavesNothing  BY DEF IInv
<1> QED  BY <1>1, Invariance, PTL

\* A container is removed by the Cleanup of its pool, by the failing call that
\* created it, or by a DeleteContainerSandbox of it (docker_pool.go:374-389,
\* docker_sandbox.go:185-193, 209-225).
THEOREM NobodyElseRemoves == Spec => OnlyOwnersRemove
<1> DEFINE A == \A c \in containers \ containers' :
                  \/ \E p \in Pools : c.owner = p /\ At(p, "cleaning")
                  \/ \E s \in Sandboxes : c.owner = s /\ sandbox[s] = "removing"
                  \/ \E d \in Deleters : c.owner \in Sandboxes /\ c \in delete[d]
<1>1. IInv /\ [Next]_vars => [A]_vars
  <2> SUFFICES ASSUME IInv, Next, NEW c \in containers \ containers'
               PROVE  \/ \E p \in Pools : c.owner = p /\ At(p, "cleaning")
                      \/ \E s \in Sandboxes : c.owner = s /\ sandbox[s] = "removing"
                      \/ \E d \in Deleters : c.owner \in Sandboxes /\ c \in delete[d]
    OBVIOUS
  <2> USE DEF Succeeds, Fails
  <2>1. UNCHANGED daemon \/ UNCHANGED docker => FALSE  BY DEF docker, daemon
  <2>2. /\ \A d : ~Create(d) /\ ~Start(d)
        /\ \A n : ~CreateNetwork(n) /\ ~RemoveNetwork(n)
        /\ \A d : RemoveContainer(d) => c = d
    BY DEF Create, Start, CreateNetwork, RemoveNetwork, RemoveContainer
  <2>3. ASSUME NEW p \in Pools, PoolStep(p)  PROVE c.owner = p /\ At(p, "cleaning")
    <3>1. CleanupContainer(p)
      BY <2>1, <2>2, <2>3
      DEF PoolStep, ListNetworks, MakeNetwork, CreateContainer, StartContainer,
          InspectManager, Cleanup, CleanupNetwork, GetHealthStatus, Inspect
    <3>2. c = Head(todo[p]) /\ pc[p] = "cleaning" /\ todo[p] # <<>>
      BY <2>1, <2>2, <3>1 DEF CleanupContainer, At
    <3> QED  BY <3>2, NextToRemove DEF IInv, At
  <2>4. ASSUME NEW s \in Sandboxes, SandboxStep(s)
        PROVE  c.owner = s /\ sandbox[s] = "removing"
    <3>1. RemoveSandbox(s)
      BY <2>1, <2>2, <2>4 DEF SandboxStep, CreateSandbox, StartSandbox, InspectSandbox
    <3>2. c = own(s)  BY <2>1, <2>2, <3>1 DEF RemoveSandbox
    <3> QED  BY <3>1, <3>2 DEF RemoveSandbox, own
  <2>5. ASSUME NEW d \in Deleters, DeleteSandbox(d)
        PROVE  c.owner \in Sandboxes /\ c \in delete[d]
    BY <2>1, <2>2, <2>5 DEF DeleteSandbox, IInv, SandboxInv
  <2>6. ASSUME NEW d, ContainerStops(d) \/ ContainerRestarts(d)  PROVE FALSE
    BY <2>2, <2>6 DEF ContainerStops, ContainerRestarts
  <2> QED  BY <2>3, <2>4, <2>5, <2>6 DEF Next
<1> QED  BY <1>1, Invariance, PTL DEF Spec, OnlyOwnersRemove

\* GetHealthStatus answers healthy exactly when all containers of its pool run,
\* if none of them changed under its inspections and no inspection failed
\* (docker_pool.go:288-314).
THEOREM HealthIsTrue == Spec => HealthReport
<1> DEFINE A == \A p \in Pools :
                  check[p] # 0 /\ check'[p] = 0 /\ steady[p] /\ faults' = faults =>
                    (healthy'[p] <=> ToSet(started[p]) \subseteq running)
<1>1. IInv /\ [Next]_vars => [A]_vars
  <2> SUFFICES ASSUME IInv, Next, NEW p \in Pools, check[p] # 0, check'[p] = 0,
                      steady[p], faults' = faults
               PROVE  healthy'[p] <=> ToSet(started[p]) \subseteq running
    OBVIOUS
  <2>0. TypeOK /\ PoolTypes /\ PoolInv(p) /\ CheckInv(p)  BY DEF IInv, TypeOK
  <2>1. Inspect(p)
    <3>1. UNCHANGED pool => FALSE  BY DEF pool
    <3>2. PoolStep(p)
      <4>1. ASSUME NEW q \in Pools, PoolStep(q)  PROVE q = p
        BY <2>0, <4>1, PoolLocal
      <4> QED  BY <3>1, <4>1 DEF Next
    <3> QED
      BY <2>0, <3>2
      DEF PoolStep, PoolTypes, ListNetworks, MakeNetwork, CreateContainer, StartContainer,
          InspectManager, Cleanup, CleanupContainer, CleanupNetwork, GetHealthStatus
  <2> DEFINE k == check[p]
             c == started[p][k]
  <2>2. /\ started[p] \in Seq(Container) /\ k \in 1..Len(started[p])
        /\ \A j \in 1..(k - 1) : started[p][j] \in running
    <3>1. started[p] \in Seq(Container) /\ k \in Nat
      BY <2>0, PoolAssumption DEF PoolTypes
    <3>2. k <= Len(started[p]) /\ \A j \in 1..(k - 1) : started[p][j] \in running
      BY <2>0 DEF CheckInv
    <3> QED  BY <3>1, <3>2
  <2>3. ~Fault  BY <2>0, DockerAssumption DEF Fault, TypeOK, DaemonTypes
  <2>4. \/ c \in running /\ k = Len(started[p]) /\ healthy'[p] = TRUE
        \/ c \notin running /\ healthy'[p] = FALSE
    <3>1. CASE c \in running
      <4>0. check'[p] = IF k = Len(started[p]) THEN 0 ELSE k + 1
        BY <2>0, <2>1, <2>3, <3>1 DEF Inspect, PoolTypes
      <4>1. k = Len(started[p])  BY <2>2, <4>0
      <4>2. healthy'[p] = TRUE  BY <2>0, <2>1, <2>3, <3>1, <4>1 DEF Inspect, PoolTypes
      <4> QED  BY <3>1, <4>1, <4>2
    <3>2. CASE c \notin running  BY <2>0, <2>1, <3>2 DEF Inspect, PoolTypes
    <3> QED  BY <3>1, <3>2
  <2>5. CASE c \in running /\ k = Len(started[p]) /\ healthy'[p] = TRUE
    <3>1. \A j \in 1..Len(started[p]) : started[p][j] \in running  BY <2>2, <2>5
    <3>2. ToSet(started[p]) \subseteq running  BY <2>2, <3>1 DEF ToSet
    <3> QED  BY <2>5, <3>2
  <2>6. CASE c \notin running /\ healthy'[p] = FALSE
    <3>1. c \in ToSet(started[p])  BY <2>2 DEF ToSet
    <3> QED  BY <2>6, <3>1
  <2> QED  BY <2>4, <2>5, <2>6
<1> QED  BY <1>1, Invariance, PTL DEF Spec, HealthReport
=============================================================================
