----------------------------- MODULE DockerPool -----------------------------
(***************************************************************************)
(* The pool of one Docker host: NewDockerHostPool with createNetwork,      *)
(* startManager, startWorkers and initWorkerClient, GetHealthStatus and    *)
(* Cleanup (internal/adapters/resource/docker/docker_pool.go).             *)
(*                                                                         *)
(* A member of Pools is one call of NewDockerHostPool and the pool it      *)
(* returns; the calls share the daemon, and may use one id.  An action is  *)
(* one call to the daemon.  A process that ends in the middle leaves what  *)
(* a failing call leaves.                                                  *)
(***************************************************************************)
EXTENDS Docker, Sequences, SequencesExt

CONSTANTS Pools,     \* calls of NewDockerHostPool
          PoolIDs,   \* the ids they are given
          None,      \* no network yet
          count      \* workers of a pool (2 in the code)

ASSUME PoolAssumption == count \in Nat /\ None # Bridge

VARIABLES
  id,          \* id of each pool
  pc,          \* where its construction or its Cleanup is
  networkID,   \* its network
  started,     \* its containers: managerID, then workerIDs
  todo,        \* what Cleanup has still to remove
  check,       \* GetHealthStatus: the container it inspects, 0 for no check
  healthy,     \* GetHealthStatus: its last answer
  steady       \* history: no container of the pool changed during the check

pool == <<id, pc, networkID, started, todo, check, healthy>>
poolVars == <<pool, steady>>

PoolInit ==
  /\ id \in [Pools -> PoolIDs]
  /\ pc = [p \in Pools |-> "idle"]
  /\ networkID = [p \in Pools |-> None]
  /\ started = [p \in Pools |-> <<>>]
  /\ todo = [p \in Pools |-> <<>>]
  /\ check = [p \in Pools |-> 0]
  /\ healthy = [p \in Pools |-> TRUE]
  /\ steady = [p \in Pools |-> TRUE]

At(p, l) == pc[p] = l
Goto(p, l) == pc' = [pc EXCEPT ![p] = l]

\* The caller gets an error and no pool: what the pool knew is gone.
Fail(p) ==
  /\ Goto(p, "failed")
  /\ networkID' = [networkID EXCEPT ![p] = None]
  /\ started' = [started EXCEPT ![p] = <<>>]

\* The container startManager or startWorkers is working on.
current(p) ==
  [owner |-> p,
   name |-> IF started[p] = <<>> THEN <<"manager", id[p]>>
                                 ELSE <<"worker", id[p], Len(started[p])>>,
   net |-> networkID[p]]

\* What follows once that container runs: startWorkers, its next round, or
\* initWorkerClient.
afterStart(p) ==
  IF started[p] = <<>> THEN "inspecting"
  ELSE IF Len(started[p]) < count THEN "creating" ELSE "dialing"

-----------------------------------------------------------------------------
\* createNetwork asks for the networks, and takes the first one of its name.
ListNetworks(p) ==
  LET named == {n \in networks : n.name = id[p]}
  IN /\ At(p, "idle")
     /\ \/ /\ \E n \in named : networkID' = [networkID EXCEPT ![p] = n]
           /\ Goto(p, "creating")
           /\ UNCHANGED <<started, docker>>
        \/ /\ named = {}
           /\ Goto(p, "network")
           /\ UNCHANGED <<networkID, started, docker>>
        \/ Fault /\ Fail(p) /\ UNCHANGED daemon
     /\ UNCHANGED <<id, todo, check, healthy>>

\* createNetwork creates its network.
MakeNetwork(p) ==
  LET n == [owner |-> p, name |-> id[p]]
  IN /\ At(p, "network")
     /\ \/ /\ Succeeds(CreateNetwork(n))
           /\ networkID' = [networkID EXCEPT ![p] = n]
           /\ Goto(p, "creating")
           /\ UNCHANGED started
        \/ Fails(TRUE, CreateNetwork(n)) /\ Fail(p)
     /\ UNCHANGED <<id, todo, check, healthy>>

\* Slip: a container of that name is taken over, as a network is.
CreateContainerReuses(p) ==
  /\ At(p, "creating")
  /\ \/ /\ Succeeds(Create(current(p)))
        /\ Goto(p, "starting")
        /\ UNCHANGED started
     \/ /\ \E c \in containers :
             /\ c.name = current(p).name
             /\ started' = [started EXCEPT ![p] = Append(@, c)]
        /\ Goto(p, afterStart(p))
        /\ UNCHANGED docker
  /\ UNCHANGED <<id, networkID, todo, check, healthy>>

\* ContainerCreate in startManager and startWorkers.
CreateContainer(p) ==
  /\ At(p, "creating")
  /\ \/ /\ Succeeds(Create(current(p)))
        /\ Goto(p, "starting")
        /\ UNCHANGED <<networkID, started>>
     \/ Fails(CanCreate(current(p)), Create(current(p))) /\ Fail(p)
  /\ UNCHANGED <<id, todo, check, healthy>>

\* ContainerStart in startManager and startWorkers: the id is kept from now on.
StartContainer(p) ==
  /\ At(p, "starting")
  /\ \/ /\ Succeeds(Start(current(p)))
        /\ started' = [started EXCEPT ![p] = Append(@, current(p))]
        /\ Goto(p, afterStart(p))
        /\ UNCHANGED networkID
     \/ Fails(CanStart(current(p)), Start(current(p))) /\ Fail(p)
  /\ UNCHANGED <<id, todo, check, healthy>>

\* The manager is inspected for its address, in startWorkers and, before the
\* client is dialled, in initWorkerClient.  A manager without an entry for the
\* network is a nil pointer, which ends the process as well.
InspectManager(p) ==
  /\ pc[p] \in {"inspecting", "dialing"}
  /\ \/ /\ started[p][1] \in containers
        /\ Goto(p, IF At(p, "dialing") THEN "ready"
                   ELSE IF count > 0 THEN "creating" ELSE "dialing")
        /\ UNCHANGED <<networkID, started, docker>>
     \/ Fails(started[p][1] \in containers, UNCHANGED daemon) /\ Fail(p)
  /\ UNCHANGED <<id, todo, check, healthy>>

-----------------------------------------------------------------------------
\* Cleanup: the workers in order, then the manager, then the network.
Cleanup(p) ==
  /\ At(p, "ready")
  /\ todo' = [todo EXCEPT ![p] = Append(Tail(started[p]), Head(started[p]))]
  /\ Goto(p, "cleaning")
  /\ UNCHANGED <<docker, id, networkID, started, check, healthy>>

\* Slip: Cleanup returns at the first error.
CleanupContainerStops(p) ==
  /\ At(p, "cleaning") /\ todo[p] # <<>>
  /\ \/ /\ Succeeds(RemoveContainer(Head(todo[p])))
        /\ todo' = [todo EXCEPT ![p] = Tail(@)]
        /\ UNCHANGED pc
     \/ /\ Fails(Head(todo[p]) \in containers, RemoveContainer(Head(todo[p])))
        /\ todo' = [todo EXCEPT ![p] = <<>>]
        /\ Goto(p, "cleaned")
  /\ UNCHANGED <<id, networkID, started, check, healthy>>

\* Cleanup removes a container; an error is only logged.
CleanupContainer(p) ==
  /\ At(p, "cleaning") /\ todo[p] # <<>>
  /\ \/ Succeeds(RemoveContainer(Head(todo[p])))
     \/ Fails(Head(todo[p]) \in containers, RemoveContainer(Head(todo[p])))
  /\ todo' = [todo EXCEPT ![p] = Tail(@)]
  /\ UNCHANGED <<id, pc, networkID, started, check, healthy>>

\* Cleanup removes the network, logs an error, and returns nil.
CleanupNetwork(p) ==
  /\ At(p, "cleaning") /\ todo[p] = <<>>
  /\ \/ Succeeds(RemoveNetwork(networkID[p]))
     \/ Fails(CanRemoveNetwork(networkID[p]), RemoveNetwork(networkID[p]))
  /\ Goto(p, "cleaned")
  /\ UNCHANGED <<id, networkID, started, todo, check, healthy>>

-----------------------------------------------------------------------------
\* GetHealthStatus is called on a pool.
GetHealthStatus(p) ==
  /\ pc[p] \in {"ready", "cleaning", "cleaned"} /\ check[p] = 0
  /\ check' = [check EXCEPT ![p] = 1]
  /\ UNCHANGED <<docker, id, pc, networkID, started, todo, healthy>>

\* Slip: the last worker is not inspected.
InspectSkipsLast(p) ==
  LET c == started[p][check[p]]
      last == check[p] = Len(started[p]) - 1
  IN /\ check[p] # 0
     /\ check' = [check EXCEPT ![p] = IF c \in running /\ ~last THEN @ + 1 ELSE 0]
     /\ healthy' = [healthy EXCEPT ![p] = c \in running]
     /\ UNCHANGED <<docker, id, pc, networkID, started, todo>>

\* It inspects the manager, then each worker, up to one that is not running or
\* cannot be inspected.
Inspect(p) ==
  LET c == started[p][check[p]]
      last == check[p] = Len(started[p])
  IN /\ check[p] # 0
     /\ \/ /\ c \in running
           /\ check' = [check EXCEPT ![p] = IF last THEN 0 ELSE @ + 1]
           /\ healthy' = [healthy EXCEPT ![p] = IF last THEN TRUE ELSE @]
           /\ UNCHANGED faults
        \/ /\ (c \notin running /\ UNCHANGED faults) \/ Fault
           /\ check' = [check EXCEPT ![p] = 0]
           /\ healthy' = [healthy EXCEPT ![p] = FALSE]
     /\ UNCHANGED <<daemon, id, pc, networkID, started, todo>>

PoolStep(p) ==
  \/ ListNetworks(p) \/ MakeNetwork(p) \/ CreateContainer(p)
  \/ StartContainer(p) \/ InspectManager(p)
  \/ Cleanup(p) \/ CleanupContainer(p) \/ CleanupNetwork(p)
  \/ GetHealthStatus(p) \/ Inspect(p)

\* The history of a check.
Watch ==
  steady' = [p \in Pools |->
    check[p] = 0 \/ /\ steady[p]
                    /\ \A c \in ToSet(started[p]) : c \in running <=> c \in running']
=============================================================================
