----------------------------- MODULE DockerHost -----------------------------
(***************************************************************************)
(* One Docker host: pools (DockerPool) and the sandboxes of tasks          *)
(* (DockerSandbox) on one daemon (Docker), whose containers stop and       *)
(* restart.  They meet in the names, in the networks and in the host port. *)
(***************************************************************************)
EXTENDS DockerPool, DockerSandbox

vars == <<docker, poolVars, sandboxVars>>

Init ==
  /\ DockerInit
  /\ PoolInit
  /\ SandboxInit({<<"manager", i>> : i \in PoolIDs})

Next ==
  /\ \/ \E p \in Pools : PoolStep(p) /\ UNCHANGED sandboxVars
     \/ \E s \in Sandboxes : SandboxStep(s) /\ UNCHANGED pool
     \/ \E d \in Deleters : DeleteSandbox(d) /\ UNCHANGED pool
     \/ \E c \in running : ContainerStops(c) /\ UNCHANGED <<pool, sandboxVars>>
     \/ \E c \in stopped : /\ c.owner \in Pools /\ ContainerRestarts(c)
                           /\ UNCHANGED <<pool, sandboxVars>>
  /\ Watch

Spec == Init /\ [][Next]_vars

-----------------------------------------------------------------------------
Network == [owner : Pools, name : PoolIDs]
Container == [owner : Pools \cup Sandboxes,
              name : {<<"manager", i>> : i \in PoolIDs} \cup
                     {<<"worker", i, k>> : i \in PoolIDs, k \in 1..count},
              net : Network \cup {Bridge}]

Stages == {"idle", "network", "creating", "starting", "inspecting", "dialing",
           "ready", "failed", "cleaning", "cleaned"}
Results == {"idle", "created", "removing", "ok", "error"}

\* The networks of pools have names of their own, which is not the default
\* one's (docker_pool.go:101), and an owner is one call of one kind.
ASSUME HostAssumption == {Bridge, None} \cap Network = {} /\ Pools \cap Sandboxes = {}

DaemonTypes ==
  /\ containers \subseteq Container
  /\ running \cup stopped \subseteq containers /\ running \cap stopped = {}
  /\ networks \subseteq Network
  /\ faults \in 0..MaxFaults
  /\ stops \in 0..MaxStops

PoolTypes ==
  /\ id \in [Pools -> PoolIDs]
  /\ pc \in [Pools -> Stages]
  /\ networkID \in [Pools -> Network \cup {None}]
  /\ started \in [Pools -> Seq(Container)] /\ todo \in [Pools -> Seq(Container)]
  /\ check \in [Pools -> 0..(count + 1)]
  /\ healthy \in [Pools -> BOOLEAN] /\ steady \in [Pools -> BOOLEAN]

SandboxTypes ==
  /\ sname \in [Sandboxes -> {<<"manager", i>> : i \in PoolIDs}]
  /\ sandbox \in [Sandboxes -> Results]
  /\ lost \subseteq Sandboxes
  /\ delete \in [Deleters -> SUBSET Container]

\* The type of every variable.
TypeOK == DaemonTypes /\ PoolTypes /\ SandboxTypes

\* The containers made for pool p that exist.
made(p) == {c \in containers : c.owner = p}

\* A pool that is handed to its caller knows every container made for it, and
\* all of them are still there: no construction under the same id, no task
\* with the same name and no Cleanup of another pool has touched them
\* (docker_pool.go:39-78, 132-237).
ReadyTracksAll ==
  \A p \in Pools :
    At(p, "ready") => ToSet(started[p]) = made(p) /\ Len(started[p]) = count + 1

\* Two pools that are in use have different ids, although nothing but the name
\* of the manager's container keeps two constructions apart
\* (docker_pool.go:109-114, 133, 167).
OnePoolPerID ==
  \A p, q \in Pools : At(p, "ready") /\ At(q, "ready") /\ p # q => id[p] # id[q]

\* Cleanup goes on after an error, so that one failing call leaves at most one
\* container; and its order lets the network be removed, unless a call failed
\* or another pool has come to use it (docker_pool.go:372-397).
CleanupRemovesAll ==
  \A p \in Pools :
    At(p, "cleaned") =>
      /\ Cardinality(made(p)) <= faults
      /\ \/ networkID[p] \notin networks
         \/ faults > 0
         \/ \E q \in Pools \ {p} : networkID[q] = networkID[p]

\* A container disappears only by the hand of those it belongs to: the Cleanup
\* of its pool, the failing call that created it, or a DeleteContainerSandbox
\* of it; the loser of a conflict over a name removes nothing
\* (docker_pool.go:374-389, docker_sandbox.go:185-193, 209-225).
OnlyOwnersRemove ==
  [][\A c \in containers \ containers' :
       \/ \E p \in Pools : c.owner = p /\ At(p, "cleaning")
       \/ \E s \in Sandboxes : c.owner = s /\ sandbox[s] = "removing"
       \/ \E d \in Deleters : c.owner \in Sandboxes /\ c \in delete[d]]_vars

\* GetHealthStatus inspects one container after the other, while others stop,
\* restart and are removed: if those of the pool did not change meanwhile, it
\* reports healthy exactly when all of them run (docker_pool.go:288-314).
HealthReport ==
  [][\A p \in Pools :
       check[p] # 0 /\ check'[p] = 0 /\ steady[p] /\ faults' = faults =>
         (healthy'[p] <=> ToSet(started[p]) \subseteq running)]_vars
=============================================================================
