------------------------------- MODULE Docker -------------------------------
(***************************************************************************)
(* The Docker daemon, as its clients in the repository use it: named       *)
(* containers, networks and one published host port (external; the clients *)
(* are docker_pool.go and docker_sandbox.go).  Every call may fail, and a  *)
(* call that fails may have had its effect: its answer was lost.           *)
(***************************************************************************)
EXTENDS Integers, FiniteSets

CONSTANTS Bridge,       \* the network of a container that asks for none
          MaxFaults,    \* bound: calls that fail
          MaxStops      \* bound: containers that stop by themselves

ASSUME DockerAssumption == MaxFaults \in Nat /\ MaxStops \in Nat

VARIABLES containers,   \* containers that exist: [owner, name, net]
          running,      \* those that run
          stopped,      \* those that ran and stopped by themselves
          networks,     \* networks that exist, Bridge aside: [owner, name]
          faults,       \* calls that failed so far
          stops         \* containers that stopped by themselves so far

daemon == <<containers, running, stopped, networks, stops>>
docker == <<daemon, faults>>

DockerInit ==
  /\ containers = {} /\ running = {} /\ stopped = {} /\ networks = {}
  /\ faults = 0 /\ stops = 0

\* A call fails that the daemon could have served.
Fault == faults < MaxFaults /\ faults' = faults + 1

\* ContainerCreate: names are unique, and the network must be there.
CanCreate(c) ==
  /\ ~\E d \in containers : d.name = c.name
  /\ c.net \in networks \cup {Bridge}

Create(c) ==
  /\ CanCreate(c)
  /\ containers' = containers \cup {c}
  /\ UNCHANGED <<running, stopped, networks, stops>>

\* The managers of pools publish port 50051 of the host.  A sandbox, which asks
\* for no network and hands over no host configuration, publishes none, whatever
\* its name.
publishes(c) == c.name[1] = "manager" /\ c.net # Bridge

\* ContainerStart.
CanStart(c) ==
  /\ c \in containers
  /\ c.net \in networks \cup {Bridge}
  /\ publishes(c) => ~\E d \in running : publishes(d)

Start(c) ==
  /\ CanStart(c)
  /\ running' = running \cup {c}
  /\ stopped' = stopped \ {c}
  /\ UNCHANGED <<containers, networks, stops>>

\* ContainerRemove with Force, by the id of the container.
RemoveContainer(c) ==
  /\ c \in containers
  /\ containers' = containers \ {c}
  /\ running' = running \ {c}
  /\ stopped' = stopped \ {c}
  /\ UNCHANGED <<networks, stops>>

\* NetworkCreate; two networks may have one name.
CreateNetwork(n) ==
  /\ networks' = networks \cup {n}
  /\ UNCHANGED <<containers, running, stopped, stops>>

\* NetworkRemove: refused while a running container is attached.
CanRemoveNetwork(n) == n \in networks /\ ~\E c \in running : c.net = n

RemoveNetwork(n) ==
  /\ CanRemoveNetwork(n)
  /\ networks' = networks \ {n}
  /\ UNCHANGED <<containers, running, stopped, stops>>

\* Call A, served when can holds, succeeds.
Succeeds(A) == A /\ UNCHANGED faults

\* It returns an error: refused, lost, or served with the answer lost.
Fails(can, A) ==
  \/ ~can /\ UNCHANGED docker
  \/ Fault /\ UNCHANGED daemon
  \/ Fault /\ A

\* A container of the host stops by itself.
ContainerStops(c) ==
  /\ c \in running /\ stops < MaxStops
  /\ stops' = stops + 1
  /\ running' = running \ {c}
  /\ stopped' = stopped \cup {c}
  /\ UNCHANGED <<containers, networks, faults>>

\* The daemon starts it again: the policy "unless-stopped".
ContainerRestarts(c) == c \in stopped /\ Start(c) /\ UNCHANGED faults
=============================================================================
