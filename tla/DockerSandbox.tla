---------------------------- MODULE DockerSandbox ----------------------------
(***************************************************************************)
(* The sandboxes of tasks as Docker containers: CreateContainerSandbox and *)
(* DeleteContainerSandbox (internal/adapters/sandbox/docker_sandbox.go).   *)
(* A member of Sandboxes is one call of CreateContainerSandbox, with the   *)
(* name a task's configuration gives it; it may be any name.               *)
(*                                                                         *)
(* Left out, as nothing depends on it: the random host port, which is put  *)
(* into a host configuration that ContainerCreate does not get, and the    *)
(* map of used addresses, to which nothing is added.                       *)
(***************************************************************************)
EXTENDS Docker, Sequences

CONSTANTS Sandboxes,      \* calls of CreateContainerSandbox
          Deleters        \* calls of DeleteContainerSandbox

VARIABLES
  sname,      \* the name asked for
  sandbox,    \* where each CreateContainerSandbox is
  lost,       \* history: creating or removing the container has failed
  delete      \* the container a DeleteContainerSandbox call has inspected

sandboxVars == <<sname, sandbox, lost, delete>>

SandboxInit(names) ==
  /\ sname \in [Sandboxes -> names]
  /\ sandbox = [s \in Sandboxes |-> "idle"]
  /\ lost = {}
  /\ delete = [d \in Deleters |-> {}]

\* The container of call s.
own(s) == [owner |-> s, name |-> sname[s], net |-> Bridge]

\* The history of a call to create or to remove the container.
noteFault(s) == lost' = IF faults' # faults THEN lost \cup {s} ELSE lost

\* Slip: the cleanup also runs when the container could not be created, by its
\* name.
CreateSandboxByName(s) ==
  /\ sandbox[s] = "idle"
  /\ \/ /\ Succeeds(Create(own(s)))
        /\ sandbox' = [sandbox EXCEPT ![s] = "created"]
     \/ /\ \E c \in containers : c.name = sname[s] /\ Succeeds(RemoveContainer(c))
        /\ sandbox' = [sandbox EXCEPT ![s] = "error"]
  /\ UNCHANGED <<sname, lost, delete>>

\* CreateContainerSandbox: an invalid configuration is an error; then
\* ContainerCreate.
CreateSandbox(s) ==
  /\ sandbox[s] = "idle"
  /\ \/ /\ Succeeds(Create(own(s)))
        /\ sandbox' = [sandbox EXCEPT ![s] = "created"]
        /\ UNCHANGED lost
     \/ /\ UNCHANGED docker \/ Fails(CanCreate(own(s)), Create(own(s)))
        /\ sandbox' = [sandbox EXCEPT ![s] = "error"]
        /\ noteFault(s)
  /\ UNCHANGED <<sname, delete>>

\* Slip: the container that did not start is left behind.
StartSandboxLeaves(s) ==
  /\ sandbox[s] = "created"
  /\ \/ /\ Succeeds(Start(own(s)))
        /\ sandbox' = [sandbox EXCEPT ![s] = "ok"]
     \/ /\ Fails(CanStart(own(s)), Start(own(s)))
        /\ sandbox' = [sandbox EXCEPT ![s] = "error"]
  /\ UNCHANGED <<sname, lost, delete>>

\* ContainerStart.
StartSandbox(s) ==
  /\ sandbox[s] = "created"
  /\ \/ /\ Succeeds(Start(own(s)))
        /\ sandbox' = [sandbox EXCEPT ![s] = "ok"]
     \/ /\ Fails(CanStart(own(s)), Start(own(s)))
        /\ sandbox' = [sandbox EXCEPT ![s] = "removing"]
  /\ UNCHANGED <<sname, lost, delete>>

\* The container did not start: it is removed by its id, whatever comes of it.
RemoveSandbox(s) ==
  /\ sandbox[s] = "removing"
  /\ \/ Succeeds(RemoveContainer(own(s)))
     \/ Fails(own(s) \in containers, RemoveContainer(own(s)))
  /\ noteFault(s)
  /\ sandbox' = [sandbox EXCEPT ![s] = "error"]
  /\ UNCHANGED <<sname, delete>>

-----------------------------------------------------------------------------
\* DeleteContainerSandbox: ContainerInspect, by a caller that has learnt the id of
\* the container from the daemon.  CreateContainerSandbox does not return it: its
\* answer is an empty string, with which the inspection fails and nothing
\* happens.
InspectSandbox(d, s) ==
  /\ delete[d] = {} /\ sandbox[s] = "ok"
  /\ \/ /\ own(s) \in containers /\ UNCHANGED faults
        /\ delete' = [delete EXCEPT ![d] = {own(s)}]
     \/ /\ (own(s) \notin containers /\ UNCHANGED faults) \/ Fault
        /\ UNCHANGED delete
  /\ UNCHANGED <<daemon, sname, sandbox, lost>>

\* Then ContainerRemove, whose error is returned.
DeleteSandbox(d) ==
  /\ \E c \in delete[d] :
       \/ Succeeds(RemoveContainer(c))
       \/ Fails(c \in containers, RemoveContainer(c))
  /\ delete' = [delete EXCEPT ![d] = {}]
  /\ UNCHANGED <<sname, sandbox, lost>>

SandboxStep(s) ==
  \/ CreateSandbox(s) \/ StartSandbox(s) \/ RemoveSandbox(s)
  \/ \E d \in Deleters : InspectSandbox(d, s)

-----------------------------------------------------------------------------
\* A CreateContainerSandbox that returned an error has left no container, not
\* even one that a lost answer started, unless the daemon failed to create or
\* to remove it (docker_sandbox.go:185-193).
FailedCreateLeavesNothing ==
  \A s \in Sandboxes : sandbox[s] = "error" /\ s \notin lost => own(s) \notin containers
=============================================================================
