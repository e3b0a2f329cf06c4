------------------------------ MODULE Containers ------------------------------
(***************************************************************************)
(* The calls src/src/containers.rs makes to the docker daemon, one container *)
(* per user and one process per exec.  Docker itself is external: what a   *)
(* call does is taken from how the code uses its answer.  A call that      *)
(* fails leaves docker as it was, except where an answer may be lost.      *)
(*                                                                         *)
(* The calls are operators for the tasks that make them (SshSession); who  *)
(* makes which call when, and what becomes of an error, is said there.     *)
(***************************************************************************)

CONSTANTS
  Usernames,   \* names of users
  Processes,   \* exec ids docker draws, each for one process
  None         \* no user, no process

ASSUME NoneAssumption == None \notin Usernames \cup Processes

VARIABLES
  container,   \* user -> state of the user's container
  state,       \* process -> state of the process
  owner        \* process -> user in whose container it is

docker == <<container, state, owner>>

DockerInit ==
  /\ container \in [Usernames -> {"none", "created"}]
  /\ state = [p \in Processes |-> "free"]
  /\ owner = [p \in Processes |-> None]

DockerTypeOK ==
  /\ container \in [Usernames -> {"none", "created", "running"}]
  /\ state \in [Processes -> {"free", "created", "running", "ended"}]
  /\ owner \in [Processes -> Usernames \cup {None}]
  /\ \A p \in Processes : state[p] = "free" <=> owner[p] = None
  /\ \A p \in Processes : owner[p] # None => container[owner[p]] = "running"

Running(p) == state[p] = "running"

\* Mutant: the name of the container is not compared.
FoundAny(u) == {v \in Usernames : container[v] # "none"}

\* get_container: the container of the user in the list of all of them.
Found(u) == {v \in {u} : container[v] # "none"}

\* create_container: docker refuses a second container of one name.
Creatable(u) == container[u] = "none"
CreateContainer(u) ==
  /\ container' = [container EXCEPT ![u] = "created"]
  /\ UNCHANGED <<state, owner>>

StartContainer(u) ==
  /\ container' = [container EXCEPT ![u] = "running"]
  /\ UNCHANGED <<state, owner>>

CreateExec(u, p) ==
  /\ state[p] = "free"
  /\ state' = [state EXCEPT ![p] = "created"]
  /\ owner' = [owner EXCEPT ![p] = u]
  /\ UNCHANGED container

StartExec(p) ==
  /\ state' = [state EXCEPT ![p] = "running"]
  /\ UNCHANGED <<container, owner>>

\* The second half of detatch, kill -9 of the pid docker has named; it does
\* nothing to a process that has ended, whose pid is taken to be nobody's.
Kill(p) ==
  /\ state' = [state EXCEPT ![p] = IF @ = "running" THEN "ended" ELSE @]
  /\ UNCHANGED <<container, owner>>

\* A process comes to its end by itself.
Exits(p) ==
  /\ state[p] = "running"
  /\ state' = [state EXCEPT ![p] = "ended"]
  /\ UNCHANGED <<container, owner>>

=============================================================================
