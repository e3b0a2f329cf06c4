------------------------------- MODULE SshProofs -------------------------------
(***************************************************************************)
(* Proofs about SshSession: whose a process is, and what becomes of it,    *)
(* for any number of users, connections, channels and processes.           *)
(***************************************************************************)
EXTENDS SshSession, TLAPS

AttachSteps == {"list", "create", "start", "exec", "run", "resize"}
ProcessSteps == {"run", "resize", "inspect", "kill"}

Empty(s, c) == channels[s][c] # None => channels[s][c].process = None

\* A method works for the session's user, on a channel that is there; a session
\* that is not open has nothing.
SessionInv ==
  \A s \in Connections :
    /\ conn[s] # "open" => task[s] = Idle /\ \A c \in Channels : channels[s][c] = None
    /\ conn[s] = "open" => \A c \in Channels : client[s][c] = "open" => channels[s][c] # None
    /\ conn[s] = "new" => \A c \in Channels : client[s][c] = "unopened"
    /\ \A c \in Channels : client[s][c] = "unopened" => channels[s][c] = None
    /\ task[s].step \in AttachSteps =>
         task[s].channel \in Channels /\ channels[s][task[s].channel] # None
    /\ task[s].step \in {"start", "exec", "run", "resize"} => task[s].user = user[s]
    /\ task[s].step = "exec" => container[user[s]] = "running"
    /\ task[s].process # None <=> task[s].step \in ProcessSteps

\* A process is in the hands of one method, or held by one channel, and in the
\* container of the user of either.
ProcessInv ==
  \A s \in Connections :
    /\ task[s].process # None =>
         /\ owner[task[s].process] = user[s]
         /\ ~Held(task[s].process)
         /\ \A t \in Connections \ {s} : task[t].process # task[s].process
    /\ \A c \in Channels, p \in Processes : Holds(s, c, p) =>
         /\ owner[p] = user[s]
         /\ \A t \in Connections, d \in Channels : Holds(t, d, p) => s = t /\ c = d

\* A container is created only for a connection without processes, so that a
\* race for it which ends the connection leaves none behind; and no program
\* takes the place of another as long as nothing unexpected happens.
CalmInv ==
  /\ \A s \in Connections :
       /\ task[s].step = "create" => \A c \in Channels : Empty(s, c)
       /\ calm /\ task[s].step \in AttachSteps => Empty(s, task[s].channel)
  /\ CleanedUp

IInv == TypeOK /\ SessionInv /\ ProcessInv /\ CalmInv

LEMMA InitIInv == Init => IInv
<1> SUFFICES ASSUME Init PROVE IInv
  OBVIOUS
<1> USE DEF Init, DockerInit, Idle
<1>1. TypeOK
  BY DEF TypeOK, DockerTypeOK, Task, Steps
<1>2. SessionInv
  BY DEF SessionInv, AttachSteps, ProcessSteps
<1>3. ProcessInv
  BY DEF ProcessInv, Holds
<1>4. CalmInv
  BY DEF CalmInv, CleanedUp, Stray, Running, AttachSteps
<1> QED
  BY <1>1, <1>2, <1>3, <1>4 DEF IInv

-----------------------------------------------------------------------------
\* A method goes on, keeping the process it has or letting it go.
LEMMA TaskStep ==
  ASSUME IInv, NEW s \in Connections, conn[s] = "open",
         NEW new \in Task, task' = [task EXCEPT ![s] = new],
         UNCHANGED <<session, reader, client, closing>>,
         calm' \in BOOLEAN, calm' => calm,
         DockerTypeOK', owner' = owner,
         \A u \in Usernames : container[u] = "running" => container'[u] = "running",
         \A p \in Processes :
           calm' /\ state'[p] = "running" => state[p] = "running" \/ p = new.process,
         new.process # None <=> new.step \in ProcessSteps,
         new.process # None => new.process = task[s].process,
         calm' /\ task[s].process # None /\ new.process = None =>
           state'[task[s].process] # "running",
         new.step \in AttachSteps =>
           /\ new.channel \in Channels
           /\ channels[s][new.channel] # None
           /\ calm' => Empty(s, new.channel),
         new.step \in {"start", "exec", "run", "resize"} => new.user = user[s],
         new.step = "exec" => container'[user[s]] = "running",
         new.step = "create" => \A c \in Channels : Empty(s, c)
  PROVE  IInv'
<1> USE DEF IInv, session
<1>1. /\ task'[s] = new
      /\ \A t \in Connections \ {s} : task'[t] = task[t]
      /\ task' \in [Connections -> Task]
  BY DEF TypeOK
<1>2. TypeOK'
  BY <1>1 DEF TypeOK, ProcessSteps
<1>3. SessionInv'
  BY <1>1 DEF SessionInv, TypeOK
<1>4. \A t \in Connections, c \in Channels, p \in Processes :
        Holds(t, c, p)' <=> Holds(t, c, p)
  BY DEF Holds
<1>5. \A p : Held(p)' <=> Held(p)
  BY DEF Held, Holds
<1>6. ProcessInv'
  BY <1>1, <1>4, <1>5 DEF ProcessInv
<1>7. CleanedUp'
  <2> SUFFICES ASSUME calm', NEW p \in Processes, Stray(p)' PROVE FALSE
    BY DEF CleanedUp
  <2>1. state'[p] = "running" /\ ~Held(p) /\ p # new.process
    BY <1>1, <1>5 DEF Stray, Running, InHands
  <2>2. state[p] = "running" /\ calm
    BY <2>1
  <2>3. InHands(p)
    BY <2>1, <2>2 DEF CalmInv, CleanedUp, Stray, Running
  <2>4. task[s].process = p
    BY <1>1, <2>1, <2>3 DEF Stray, InHands
  <2>5. p # None
    BY NoneAssumption
  <2> QED
    BY <2>1, <2>4, <2>5
<1>8. CalmInv'
  BY <1>1, <1>7 DEF CalmInv, Empty
<1> QED
  BY <1>2, <1>3, <1>6, <1>8

\* A connection ends, over an error or by itself: either something unexpected has
\* happened, or it had no process.
LEMMA DropStep ==
  ASSUME IInv, NEW D \in SUBSET Connections, Drop(D),
         reader' \in [Processes -> (Connections \X Channels) \cup {None}],
         calm' \in BOOLEAN, calm' => calm,
         DockerTypeOK', owner' = owner, container' = container,
         calm' => /\ state' = state
                  /\ \A s \in D : /\ task[s].process = None
                                  /\ \A c \in Channels : Empty(s, c)
  PROVE  IInv'
<1> USE DEF IInv, Drop
<1>1. \A s \in Connections :
        /\ s \in D => /\ conn'[s] = "ended" /\ task'[s] = Idle
                       /\ \A c \in Channels : channels'[s][c] = None
        /\ s \notin D => conn'[s] = conn[s] /\ task'[s] = task[s] /\ channels'[s] = channels[s]
  OBVIOUS
<1>2. TypeOK'
  <2>1. Idle \in Task
    BY DEF Idle, Task, Steps
  <2>2. /\ conn' \in [Connections -> {"new", "open", "ended"}]
        /\ task' \in [Connections -> Task]
        /\ channels' \in [Connections -> [Channels -> Channel \cup {None}]]
    BY <2>1 DEF TypeOK
  <2> QED
    BY <1>1, <2>2 DEF TypeOK, Idle
<1>3. SessionInv'
  BY <1>1 DEF SessionInv, Idle, AttachSteps, ProcessSteps
<1>4. \A t \in Connections, c \in Channels, p \in Processes :
        Holds(t, c, p)' <=> t \notin D /\ Holds(t, c, p)
  BY <1>1 DEF Holds
<1>5. \A p \in Processes : Held(p)' => Held(p)
  BY <1>4 DEF Held
<1>6. ProcessInv'
  <2>1. ASSUME NEW s \in Connections, task'[s].process # None
        PROVE  /\ owner'[task'[s].process] = user'[s]
               /\ ~Held(task[s].process)'
               /\ \A t \in Connections \ {s} : task'[t].process # task'[s].process
    <3>1. task'[s] = task[s] /\ task[s].process \in Processes
      BY <1>1, <2>1 DEF Idle, TypeOK, Task
    <3>2. /\ owner[task[s].process] = user[s]
          /\ ~Held(task[s].process)
          /\ \A t \in Connections \ {s} : task[t].process # task[s].process
      BY <2>1, <3>1 DEF ProcessInv
    <3>3. \A t \in Connections : task'[t].process \in {task[t].process, None}
      BY <1>1 DEF Idle
    <3>4. ~Held(task[s].process)'
      BY <1>4, <3>1, <3>2 DEF Held
    <3>5. owner'[task'[s].process] = user'[s]
      BY <3>1, <3>2
    <3> QED
      BY <2>1, <3>1, <3>2, <3>3, <3>4, <3>5
  <2>2. ASSUME NEW s \in Connections, NEW c \in Channels, NEW p \in Processes, Holds(s, c, p)'
        PROVE  /\ owner'[p] = user'[s]
               /\ \A t \in Connections, d \in Channels : Holds(t, d, p)' => s = t /\ c = d
    BY <1>4, <2>2 DEF ProcessInv
  <2> HIDE DEF Drop
  <2> QED
    BY <2>1, <2>2, <1>4 DEF ProcessInv
<1>7. CleanedUp'
  <2> SUFFICES ASSUME calm', NEW p \in Processes, Running(p)'
               PROVE  Held(p)' \/ InHands(p)'
    BY DEF CleanedUp, Stray
  <2>1. Held(p) \/ InHands(p)
    BY DEF CalmInv, CleanedUp, Stray, Running
  <2>2. CASE Held(p)
    <3>1. PICK s \in Connections, c \in Channels : Holds(s, c, p)
      BY <2>2 DEF Held
    <3>2. s \notin D
      BY <3>1, NoneAssumption DEF Empty, Holds
    <3> QED
      BY <1>4, <3>1, <3>2 DEF Held
  <2>3. CASE InHands(p)
    <3>1. PICK s \in Connections : task[s].process = p
      BY <2>3 DEF InHands
    <3>2. s \notin D
      BY <3>1, NoneAssumption
    <3> QED
      BY <1>1, <3>1, <3>2 DEF InHands
  <2> QED
    BY <2>1, <2>2, <2>3
<1>8. CalmInv'
  BY <1>1, <1>7 DEF CalmInv, Empty, Idle, AttachSteps
<1> QED
  BY <1>2, <1>3, <1>6, <1>8

-----------------------------------------------------------------------------
\* What the calls do to docker.

LEMMA DockerSteps ==
  ASSUME DockerTypeOK
  PROVE  /\ UNCHANGED docker => DockerTypeOK'
         /\ \A u \in Usernames : CreateContainer(u) /\ Creatable(u) => DockerTypeOK'
         /\ \A u \in Usernames : StartContainer(u) => DockerTypeOK'
         /\ \A u \in Usernames, p \in Processes :
              CreateExec(u, p) /\ container[u] = "running" => DockerTypeOK'
         /\ \A p \in Processes : StartExec(p) /\ owner[p] # None => DockerTypeOK'
         /\ \A p \in Processes : Kill(p) => DockerTypeOK'
         /\ \A p \in Processes : Exits(p) => DockerTypeOK'
<1> USE DEF DockerTypeOK
<1>1. UNCHANGED docker => DockerTypeOK'
  BY DEF docker
<1>2. ASSUME NEW u \in Usernames, CreateContainer(u), Creatable(u) PROVE DockerTypeOK'
  BY <1>2 DEF CreateContainer, Creatable
<1>3. ASSUME NEW u \in Usernames, StartContainer(u) PROVE DockerTypeOK'
  BY <1>3 DEF StartContainer
<1>4. ASSUME NEW u \in Usernames, NEW p \in Processes, CreateExec(u, p), container[u] = "running"
      PROVE  DockerTypeOK'
  BY <1>4, NoneAssumption DEF CreateExec
<1>5. ASSUME NEW p \in Processes, StartExec(p), owner[p] # None PROVE DockerTypeOK'
  BY <1>5 DEF StartExec
<1>6. ASSUME NEW p \in Processes, Kill(p) PROVE DockerTypeOK'
  BY <1>6 DEF Kill
<1>7. ASSUME NEW p \in Processes, Exits(p) PROVE DockerTypeOK'
  BY <1>7 DEF Exits
<1> QED
  BY <1>1, <1>2, <1>3, <1>4, <1>5, <1>6, <1>7

\* The process a method has is one, in a container of the user of the session.
LEMMA TaskProcess ==
  ASSUME IInv, NEW s \in Connections, task[s].step # "idle"
  PROVE  /\ conn[s] = "open" /\ task[s] \in Task /\ user[s] \in Usernames
         /\ task[s].step \in ProcessSteps =>
              task[s].process \in Processes /\ owner[task[s].process] = user[s]
<1> USE DEF IInv
<1>1. conn[s] = "open" /\ task[s] \in Task /\ user[s] \in Usernames
  BY DEF TypeOK
<1>2. ASSUME task[s].step \in ProcessSteps
      PROVE  task[s].process \in Processes /\ owner[task[s].process] = user[s]
  BY <1>1, <1>2 DEF SessionInv, ProcessInv, Task
<1> QED
  BY <1>1, <1>2

-----------------------------------------------------------------------------
\* Failing methods.

LEMMA CallFailsStep ==
  ASSUME IInv, NEW s \in Connections, CallFails(s), UNCHANGED docker
  PROVE  IInv'
<1>1. DockerTypeOK'
  BY DockerSteps DEF IInv, TypeOK
<1>2. reader' \in [Processes -> (Connections \X Channels) \cup {None}] /\ calm' = FALSE
  BY DEF CallFails, Fail, Unexpected, IInv, TypeOK
<1> QED
  BY <1>1, <1>2, DropStep DEF CallFails, Fail, docker

LEMMA FailStep ==
  ASSUME IInv, NEW s \in Connections, Fail(s), UNCHANGED docker,
         \/ calm' = FALSE
         \/ /\ UNCHANGED calm
            /\ task[s].process = None
            /\ \A c \in Channels : Empty(s, c)
  PROVE  IInv'
<1>1. DockerTypeOK'
  BY DockerSteps DEF IInv, TypeOK
<1>2. reader' \in [Processes -> (Connections \X Channels) \cup {None}]
  BY DEF Fail, IInv, TypeOK
<1>4. calm' \in BOOLEAN /\ (calm' => calm)
  <2>1. CASE calm' = FALSE
    BY <2>1
  <2>2. CASE UNCHANGED calm
    BY <2>2 DEF IInv, TypeOK
  <2> QED
    BY <2>1, <2>2
<1>3. state' = state /\ owner' = owner /\ container' = container
  BY DEF docker
<1> QED
  BY <1>1, <1>2, <1>3, <1>4, DropStep DEF Fail

-----------------------------------------------------------------------------
\* The methods that wait, call by call.

LEMMA ListStep ==
  ASSUME IInv, NEW s \in Connections, List(s)
  PROVE  IInv'
<1> USE DEF IInv
<1>1. /\ task[s].step = "list" /\ conn[s] = "open" /\ task[s] \in Task
      /\ user[s] \in Usernames /\ UNCHANGED docker /\ DockerTypeOK'
  BY TaskProcess, DockerSteps DEF List, TypeOK
<1>2. /\ task[s].process = None
      /\ task[s].channel \in Channels /\ channels[s][task[s].channel] # None
      /\ calm => Empty(s, task[s].channel)
  BY <1>1 DEF SessionInv, CalmInv, AttachSteps, ProcessSteps
<1>3. CASE \E u \in Found(user[s]) : task' = [task EXCEPT ![s].step = "start", ![s].user = u] /\ Frame
  <2>1. task' = [task EXCEPT ![s] = [task[s] EXCEPT !.step = "start", !.user = user[s]]] /\ Frame
    BY <1>3 DEF Found
  <2>2. [task[s] EXCEPT !.step = "start", !.user = user[s]] \in Task
    BY <1>1 DEF Task, Steps
  <2> DEFINE new == [task[s] EXCEPT !.step = "start", !.user = user[s]]
  <2>3. /\ new.step = "start" /\ new.user = user[s]
        /\ new.process = None /\ new.channel = task[s].channel
    BY <1>1, <1>2 DEF Task
  <2> HIDE DEF new
  <2> QED
    BY <1>1, <1>2, <2>1, <2>2, <2>3, TaskStep
    DEF Frame, docker, TypeOK, AttachSteps, ProcessSteps, new
<1>4. CASE Found(user[s]) = {} /\ Goto(s, "create") /\ Frame
  <2>1. task' = [task EXCEPT ![s] = [task[s] EXCEPT !.step = "create"]] /\ Frame
    BY <1>4 DEF Goto
  <2>2. [task[s] EXCEPT !.step = "create"] \in Task
    BY <1>1 DEF Task, Steps
  <2> DEFINE new == [task[s] EXCEPT !.step = "create"]
  <2>3. new.step = "create" /\ new.process = None /\ new.channel = task[s].channel
    BY <1>1, <1>2 DEF Task
  <2>4. container[user[s]] = "none"
    BY <1>1, <1>4 DEF Found
  <2>5. ASSUME NEW c \in Channels PROVE Empty(s, c)
    <3> SUFFICES ASSUME channels[s][c] # None, channels[s][c].process # None PROVE FALSE
      BY DEF Empty
    <3>1. channels[s][c].process \in Processes
      BY DEF TypeOK, Channel
    <3>2. owner[channels[s][c].process] = user[s]
      BY <3>1 DEF ProcessInv, Holds
    <3>3. owner[channels[s][c].process] # None
      BY <1>1, <3>2, NoneAssumption
    <3> QED
      BY <2>4, <3>1, <3>2, <3>3 DEF TypeOK, DockerTypeOK
  <2> HIDE DEF new
  <2> QED
    BY <1>1, <1>2, <2>1, <2>2, <2>3, <2>5, TaskStep
    DEF Frame, docker, TypeOK, AttachSteps, ProcessSteps, new
<1> QED
  BY <1>1, <1>3, <1>4, CallFailsStep DEF List

LEMMA CreateStep ==
  ASSUME IInv, NEW s \in Connections, Create(s)
  PROVE  IInv'
<1> USE DEF IInv
<1>1. /\ task[s].step = "create" /\ conn[s] = "open" /\ task[s] \in Task
      /\ user[s] \in Usernames
  BY TaskProcess DEF Create
<1>2. /\ task[s].process = None
      /\ task[s].channel \in Channels /\ channels[s][task[s].channel] # None
      /\ calm => Empty(s, task[s].channel)
      /\ \A c \in Channels : Empty(s, c)
  BY <1>1 DEF SessionInv, CalmInv, AttachSteps, ProcessSteps
<1>3. CASE /\ Creatable(user[s]) /\ CreateContainer(user[s]) /\ Frame
           /\ task' = [task EXCEPT ![s].step = "start", ![s].user = user[s]]
  <2>1. task' = [task EXCEPT ![s] = [task[s] EXCEPT !.step = "start", !.user = user[s]]]
    BY <1>3
  <2>2. [task[s] EXCEPT !.step = "start", !.user = user[s]] \in Task
    BY <1>1 DEF Task, Steps
  <2> DEFINE new == [task[s] EXCEPT !.step = "start", !.user = user[s]]
  <2>3. /\ new.step = "start" /\ new.user = user[s]
        /\ new.process = None /\ new.channel = task[s].channel
    BY <1>1, <1>2 DEF Task
  <2>4. /\ DockerTypeOK' /\ owner' = owner /\ state' = state
        /\ \A u \in Usernames : container[u] = "running" => container'[u] = "running"
    BY <1>1, <1>3, DockerSteps DEF TypeOK, DockerTypeOK, CreateContainer, Creatable
  <2>5. UNCHANGED <<session, reader, client, closing, calm>> /\ calm \in BOOLEAN
    BY <1>3 DEF Frame, TypeOK
  <2>6. new \in Task /\ task' = [task EXCEPT ![s] = new]
    BY <2>1, <2>2
  <2> HIDE DEF new, IInv
  <2> QED
    BY <1>1, <1>2, <2>3, <2>4, <2>5, <2>6, TaskStep DEF AttachSteps, ProcessSteps
<1>4. CASE Fail(s) /\ UNCHANGED <<docker, calm>>
  BY <1>2, <1>4, FailStep
<1>5. CASE CallFails(s) /\ UNCHANGED docker
  BY <1>5, CallFailsStep
<1> QED
  BY <1>3, <1>4, <1>5 DEF Create

LEMMA StartStep ==
  ASSUME IInv, NEW s \in Connections, Start(s)
  PROVE  IInv'
<1> USE DEF IInv
<1>1. /\ task[s].step = "start" /\ conn[s] = "open" /\ task[s] \in Task
      /\ user[s] \in Usernames
  BY TaskProcess DEF Start
<1>2. /\ task[s].process = None /\ task[s].user = user[s]
      /\ task[s].channel \in Channels /\ channels[s][task[s].channel] # None
      /\ calm => Empty(s, task[s].channel)
  BY <1>1 DEF SessionInv, CalmInv, AttachSteps, ProcessSteps
<1>3. CASE StartContainer(task[s].user) /\ Goto(s, "exec") /\ Frame
  <2>1. task' = [task EXCEPT ![s] = [task[s] EXCEPT !.step = "exec"]]
    BY <1>3 DEF Goto
  <2>2. [task[s] EXCEPT !.step = "exec"] \in Task
    BY <1>1 DEF Task, Steps
  <2> DEFINE new == [task[s] EXCEPT !.step = "exec"]
  <2>3. /\ new.step = "exec" /\ new.user = user[s]
        /\ new.process = None /\ new.channel = task[s].channel
    BY <1>1, <1>2 DEF Task
  <2>4. /\ DockerTypeOK' /\ owner' = owner /\ state' = state
        /\ container'[user[s]] = "running"
        /\ \A u \in Usernames : container[u] = "running" => container'[u] = "running"
    BY <1>1, <1>2, <1>3, DockerSteps DEF TypeOK, DockerTypeOK, StartContainer
  <2> HIDE DEF new
  <2> QED
    BY <1>1, <1>2, <1>3, <2>1, <2>2, <2>3, <2>4, TaskStep
    DEF Frame, TypeOK, AttachSteps, ProcessSteps, new
<1> QED
  BY <1>3, CallFailsStep DEF Start

\* The exec id is new, so nobody has or holds it yet.
LEMMA ExecStep ==
  ASSUME IInv, NEW s \in Connections, Exec(s)
  PROVE  IInv'
<1> USE DEF IInv
<1>1. /\ task[s].step = "exec" /\ conn[s] = "open" /\ task[s] \in Task
      /\ user[s] \in Usernames
  BY TaskProcess DEF Exec
<1>2. /\ task[s].process = None /\ task[s].user = user[s] /\ container[user[s]] = "running"
      /\ task[s].channel \in Channels /\ channels[s][task[s].channel] # None
      /\ calm => Empty(s, task[s].channel)
  BY <1>1 DEF SessionInv, CalmInv, AttachSteps, ProcessSteps
<1>3. ASSUME NEW p \in Processes, CreateExec(user[s], p),
             task' = [task EXCEPT ![s].step = "run", ![s].process = p], Frame
      PROVE  IInv'
  <2>1. task' = [task EXCEPT ![s] = [task[s] EXCEPT !.step = "run", !.process = p]]
    BY <1>3
  <2> DEFINE new == [task[s] EXCEPT !.step = "run", !.process = p]
  <2>2. /\ new \in Task /\ new.step = "run" /\ new.user = user[s]
        /\ new.process = p /\ new.channel = task[s].channel
    BY <1>1, <1>2 DEF Task, Steps
  <2> HIDE DEF new
  <2>3. /\ task'[s] = new /\ \A t \in Connections \ {s} : task'[t] = task[t]
        /\ task' \in [Connections -> Task]
    BY <2>1, <2>2 DEF TypeOK, new
  <2>4. /\ p # None /\ owner[p] = None /\ state[p] = "free"
        /\ \A q \in Processes \ {p} : owner'[q] = owner[q] /\ state'[q] = state[q]
        /\ owner'[p] = user[s] /\ state'[p] = "created" /\ container' = container
        /\ DockerTypeOK'
    BY <1>1, <1>2, <1>3, NoneAssumption, DockerSteps DEF TypeOK, DockerTypeOK, CreateExec
  <2>5. UNCHANGED <<conn, user, channels, reader, client, closing, calm>>
    BY <1>3 DEF Frame, session
  <2>6. TypeOK'
    <3>1. \A t \in Connections :
            /\ task'[t].step # "idle" => conn[t] = "open"
            /\ task'[t].step \in {"run", "resize", "inspect", "kill"} => task'[t].process # None
      BY <1>1, <2>2, <2>3, <2>4 DEF TypeOK
    <3>2. DockerTypeOK' /\ task' \in [Connections -> Task]
      BY <2>3, <2>4
    <3> QED
      BY <2>5, <3>1, <3>2 DEF TypeOK
  <2>7. SessionInv'
    BY <1>1, <1>2, <2>2, <2>3, <2>4, <2>5 DEF SessionInv, ProcessSteps, AttachSteps
  <2>8. \A t \in Connections, c \in Channels, q \in Processes :
          Holds(t, c, q)' <=> Holds(t, c, q)
    BY <2>5 DEF Holds
  <2>9. \A q : Held(q)' <=> Held(q)
    BY <2>5 DEF Held, Holds
  <2>10. ~Held(p)
    <3> SUFFICES ASSUME NEW t \in Connections, NEW c \in Channels, Holds(t, c, p) PROVE FALSE
      BY DEF Held
    <3>1. owner[p] = user[t]
      BY DEF ProcessInv
    <3>2. conn[t] = "open"
      BY DEF SessionInv, Holds
    <3> QED
      BY <2>4, <3>1, <3>2 DEF TypeOK
  <2>11. \A t \in Connections : task[t].process # p
    BY <1>1, <2>4, TaskProcess, NoneAssumption DEF SessionInv, ProcessSteps
  <2>12. ProcessInv'
    <3>1. ASSUME NEW t \in Connections, task'[t].process # None
          PROVE  /\ owner'[task'[t].process] = user'[t]
                 /\ ~Held(task[t].process)'
                 /\ \A o \in Connections \ {t} : task'[o].process # task'[t].process
      <4>1. CASE t = s
        BY <4>1, <2>2, <2>3, <2>4, <2>5, <2>9, <2>10, <2>11
      <4>2. CASE t # s
        <5>1. task'[t] = task[t] /\ task[t].process \in Processes \ {p}
          BY <2>3, <2>11, <3>1, <4>2 DEF TypeOK, Task
        <5> QED
          BY <2>2, <2>3, <2>4, <2>5, <2>9, <3>1, <4>2, <5>1 DEF ProcessInv
      <4> QED
        BY <4>1, <4>2
    <3>2. ASSUME NEW t \in Connections, NEW c \in Channels, NEW q \in Processes, Holds(t, c, q)
          PROVE  /\ owner'[q] = user'[t]
                 /\ \A o \in Connections, d \in Channels : Holds(o, d, q) => t = o /\ c = d
      BY <2>4, <2>5, <2>10, <3>2 DEF ProcessInv, Held
    <3> QED
      BY <2>8, <3>1, <3>2 DEF ProcessInv
  <2>13. CleanedUp'
    <3> SUFFICES ASSUME calm', NEW q \in Processes, Running(q)' PROVE Held(q)' \/ InHands(q)'
      BY DEF CleanedUp, Stray
    <3>1. q # p /\ Running(q)
      BY <2>4 DEF Running
    <3>2. Held(q) \/ InHands(q)
      BY <2>5, <3>1 DEF CalmInv, CleanedUp, Stray
    <3> QED
      BY <1>2, <2>3, <2>9, <3>1, <3>2, NoneAssumption DEF InHands
  <2>14. CalmInv'
    BY <1>2, <2>2, <2>3, <2>5, <2>13 DEF CalmInv, Empty
  <2> QED
    BY <2>6, <2>7, <2>12, <2>14
<1> QED
  BY <1>2, <1>3, CallFailsStep DEF Exec

\* A method hands its process to the channel it is for, which had none unless a
\* client asked again.
LEMMA AttachedStep ==
  ASSUME IInv, NEW s \in Connections, task[s].step \in {"run", "resize"}, Attached(s),
         DockerTypeOK', owner' = owner, container' = container,
         \A q \in Processes : state'[q] = "running" => state[q] = "running" \/ q = task[s].process
  PROVE  IInv'
<1> DEFINE c == task[s].channel
           p == task[s].process
<1> USE DEF IInv
<1>1. /\ conn[s] = "open" /\ p \in Processes /\ owner[p] = user[s] /\ p # None
      /\ c \in Channels /\ channels[s][c] # None
      /\ calm => Empty(s, c)
  BY TaskProcess, NoneAssumption DEF SessionInv, CalmInv, AttachSteps, ProcessSteps
<1>2. ~Held(p) /\ \A t \in Connections \ {s} : task[t].process # p
  BY <1>1 DEF ProcessInv
<1> HIDE DEF c, p
<1>3. /\ task' = [task EXCEPT ![s] = Idle]
      /\ channels' = [channels EXCEPT ![s][c].process = p]
      /\ reader' = [reader EXCEPT ![p] = <<s, c>>]
      /\ UNCHANGED <<conn, user, client, closing, calm>>
  BY DEF Attached, Done, Await, c, p
<1>4. /\ task'[s] = Idle /\ \A t \in Connections \ {s} : task'[t] = task[t]
      /\ task' \in [Connections -> Task]
  BY <1>3 DEF TypeOK, Idle, Task, Steps
<1>5. channels[s][c] \in Channel
  BY <1>1 DEF TypeOK
<1>6. /\ channels' \in [Connections -> [Channels -> Channel \cup {None}]]
      /\ channels'[s][c] # None /\ channels'[s][c].process = p
      /\ \A t \in Connections, d \in Channels :
           ~(t = s /\ d = c) => channels'[t][d] = channels[t][d]
  <2> DEFINE new == [channels[s][c] EXCEPT !.process = p]
  <2>1. new \in Channel /\ new.process = p
    BY <1>1, <1>5 DEF Channel
  <2>2. new # None
    BY <2>1, ChannelAssumption DEF Channel
  <2>3. channels' = [channels EXCEPT ![s] = [channels[s] EXCEPT ![c] = new]]
    BY <1>3
  <2> HIDE DEF new
  <2> QED
    BY <1>1, <2>1, <2>2, <2>3 DEF TypeOK
<1>7. reader' \in [Processes -> (Connections \X Channels) \cup {None}]
  BY <1>1, <1>3 DEF TypeOK
<1>8. TypeOK'
  <2>1. \A t \in Connections :
          /\ task'[t].step # "idle" => conn[t] = "open"
          /\ task'[t].step \in {"run", "resize", "inspect", "kill"} => task'[t].process # None
    BY <1>4 DEF TypeOK, Idle
  <2> QED
    BY <1>3, <1>4, <1>6, <1>7, <2>1 DEF TypeOK
<1>9. SessionInv'
  BY <1>1, <1>3, <1>4, <1>6 DEF SessionInv, Idle, AttachSteps, ProcessSteps
<1>10. ASSUME NEW t \in Connections, NEW d \in Channels, NEW q \in Processes
       PROVE  Holds(t, d, q)' <=> \/ t = s /\ d = c /\ q = p
                                  \/ ~(t = s /\ d = c) /\ Holds(t, d, q)
  <2>1. CASE t = s /\ d = c
    <3>1. channels'[t][d] # None /\ channels'[t][d].process = p
      BY <1>6, <2>1
    <3> QED
      BY <2>1, <3>1 DEF Holds
  <2>2. CASE ~(t = s /\ d = c)
    <3>1. channels'[t][d] = channels[t][d]
      BY <1>6, <2>2
    <3> QED
      BY <2>2, <3>1 DEF Holds
  <2> QED
    BY <2>1, <2>2
<1>11. ProcessInv'
  <2>1. ASSUME NEW t \in Connections, task'[t].process # None
        PROVE  /\ owner'[task'[t].process] = user'[t]
               /\ ~Held(task[t].process)'
               /\ \A o \in Connections \ {t} : task'[o].process # task'[t].process
    <3>1. t # s /\ task'[t] = task[t] /\ task[t].process \in Processes
      BY <1>4, <2>1 DEF Idle, TypeOK, Task
    <3>2. /\ owner[task[t].process] = user[t]
          /\ ~Held(task[t].process)
          /\ \A o \in Connections \ {t} : task[o].process # task[t].process
      BY <2>1, <3>1 DEF ProcessInv
    <3>3. ~Held(task[t].process)'
      BY <1>2, <1>10, <3>1, <3>2 DEF Held
    <3>4. \A o \in Connections \ {t} : task'[o].process # task'[t].process
      BY <1>4, <2>1, <3>1, <3>2 DEF Idle
    <3> QED
      BY <1>3, <3>1, <3>2, <3>3, <3>4
  <2>2. ASSUME NEW t \in Connections, NEW d \in Channels, NEW q \in Processes, Holds(t, d, q)'
        PROVE  /\ owner'[q] = user'[t]
               /\ \A o \in Connections, e \in Channels : Holds(o, e, q)' => t = o /\ d = e
    BY <1>1, <1>2, <1>3, <1>10, <2>2 DEF ProcessInv, Held
  <2> QED
    BY <2>1, <2>2 DEF ProcessInv
<1>12. CleanedUp'
  <2> SUFFICES ASSUME calm', NEW q \in Processes, Running(q)' PROVE Held(q)' \/ InHands(q)'
    BY DEF CleanedUp, Stray
  <2>1. CASE q = p
    <3>1. PICK d \in Channels : d = c
      BY <1>1
    <3>2. Holds(s, d, q)'
      BY <1>10, <2>1, <3>1
    <3> QED
      BY <3>2 DEF Held
  <2>2. CASE q # p
    <3>1. Running(q) /\ calm
      BY <1>3, <2>2 DEF Running, p
    <3>2. Held(q) \/ InHands(q)
      BY <3>1 DEF CalmInv, CleanedUp, Stray
    <3>3. CASE Held(q)
      <4>1. PICK t \in Connections, d \in Channels : Holds(t, d, q)
        BY <3>3 DEF Held
      <4>2. ~(t = s /\ d = c)
        BY <1>1, <3>1, <4>1, NoneAssumption DEF Empty, Holds
      <4> QED
        BY <1>10, <4>1, <4>2 DEF Held
    <3>4. CASE InHands(q)
      BY <1>4, <2>2, <3>4 DEF InHands, p
    <3> QED
      BY <3>2, <3>3, <3>4
  <2> QED
    BY <2>1, <2>2
<1>13. CalmInv'
  <2>1. ASSUME NEW t \in Connections
        PROVE  /\ task'[t].step = "create" => \A d \in Channels : Empty(t, d)'
               /\ calm' /\ task'[t].step \in AttachSteps => Empty(t, task[t].channel)'
    <3>1. CASE t = s
      BY <1>4, <3>1 DEF Idle, AttachSteps
    <3>2. CASE t # s
      <4>1. \A d \in Channels : channels'[t][d] = channels[t][d]
        BY <1>6, <3>2
      <4>2. task'[t].step \in AttachSteps => task[t].channel \in Channels
        BY <1>4, <3>2 DEF SessionInv
      <4> QED
        BY <1>3, <1>4, <3>2, <4>1, <4>2 DEF CalmInv, Empty, AttachSteps
    <3> QED
      BY <3>1, <3>2
  <2> QED
    BY <1>12, <2>1 DEF CalmInv
<1> QED
  BY <1>8, <1>9, <1>11, <1>13

LEMMA RunStep ==
  ASSUME IInv, NEW s \in Connections, Run(s)
  PROVE  IInv'
<1> USE DEF IInv
<1>1. /\ task[s].step = "run" /\ conn[s] = "open" /\ task[s] \in Task
      /\ user[s] \in Usernames /\ task[s].process \in Processes
      /\ owner[task[s].process] # None
  BY TaskProcess, NoneAssumption DEF Run, ProcessSteps
<1>2. /\ task[s].user = user[s] /\ task[s].process # None
      /\ task[s].channel \in Channels /\ channels[s][task[s].channel] # None
      /\ calm => Empty(s, task[s].channel)
  BY <1>1 DEF SessionInv, CalmInv, AttachSteps, ProcessSteps
<1>3. ASSUME StartExec(task[s].process)
      PROVE  /\ DockerTypeOK' /\ owner' = owner /\ container' = container
             /\ \A q \in Processes : state'[q] = "running" => state[q] = "running" \/ q = task[s].process
  BY <1>1, <1>3, DockerSteps DEF TypeOK, DockerTypeOK, StartExec
<1>4. CASE StartExec(task[s].process) /\ Goto(s, "resize") /\ Frame
  <2> DEFINE new == [task[s] EXCEPT !.step = "resize"]
  <2>1. new \in Task /\ task' = [task EXCEPT ![s] = new]
    BY <1>1, <1>4 DEF Goto, Task, Steps
  <2>2. /\ new.step = "resize" /\ new.user = user[s]
        /\ new.process = task[s].process /\ new.channel = task[s].channel
    BY <1>1, <1>2 DEF Task
  <2>3. UNCHANGED <<session, reader, client, closing, calm>> /\ calm \in BOOLEAN
    BY <1>4 DEF Frame, TypeOK
  <2> HIDE DEF new, IInv
  <2> QED
    BY <1>1, <1>2, <1>3, <1>4, <2>1, <2>2, <2>3, TaskStep DEF AttachSteps, ProcessSteps
<1>5. CASE StartExec(task[s].process) /\ Attached(s)
  BY <1>1, <1>3, <1>5, AttachedStep
<1>6. CASE CallFails(s) /\ StartExec(task[s].process)
  <2>1. reader' \in [Processes -> (Connections \X Channels) \cup {None}] /\ calm' = FALSE
    BY <1>6 DEF CallFails, Fail, Unexpected, TypeOK
  <2> HIDE DEF IInv
  <2> QED
    BY <1>3, <1>6, <2>1, DropStep DEF CallFails, Fail
<1>7. CASE CallFails(s) /\ UNCHANGED docker
  BY <1>7, CallFailsStep
<1> QED
  BY <1>4, <1>5, <1>6, <1>7 DEF Run

LEMMA ResizeStep ==
  ASSUME IInv, NEW s \in Connections, Resize(s)
  PROVE  IInv'
<1>1. DockerTypeOK' /\ owner' = owner /\ container' = container /\ state' = state
  BY DockerSteps DEF IInv, TypeOK, Resize, docker
<1>2. CASE Attached(s)
  BY <1>1, <1>2, AttachedStep DEF Resize
<1> QED
  BY <1>2, CallFailsStep DEF Resize

-----------------------------------------------------------------------------
\* Whose the processes are stays as it is, and no process starts.
LEMMA KeepStep ==
  ASSUME IInv, TypeOK', SessionInv', UNCHANGED <<owner, task>>, calm' => calm,
         \A p \in Processes : state'[p] = "running" => state[p] = "running",
         \A s \in Connections : \/ user'[s] = user[s]
                                \/ task[s].process = None /\ \A c \in Channels : channels[s][c] = None,
         \A s \in Connections, c \in Channels :
           /\ \A p \in Processes : Holds(s, c, p)' <=> Holds(s, c, p)
           /\ Empty(s, c) => Empty(s, c)'
  PROVE  IInv'
<1> USE DEF IInv
<1>1. \A p \in Processes : Held(p)' <=> Held(p)
  BY DEF Held
<1>2. ProcessInv'
  <2>1. ASSUME NEW s \in Connections, task[s].process # None
        PROVE  /\ owner[task[s].process] = user'[s]
               /\ ~Held(task[s].process)'
               /\ \A t \in Connections \ {s} : task[t].process # task[s].process
    <3>1. task[s].process \in Processes /\ user'[s] = user[s]
      BY <2>1 DEF TypeOK, Task
    <3>2. ~Held(task[s].process)'
      BY <1>1, <2>1, <3>1 DEF ProcessInv
    <3> QED
      BY <2>1, <3>1, <3>2 DEF ProcessInv
  <2>2. ASSUME NEW s \in Connections, NEW c \in Channels, NEW p \in Processes, Holds(s, c, p)
        PROVE  /\ owner[p] = user'[s]
               /\ \A t \in Connections, d \in Channels : Holds(t, d, p) => s = t /\ c = d
    BY <2>2 DEF ProcessInv, Holds
  <2>3. UNCHANGED <<owner, task>>
    OBVIOUS
  <2> HIDE DEF IInv
  <2> QED
    BY <2>1, <2>2, <2>3 DEF ProcessInv
<1>3. CleanedUp'
  BY <1>1 DEF CalmInv, CleanedUp, Stray, Running, InHands
<1>4. CalmInv'
  <2>1. ASSUME NEW s \in Connections
        PROVE  /\ task'[s].step = "create" => \A c \in Channels : Empty(s, c)'
               /\ calm' /\ task'[s].step \in AttachSteps => Empty(s, task[s].channel)'
    <3>1. task'[s].step = "create" => \A c \in Channels : Empty(s, c)'
      BY DEF CalmInv
    <3>2. ASSUME calm', task'[s].step \in AttachSteps PROVE Empty(s, task[s].channel)'
      <4>1. Empty(s, task[s].channel) /\ task'[s] = task[s]
        BY <3>2 DEF CalmInv
      <4>2. PICK c \in Channels : c = task[s].channel
        BY <3>2, <4>1 DEF SessionInv
      <4>3. Empty(s, c)'
        BY <4>1, <4>2
      <4> QED
        BY <4>1, <4>2, <4>3 DEF Empty
    <3> QED
      BY <3>1, <3>2
  <2> QED
    BY <1>3, <2>1 DEF CalmInv
<1> QED
  BY <1>2, <1>4

LEMMA OfferStep ==
  ASSUME IInv, NEW s \in Connections, NEW u \in Usernames, Offer(s, u)
  PROVE  IInv'
<1> USE DEF IInv
<1>1. /\ conn[s] = "new" /\ task[s] = Idle /\ task[s].process = None
      /\ \A c \in Channels : channels[s][c] = None /\ client[s][c] = "unopened" /\ Empty(s, c)
  BY DEF Offer, SessionInv, Empty, Idle
<1>2. CASE Fail(s) /\ UNCHANGED <<docker, calm>>
  BY <1>1, <1>2, FailStep
<1>3. ASSUME NEW verdict \in {"new", "open"}, conn' = [conn EXCEPT ![s] = verdict],
             user' = [user EXCEPT ![s] = u],
             UNCHANGED <<docker, channels, task, reader, client, closing, calm>>
      PROVE  IInv'
  <2>1. /\ conn' \in [Connections -> {"new", "open", "ended"}]
        /\ user' \in [Connections -> Usernames \cup {None}]
        /\ conn'[s] = verdict /\ user'[s] = u /\ u # None
        /\ \A t \in Connections \ {s} : conn'[t] = conn[t] /\ user'[t] = user[t]
    BY <1>3, NoneAssumption DEF TypeOK
  <2>2. TypeOK'
    <3>1. DockerTypeOK'
      BY <1>3, DockerSteps DEF TypeOK
    <3>2. \A t \in Connections :
            /\ conn'[t] = "open" => user'[t] # None
            /\ task[t].step # "idle" => conn'[t] = "open"
      BY <1>1, <2>1 DEF TypeOK, Idle
    <3> QED
      BY <1>3, <2>1, <3>1, <3>2 DEF TypeOK
  <2>3. SessionInv'
    <3>1. ASSUME NEW t \in Connections, t # s
          PROVE  UNCHANGED <<conn[t], user[t], channels, task, client, container>>
      BY <1>3, <2>1, <3>1 DEF docker
    <3>2. /\ conn'[s] \in {"new", "open"} /\ UNCHANGED <<channels, task, client, container>>
      BY <1>3, <2>1 DEF docker
    <3>3. task[s].step = "idle" /\ "idle" \notin AttachSteps
      BY <1>1 DEF Idle, AttachSteps
    <3>4. ASSUME NEW t \in Connections
          PROVE  /\ conn'[t] # "open" => task[t] = Idle /\ \A c \in Channels : channels[t][c] = None
                 /\ conn'[t] = "new" => \A c \in Channels : client[t][c] = "unopened"
                 /\ conn'[t] = "open" => \A c \in Channels : client[t][c] = "open" => channels[t][c] # None
                 /\ task[t].step \in {"start", "exec", "run", "resize"} => task[t].user = user'[t]
                 /\ task[t].step = "exec" => container[user'[t]] = "running"
      <4>1. CASE t = s
        BY <1>1, <3>2, <3>3, <4>1
      <4>2. CASE t # s
        BY <3>1, <4>2 DEF SessionInv
      <4> QED
        BY <4>1, <4>2
    <3> QED
      BY <3>2, <3>4 DEF SessionInv
  <2>4. UNCHANGED <<owner, state, task, calm, channels>>
    BY <1>3 DEF docker
  <2> HIDE DEF IInv
  <2> QED
    BY <1>1, <2>1, <2>2, <2>3, <2>4, KeepStep DEF Holds, Empty
<1> QED
  BY <1>2, <1>3 DEF Offer

\* A channel is opened, or has its pty: it has the process it had, if any.
LEMMA OpenStep ==
  ASSUME IInv, NEW s \in Connections, NEW c \in Channels, Open(s, c) \/ PtyRequest(s, c)
  PROVE  IInv'
<1> USE DEF IInv
<1>1. /\ conn[s] = "open" /\ task[s] = Idle
      /\ UNCHANGED <<docker, conn, user, task, reader, closing, calm>>
  BY DEF Open, PtyRequest, Ready
<1>2. PICK new \in Channel :
        /\ channels' = [channels EXCEPT ![s][c] = new]
        /\ channels[s][c] = None => new.process = None
        /\ channels[s][c] # None => new.process = channels[s][c].process
  <2>1. CASE Open(s, c)
    <3> DEFINE new == [pty |-> FALSE, process |-> None]
    <3>1. channels[s][c] = None
      BY <2>1 DEF Open, SessionInv
    <3>2. channels' = [channels EXCEPT ![s][c] = new] /\ new \in Channel /\ new.process = None
      BY <2>1 DEF Open, Channel
    <3> QED
      BY <3>1, <3>2
  <2>2. CASE PtyRequest(s, c)
    <3> DEFINE new == [channels[s][c] EXCEPT !.pty = TRUE]
    <3>1. channels[s][c] \in Channel /\ channels[s][c] # None
      BY <2>2 DEF PtyRequest, TypeOK
    <3>2. new \in Channel /\ new.process = channels[s][c].process
      BY <3>1 DEF Channel
    <3>3. channels' = [channels EXCEPT ![s][c] = new]
      BY <2>2 DEF PtyRequest
    <3> HIDE DEF new
    <3> QED
      BY <3>1, <3>2, <3>3
  <2> QED
    BY <2>1, <2>2
<1>3. /\ client' \in [Connections -> [Channels -> {"unopened", "open", "eof", "closed"}]]
      /\ client'[s][c] # "unopened"
      /\ \A t \in Connections, d \in Channels :
           ~(t = s /\ d = c) => client'[t][d] = client[t][d]
  <2>1. CASE Open(s, c)
    <3>1. client' = [client EXCEPT ![s] = [client[s] EXCEPT ![c] = "open"]]
      BY <2>1 DEF Open
    <3> QED
      BY <3>1 DEF TypeOK
  <2>2. CASE PtyRequest(s, c)
    BY <2>2 DEF PtyRequest, SessionInv, TypeOK
  <2> QED
    BY <2>1, <2>2
<1>4. new # None
  BY ChannelAssumption DEF Channel
<1>5. /\ channels' \in [Connections -> [Channels -> Channel \cup {None}]]
      /\ channels'[s][c] = new
      /\ \A t \in Connections, d \in Channels :
           ~(t = s /\ d = c) => channels'[t][d] = channels[t][d]
  <2>1. channels' = [channels EXCEPT ![s] = [channels[s] EXCEPT ![c] = new]]
    BY <1>2
  <2> QED
    BY <2>1 DEF TypeOK
<1>6. TypeOK'
  BY <1>1, <1>3, <1>5, DockerSteps DEF TypeOK
<1>7. SessionInv'
  <2>1. \A t \in Connections, d \in Channels :
          /\ channels[t][d] # None => channels'[t][d] # None
          /\ t # s => channels'[t][d] = channels[t][d] /\ client'[t][d] = client[t][d]
          /\ client'[t][d] = "unopened" => channels'[t][d] = None
          /\ conn[t] = "open" /\ client'[t][d] = "open" => channels'[t][d] # None
    BY <1>3, <1>4, <1>5 DEF SessionInv
  <2>2. UNCHANGED <<conn, task, user, container>>
    BY <1>1 DEF docker
  <2> QED
    BY <1>1, <2>1, <2>2 DEF SessionInv
<1>8. ASSUME NEW t \in Connections, NEW d \in Channels
      PROVE  /\ \A p \in Processes : Holds(t, d, p)' <=> Holds(t, d, p)
             /\ Empty(t, d) => Empty(t, d)'
  <2>1. CASE t = s /\ d = c
    BY <1>2, <1>4, <1>5, <2>1, NoneAssumption DEF Holds, Empty
  <2>2. CASE ~(t = s /\ d = c)
    BY <1>5, <2>2 DEF Holds, Empty
  <2> QED
    BY <2>1, <2>2
<1>9. UNCHANGED <<owner, state, task, calm, user>>
  BY <1>1 DEF docker
<1> HIDE DEF IInv
<1> QED
  BY <1>6, <1>7, <1>8, <1>9, KeepStep

LEMMA IdleTask == Idle \in Task /\ Idle.process = None /\ Idle.step = "idle"
BY DEF Idle, Task, Steps

\* A method is begun that has no process.
LEMMA BeginStep ==
  ASSUME IInv, NEW s \in Connections, Ready(s),
         NEW step \in {"list", "write", "window"}, NEW c \in Channels,
         Await(s, [step |-> step, channel |-> c, user |-> None, process |-> None]),
         UNCHANGED <<docker, session, reader, client, closing>>,
         calm' = FALSE \/ (UNCHANGED calm /\ (step = "list" => Empty(s, c))),
         channels[s][c] # None
  PROVE  IInv'
<1> DEFINE new == [step |-> step, channel |-> c, user |-> None, process |-> None]
<1>1. /\ new \in Task /\ new.process = None /\ new.step = step /\ new.channel = c
      /\ task' = [task EXCEPT ![s] = new]
  BY DEF Task, Steps, Await
<1>2. DockerTypeOK' /\ UNCHANGED <<owner, state, container>>
  BY DockerSteps DEF IInv, TypeOK, docker
<1>3. conn[s] = "open" /\ task[s].process = None
  BY IdleTask DEF Ready
<1>4. calm' \in BOOLEAN /\ (calm' => calm) /\ (calm' /\ step = "list" => Empty(s, c))
  <2>1. CASE calm' = FALSE
    BY <2>1
  <2>2. CASE UNCHANGED calm /\ (step = "list" => Empty(s, c))
    BY <2>2 DEF IInv, TypeOK
  <2> QED
    BY <2>1, <2>2
<1> HIDE DEF new
<1> QED
  BY <1>1, <1>2, <1>3, <1>4, TaskStep DEF AttachSteps, ProcessSteps

LEMMA ProgramStep ==
  ASSUME IInv, NEW s \in Connections, NEW c \in Channels, Program(s, c)
  PROVE  IInv'
<1>1. /\ Ready(s) /\ UNCHANGED docker
      /\ calm' = FALSE \/ (UNCHANGED calm /\ Empty(s, c) /\ channels[s][c] # None)
  BY DEF Program, Expected, Unexpected, Empty, Ready, IInv, SessionInv
<1>2. CASE channels[s][c] = None /\ Fail(s)
  BY <1>1, <1>2, FailStep
<1>3. CASE /\ channels[s][c] # None
           /\ Await(s, [step |-> "list", channel |-> c, user |-> None, process |-> None])
           /\ UNCHANGED <<session, reader, client, closing>>
  BY <1>1, <1>3, BeginStep
<1> QED
  BY <1>2, <1>3 DEF Program

LEMMA GarbledStep ==
  ASSUME IInv, NEW s \in Connections, NEW c \in Channels, GarbledCommand(s, c)
  PROVE  IInv'
BY FailStep DEF GarbledCommand, Unexpected

LEMMA DataStep ==
  ASSUME IInv, NEW s \in Connections, NEW c \in Channels, Data(s, c)
  PROVE  IInv'
<1>1. /\ Ready(s) /\ UNCHANGED docker
      /\ \/ calm' = FALSE
         \/ /\ UNCHANGED calm
            /\ channels[s][c] # None /\ channels[s][c].process # None
  BY DEF Data, Expected, Unexpected, Ready, IInv, SessionInv
<1>2. CASE channels[s][c] = None /\ Fail(s)
  BY <1>1, <1>2, FailStep
<1>3. CASE UNCHANGED <<session, task, reader, client, closing>>
  <2>1. UNCHANGED <<container, state, owner, conn, user, channels>>
    BY <1>1, <1>3 DEF docker, session
  <2>2. calm' \in BOOLEAN /\ (calm' => calm)
    <3>1. CASE calm' = FALSE
      BY <3>1
    <3>2. CASE UNCHANGED calm
      BY <3>2 DEF IInv, TypeOK
    <3> QED
      BY <1>1, <3>1, <3>2
  <2>3. TypeOK' /\ SessionInv'
    BY <1>1, <1>3, <2>1, <2>2, DockerSteps DEF IInv, TypeOK, SessionInv
  <2> QED
    BY <1>1, <1>3, <2>1, <2>2, <2>3, KeepStep DEF Holds, Empty
<1>4. CASE /\ channels[s][c] # None
           /\ Await(s, [step |-> "write", channel |-> c, user |-> None, process |-> None])
           /\ UNCHANGED <<session, reader, client, closing>>
  BY <1>1, <1>4, BeginStep
<1> QED
  BY <1>2, <1>3, <1>4 DEF Data

LEMMA WindowChangeStep ==
  ASSUME IInv, NEW s \in Connections, NEW c \in Channels, WindowChange(s, c)
  PROVE  IInv'
<1>1. /\ Ready(s) /\ UNCHANGED docker
      /\ \/ calm' = FALSE
         \/ /\ UNCHANGED calm
            /\ channels[s][c] # None /\ channels[s][c].process # None
  BY DEF WindowChange, Expected, Unexpected, Ready, IInv, SessionInv
<1>2. CASE /\ channels[s][c] # None => channels[s][c].pty /\ channels[s][c].process = None
           /\ Fail(s)
  BY <1>1, <1>2, FailStep
<1>3. CASE /\ channels[s][c] # None
           /\ Await(s, [step |-> "window", channel |-> c, user |-> None, process |-> None])
           /\ UNCHANGED <<session, reader, client, closing>>
  BY <1>1, <1>3, BeginStep
<1> QED
  BY <1>2, <1>3 DEF WindowChange

\* A method that has no process is over.
LEMMA DoneStep ==
  ASSUME IInv, NEW s \in Connections, task[s].step \in {"write", "window"},
         Done(s), Frame, UNCHANGED docker
  PROVE  IInv'
<1>1. conn[s] = "open" /\ task[s].process = None
  BY TaskProcess DEF IInv, SessionInv, ProcessSteps
<1>2. DockerTypeOK' /\ UNCHANGED <<owner, state, container>>
  BY DockerSteps DEF IInv, TypeOK, docker
<1>3. /\ task' = [task EXCEPT ![s] = Idle] /\ calm' = calm /\ calm \in BOOLEAN
      /\ UNCHANGED <<session, reader, client, closing>>
  BY DEF Done, Await, Frame, IInv, TypeOK
<1> QED
  BY <1>1, <1>2, <1>3, IdleTask, TaskStep DEF AttachSteps, ProcessSteps

LEMMA WrittenStep ==
  ASSUME IInv, NEW s \in Connections, Written(s)
  PROVE  IInv'
BY DoneStep DEF Written

LEMMA WindowChangedStep ==
  ASSUME IInv, NEW s \in Connections, WindowChanged(s)
  PROVE  IInv'
<1>1. CASE Done(s) /\ Frame
  BY <1>1, DoneStep DEF WindowChanged
<1>2. CASE CallFails(s)
  BY <1>2, CallFailsStep DEF WindowChanged
<1> QED
  BY <1>1, <1>2 DEF WindowChanged

-----------------------------------------------------------------------------
\* The end of a channel: its process goes from the channel to the method that
\* kills it.
LEMMA TakeOutStep ==
  ASSUME IInv, NEW s \in Connections, NEW c \in Channels, NEW step \in {"eof", "closed"},
         Ready(s), TakeOut(s, c),
         channels[s][c] # None, channels[s][c].process # None,
         client' = [client EXCEPT ![s][c] = step], UNCHANGED <<docker, closing, calm>>
  PROVE  IInv'
<1> DEFINE p == channels[s][c].process
           new == [step |-> "inspect", channel |-> None, user |-> None, process |-> p]
<1> USE DEF IInv
<1>1. /\ conn[s] = "open" /\ task[s] = Idle /\ p \in Processes /\ p # None
      /\ Holds(s, c, p)
  BY DEF Ready, TypeOK, Channel, Holds
<1>2. /\ new \in Task /\ new.step = "inspect" /\ new.process = p
      /\ task' = [task EXCEPT ![s] = new]
  BY <1>1 DEF Task, Steps, TakeOut, Await
<1> HIDE DEF p, new
<1>3. /\ task' \in [Connections -> Task] /\ task'[s] = new
      /\ \A t \in Connections \ {s} : task'[t] = task[t]
  BY <1>2 DEF TypeOK
<1>4. /\ channels' \in [Connections -> [Channels -> Channel \cup {None}]]
      /\ channels'[s][c] = None
      /\ \A t \in Connections, d \in Channels :
           ~(t = s /\ d = c) => channels'[t][d] = channels[t][d]
  <2>1. channels' = [channels EXCEPT ![s] = [channels[s] EXCEPT ![c] = None]]
    BY DEF TakeOut
  <2> QED
    BY <2>1 DEF TypeOK
<1>5. /\ client' \in [Connections -> [Channels -> {"unopened", "open", "eof", "closed"}]]
      /\ client'[s][c] = step
      /\ \A t \in Connections, d \in Channels :
           ~(t = s /\ d = c) => client'[t][d] = client[t][d]
  <2>1. client' = [client EXCEPT ![s] = [client[s] EXCEPT ![c] = step]]
    OBVIOUS
  <2> QED
    BY <2>1 DEF TypeOK
<1>6. /\ DockerTypeOK'
      /\ UNCHANGED <<conn, user, reader, closing, calm, owner, state, container>>
  BY DockerSteps DEF TakeOut, TypeOK, docker
<1>7. TypeOK'
  <2>1. \A t \in Connections :
          /\ task'[t].step # "idle" => conn[t] = "open"
          /\ task'[t].step \in {"run", "resize", "inspect", "kill"} => task'[t].process # None
    BY <1>1, <1>2, <1>3 DEF TypeOK
  <2> QED
    BY <1>3, <1>4, <1>5, <1>6, <2>1 DEF TypeOK
<1>8. SessionInv'
  <2>1. ASSUME NEW t \in Connections, t # s
        PROVE  /\ UNCHANGED <<conn[t], user[t], task[t], container>>
               /\ \A d \in Channels : channels'[t][d] = channels[t][d] /\ client'[t][d] = client[t][d]
    BY <1>3, <1>4, <1>5, <1>6, <2>1
  <2>2. \A d \in Channels :
          /\ client'[s][d] = "open" => channels'[s][d] # None
          /\ client'[s][d] = "unopened" => channels'[s][d] = None
    BY <1>1, <1>4, <1>5 DEF SessionInv
  <2>3. /\ "inspect" \notin AttachSteps /\ "inspect" \in ProcessSteps
        /\ conn'[s] = "open" /\ task'[s].step = "inspect" /\ task'[s].process # None
    BY <1>1, <1>2, <1>3, <1>6 DEF AttachSteps, ProcessSteps
  <2>4. ASSUME NEW t \in Connections
        PROVE  /\ conn'[t] # "open" => task'[t] = Idle /\ \A d \in Channels : channels'[t][d] = None
               /\ conn'[t] = "open" => \A d \in Channels : client'[t][d] = "open" => channels'[t][d] # None
               /\ conn'[t] = "new" => \A d \in Channels : client'[t][d] = "unopened"
               /\ \A d \in Channels : client'[t][d] = "unopened" => channels'[t][d] = None
               /\ task'[t].step \in AttachSteps =>
                    task'[t].channel \in Channels /\ channels'[t][task'[t].channel] # None
               /\ task'[t].step \in {"start", "exec", "run", "resize"} => task'[t].user = user'[t]
               /\ task'[t].step = "exec" => container'[user'[t]] = "running"
               /\ task'[t].process # None <=> task'[t].step \in ProcessSteps
    <3>1. CASE t = s
      BY <2>2, <2>3, <3>1
    <3>2. CASE t # s
      BY <2>1, <3>2 DEF SessionInv
    <3> QED
      BY <3>1, <3>2
  <2> QED
    BY <2>4 DEF SessionInv
<1>9. ASSUME NEW t \in Connections, NEW d \in Channels, NEW q \in Processes
      PROVE  Holds(t, d, q)' <=> ~(t = s /\ d = c) /\ Holds(t, d, q)
  <2>1. CASE t = s /\ d = c
    BY <1>4, <2>1 DEF Holds
  <2>2. CASE ~(t = s /\ d = c)
    BY <1>4, <2>2 DEF Holds
  <2> QED
    BY <2>1, <2>2
<1>10. \A t \in Connections, d \in Channels : Holds(t, d, p) => t = s /\ d = c
  BY <1>1 DEF ProcessInv
<1>11. owner[p] = user[s] /\ \A t \in Connections : task[t].process # p
  <2>1. owner[p] = user[s] /\ Held(p)
    BY <1>1 DEF ProcessInv, Held
  <2> QED
    BY <1>1, <2>1 DEF ProcessInv
<1>12. ProcessInv'
  <2>1. ASSUME NEW t \in Connections, NEW q \in Processes, task'[t].process = q
        PROVE  /\ owner[q] = user[t]
               /\ \A o \in Connections, d \in Channels : ~Holds(o, d, q)'
               /\ \A o \in Connections \ {t} : task'[o].process # q
    <3>1. CASE t = s
      <4>1. q = p
        BY <1>2, <1>3, <2>1, <3>1
      <4> QED
        BY <1>3, <1>9, <1>10, <1>11, <3>1, <4>1
    <3>2. CASE t # s
      <4>1. task[t].process = q /\ q # p /\ q # None
        BY <1>3, <1>11, <2>1, <3>2, NoneAssumption
      <4>2. /\ owner[q] = user[t] /\ ~Held(q)
            /\ \A o \in Connections \ {t} : task[o].process # q
        BY <4>1 DEF ProcessInv
      <4> QED
        BY <1>2, <1>3, <1>9, <4>1, <4>2 DEF Held
    <3> QED
      BY <3>1, <3>2
  <2>2. ASSUME NEW t \in Connections, NEW d \in Channels, NEW q \in Processes, Holds(t, d, q)'
        PROVE  /\ owner'[q] = user'[t]
               /\ \A o \in Connections, e \in Channels : Holds(o, e, q)' => t = o /\ d = e
    BY <1>6, <1>9, <2>2 DEF ProcessInv
  <2>3. ASSUME NEW t \in Connections, task'[t].process # None
        PROVE  /\ owner'[task'[t].process] = user'[t]
               /\ ~Held(task[t].process)'
               /\ \A o \in Connections \ {t} : task'[o].process # task'[t].process
    <3>1. PICK q \in Processes : task'[t].process = q
      BY <1>7, <2>3 DEF TypeOK, Task
    <3>2. ~Held(task[t].process)'
      BY <2>1, <3>1 DEF Held
    <3> QED
      BY <1>6, <2>1, <3>1, <3>2
  <2> QED
    BY <2>2, <2>3 DEF ProcessInv
<1>13. CleanedUp'
  <2> SUFFICES ASSUME calm', NEW q \in Processes, Running(q)' PROVE Held(q)' \/ InHands(q)'
    BY DEF CleanedUp, Stray
  <2>1. Held(q) \/ InHands(q)
    BY <1>6 DEF CalmInv, CleanedUp, Stray, Running
  <2>2. CASE q = p
    BY <1>2, <1>3, <2>2 DEF InHands
  <2>3. CASE q # p /\ Held(q)
    <3>1. PICK t \in Connections, d \in Channels : Holds(t, d, q)
      BY <2>3 DEF Held
    <3>2. Holds(t, d, q)'
      BY <1>1, <1>9, <2>3, <3>1 DEF Holds
    <3> QED
      BY <3>2 DEF Held
  <2>4. CASE q # p /\ InHands(q)
    BY <1>1, <1>3, <2>4, IdleTask, NoneAssumption DEF InHands
  <2> QED
    BY <2>1, <2>2, <2>3, <2>4
<1>14. CalmInv'
  <2>1. ASSUME NEW t \in Connections
        PROVE  /\ task'[t].step = "create" => \A d \in Channels : Empty(t, d)'
               /\ calm' /\ task'[t].step \in AttachSteps => Empty(t, task[t].channel)'
    <3>1. CASE t = s
      BY <1>2, <1>3, <3>1 DEF AttachSteps
    <3>2. CASE t # s
      <4>1. \A d \in Channels : channels'[t][d] = channels[t][d]
        BY <1>4, <3>2
      <4>2. task'[t].step \in AttachSteps => task[t].channel \in Channels
        BY <1>3, <3>2 DEF SessionInv
      <4> QED
        BY <1>3, <1>6, <3>2, <4>1, <4>2 DEF CalmInv, Empty
    <3> QED
      BY <3>1, <3>2
  <2> QED
    BY <1>13, <2>1 DEF CalmInv
<1> QED
  BY <1>7, <1>8, <1>12, <1>14

LEMMA EndedStep ==
  ASSUME IInv, NEW s \in Connections, NEW c \in Channels, NEW step \in {"eof", "closed"},
         Ended(s, c, step)
  PROVE  IInv'
<1>1. Ready(s) /\ UNCHANGED docker
  BY DEF Ended
<1>2. CASE Unexpected("bare") /\ Fail(s)
  BY <1>1, <1>2, FailStep DEF Unexpected
<1>3. CASE /\ channels[s][c] # None /\ channels[s][c].process # None /\ TakeOut(s, c)
           /\ client' = [client EXCEPT ![s][c] = step] /\ UNCHANGED <<closing, calm>>
  BY <1>1, <1>3, TakeOutStep
<1>4. CASE /\ channels[s][c] = None /\ UNCHANGED <<session, task, reader>>
           /\ client' = [client EXCEPT ![s][c] = step] /\ UNCHANGED <<closing, calm>>
  <2> USE DEF IInv
  <2>1. /\ client' \in [Connections -> [Channels -> {"unopened", "open", "eof", "closed"}]]
        /\ client'[s][c] = step
        /\ \A t \in Connections, d \in Channels :
             ~(t = s /\ d = c) => client'[t][d] = client[t][d]
    <3>1. client' = [client EXCEPT ![s] = [client[s] EXCEPT ![c] = step]]
      BY <1>4
    <3> QED
      BY <3>1 DEF TypeOK
  <2>2. UNCHANGED <<conn, user, channels, task, reader, closing, calm, container, state, owner>>
    BY <1>1, <1>4 DEF docker, session
  <2>3. TypeOK'
    BY <1>1, <2>1, <2>2, DockerSteps DEF TypeOK
  <2>4. SessionInv'
    <3>1. ASSUME NEW t \in Connections, NEW d \in Channels
          PROVE  /\ client'[t][d] = "open" => client[t][d] = "open"
                 /\ client'[t][d] = "unopened" => client[t][d] = "unopened"
                 /\ t # s => client'[t][d] = client[t][d]
      BY <2>1
    <3>2. conn[s] = "open"
      BY <1>1 DEF Ready
    <3> QED
      BY <2>2, <3>1, <3>2 DEF SessionInv
  <2> HIDE DEF IInv
  <2> QED
    BY <2>2, <2>3, <2>4, KeepStep DEF Holds, Empty
<1> QED
  BY <1>2, <1>3, <1>4 DEF Ended, CleanUp

LEMMA InspectStep ==
  ASSUME IInv, NEW s \in Connections, Inspect(s)
  PROVE  IInv'
<1>1. /\ task[s].step = "inspect" /\ conn[s] = "open" /\ task[s] \in Task
      /\ task[s].process # None
      /\ UNCHANGED <<docker, session, reader, client, closing>>
      /\ DockerTypeOK' /\ UNCHANGED <<owner, state, container>>
  BY TaskProcess, DockerSteps DEF Inspect, IInv, TypeOK, docker
<1>2. CASE Goto(s, "kill") /\ Expected
  <2> DEFINE new == [task[s] EXCEPT !.step = "kill"]
  <2>1. /\ new \in Task /\ new.step = "kill" /\ new.process = task[s].process
        /\ task' = [task EXCEPT ![s] = new]
    BY <1>1, <1>2 DEF Task, Steps, Goto
  <2>2. calm' = calm /\ calm \in BOOLEAN
    BY <1>2 DEF Expected, IInv, TypeOK
  <2> HIDE DEF new
  <2> QED
    BY <1>1, <2>1, <2>2, TaskStep DEF AttachSteps, ProcessSteps
<1>3. CASE Done(s) /\ Unexpected("fail")
  BY <1>1, <1>3, IdleTask, TaskStep DEF Done, Await, Unexpected, AttachSteps, ProcessSteps
<1> QED
  BY <1>2, <1>3 DEF Inspect

LEMMA KillStep ==
  ASSUME IInv, NEW s \in Connections, KillProcess(s)
  PROVE  IInv'
<1>1. /\ task[s].step = "kill" /\ conn[s] = "open" /\ task[s].process \in Processes
      /\ task' = [task EXCEPT ![s] = Idle]
      /\ UNCHANGED <<session, reader, client, closing>>
  BY TaskProcess DEF KillProcess, ProcessSteps, Done, Await
<1>2. CASE Kill(task[s].process) /\ Expected
  <2>1. /\ DockerTypeOK' /\ UNCHANGED <<owner, container>>
        /\ state'[task[s].process] # "running"
        /\ \A p \in Processes : state'[p] = "running" => state[p] = "running"
    BY <1>1, <1>2, DockerSteps DEF IInv, TypeOK, DockerTypeOK, Kill
  <2>2. calm' = calm /\ calm \in BOOLEAN
    BY <1>2 DEF Expected, IInv, TypeOK
  <2> QED
    BY <1>1, <2>1, <2>2, IdleTask, TaskStep DEF AttachSteps, ProcessSteps
<1>3. CASE UNCHANGED docker /\ Unexpected("fail")
  <2>1. DockerTypeOK' /\ UNCHANGED <<owner, state, container>>
    BY <1>3, DockerSteps DEF IInv, TypeOK, docker
  <2> QED
    BY <1>1, <1>3, <2>1, IdleTask, TaskStep DEF Unexpected, AttachSteps, ProcessSteps
<1> QED
  BY <1>2, <1>3 DEF KillProcess

-----------------------------------------------------------------------------
\* Readers, processes, connections and the server.

LEMMA ReaderStep ==
  ASSUME IInv, NEW p \in Processes, ReaderEnds(p)
  PROVE  IInv'
<1>1. /\ UNCHANGED <<docker, session, task, client, calm>>
      /\ UNCHANGED <<container, state, owner, conn, user, channels>>
  BY DEF ReaderEnds, docker, session
<1>2. /\ reader' \in [Processes -> (Connections \X Channels) \cup {None}]
      /\ closing' \subseteq Connections \X Channels
  BY DEF ReaderEnds, IInv, TypeOK
<1>3. TypeOK'
  BY <1>1, <1>2, DockerSteps DEF IInv, TypeOK
<1>4. SessionInv'
  BY <1>1 DEF IInv, SessionInv
<1> QED
  BY <1>1, <1>3, <1>4, KeepStep DEF Holds, Empty

LEMMA ExitStep ==
  ASSUME IInv, NEW p \in Processes, ProcessExits(p)
  PROVE  IInv'
<1>1. /\ UNCHANGED <<conn, user, channels, task, reader, client, closing, calm>>
      /\ UNCHANGED <<container, owner>>
      /\ \A q \in Processes : state'[q] = "running" => state[q] = "running"
  BY DEF ProcessExits, Exits, session, IInv, TypeOK, DockerTypeOK
<1>2. TypeOK'
  BY <1>1, DockerSteps DEF ProcessExits, IInv, TypeOK
<1>3. SessionInv'
  BY <1>1 DEF IInv, SessionInv
<1> QED
  BY <1>1, <1>2, <1>3, KeepStep DEF Holds, Empty

LEMMA DisconnectStep ==
  ASSUME IInv, NEW s \in Connections, Disconnect(s)
  PROVE  IInv'
<1>1. /\ Fail(s) /\ UNCHANGED docker /\ task[s].process = None
      /\ calm' = FALSE \/ (UNCHANGED calm /\ \A c \in Channels : Empty(s, c))
  BY IdleTask DEF Disconnect, Expected, Unexpected, Empty
<1> QED
  BY <1>1, FailStep

LEMMA RestartStep ==
  ASSUME IInv, Restart
  PROVE  IInv'
<1> DEFINE D == {s \in Connections : conn[s] # "new" \/ user[s] # None}
<1>1. /\ D \in SUBSET Connections /\ Drop(D) /\ calm' = FALSE
      /\ reader' \in [Processes -> (Connections \X Channels) \cup {None}]
  BY DEF Restart, Unexpected
<1>2. DockerTypeOK' /\ UNCHANGED <<owner, state, container>>
  BY DockerSteps DEF Restart, IInv, TypeOK, docker
<1> HIDE DEF D
<1> QED
  BY <1>1, <1>2, DropStep

LEMMA StutterStep ==
  ASSUME IInv, UNCHANGED vars
  PROVE  IInv'
<1>1. /\ UNCHANGED <<container, state, owner, conn, user, channels>>
      /\ UNCHANGED <<task, reader, client, closing, calm>>
  BY DEF vars, docker, session
<1>2. TypeOK'
  BY <1>1, DockerSteps DEF IInv, TypeOK, vars
<1>3. SessionInv'
  BY <1>1 DEF IInv, SessionInv
<1> QED
  BY <1>1, <1>2, <1>3, KeepStep DEF Holds, Empty

-----------------------------------------------------------------------------
LEMMA StepIInv == IInv /\ [Next]_vars => IInv'
<1> SUFFICES ASSUME IInv, [Next]_vars PROVE IInv'
  OBVIOUS
<1>1. ASSUME NEW s \in Connections, Client(s) PROVE IInv'
  <2>1. ASSUME NEW u \in Usernames, Offer(s, u) PROVE IInv'
    BY <2>1, OfferStep
  <2>2. ASSUME NEW c \in Channels, Open(s, c) \/ PtyRequest(s, c) PROVE IInv'
    BY <2>2, OpenStep
  <2>3. ASSUME NEW c \in Channels, Program(s, c) PROVE IInv'
    BY <2>3, ProgramStep
  <2>4. ASSUME NEW c \in Channels, WindowChange(s, c) PROVE IInv'
    BY <2>4, WindowChangeStep
  <2>5. ASSUME NEW c \in Channels, ChannelEof(s, c) PROVE IInv'
    BY <2>5, EndedStep DEF ChannelEof
  <2>6. ASSUME NEW c \in Channels, ChannelClose(s, c) PROVE IInv'
    BY <2>6, EndedStep DEF ChannelClose
  <2>7. ASSUME Disconnect(s) PROVE IInv'
    BY <2>7, DisconnectStep
  <2>8. ASSUME NEW c \in Channels, GarbledCommand(s, c) PROVE IInv'
    BY <2>8, GarbledStep
  <2>9. ASSUME NEW c \in Channels, Data(s, c) PROVE IInv'
    BY <2>9, DataStep
  <2> QED
    BY <1>1, <2>1, <2>2, <2>3, <2>4, <2>5, <2>6, <2>7, <2>8, <2>9 DEF Client
<1>2. ASSUME NEW s \in Connections, Method(s) \/ Written(s) PROVE IInv'
  BY <1>2, ListStep, CreateStep, StartStep, ExecStep, RunStep, ResizeStep, WrittenStep,
     WindowChangedStep, InspectStep, KillStep DEF Method
<1>3. ASSUME NEW p \in Processes, ReaderEnds(p) \/ ProcessExits(p) PROVE IInv'
  BY <1>3, ReaderStep, ExitStep
<1>4. CASE Restart
  BY <1>4, RestartStep
<1>5. CASE UNCHANGED vars
  BY <1>5, StutterStep
<1> QED
  BY <1>1, <1>2, <1>3, <1>4, <1>5 DEF Next

LEMMA InductiveInvariant == Spec => []IInv
BY InitIInv, StepIInv, PTL DEF Spec

\* The types, and that a method waits only in an open connection, which has a
\* user: a method finds the user it works for (session.rs:230).
THEOREM TypeCorrect == Spec => []TypeOK
<1>1. IInv => TypeOK
  BY DEF IInv
<1> QED
  BY <1>1, InductiveInvariant, PTL

\* Whatever connections attach at once, a process belongs to one channel, of a
\* connection of the user in whose container it runs (containers.rs:188).
THEOREM OwnProcesses == Spec => []OwnContainer
<1>1. IInv => OwnContainer
  BY DEF IInv, ProcessInv, OwnContainer
<1> QED
  BY <1>1, InductiveInvariant, PTL

\* The process that channel_close or channel_eof goes on to kill is in no channel
\* and in no other method's hands (session.rs:402), whatever else fails.
THEOREM KillsLetGo == Spec => []KillsWhatIsLetGo
<1>1. IInv => KillsWhatIsLetGo
  <2> SUFFICES ASSUME IInv, NEW s \in Connections, task[s].step \in {"inspect", "kill"}
               PROVE  /\ ~Held(task[s].process)
                      /\ \A t \in Connections \ {s} : task[t].process # task[s].process
    BY DEF KillsWhatIsLetGo
  <2>1. task[s].process # None
    BY DEF IInv, SessionInv, ProcessSteps
  <2> QED
    BY <2>1 DEF IInv, ProcessInv
<1> QED
  BY <1>1, InductiveInvariant, PTL

\* As long as clients, docker and the network do what is expected no process is
\* left without a channel, also when connections race for one container and
\* docker's refusal ends the slower of them (containers.rs:108).
THEOREM NothingLeftBehind == Spec => []CleanedUp
<1>1. IInv => CleanedUp
  BY DEF IInv, CalmInv
<1> QED
  BY <1>1, InductiveInvariant, PTL

=============================================================================
