------------------------------ MODULE SshSession ------------------------------
(***************************************************************************)
(* SSH sessions and the processes behind their channels                    *)
(* (src/src/ssh/session.rs over src/src/containers.rs).                    *)
(*                                                                         *)
(* Every connection has a handler of its own, whose methods russh calls    *)
(* one after the other; while a method waits for docker, or for a program  *)
(* to read what it is sent, the other connections, the readers and the     *)
(* processes go on, but nothing else of the connection does.  An error a   *)
(* method returns ends the connection: the handler is dropped as it is,    *)
(* and no method is called for the channels that are open.                 *)
(***************************************************************************)
EXTENDS Containers, Integers, FiniteSets

CONSTANTS
  Connections,   \* SSH connections, each made once
  Channels,      \* numbers of channels within a connection, each opened once
  Behaviours     \* bound: what clients and docker may do besides what is expected

\* again: a second program is asked for on a channel
\* bare:  a channel is closed that has no program
\* early: requests for a channel that has no program yet or has had its eof
\* garbled: a command is not UTF-8
\* break: connections break off, the server is restarted
\* fail:  calls to docker fail
ASSUME BehavioursAssumption ==
  Behaviours \subseteq {"again", "bare", "early", "garbled", "break", "fail"}

\* The value for "nothing" is no channel's either.
ASSUME ChannelAssumption == None \notin [pty : BOOLEAN, process : Processes \cup {None}]

VARIABLES
  conn,       \* connection -> new, open (authenticated) or ended
  user,       \* connection -> the user it is for
  channels,   \* connection -> the channels the handler keeps
  task,       \* connection -> the method that waits, and what it waits for
  reader,     \* process -> the channel its output is read for
  client,     \* connection -> how far the client is with each channel
  closing,    \* channels the server has told the client are over
  calm        \* history: nothing has happened besides what is expected

session == <<conn, user, channels>>
vars == <<docker, session, task, reader, client, closing, calm>>

Steps == {"idle", "list", "create", "start", "exec", "run", "resize", "write", "window",
          "inspect", "kill"}
Idle == [step |-> "idle", channel |-> None, user |-> None, process |-> None]

Init ==
  /\ DockerInit
  /\ conn = [s \in Connections |-> "new"]
  /\ user = [s \in Connections |-> None]
  /\ channels = [s \in Connections |-> [c \in Channels |-> None]]
  /\ task = [s \in Connections |-> Idle]
  /\ reader = [p \in Processes |-> None]
  /\ client = [s \in Connections |-> [c \in Channels |-> "unopened"]]
  /\ closing = {}
  /\ calm = TRUE

Expected == UNCHANGED calm
Unexpected(b) == b \in Behaviours /\ calm' = FALSE

\* The next method of the connection is called.
Ready(s) == conn[s] = "open" /\ task[s] = Idle

Await(s, record) == task' = [task EXCEPT ![s] = record]
Goto(s, step) == task' = [task EXCEPT ![s].step = step]
Done(s) == Await(s, Idle)

\* The handlers of the connections D are dropped, whatever they were doing.
Drop(D) ==
  /\ conn' = [s \in Connections |-> IF s \in D THEN "ended" ELSE conn[s]]
  /\ channels' = [s \in Connections |-> IF s \in D THEN [c \in Channels |-> None] ELSE channels[s]]
  /\ task' = [s \in Connections |-> IF s \in D THEN Idle ELSE task[s]]
  /\ UNCHANGED <<user, client, closing>>

\* A method returns an error.
Fail(s) == Drop({s}) /\ UNCHANGED reader

\* A call to docker fails, and with it the method.
CallFails(s) == Unexpected("fail") /\ Fail(s)

\* What a call to docker leaves alone.
Frame == UNCHANGED <<session, reader, client, closing, calm>>

-----------------------------------------------------------------------------
\* Authentication: the first name that is offered is the session's for good.

Offer(s, u) ==
  /\ conn[s] = "new"
  /\ \/ /\ user[s] \in {None, u}
        /\ user' = [user EXCEPT ![s] = u]
        /\ \E verdict \in {"new", "open"} : conn' = [conn EXCEPT ![s] = verdict]
        /\ UNCHANGED <<docker, channels, task, reader, client, closing, calm>>
     \/ /\ user[s] \notin {None, u}
        /\ Fail(s)
        /\ UNCHANGED <<docker, calm>>

-----------------------------------------------------------------------------
\* Methods that do not wait.

Open(s, c) ==
  /\ Ready(s)
  /\ client[s][c] = "unopened"
  /\ client' = [client EXCEPT ![s][c] = "open"]
  /\ channels' = [channels EXCEPT ![s][c] = [pty |-> FALSE, process |-> None]]
  /\ UNCHANGED <<docker, conn, user, task, reader, closing, calm>>

PtyRequest(s, c) ==
  /\ Ready(s)
  /\ channels[s][c] # None
  /\ channels' = [channels EXCEPT ![s][c].pty = TRUE]
  /\ UNCHANGED <<docker, conn, user, task, reader, client, closing, calm>>

-----------------------------------------------------------------------------
\* shell_request and exec_request: attach, call by call.

\* Bound: a program is asked for only while docker has exec ids left for all.
Attaching == {s \in Connections : task[s].step \in {"list", "create", "start", "exec"}}
Spare == Cardinality({p \in Processes : state[p] = "free"}) > Cardinality(Attaching)

\* A client asks for a program, one for each channel unless it misbehaves.
Program(s, c) ==
  /\ Ready(s)
  /\ Spare
  /\ \/ client[s][c] = "open" /\ channels[s][c].process = None /\ Expected
     \/ client[s][c] = "open" /\ channels[s][c].process # None /\ Unexpected("again")
     \/ client[s][c] = "eof" /\ Unexpected("early")
  /\ \/ channels[s][c] = None /\ Fail(s)
     \/ /\ channels[s][c] # None
        /\ Await(s, [step |-> "list", channel |-> c, user |-> None, process |-> None])
        /\ UNCHANGED <<session, reader, client, closing>>
  /\ UNCHANGED docker

\* A command that is not UTF-8 is an error before anything is looked up.
GarbledCommand(s, c) ==
  /\ Ready(s)
  /\ client[s][c] \in {"open", "eof"}
  /\ Unexpected("garbled")
  /\ Fail(s)
  /\ UNCHANGED docker

\* Mutant: a container that is there is taken to be running.
ListRunning(s) ==
  /\ task[s].step = "list"
  /\ \/ /\ \E u \in Found(user[s]) : task' = [task EXCEPT ![s].step = "exec", ![s].user = u]
        /\ Frame
     \/ /\ Found(user[s]) = {}
        /\ Goto(s, "create")
        /\ Frame
     \/ CallFails(s)
  /\ UNCHANGED docker

List(s) ==
  /\ task[s].step = "list"
  /\ \/ /\ \E u \in Found(user[s]) : task' = [task EXCEPT ![s].step = "start", ![s].user = u]
        /\ Frame
     \/ /\ Found(user[s]) = {}
        /\ Goto(s, "create")
        /\ Frame
     \/ CallFails(s)
  /\ UNCHANGED docker

Create(s) ==
  /\ task[s].step = "create"
  /\ \/ /\ Creatable(user[s])
        /\ CreateContainer(user[s])
        /\ task' = [task EXCEPT ![s].step = "start", ![s].user = user[s]]
        /\ Frame
     \/ /\ ~Creatable(user[s])
        /\ Fail(s)
        /\ UNCHANGED <<docker, calm>>
     \/ CallFails(s) /\ UNCHANGED docker

Start(s) ==
  /\ task[s].step = "start"
  /\ \/ /\ StartContainer(task[s].user)
        /\ Goto(s, "exec")
        /\ Frame
     \/ CallFails(s) /\ UNCHANGED docker

Exec(s) ==
  /\ task[s].step = "exec"
  /\ \/ \E p \in Processes :
          /\ CreateExec(task[s].user, p)
          /\ task' = [task EXCEPT ![s].step = "run", ![s].process = p]
          /\ Frame
     \/ CallFails(s) /\ UNCHANGED docker

\* The channel is given the process, in the place of what it had, and a reader.
Attached(s) ==
  LET c == task[s].channel
      p == task[s].process
  IN /\ channels' = [channels EXCEPT ![s][c].process = p]
     /\ reader' = [reader EXCEPT ![p] = <<s, c>>]
     /\ Done(s)
     /\ UNCHANGED <<conn, user, client, closing, calm>>

Run(s) ==
  /\ task[s].step = "run"
  /\ \/ /\ StartExec(task[s].process)
        /\ IF channels[s][task[s].channel].pty
           THEN Goto(s, "resize") /\ Frame
           ELSE Attached(s)
     \/ /\ CallFails(s)
        /\ StartExec(task[s].process) \/ UNCHANGED docker

Resize(s) ==
  /\ task[s].step = "resize"
  /\ Attached(s) \/ CallFails(s)
  /\ UNCHANGED docker

-----------------------------------------------------------------------------
\* data.  The method waits until the program has read enough for all of the input
\* to be written; only a channel that is not there is an error.

Data(s, c) ==
  /\ Ready(s)
  /\ \/ client[s][c] = "open" /\ channels[s][c].process # None /\ Expected
     \/ client[s][c] = "open" /\ channels[s][c].process = None /\ Unexpected("early")
     \/ client[s][c] = "eof" /\ Unexpected("early")
  /\ \/ channels[s][c] = None /\ Fail(s)
     \/ /\ channels[s][c] # None /\ channels[s][c].process = None
        /\ UNCHANGED <<session, task, reader, client, closing>>
     \/ /\ channels[s][c] # None /\ channels[s][c].process # None
        /\ Await(s, [step |-> "write", channel |-> c, user |-> None, process |-> None])
        /\ UNCHANGED <<session, reader, client, closing>>
  /\ UNCHANGED docker

\* The program has read, or cannot any more: errors of write_all are ignored.
Written(s) ==
  /\ task[s].step = "write"
  /\ Done(s)
  /\ Frame
  /\ UNCHANGED docker

\* Whether the program that is written to has ended.
InputEnds(s) == state[channels[s][task[s].channel].process] = "ended"

-----------------------------------------------------------------------------
\* window_change_request.  It looks up the channel, and without a pty is over.

WindowChange(s, c) ==
  /\ Ready(s)
  /\ \/ client[s][c] = "open" /\ channels[s][c].process # None /\ Expected
     \/ client[s][c] = "open" /\ channels[s][c].process = None /\ Unexpected("early")
     \/ client[s][c] = "eof" /\ Unexpected("early")
  /\ \/ /\ channels[s][c] # None => channels[s][c].pty /\ channels[s][c].process = None
        /\ Fail(s)
     \/ /\ channels[s][c] # None
        /\ channels[s][c].pty
        /\ channels[s][c].process # None
        /\ Await(s, [step |-> "window", channel |-> c, user |-> None, process |-> None])
        /\ UNCHANGED <<session, reader, client, closing>>
  /\ UNCHANGED docker

WindowChanged(s) ==
  /\ task[s].step = "window"
  /\ (Done(s) /\ Frame) \/ CallFails(s)
  /\ UNCHANGED docker

-----------------------------------------------------------------------------
\* channel_eof and channel_close, which do the same: the channel is taken out,
\* then its process is killed.

\* Mutant: the channel stays until its process is gone.
TakeOutLater(s, c) ==
  /\ Await(s, [step |-> "inspect", channel |-> None, user |-> None,
               process |-> channels[s][c].process])
  /\ UNCHANGED <<session, reader>>

TakeOut(s, c) ==
  /\ channels' = [channels EXCEPT ![s][c] = None]
  /\ Await(s, [step |-> "inspect", channel |-> None, user |-> None,
               process |-> channels[s][c].process])
  /\ UNCHANGED <<conn, user, reader>>

CleanUp(s, c) ==
  \/ /\ channels[s][c] = None
     /\ UNCHANGED <<session, task, reader>>
  \/ /\ channels[s][c] # None /\ channels[s][c].process # None
     /\ TakeOut(s, c)

\* A channel without a process: exec_id returns an error.
BareChannel(s, c) == channels[s][c] # None /\ channels[s][c].process = None

\* How far a client has got with a channel (its eof, then its close).
Ended(s, c, step) ==
  /\ Ready(s)
  /\ \/ /\ BareChannel(s, c)
        /\ Unexpected("bare")
        /\ Fail(s)
     \/ /\ CleanUp(s, c)
        /\ client' = [client EXCEPT ![s][c] = step]
        /\ UNCHANGED <<closing, calm>>
  /\ UNCHANGED docker

ChannelEof(s, c) == client[s][c] = "open" /\ Ended(s, c, "eof")
ChannelClose(s, c) == client[s][c] \in {"open", "eof"} /\ Ended(s, c, "closed")

\* Errors of detatch are ignored.
Inspect(s) ==
  /\ task[s].step = "inspect"
  /\ \/ Goto(s, "kill") /\ Expected
     \/ Done(s) /\ Unexpected("fail")
  /\ UNCHANGED <<docker, session, reader, client, closing>>

\* Mutant: what is not running is killed.
KillEnded(s) ==
  /\ task[s].step = "kill"
  /\ IF Running(task[s].process) THEN UNCHANGED docker ELSE Kill(task[s].process)
  /\ Done(s)
  /\ Frame

KillProcess(s) ==
  /\ task[s].step = "kill"
  /\ \/ Kill(task[s].process) /\ Expected
     \/ UNCHANGED docker /\ Unexpected("fail")
  /\ Done(s)
  /\ UNCHANGED <<session, reader, client, closing>>

-----------------------------------------------------------------------------
\* Readers, connections and the server.

\* Mutant: the client is not told.
ReaderEndsQuietly(p) ==
  /\ reader[p] # None
  /\ state[p] = "ended" \/ conn[reader[p][1]] = "ended"
  /\ reader' = [reader EXCEPT ![p] = None]
  /\ UNCHANGED <<docker, session, task, client, closing, calm>>

\* The output of a process is over: the channel is closed towards the client.
\* A reader whose connection has ended has nobody to tell.
ReaderEnds(p) ==
  /\ reader[p] # None
  /\ state[p] = "ended" \/ conn[reader[p][1]] = "ended"
  /\ reader' = [reader EXCEPT ![p] = None]
  /\ closing' = IF conn[reader[p][1]] = "open" THEN closing \cup {reader[p]} ELSE closing
  /\ UNCHANGED <<docker, session, task, client, calm>>

\* A connection ends once it has no channels, or breaks off.
Disconnect(s) ==
  /\ conn[s] # "ended"
  /\ task[s] = Idle
  /\ \/ (\A c \in Channels : channels[s][c] = None) /\ Expected
     \/ (\E c \in Channels : channels[s][c] # None) /\ Unexpected("break")
  /\ Fail(s)
  /\ UNCHANGED docker

\* The server dies; docker and the processes in it do not.
Restart ==
  /\ Unexpected("break")
  /\ Drop({s \in Connections : conn[s] # "new" \/ user[s] # None})
  /\ reader' = [p \in Processes |-> None]
  /\ UNCHANGED docker

ProcessExits(p) ==
  /\ Exits(p)
  /\ UNCHANGED <<session, task, reader, client, closing, calm>>

\* A client asks for something.
Client(s) ==
  \/ \E u \in Usernames : Offer(s, u)
  \/ \E c \in Channels : Open(s, c) \/ PtyRequest(s, c) \/ WindowChange(s, c)
  \/ \E c \in Channels : Program(s, c) \/ GarbledCommand(s, c) \/ Data(s, c)
  \/ \E c \in Channels : ChannelEof(s, c) \/ ChannelClose(s, c)
  \/ Disconnect(s)

\* The method that waits for docker goes on.
Method(s) ==
  \/ List(s) \/ Create(s) \/ Start(s) \/ Exec(s) \/ Run(s) \/ Resize(s)
  \/ WindowChanged(s) \/ Inspect(s) \/ KillProcess(s)

Next ==
  \/ \E s \in Connections : Client(s) \/ Method(s) \/ Written(s)
  \/ \E p \in Processes : ReaderEnds(p) \/ ProcessExits(p)
  \/ Restart

Spec == Init /\ [][Next]_vars

\* A client answers the end of a channel with its own, as the protocol obliges it.
Reply(s, c) == <<s, c>> \in closing /\ ChannelClose(s, c)

\* Docker answers or fails every call.  A write to a program that has ended comes
\* back; one to a program that runs need not.  A connection passes on what its
\* readers send between its methods only, and takes its client's messages in
\* order, so that neither is overtaken for ever.
FairSpec ==
  /\ Spec
  /\ \A s \in Connections : WF_vars(Method(s)) /\ WF_vars(Written(s) /\ InputEnds(s))
  /\ \A p \in Processes : SF_vars(ReaderEnds(p) /\ task[reader[p][1]] = Idle)
  /\ \A s \in Connections, c \in Channels : SF_vars(Reply(s, c))

-----------------------------------------------------------------------------
(***************************************************************************)
(* Properties.                                                             *)
(***************************************************************************)

Channel == [pty : BOOLEAN, process : Processes \cup {None}]
Task == [step : Steps, channel : Channels \cup {None}, user : Usernames \cup {None},
         process : Processes \cup {None}]

\* The type invariant; a method that waits belongs to an open connection.
TypeOK ==
  /\ DockerTypeOK
  /\ conn \in [Connections -> {"new", "open", "ended"}]
  /\ user \in [Connections -> Usernames \cup {None}]
  /\ channels \in [Connections -> [Channels -> Channel \cup {None}]]
  /\ task \in [Connections -> Task]
  /\ reader \in [Processes -> (Connections \X Channels) \cup {None}]
  /\ client \in [Connections -> [Channels -> {"unopened", "open", "eof", "closed"}]]
  /\ closing \subseteq Connections \X Channels
  /\ calm \in BOOLEAN
  /\ \A s \in Connections :
       /\ conn[s] = "open" => user[s] # None
       /\ task[s].step # "idle" => conn[s] = "open"
       /\ task[s].step \in {"run", "resize", "inspect", "kill"} => task[s].process # None

Holds(s, c, p) == channels[s][c] # None /\ channels[s][c].process = p
Held(p) == \E s \in Connections, c \in Channels : Holds(s, c, p)
InHands(p) == \E s \in Connections : task[s].process = p

\* A process belongs to one channel, of a connection of the user in whose
\* container it runs, however many connections attach at once (containers.rs:188).
OwnContainer ==
  \A s, t \in Connections, c, d \in Channels, p \in Processes :
    Holds(s, c, p) =>
      /\ owner[p] = user[s]
      /\ Holds(t, d, p) => s = t /\ c = d

\* What channel_close and channel_eof are about to kill is no open channel's, and
\* no other method's (session.rs:402).
KillsWhatIsLetGo ==
  \A s \in Connections :
    task[s].step \in {"inspect", "kill"} =>
      /\ ~Held(task[s].process)
      /\ \A t \in Connections \ {s} : task[t].process # task[s].process

\* A process that runs on without a channel, or a method about to kill or to
\* attach it.
Stray(p) == Running(p) /\ ~Held(p) /\ ~InHands(p)

\* Where clients, docker and the network do what is expected no process is left
\* behind, although connections race for containers and one may end over it.
CleanedUp == calm => \A p \in Processes : ~Stray(p)

\* "Clean up" (session.rs:401): closing a channel leaves no process behind, be it
\* one that had no program.  The code breaks it: the close of a bare channel ends
\* the connection, and with it the channels beside it.
ClosingCleansUp == \A p \in Processes : ~Stray(p)

\* The connection waits for a program that runs to read its input.
Blocked(s) == task[s].step = "write" /\ ~InputEnds(s)

\* When the program of a channel has ended the channel goes too: the reader
\* closes it, the client replies, channel_close takes it out (session.rs:341).  It
\* does so unless another program of the connection runs on and never reads what
\* it is sent, for then no method is called again (session.rs:357).
ProgramEndsChannel ==
  \A s \in Connections, c \in Channels, p \in Processes :
    []<>~Blocked(s) => ((Holds(s, c, p) /\ state[p] = "ended") ~> channels[s][c] = None)

=============================================================================
