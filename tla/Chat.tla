-------------------------------- MODULE Chat --------------------------------
(***************************************************************************)
(* The chat: one room, `general', its history and its members, and the     *)
(* sockets of the clients (src/src/chat/mod.rs, src/src/chat/state.rs).    *)
(*                                                                         *)
(* A socket is served by three tasks that run in parallel: handle_chat_    *)
(* socket itself (`main'), the task that forwards the channel of the       *)
(* connection to the client (`sender'), and the task that reads the        *)
(* client's requests (`receiver').  Each map access is atomic; the room is *)
(* guarded by a lock, and what the code does while it holds a guard is     *)
(* spelt out below: only a read guard is ever held from one step to the    *)
(* next, by a receiver, and a step that writes the room waits for those.   *)
(***************************************************************************)
EXTENDS RingBuffer, FiniteSets, Functions

CONSTANTS
  Sockets,      \* websocket connections, each opened once
  Users,        \* names of the sessions clients may come with
  GuestNames,   \* the sequence guest-0, guest-1, ...
  Backlog,      \* responses a channel keeps for a slow client
  MaxPosts,     \* bound: messages posted to the room
  MaxReplies,   \* bound: replies clients ask for
  None          \* no name, no socket, no session

Names == Users \cup {GuestNames[i] : i \in DOMAIN GuestNames}

ASSUME ChatAssumption ==
  /\ Backlog \in Nat \ {0}
  /\ MaxPosts \in Nat
  /\ MaxReplies \in Nat
  /\ DOMAIN GuestNames \subseteq Nat
  /\ \A i, j \in DOMAIN GuestNames : GuestNames[i] = GuestNames[j] => i = j
  /\ None \notin Names \cup Sockets

\* Messages are told apart by their position in the order they were posted.
\* A response is known by the messages it shows: one, some, or none for the
\* information, the errors and the answers to commands.
Message(n) == [type |-> "message", shows |-> <<n>>]
RoomHistory(ns) == [type |-> "roomHistory", shows |-> ns]
Notice == [type |-> "notice", shows |-> <<>>]
IsLive(response) == response.type = "message"

VARIABLES
  ring,         \* Room.message_history
  members,      \* Room.connected_users
  posted,       \* how many messages have been pushed
  connections,  \* ChatState.connections: name -> socket whose channel is there
  guests,       \* ChatState.guest_id_counter
  name,         \* Connection.username of each socket
  main,         \* step of handle_chat_socket
  sender,       \* the send task: none, running or ended
  receiver,     \* the receive task: none, idle, what it is doing, or ended
  queue,        \* what the send task has still to receive from the channel
  lagged,       \* a response was overwritten before it was received
  todo,         \* names send_message has still to visit
  held,         \* messages a task carries from a read of the room to a send
  replies,      \* bound: replies asked for so far
  shown,        \* history: the messages the client has been shown
  heard,        \* history: the last of them that came live, 0 at first
  shared        \* history: sockets whose name another open socket has had

room == <<ring, members, posted>>
registry == <<connections, guests, name, shared>>
channel == <<queue, lagged>>
tasks == <<main, sender, receiver>>
locals == <<todo, held, replies>>
client == <<shown, heard>>
vars == <<room, registry, channel, tasks, locals, client>>

Init ==
  /\ ring = NewRing
  /\ members = {}
  /\ posted = 0
  /\ connections = [u \in Names |-> None]
  /\ guests = 0
  /\ name = [s \in Sockets |-> None]
  /\ main = [s \in Sockets |-> "connect"]
  /\ sender = [s \in Sockets |-> "none"]
  /\ receiver = [s \in Sockets |-> "none"]
  /\ queue = [s \in Sockets |-> <<>>]
  /\ lagged = [s \in Sockets |-> FALSE]
  /\ todo = [s \in Sockets |-> {}]
  /\ held = [s \in Sockets |-> <<>>]
  /\ replies = 0
  /\ shown = [s \in Sockets |-> {}]
  /\ heard = [s \in Sockets |-> 0]
  /\ shared = {}

-----------------------------------------------------------------------------
\* The order of the statements of handle_chat_socket.

\* Mutant: the history is read before the channel is subscribed to.
FollowingReadFirst ==
  [connect |-> "join", join |-> "read", read |-> "subscribe", subscribe |-> "info",
   info |-> "history", history |-> "select", select |-> "disconnect", disconnect |-> "done"]

\* Mutant: the channel is subscribed to when everything else is set up.
FollowingSubscribeLast ==
  [connect |-> "join", join |-> "info", info |-> "read", read |-> "history",
   history |-> "subscribe", subscribe |-> "select", select |-> "disconnect",
   disconnect |-> "done"]

Following ==
  [connect |-> "join", join |-> "subscribe", subscribe |-> "info", info |-> "read",
   read |-> "history", history |-> "select", select |-> "disconnect", disconnect |-> "done"]

At(s, step) ==
  /\ main[s] = step
  /\ main' = [main EXCEPT ![s] = Following[step]]

\* The room is locked for reading by a receiver that fans a message out (the
\* write guard it pushed under was downgraded) or copies the history.

\* Mutant: send_message lets go of the room before it visits the members.
ReadersHistoryOnly == {s \in Sockets : receiver[s] = "reply"}

\* Mutant: send_message looks the room up before it locks it for writing.
ReadersLookupFirst == {s \in Sockets : receiver[s] \in {"post", "fanout", "reply"}}

Readers == {s \in Sockets : receiver[s] \in {"fanout", "reply"}}

\* A channel takes a response only while the send task holds its receiving end,
\* and drops its oldest response when it is full.

\* Mutant: a full channel grows.
BehindGrow(t, response) ==
  IF sender[t] # "running" THEN queue[t] ELSE Append(queue[t], response)

Behind(t, response) ==
  IF sender[t] # "running" THEN queue[t]
  ELSE Append(IF Len(queue[t]) < Backlog THEN queue[t] ELSE Tail(queue[t]), response)

Send(t, response) ==
  /\ queue' = [queue EXCEPT ![t] = Behind(t, response)]
  /\ lagged' = [lagged EXCEPT ![t] =
       @ \/ (sender[t] = "running" /\ Len(queue[t]) >= Backlog)]

-----------------------------------------------------------------------------
\* handle_chat_socket

Open(s) == main[s] \notin {"connect", "done"}

\* The name comes from the session or, without one, from the guest counter.
\* It replaces whatever connection the name had.
Connect(s, session) ==
  LET u == IF session # None THEN session ELSE GuestNames[guests + 1]
      rivals == {t \in Sockets : Open(t) /\ name[t] = u}
  IN
  /\ At(s, "connect")
  /\ session = None => guests + 1 \in DOMAIN GuestNames
  /\ guests' = IF session = None THEN guests + 1 ELSE guests
  /\ name' = [name EXCEPT ![s] = u]
  /\ connections' = [connections EXCEPT ![u] = s]
  /\ shared' = shared \cup (IF rivals = {} THEN {} ELSE rivals \cup {s})
  /\ UNCHANGED <<room, channel, sender, receiver, locals, client>>

Join(s) ==
  /\ At(s, "join")
  /\ Readers = {}
  /\ members' = members \cup {name[s]}
  /\ UNCHANGED <<ring, posted, registry, channel, sender, receiver, locals, client>>

Subscribe(s) ==
  /\ At(s, "subscribe")
  /\ sender' = [sender EXCEPT ![s] = "running"]
  /\ UNCHANGED <<room, registry, channel, receiver, locals, client>>

SendInfo(s) ==
  /\ At(s, "info")
  /\ Send(s, Notice)
  /\ UNCHANGED <<room, registry, sender, receiver, locals, client>>

ReadHistory(s) ==
  /\ At(s, "read")
  /\ held' = [held EXCEPT ![s] = ToVec(ring)]
  /\ UNCHANGED <<room, registry, channel, sender, receiver, todo, replies, client>>

\* The history goes out, and the receive task starts.
SendHistory(s) ==
  /\ At(s, "history")
  /\ Send(s, RoomHistory(held[s]))
  /\ held' = [held EXCEPT ![s] = <<>>]
  /\ receiver' = [receiver EXCEPT ![s] = "idle"]
  /\ UNCHANGED <<room, registry, sender, todo, replies, client>>

\* Mutant: when the client is gone there is nothing left to do.
SelectThenReturn(s) ==
  /\ main[s] = "select"
  /\ \/ sender[s] = "ended" /\ main' = [main EXCEPT ![s] = "done"]
     \/ receiver[s] = "ended" /\ main' = [main EXCEPT ![s] = "disconnect"]
  /\ UNCHANGED <<room, registry, channel, sender, receiver, locals, client>>

\* One of the two tasks has ended; the other is aborted, which nobody waits for.
Select(s) ==
  /\ At(s, "select")
  /\ sender[s] = "ended" \/ receiver[s] = "ended"
  /\ UNCHANGED <<room, registry, channel, sender, receiver, locals, client>>

Aborted(s) == main[s] \in {"disconnect", "done"}

\* The name leaves the room; the entry in connections stays for good.
Disconnect(s) ==
  /\ At(s, "disconnect")
  /\ Readers = {}
  /\ members' = members \ {name[s]}
  /\ UNCHANGED <<ring, posted, registry, channel, sender, receiver, locals, client>>

-----------------------------------------------------------------------------
\* The send task.

Deliver(s) ==
  /\ sender[s] = "running"
  /\ ~lagged[s]
  /\ queue[s] # <<>>
  /\ queue' = [queue EXCEPT ![s] = Tail(@)]
  /\ LET response == Head(queue[s]) IN
       /\ shown' = [shown EXCEPT ![s] = @ \cup Range(response.shows)]
       /\ heard' = [heard EXCEPT ![s] = IF IsLive(response) THEN response.shows[1] ELSE @]
  /\ UNCHANGED <<room, registry, lagged, tasks, locals>>

\* The socket fails, the channel reports the lag, or the task is aborted.
SenderEnds(s) ==
  /\ sender[s] = "running"
  /\ sender' = [sender EXCEPT ![s] = "ended"]
  /\ queue' = [queue EXCEPT ![s] = <<>>]
  /\ UNCHANGED <<room, registry, lagged, main, receiver, locals, client>>

-----------------------------------------------------------------------------
\* The receive task.

Becomes(s, step) == receiver' = [receiver EXCEPT ![s] = step]

\* A frame from the client is a message for the room or asks for the history.
\* The request is decoded before the room is looked up.
Request(s, step) ==
  /\ receiver[s] = "idle"
  /\ IF step = "post"
     THEN posted + Cardinality({t \in Sockets : receiver[t] = "post"}) < MaxPosts
     ELSE replies < MaxReplies
  /\ replies' = IF step = "post" THEN replies ELSE replies + 1
  /\ Becomes(s, step)
  /\ UNCHANGED <<room, registry, channel, main, sender, todo, held, client>>

\* A command, an unimplemented request or a frame that is not one is answered
\* on the connection's own channel.
AnswerNotice(s) ==
  /\ receiver[s] = "idle"
  /\ replies < MaxReplies
  /\ replies' = replies + 1
  /\ Send(s, Notice)
  /\ UNCHANGED <<room, registry, tasks, todo, held, client>>

\* Mutant: the author is left out.
PostToOthers(s) ==
  /\ receiver[s] = "post"
  /\ Readers = {}
  /\ posted' = posted + 1
  /\ ring' = Push(ring, posted + 1)
  /\ todo' = [todo EXCEPT ![s] = members \ {name[s]}]
  /\ held' = [held EXCEPT ![s] = <<posted + 1>>]
  /\ Becomes(s, "fanout")
  /\ UNCHANGED <<members, registry, channel, main, sender, replies, client>>

\* The message is pushed under the write guard, which becomes a read guard.
Post(s) ==
  /\ receiver[s] = "post"
  /\ Readers = {}
  /\ posted' = posted + 1
  /\ ring' = Push(ring, posted + 1)
  /\ todo' = [todo EXCEPT ![s] = members]
  /\ held' = [held EXCEPT ![s] = <<posted + 1>>]
  /\ Becomes(s, "fanout")
  /\ UNCHANGED <<members, registry, channel, main, sender, replies, client>>

\* The members are visited in the order of a HashSet, which is any order.
FanOut(s, u) ==
  LET t == connections[u] IN
  /\ receiver[s] = "fanout"
  /\ u \in todo[s]
  /\ todo' = [todo EXCEPT ![s] = @ \ {u}]
  /\ IF t = None THEN UNCHANGED channel ELSE Send(t, Message(held[s][1]))
  /\ UNCHANGED <<room, registry, tasks, held, replies, client>>

FanOutDone(s) ==
  /\ receiver[s] = "fanout"
  /\ todo[s] = {}
  /\ held' = [held EXCEPT ![s] = <<>>]
  /\ Becomes(s, "idle")
  /\ UNCHANGED <<room, registry, channel, main, sender, todo, replies, client>>

\* A history request: the guard is held until the copy is sent.
CopyHistory(s) ==
  /\ receiver[s] = "ask"
  /\ held' = [held EXCEPT ![s] = ToVec(ring)]
  /\ Becomes(s, "reply")
  /\ UNCHANGED <<room, registry, channel, main, sender, todo, replies, client>>

Reply(s) ==
  /\ receiver[s] = "reply"
  /\ Send(s, RoomHistory(held[s]))
  /\ held' = [held EXCEPT ![s] = <<>>]
  /\ Becomes(s, "idle")
  /\ UNCHANGED <<room, registry, main, sender, todo, replies, client>>

\* The client closes, sends a frame that is not text, or the task is aborted,
\* which takes effect between two requests.
ReceiverEnds(s) ==
  /\ receiver[s] = "idle"
  /\ Becomes(s, "ended")
  /\ UNCHANGED <<room, registry, channel, main, sender, locals, client>>

-----------------------------------------------------------------------------
Setup(s) ==
  \/ Join(s)
  \/ Subscribe(s)
  \/ SendInfo(s)
  \/ ReadHistory(s)
  \/ SendHistory(s)
  \/ Select(s)
  \/ Disconnect(s)

Work(s) ==
  \/ Post(s)
  \/ \E u \in Names : FanOut(s, u)
  \/ FanOutDone(s)
  \/ CopyHistory(s)
  \/ Reply(s)

Client(s) ==
  \/ \E session \in Users \cup {None} : Connect(s, session)
  \/ \E step \in {"post", "ask"} : Request(s, step)
  \/ AnswerNotice(s)

Ends(s) == SenderEnds(s) \/ ReceiverEnds(s)

Next == \E s \in Sockets : Setup(s) \/ Deliver(s) \/ Work(s) \/ Client(s) \/ Ends(s)

Spec == Init /\ [][Next]_vars

\* The three tasks of a socket.
MainTask(s) == Setup(s)
SendTask(s) == Deliver(s) \/ ((Aborted(s) \/ lagged[s]) /\ SenderEnds(s))
ReceiveTask(s) == Work(s) \/ (Aborted(s) /\ ReceiverEnds(s))

\* The runtime keeps running every task that can go on, and an abort takes
\* effect in the end.  Nothing makes a client send or leave; a client that stays
\* keeps reading, else Deliver would wait for it.
Fairness ==
  \A s \in Sockets :
    WF_vars(MainTask(s)) /\ WF_vars(SendTask(s)) /\ WF_vars(ReceiveTask(s))

FairSpec == Spec /\ Fairness

-----------------------------------------------------------------------------
(***************************************************************************)
(* Properties.                                                             *)
(***************************************************************************)

Numbers == Nat \ {0}
Response == [type : {"message", "roomHistory", "notice"}, shows : Seq(Numbers)]

TypeOK ==
  /\ InBounds(ring, Numbers)
  /\ members \subseteq Names
  /\ posted \in Nat
  /\ connections \in [Names -> Sockets \cup {None}]
  /\ guests \in Nat
  /\ name \in [Sockets -> Names \cup {None}]
  /\ main \in [Sockets -> DOMAIN Following \cup {"done"}]
  /\ sender \in [Sockets -> {"none", "running", "ended"}]
  /\ receiver \in [Sockets -> {"none", "idle", "post", "fanout", "ask", "reply", "ended"}]
  /\ queue \in [Sockets -> Seq(Response)]
  /\ \A s \in Sockets : Len(queue[s]) <= Backlog
  /\ lagged \in [Sockets -> BOOLEAN]
  /\ todo \in [Sockets -> SUBSET Names]
  /\ held \in [Sockets -> Seq(Numbers)]
  /\ replies \in Nat
  /\ shown \in [Sockets -> SUBSET Numbers]
  /\ heard \in [Sockets -> Nat]
  /\ shared \subseteq Sockets

\* The history of the room, read at any moment, is the last Capacity messages in
\* the order they were posted (utils.rs:65, state.rs:106).
HistoryIsLatest ==
  LET oldest == IF posted < Capacity THEN 0 ELSE posted - Capacity
  IN  ToVec(ring) = [i \in 1 .. posted - oldest |-> oldest + i]

\* Whatever receivers, aborts and leavers do, all that ever happens to what is
\* read of the ring (utils.rs:78) is that the window moves on by one message.
Window == INSTANCE MessageWindow WITH window <- ToVec(ring)
HistorySlides == Window!Spec

\* Receivers push and fan out in parallel, yet no client is sent live messages
\* out of order or twice, even when two sockets have one name (state.rs:114
\* keeps the room locked until every member has been visited).
LiveInOrder ==
  \A s \in Sockets : \A i \in DOMAIN queue[s] : IsLive(queue[s][i]) =>
    /\ heard[s] < queue[s][i].shows[1]
    /\ \A j \in 1 .. i - 1 :
         IsLive(queue[s][j]) => queue[s][j].shows[1] < queue[s][i].shows[1]

\* What a client has been sent, history and live messages together, has no hole,
\* however its connect raced with posts (mod.rs:72-85 joins, subscribes and only
\* then reads the history), as long as no other socket has come with its name.
NoGap ==
  \A s \in Sockets \ shared : \A i, j \in shown[s] : i .. j \subseteq shown[s]

\* A client that is set up and has nothing waiting has been sent the newest
\* message, unless a fan-out is still on its way to it (state.rs:117).
CaughtUp ==
  \A s \in Sockets \ shared :
    /\ main[s] = "select" /\ sender[s] = "running" /\ ~lagged[s] /\ queue[s] = <<>>
    /\ \A t \in Sockets : name[s] \notin todo[t]
    /\ posted > 0
    => posted \in shown[s]

\* Every name in the room has an open socket behind it, in whatever order the
\* sockets of one name come and go (mod.rs:111): nobody is left in the room.
NobodyLeftBehind ==
  \A u \in members : \E s \in Sockets :
    name[s] = u /\ main[s] \in {"subscribe", "info", "read", "history", "select", "disconnect"}

\* The newest message comes to every client that is listening, unless its socket
\* ends or another socket takes its name (state.rs:99).
NewestArrives ==
  \A s \in Sockets : \A n \in 1 .. MaxPosts :
    (main[s] = "select" /\ sender[s] = "running" /\ posted = n)
      ~> (n \in shown[s] \/ sender[s] = "ended" \/ s \in shared)

\* The guards on the room never block each other for good: a history request is
\* answered, and a socket that ends leaves the room (state.rs:94, 147).
RoomIsLetGo ==
  \A s \in Sockets :
    /\ receiver[s] = "ask" ~> receiver[s] \in {"idle", "ended"}
    /\ main[s] = "disconnect" ~> main[s] = "done"

=============================================================================
