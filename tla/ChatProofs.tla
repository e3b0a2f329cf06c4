------------------------------ MODULE ChatProofs ------------------------------
(***************************************************************************)
(* Theorems about Chat, for any number of sockets, names and messages and  *)
(* any capacity of the history and of the channels: first the history and  *)
(* the members of the room, then what the clients are sent.                *)
(***************************************************************************)
EXTENDS Chat, RingBufferProofs

-----------------------------------------------------------------------------
(* The history of the room.                                                *)

\* What HistoryIsLatest says, as a value: the numbers after oldest up to posted.
Oldest(n) == IF n < Capacity THEN 0 ELSE n - Capacity
Latest(n) == [i \in 1 .. n - Oldest(n) |-> Oldest(n) + i]

HistoryInv == /\ posted \in Nat
              /\ InBounds(ring, Numbers)
              /\ ToVec(ring) = Latest(posted)

LEMMA LatestType ==
  ASSUME NEW n \in Nat
  PROVE  /\ Latest(n) \in Seq(Numbers)
         /\ Len(Latest(n)) = IF n < Capacity THEN n ELSE Capacity
  BY CapacityAssumption DEF Latest, Oldest, Numbers

LEMMA LatestAt ==
  ASSUME NEW n \in Nat, NEW i \in Nat \ {0}, i <= n, i <= Capacity
  PROVE  Latest(n)[i] = IF n < Capacity THEN i ELSE n - Capacity + i
<1>1. i \in 1 .. n - Oldest(n)
  BY CapacityAssumption DEF Oldest
<1> QED
  BY <1>1, CapacityAssumption DEF Latest, Oldest

LEMMA PushLatest ==
  ASSUME HistoryInv
  PROVE  InBounds(Push(ring, posted + 1), Numbers) /\ ToVec(Push(ring, posted + 1)) = Latest(posted + 1)
<1> USE CapacityAssumption
<1>1. posted + 1 \in Numbers /\ posted + 1 \in Nat /\ posted \in Nat /\ InBounds(ring, Numbers)
  BY DEF HistoryInv, Numbers
<1>2. InBounds(Push(ring, posted + 1), Numbers)
  BY <1>1, PushInBounds
<1>3. /\ ring.size = IF posted < Capacity THEN posted ELSE Capacity
      /\ ToVec(ring) \in Seq(Numbers) /\ Len(ToVec(ring)) = ring.size
      /\ ToVec(ring) = Latest(posted)
  BY <1>1, ToVecType, LatestType DEF HistoryInv
<1>4. CASE posted < Capacity
  <2>1. ToVec(Push(ring, posted + 1)) = Append(Latest(posted), posted + 1)
    BY <1>1, <1>3, <1>4, PushWhenRoom
  <2>2. Append(Latest(posted), posted + 1) = Latest(posted + 1)
    <3>1. /\ Latest(posted) \in Seq(Numbers) /\ Len(Latest(posted)) = posted
          /\ Latest(posted + 1) \in Seq(Numbers) /\ Len(Latest(posted + 1)) = posted + 1
      BY <1>1, <1>4, LatestType
    <3>2. \A i \in 1 .. posted + 1 : Append(Latest(posted), posted + 1)[i] = Latest(posted + 1)[i]
      <4>1. /\ \A i \in 1 .. posted : Latest(posted)[i] = i
            /\ \A i \in 1 .. posted + 1 : Latest(posted + 1)[i] = i
        BY <1>1, <1>4, LatestAt
      <4> QED
        BY <1>1, <3>1, <4>1
    <3> QED
      BY <1>1, <3>1, <3>2
  <2> QED
    BY <1>2, <2>1, <2>2
<1>5. CASE posted >= Capacity
  <2>1. ToVec(Push(ring, posted + 1)) = Append(Tail(Latest(posted)), posted + 1)
    BY <1>1, <1>3, <1>5, PushWhenFull
  <2>2. Append(Tail(Latest(posted)), posted + 1) = Latest(posted + 1)
    <3>1. /\ Latest(posted) \in Seq(Numbers) /\ Len(Latest(posted)) = Capacity
          /\ Latest(posted + 1) \in Seq(Numbers) /\ Len(Latest(posted + 1)) = Capacity
      BY <1>1, <1>5, LatestType
    <3>2. \A i \in 1 .. Capacity :
            Append(Tail(Latest(posted)), posted + 1)[i] = Latest(posted + 1)[i]
      <4>1. /\ \A i \in 1 .. Capacity : Latest(posted)[i] = posted - Capacity + i
            /\ \A i \in 1 .. Capacity : Latest(posted + 1)[i] = posted + 1 - Capacity + i
        BY <1>1, <1>5, LatestAt
      <4> QED
        BY <1>1, <3>1, <4>1
    <3> QED
      BY <1>1, <3>1, <3>2
  <2> QED
    BY <1>2, <2>1, <2>2
<1> QED
  BY <1>1, <1>4, <1>5

\* Only Post writes the history.
LEMMA WhoWritesHistory ==
  ASSUME [Next]_vars
  PROVE  \/ ring' = Push(ring, posted + 1) /\ posted' = posted + 1
         \/ UNCHANGED <<ring, posted>>
<1>1. ASSUME NEW s \in Sockets, Setup(s) PROVE UNCHANGED <<ring, posted>>
  BY <1>1 DEF Setup, Join, Subscribe, SendInfo, ReadHistory, SendHistory, Select, Disconnect, room
<1>2. ASSUME NEW s \in Sockets, Deliver(s) \/ Client(s) \/ Ends(s)
      PROVE  UNCHANGED <<ring, posted>>
  BY <1>2 DEF Deliver, Client, Ends, Connect, Request, AnswerNotice, SenderEnds, ReceiverEnds, room
<1>3. ASSUME NEW s \in Sockets, Work(s)
      PROVE  Post(s) \/ UNCHANGED <<ring, posted>>
  BY <1>3 DEF Work, FanOut, FanOutDone, CopyHistory, Reply, room
<1>4. ASSUME NEW s \in Sockets, Post(s)
      PROVE  ring' = Push(ring, posted + 1) /\ posted' = posted + 1
  BY <1>4 DEF Post
<1>5. CASE UNCHANGED vars
  BY <1>5 DEF vars, room
<1> QED
  BY <1>1, <1>2, <1>3, <1>4, <1>5 DEF Next

LEMMA HistoryKept == Spec => []HistoryInv
<1>1. Init => HistoryInv
  <2> SUFFICES ASSUME Init PROVE HistoryInv
    OBVIOUS
  <2>1. Latest(0) = <<>>
    BY LatestType, CapacityAssumption DEF Latest, Oldest
  <2> QED
    BY <2>1, NewRingShows DEF Init, HistoryInv
<1>2. HistoryInv /\ [Next]_vars => HistoryInv'
  <2> SUFFICES ASSUME HistoryInv, [Next]_vars PROVE HistoryInv'
    OBVIOUS
  <2>1. CASE ring' = Push(ring, posted + 1) /\ posted' = posted + 1
    BY <2>1, PushLatest DEF HistoryInv
  <2>2. CASE UNCHANGED <<ring, posted>>
    BY <2>2 DEF HistoryInv
  <2> QED
    BY <2>1, <2>2, WhoWritesHistory
<1> QED
  BY <1>1, <1>2, PTL DEF Spec

\* However sockets, tasks and requests interleave, the history a task reads under
\* a guard is the last Capacity messages in order (utils.rs:65, state.rs:106).
THEOREM HistoryCorrect == Spec => []HistoryIsLatest
<1>1. HistoryInv => HistoryIsLatest
  BY DEF HistoryInv, HistoryIsLatest, Latest, Oldest
<1> QED
  BY <1>1, HistoryKept, PTL

LEMMA PushSlides ==
  ASSUME HistoryInv
  PROVE  ToVec(Push(ring, posted + 1)) = Window!Slide(ToVec(ring), posted + 1)
<1>1. posted + 1 \in Numbers /\ InBounds(ring, Numbers)
  BY DEF HistoryInv, Numbers
<1>2. Len(ToVec(ring)) = ring.size /\ ring.size \in Nat /\ ring.size <= Capacity
  BY <1>1, ToVecType DEF InBounds
<1>3. CASE ring.size < Capacity
  BY <1>1, <1>2, <1>3, PushWhenRoom DEF Window!Slide
<1>4. CASE ring.size = Capacity
  <2>1. ToVec(Push(ring, posted + 1)) = Append(Tail(ToVec(ring)), posted + 1)
    BY <1>1, <1>4, PushWhenFull
  <2>2. ~(Len(ToVec(ring)) < Capacity)
    BY <1>2, <1>4, CapacityAssumption
  <2> QED
    BY <2>1, <2>2 DEF Window!Slide
<1> QED
  BY <1>2, <1>3, <1>4, CapacityAssumption

\* The chat implements the abstract window: what readers of the ring see through
\* to_vec (utils.rs:78) starts empty and slides by one message with every push.
THEOREM HistoryImplementsWindow == Spec => HistorySlides
<1>1. Init => Window!Init
  BY NewRingShows DEF Init, Window!Init
<1>2. HistoryInv /\ [Next]_vars => [Window!Next]_<<ToVec(ring), posted>>
  <2> SUFFICES ASSUME HistoryInv, [Next]_vars
               PROVE  [Window!Next]_<<ToVec(ring), posted>>
    OBVIOUS
  <2>1. CASE ring' = Push(ring, posted + 1) /\ posted' = posted + 1
    BY <2>1, PushSlides DEF Window!Next
  <2>2. CASE UNCHANGED <<ring, posted>>
    BY <2>2
  <2> QED
    BY <2>1, <2>2, WhoWritesHistory
<1> QED
  BY <1>1, <1>2, HistoryKept, PTL DEF Spec, HistorySlides, Window!Spec

-----------------------------------------------------------------------------
(* The members of the room.                                                *)

Joined == {"subscribe", "info", "read", "history", "select", "disconnect"}

\* The part of the state that says who is in the room.
MemberInv ==
  /\ main \in [Sockets -> {"connect", "join", "subscribe", "info", "read", "history",
                           "select", "disconnect", "done"}]
  /\ name \in [Sockets -> Names \cup {None}]
  /\ \A u \in members : \E s \in Sockets : name[s] = u /\ main[s] \in Joined

LEMMA StepMembers ==
  ASSUME MemberInv, [Next]_vars
  PROVE  MemberInv'
<1> USE DEF MemberInv, Joined, At, Following, room, registry, channel, tasks, locals, client
<1>1. ASSUME NEW s \in Sockets, NEW session \in Users \cup {None}, Connect(s, session)
      PROVE  MemberInv'
  BY <1>1, ChatAssumption DEF Connect, Names
<1>2. ASSUME NEW s \in Sockets, Join(s)
      PROVE  MemberInv'
  BY <1>2 DEF Join
<1>3. ASSUME NEW s \in Sockets, Disconnect(s)
      PROVE  MemberInv'
  BY <1>3 DEF Disconnect
<1>4. ASSUME NEW s \in Sockets, Subscribe(s) \/ SendInfo(s) \/ ReadHistory(s) \/ SendHistory(s) \/ Select(s)
      PROVE  MemberInv'
  BY <1>4 DEF Subscribe, SendInfo, ReadHistory, SendHistory, Select
<1>5. ASSUME NEW s \in Sockets,
             \/ Deliver(s) \/ Work(s) \/ Ends(s) \/ AnswerNotice(s)
             \/ \E step \in {"post", "ask"} : Request(s, step)
      PROVE  MemberInv'
  <2>1. UNCHANGED <<members, name, main>>
    BY <1>5 DEF Deliver, Work, Ends, AnswerNotice, Request, Post, FanOut, FanOutDone,
       CopyHistory, Reply, SenderEnds, ReceiverEnds
  <2> QED
    BY <2>1
<1>6. CASE UNCHANGED vars
  BY <1>6 DEF vars
<1> QED
  BY <1>1, <1>2, <1>3, <1>4, <1>5, <1>6 DEF Next, Setup, Client

\* In whatever order the sockets of one name come and go, a name in the room has
\* an open socket behind it (mod.rs:111).
THEOREM MembersOpen == Spec => []NobodyLeftBehind
<1>1. Init => MemberInv
  BY DEF Init, MemberInv
<1>2. MemberInv /\ [Next]_vars => MemberInv'
  BY StepMembers
<1>3. MemberInv => NobodyLeftBehind
  BY DEF MemberInv, NobodyLeftBehind, Joined
<1> QED
  BY <1>1, <1>2, <1>3, PTL DEF Spec

-----------------------------------------------------------------------------
(* What the clients are sent.                                            *)

Early == {"connect", "join", "subscribe"}
Before == {"connect", "join", "subscribe", "info", "read", "history"}

\* How far the tasks of a socket have got with one another.
PlaceInv ==
  \A s \in Sockets :
    /\ main[s] \in Early <=> sender[s] = "none"
    /\ main[s] \in Before <=> receiver[s] = "none"
    /\ Aborted(s) => sender[s] = "ended" \/ receiver[s] = "ended"
    /\ main[s] = "connect" <=> name[s] = None
    /\ sender[s] = "none" => shown[s] = {} /\ heard[s] = 0
    /\ sender[s] # "running" => queue[s] = <<>>

\* One message is fanned out at a time, the newest, to names in the room; a reply
\* carries the history as it is.
RoomInv ==
  /\ \A s, t \in Sockets : receiver[s] = "fanout" /\ receiver[t] = "fanout" => s = t
  /\ \A s \in Sockets :
       /\ todo[s] # {} => receiver[s] = "fanout"
       /\ todo[s] \subseteq members
       /\ receiver[s] = "fanout" => posted > 0 /\ held[s] = <<posted>>
       /\ receiver[s] = "reply" => held[s] = Latest(posted)

\* A socket that has never had a rival is where its name leads, from its connect
\* until another socket comes with the name, and is in the room once it has joined.
NameInv ==
  /\ \A u \in Names : connections[u] # None => name[connections[u]] = u
  /\ \A s \in Sockets \ shared :
       /\ Open(s) => connections[name[s]] = s
       /\ main[s] \in Joined => name[s] \in members
       /\ name[s] # None /\ connections[name[s]] = s =>
            \A t \in Sockets \ {s} : name[t] = name[s] => ~Open(t)

\* Live messages are sent in their order, none later than n.
Ordered(h, q, n) ==
  /\ h <= n
  /\ \A i \in 1 .. Len(q) : IsLive(q[i]) =>
       /\ Len(q[i].shows) = 1 /\ h < q[i].shows[1] /\ q[i].shows[1] <= n
       /\ \A j \in 1 .. i - 1 : IsLive(q[j]) => q[j].shows[1] < q[i].shows[1]

\* The message on its way to a socket has not been sent to it.
OrderInv ==
  \A s \in Sockets :
    /\ Ordered(heard[s], queue[s], posted)
    /\ \A t \in Sockets, u \in Names :
         u \in todo[t] /\ connections[u] = s => Ordered(heard[s], queue[s], posted - 1)

\* What a client has been shown once it has received k of what is in its channel.
Reach(shows, q, k) == {n \in Nat : n \in shows \/ \E i \in 1 .. k : n \in Range(q[i].shows)}
Sent(s) == Reach(shown[s], queue[s], Len(queue[s]))

Contiguous(N) == \A i, j \in N : i .. j \subseteq N
Whole(shows, q) == \A k \in 0 .. Len(q) : Contiguous(Reach(shows, q, k))

Waiting(s) == \E t \in Sockets : name[s] \in todo[t]

\* What is sent has no holes.
Unbroken(s) ==
  /\ Contiguous(shown[s])
  /\ ~lagged[s] => Whole(shown[s], queue[s])
  /\ Sent(s) \subseteq 1 .. posted

\* It goes up to the newest message or the one before it, which is then on its way;
\* a history about to be sent touches it.
Recent(s) ==
  ~lagged[s] /\ sender[s] = "running" /\ main[s] \in Joined =>
    /\ Sent(s) # {} => posted \in Sent(s) \/ (Waiting(s) /\ posted - 1 \in Sent(s))
    /\ main[s] = "history" => \E m \in 0 .. posted :
         /\ held[s] = Latest(m)
         /\ Sent(s) = {} => m = posted \/ (Waiting(s) /\ m = posted - 1)
         /\ Sent(s) # {} => \E i \in Sent(s) : i <= m + 1
    /\ main[s] = "select" => Sent(s) # {} \/ posted = 0 \/ (Waiting(s) /\ posted = 1)

\* A history about to be sent was read of the room.
WasRead(s) == main[s] = "history" => \E m \in 0 .. posted : held[s] = Latest(m)

StreamFor(s) == Unbroken(s) /\ Recent(s) /\ WasRead(s)
StreamInv == \A s \in Sockets \ shared : StreamFor(s)

IInv == TypeOK /\ HistoryInv /\ MemberInv /\ PlaceInv /\ RoomInv /\ NameInv /\ OrderInv /\ StreamInv

-----------------------------------------------------------------------------
(* The types.                                                              *)

LEMMA SendEffect ==
  ASSUME TypeOK, NEW t \in Sockets, NEW r \in Response, Send(t, r)
  PROVE  /\ queue' \in [Sockets -> Seq(Response)]
         /\ lagged' \in [Sockets -> BOOLEAN]
         /\ \A s \in Sockets : Len(queue'[s]) <= Backlog
         /\ \A s \in Sockets \ {t} : queue'[s] = queue[s]
         /\ \A s \in Sockets : lagged[s] => lagged'[s]
         /\ sender[t] # "running" => queue'[t] = queue[t]
         /\ sender[t] = "running" =>
              \/ queue'[t] = Append(queue[t], r)
              \/ queue[t] # <<>> /\ queue'[t] = Append(Tail(queue[t]), r) /\ lagged'[t]
<1> USE ChatAssumption
<1> DEFINE q == queue[t]
<1>1. /\ q \in Seq(Response) /\ Len(q) \in Nat /\ Len(q) <= Backlog
      /\ queue' = [queue EXCEPT ![t] = Behind(t, r)]
      /\ lagged' = [lagged EXCEPT ![t] = lagged[t] \/ (sender[t] = "running" /\ Len(q) >= Backlog)]
      /\ lagged \in [Sockets -> BOOLEAN]
  BY DEF TypeOK, Send
<1>2. /\ lagged' \in [Sockets -> BOOLEAN]
      /\ \A s \in Sockets : lagged[s] => lagged'[s]
      /\ sender[t] = "running" /\ Len(q) >= Backlog => lagged'[t]
  <2> DEFINE late == sender[t] = "running" /\ Len(q) >= Backlog
  <2>1. lagged' = [lagged EXCEPT ![t] = lagged[t] \/ late]
    BY <1>1
  <2> HIDE DEF late
  <2>2. lagged' \in [Sockets -> BOOLEAN] /\ lagged'[t] = (lagged[t] \/ late)
        /\ \A s \in Sockets \ {t} : lagged'[s] = lagged[s]
    BY <1>1, <2>1
  <2> QED
    BY <2>2 DEF late
<1>3. CASE sender[t] # "running"
  <2>1. Behind(t, r) = q
    BY <1>3 DEF Behind
  <2> QED
    BY <1>1, <1>2, <1>3, <2>1 DEF TypeOK
<1>4. CASE sender[t] = "running" /\ Len(q) < Backlog
  <2>1. Behind(t, r) = Append(q, r)
    BY <1>4 DEF Behind
  <2>2. Append(q, r) \in Seq(Response) /\ Len(Append(q, r)) = Len(q) + 1
    BY <1>1
  <2> QED
    BY <1>1, <1>2, <1>4, <2>1, <2>2 DEF TypeOK
<1>5. CASE sender[t] = "running" /\ ~(Len(q) < Backlog)
  <2>1. Behind(t, r) = Append(Tail(q), r) /\ q # <<>> /\ Len(q) = Backlog
    BY <1>1, <1>5 DEF Behind
  <2>2. Tail(q) \in Seq(Response) /\ Len(Tail(q)) = Len(q) - 1
    BY <1>1, <2>1
  <2>3. Append(Tail(q), r) \in Seq(Response) /\ Len(Append(Tail(q), r)) = Len(q)
    BY <1>1, <2>2
  <2> QED
    BY <1>1, <1>2, <1>5, <2>1, <2>3 DEF TypeOK
<1> QED
  BY <1>3, <1>4, <1>5

LEMMA Responses ==
  /\ Notice \in Response /\ ~IsLive(Notice)
  /\ \A n \in Numbers : Message(n) \in Response /\ IsLive(Message(n)) /\ Message(n).shows = <<n>>
  /\ \A ns \in Seq(Numbers) : RoomHistory(ns) \in Response /\ ~IsLive(RoomHistory(ns))
  BY DEF Notice, Message, RoomHistory, Response, IsLive, Numbers

\* A fan-out sends the newest message.
LEMMA FanOutSends ==
  ASSUME IInv, NEW s \in Sockets, NEW u \in Names, FanOut(s, u)
  PROVE  /\ receiver[s] = "fanout" /\ posted \in Numbers /\ Message(posted) \in Response
         /\ connections[u] \in Sockets \cup {None}
         /\ connections[u] = None => UNCHANGED channel
         /\ connections[u] # None => Send(connections[u], Message(posted))
<1>1. /\ receiver[s] = "fanout" /\ held[s] = <<posted>> /\ held[s][1] = posted
      /\ posted \in Numbers /\ connections[u] \in Sockets \cup {None}
  BY DEF FanOut, IInv, RoomInv, TypeOK, Numbers
<1> QED
  BY <1>1, Responses DEF FanOut

LEMMA StepTypes ==
  ASSUME IInv, [Next]_vars
  PROVE  TypeOK'
<1> USE DEF room, registry, channel, tasks, locals, client, At
<1>1. TypeOK /\ InBounds(ring, Numbers) /\ ToVec(ring) \in Seq(Numbers) /\ posted \in Nat
  BY ToVecType DEF IInv, TypeOK
<1>2. ASSUME NEW s \in Sockets, NEW session \in Users \cup {None}, Connect(s, session)
      PROVE  TypeOK'
  <2>1. /\ guests' \in Nat
        /\ \E u \in Names : name' = [name EXCEPT ![s] = u] /\ connections' = [connections EXCEPT ![u] = s]
    <3>1. CASE session = None
      <4>1. guests + 1 \in DOMAIN GuestNames /\ guests' = guests + 1 /\ guests \in Nat
        BY <1>1, <1>2, <3>1 DEF Connect, TypeOK
      <4>2. GuestNames[guests + 1] \in Names
        BY <4>1 DEF Names
      <4>3. /\ name' = [name EXCEPT ![s] = GuestNames[guests + 1]]
            /\ connections' = [connections EXCEPT ![GuestNames[guests + 1]] = s]
        BY <1>2, <3>1 DEF Connect
      <4>4. guests' \in Nat
        BY <4>1
      <4> QED
        BY <4>2, <4>3, <4>4
    <3>2. CASE session # None
      BY <1>1, <1>2, <3>2 DEF Connect, TypeOK, Names
    <3> QED
      BY <3>1, <3>2
  <2>2. shared' \subseteq Sockets /\ main' \in [Sockets -> DOMAIN Following \cup {"done"}]
    BY <1>1, <1>2 DEF Connect, TypeOK, Following
  <2>3. UNCHANGED <<room, channel, sender, receiver, locals, client>>
    BY <1>2 DEF Connect
  <2>4. /\ name' \in [Sockets -> Names \cup {None}]
        /\ connections' \in [Names -> Sockets \cup {None}]
    BY <1>1, <2>1 DEF TypeOK
  <2> QED
    BY <1>1, <2>1, <2>2, <2>3, <2>4 DEF TypeOK
<1>3. ASSUME NEW s \in Sockets, Join(s) \/ Disconnect(s)
      PROVE  TypeOK'
  <2>1. name[s] # None
    BY <1>3 DEF IInv, PlaceInv, Join, Disconnect
  <2> QED
    BY <1>1, <1>3, <2>1 DEF Join, Disconnect, TypeOK, Following
<1>4. ASSUME NEW s \in Sockets, Subscribe(s) \/ Select(s)
      PROVE  TypeOK'
  BY <1>1, <1>4 DEF Subscribe, Select, TypeOK, Following
<1>5. ASSUME NEW s \in Sockets, ReadHistory(s)
      PROVE  TypeOK'
  BY <1>1, <1>5 DEF ReadHistory, TypeOK, Following
<1>6. ASSUME NEW s \in Sockets, SendInfo(s) \/ SendHistory(s)
      PROVE  TypeOK'
  <2>1. PICK r \in Response : Send(s, r)
    BY <1>1, <1>6, Responses DEF SendInfo, SendHistory, TypeOK
  <2>2. /\ main' \in [Sockets -> DOMAIN Following \cup {"done"}]
        /\ held' \in [Sockets -> Seq(Numbers)]
        /\ receiver' \in [Sockets -> {"none", "idle", "post", "fanout", "ask", "reply", "ended"}]
        /\ UNCHANGED <<room, registry, sender, todo, replies, client>>
    <3>1. CASE SendInfo(s)
      BY <1>1, <3>1 DEF SendInfo, TypeOK, Following
    <3>2. CASE SendHistory(s)
      BY <1>1, <3>2 DEF SendHistory, TypeOK, Following
    <3> QED
      BY <1>6, <3>1, <3>2
  <2> QED
    BY <1>1, <2>1, <2>2, SendEffect DEF TypeOK
<1>7. ASSUME NEW s \in Sockets, Deliver(s)
      PROVE  TypeOK'
  <2> DEFINE q == queue[s]
             r == Head(q)
  <2>1. q \in Seq(Response) /\ q # <<>>
    BY <1>1, <1>7 DEF Deliver, TypeOK
  <2>2. /\ Tail(q) \in Seq(Response) /\ Len(Tail(q)) = Len(q) - 1 /\ Len(q) \in Nat
        /\ r \in Response /\ r = q[1] /\ 1 \in 1 .. Len(q)
    BY <2>1
  <2>3. Range(r.shows) \subseteq Numbers
    BY <2>2 DEF Response, Range
  <2>4. IsLive(r) => r.shows[1] \in Numbers
    <3>1. IsLive(r) => Len(r.shows) = 1
      BY <2>2 DEF IInv, OrderInv, Ordered
    <3>2. r.shows \in Seq(Numbers)
      BY <2>2 DEF Response
    <3> QED
      BY <3>1, <3>2
  <2>5. /\ queue' = [queue EXCEPT ![s] = Tail(q)]
        /\ shown' = [shown EXCEPT ![s] = shown[s] \cup Range(r.shows)]
        /\ heard' = [heard EXCEPT ![s] = IF IsLive(r) THEN r.shows[1] ELSE heard[s]]
        /\ UNCHANGED <<room, registry, lagged, tasks, locals>>
    BY <1>7 DEF Deliver
  <2> HIDE DEF q, r
  <2>6. queue' \in [Sockets -> Seq(Response)] /\ \A t \in Sockets : Len(queue'[t]) <= Backlog
    BY <1>1, <2>2, <2>5, ChatAssumption DEF TypeOK, q
  <2>7. shown' \in [Sockets -> SUBSET Numbers] /\ heard' \in [Sockets -> Nat]
    BY <1>1, <2>3, <2>4, <2>5 DEF TypeOK, Numbers
  <2> QED
    BY <1>1, <2>5, <2>6, <2>7 DEF TypeOK
<1>8. ASSUME NEW s \in Sockets, Post(s)
      PROVE  TypeOK'
  <2>1. posted + 1 \in Numbers /\ posted + 1 \in Nat
    BY <1>1 DEF Numbers
  <2>2. InBounds(Push(ring, posted + 1), Numbers)
    BY <1>1, <2>1, PushInBounds
  <2>3. ring' = Push(ring, posted + 1)
    BY <1>8 DEF Post
  <2>4. InBounds(ring, Numbers)'
    BY <2>2, <2>3 DEF Numbers
  <2>5. /\ posted' = posted + 1 /\ <<posted + 1>> \in Seq(Numbers)
        /\ todo' = [todo EXCEPT ![s] = members]
        /\ held' = [held EXCEPT ![s] = <<posted + 1>>]
        /\ receiver' = [receiver EXCEPT ![s] = "fanout"]
        /\ UNCHANGED <<members, registry, channel, main, sender, replies, client>>
    BY <1>8, <2>1 DEF Post, Becomes
  <2> QED
    BY <1>1, <2>1, <2>4, <2>5 DEF TypeOK
<1>9. ASSUME NEW s \in Sockets, NEW u \in Names, FanOut(s, u)
      PROVE  TypeOK'
  <2>1. /\ todo' \in [Sockets -> SUBSET Names]
        /\ UNCHANGED <<room, registry, tasks, held, replies, client>>
    BY <1>1, <1>9 DEF FanOut, TypeOK
  <2>2. CASE connections[u] # None
    <3>1. Send(connections[u], Message(posted)) /\ connections[u] \in Sockets /\ Message(posted) \in Response
      BY <1>9, <2>2, FanOutSends
    <3> QED
      BY <1>1, <2>1, <3>1, SendEffect DEF TypeOK
  <2>3. CASE connections[u] = None
    BY <1>1, <1>9, <2>1, <2>3, FanOutSends DEF TypeOK
  <2> QED
    BY <2>2, <2>3
<1>10. ASSUME NEW s \in Sockets, FanOutDone(s) \/ CopyHistory(s)
       PROVE  TypeOK'
  <2>1. PICK step \in {"idle", "reply"}, ns \in Seq(Numbers) :
          /\ receiver' = [receiver EXCEPT ![s] = step]
          /\ held' = [held EXCEPT ![s] = ns]
          /\ UNCHANGED <<room, registry, channel, main, sender, todo, replies, client>>
    <3>1. CASE FanOutDone(s)
      <4>1. <<>> \in Seq(Numbers)
        OBVIOUS
      <4> QED
        BY <3>1, <4>1 DEF FanOutDone, Becomes
    <3>2. CASE CopyHistory(s)
      BY <1>1, <3>2 DEF CopyHistory, Becomes
    <3> QED
      BY <1>10, <3>1, <3>2
  <2> QED
    BY <1>1, <2>1 DEF TypeOK
<1>11. ASSUME NEW s \in Sockets, Reply(s) \/ AnswerNotice(s)
       PROVE  TypeOK'
  <2>1. PICK r \in Response : Send(s, r)
    BY <1>1, <1>11, Responses DEF Reply, AnswerNotice, TypeOK
  <2>2. /\ held' \in [Sockets -> Seq(Numbers)] /\ replies' \in Nat
        /\ receiver' \in [Sockets -> {"none", "idle", "post", "fanout", "ask", "reply", "ended"}]
        /\ UNCHANGED <<room, registry, main, sender, todo, client>>
    <3>1. CASE Reply(s)
      BY <1>1, <3>1 DEF Reply, Becomes, TypeOK
    <3>2. CASE AnswerNotice(s)
      BY <1>1, <3>2 DEF AnswerNotice, TypeOK
    <3> QED
      BY <1>11, <3>1, <3>2
  <2> QED
    BY <1>1, <2>1, <2>2, SendEffect DEF TypeOK
<1>12. ASSUME NEW s \in Sockets, \/ \E step \in {"post", "ask"} : Request(s, step)
                                 \/ ReceiverEnds(s)
       PROVE  TypeOK'
  <2>1. PICK step \in {"post", "ask", "ended"} :
          /\ receiver' = [receiver EXCEPT ![s] = step]
          /\ replies' \in Nat
          /\ UNCHANGED <<room, registry, channel, main, sender, todo, held, client>>
    BY <1>1, <1>12 DEF Request, ReceiverEnds, Becomes, TypeOK
  <2> QED
    BY <1>1, <2>1 DEF TypeOK
<1>13. ASSUME NEW s \in Sockets, SenderEnds(s)
       PROVE  TypeOK'
  BY <1>1, <1>13, ChatAssumption DEF SenderEnds, TypeOK
<1>14. CASE UNCHANGED vars
  BY <1>1, <1>14 DEF vars, TypeOK
<1> QED
  BY <1>2, <1>3, <1>4, <1>5, <1>6, <1>7, <1>8, <1>9, <1>10, <1>11, <1>12, <1>13, <1>14
  DEF Next, Setup, Work, Client, Ends

-----------------------------------------------------------------------------
(* The tasks of a socket, and who is in the room.                          *)

LEMMA StepPlaces ==
  ASSUME IInv, [Next]_vars
  PROVE  PlaceInv'
<1> USE DEF room, registry, channel, tasks, locals, client, At, Following, Early, Before, Aborted
<1>1. TypeOK /\ PlaceInv
  BY DEF IInv
<1>2. ASSUME NEW s \in Sockets, NEW session \in Users \cup {None}, Connect(s, session)
      PROVE  PlaceInv'
  <2>1. PICK u \in Names : name' = [name EXCEPT ![s] = u]
    <3>1. session = None => GuestNames[guests + 1] \in Names
      BY <1>2 DEF Connect, Names
    <3>2. session # None => session \in Names
      BY DEF Names
    <3> QED
      BY <1>2, <3>1, <3>2 DEF Connect
  <2>2. /\ UNCHANGED <<channel, sender, receiver, client>> /\ main[s] = "connect"
        /\ main' = [main EXCEPT ![s] = "join"] /\ u # None
    BY <1>2, ChatAssumption DEF Connect
  <2> QED
    BY <1>1, <2>1, <2>2 DEF PlaceInv, TypeOK
<1>3. ASSUME NEW s \in Sockets, Join(s) \/ Disconnect(s) \/ Subscribe(s) \/ Select(s) \/ ReadHistory(s)
      PROVE  PlaceInv'
  <2>1. UNCHANGED <<name, channel, receiver, client>>
    BY <1>3 DEF Join, Disconnect, Subscribe, Select, ReadHistory
  <2>2. CASE Join(s)
    BY <1>1, <2>1, <2>2 DEF Join, PlaceInv, TypeOK
  <2>3. CASE Disconnect(s)
    BY <1>1, <2>1, <2>3 DEF Disconnect, PlaceInv, TypeOK
  <2>4. CASE Subscribe(s)
    BY <1>1, <2>1, <2>4 DEF Subscribe, PlaceInv, TypeOK
  <2>5. CASE Select(s)
    BY <1>1, <2>1, <2>5 DEF Select, PlaceInv, TypeOK
  <2>6. CASE ReadHistory(s)
    BY <1>1, <2>1, <2>6 DEF ReadHistory, PlaceInv, TypeOK
  <2> QED
    BY <1>3, <2>2, <2>3, <2>4, <2>5, <2>6
<1>4. ASSUME NEW s \in Sockets, NEW t \in Sockets, NEW r \in Response, Send(t, r)
      PROVE  \A o \in Sockets : sender[o] # "running" => queue'[o] = queue[o]
  BY <1>1, <1>4, SendEffect
<1>5. ASSUME NEW s \in Sockets, SendInfo(s) \/ SendHistory(s)
      PROVE  PlaceInv'
  <2>1. PICK r \in Response : Send(s, r)
    BY <1>1, <1>5, Responses DEF SendInfo, SendHistory, TypeOK
  <2>2. /\ \A o \in Sockets : sender[o] # "running" => queue'[o] = queue[o]
        /\ UNCHANGED <<name, sender, client>>
    BY <1>4, <1>5, <2>1 DEF SendInfo, SendHistory
  <2>3. CASE SendInfo(s)
    BY <1>1, <2>2, <2>3 DEF SendInfo, PlaceInv, TypeOK
  <2>4. CASE SendHistory(s)
    BY <1>1, <2>2, <2>4 DEF SendHistory, PlaceInv, TypeOK
  <2> QED
    BY <1>5, <2>3, <2>4
<1>6. ASSUME NEW s \in Sockets, Deliver(s)
      PROVE  PlaceInv'
  <2>1. /\ \A t \in Sockets \ {s} : /\ queue'[t] = queue[t] /\ shown'[t] = shown[t]
                                    /\ heard'[t] = heard[t]
        /\ sender[s] = "running" /\ UNCHANGED <<name, main, sender, receiver>>
    BY <1>1, <1>6 DEF Deliver, TypeOK
  <2> QED
    BY <1>1, <2>1 DEF PlaceInv
<1>7. ASSUME NEW s \in Sockets, NEW step \in {"post", "fanout", "ask", "reply", "idle", "ended"},
             receiver[s] \notin {"none", "ended"}, receiver' = [receiver EXCEPT ![s] = step],
             UNCHANGED <<name, main, sender, client>>,
             \A o \in Sockets : sender[o] # "running" => queue'[o] = queue[o]
      PROVE  PlaceInv'
  <2>1. \A t \in Sockets \ {s} : receiver'[t] = receiver[t]
    BY <1>1, <1>7 DEF TypeOK
  <2>2. receiver'[s] = step
    BY <1>1, <1>7 DEF TypeOK
  <2> QED
    BY <1>1, <1>7, <2>1, <2>2 DEF PlaceInv
<1>8. ASSUME NEW s \in Sockets, Post(s) \/ FanOutDone(s) \/ CopyHistory(s) \/ ReceiverEnds(s)
      PROVE  PlaceInv'
  <2>1. UNCHANGED <<name, main, sender, client, queue>>
    BY <1>8 DEF Post, FanOutDone, CopyHistory, ReceiverEnds
  <2>2. \E step \in {"post", "fanout", "ask", "reply", "idle", "ended"} :
          receiver[s] \notin {"none", "ended"} /\ receiver' = [receiver EXCEPT ![s] = step]
    BY <1>8 DEF Post, FanOutDone, CopyHistory, ReceiverEnds, Becomes
  <2> QED
    BY <1>7, <2>1, <2>2
<1>9. ASSUME NEW s \in Sockets, NEW step \in {"post", "ask"}, Request(s, step)
      PROVE  PlaceInv'
  BY <1>7, <1>9 DEF Request, Becomes
<1>10. ASSUME NEW s \in Sockets, NEW u \in Names, FanOut(s, u)
       PROVE  PlaceInv'
  <2>1. UNCHANGED <<name, main, sender, receiver, client>>
    BY <1>10 DEF FanOut
  <2>2. \A o \in Sockets : sender[o] # "running" => queue'[o] = queue[o]
    BY <1>4, <1>10, FanOutSends
  <2> QED
    BY <1>1, <2>1, <2>2 DEF PlaceInv
<1>11. ASSUME NEW s \in Sockets, Reply(s) \/ AnswerNotice(s)
       PROVE  PlaceInv'
  <2>1. PICK r \in Response : Send(s, r)
    BY <1>1, <1>11, Responses DEF Reply, AnswerNotice, TypeOK
  <2>2. \A o \in Sockets : sender[o] # "running" => queue'[o] = queue[o]
    BY <1>4, <2>1
  <2>3. CASE Reply(s)
    BY <1>7, <2>2, <2>3 DEF Reply, Becomes
  <2>4. CASE AnswerNotice(s)
    BY <1>1, <2>2, <2>4 DEF AnswerNotice, PlaceInv
  <2> QED
    BY <1>11, <2>3, <2>4
<1>12. ASSUME NEW s \in Sockets, SenderEnds(s)
       PROVE  PlaceInv'
  BY <1>1, <1>12 DEF SenderEnds, PlaceInv, TypeOK
<1>13. CASE UNCHANGED vars
  BY <1>1, <1>13 DEF vars, PlaceInv
<1> QED
  BY <1>2, <1>3, <1>5, <1>6, <1>8, <1>9, <1>10, <1>11, <1>12, <1>13
  DEF Next, Setup, Work, Client, Ends


LEMMA StepRoom ==
  ASSUME IInv, [Next]_vars
  PROVE  RoomInv'
<1> USE DEF room, registry, channel, tasks, locals, client, At, Becomes
<1>1. TypeOK /\ RoomInv /\ PlaceInv /\ ToVec(ring) = Latest(posted) /\ posted \in Nat
  BY DEF IInv, HistoryInv
<1>2. ASSUME UNCHANGED <<members, posted, receiver, todo, held>>
      PROVE  RoomInv'
  BY <1>1, <1>2 DEF RoomInv
<1>3. ASSUME NEW s \in Sockets,
             \/ \E session \in Users \cup {None} : Connect(s, session)
             \/ Subscribe(s) \/ SendInfo(s) \/ Select(s) \/ Deliver(s) \/ AnswerNotice(s)
             \/ SenderEnds(s)
      PROVE  RoomInv'
  BY <1>2, <1>3 DEF Connect, Subscribe, SendInfo, Select, Deliver, AnswerNotice, SenderEnds
<1>4. ASSUME NEW s \in Sockets, Join(s)
      PROVE  RoomInv'
  BY <1>1, <1>4 DEF Join, RoomInv
<1>5. ASSUME NEW s \in Sockets, Disconnect(s)
      PROVE  RoomInv'
  <2>1. \A t \in Sockets : todo[t] = {}
    BY <1>1, <1>5 DEF Disconnect, Readers, RoomInv
  <2> QED
    BY <1>1, <1>5, <2>1 DEF Disconnect, RoomInv
<1>6. ASSUME NEW s \in Sockets, ReadHistory(s) \/ SendHistory(s)
      PROVE  RoomInv'
  <2>1. receiver[s] = "none" /\ receiver'[s] \in {"none", "idle"}
    BY <1>1, <1>6 DEF ReadHistory, SendHistory, PlaceInv, Before, TypeOK
  <2>2. /\ \A t \in Sockets \ {s} : receiver'[t] = receiver[t] /\ held'[t] = held[t]
        /\ UNCHANGED <<members, posted, todo>>
    BY <1>1, <1>6 DEF ReadHistory, SendHistory, TypeOK
  <2> QED
    BY <1>1, <2>1, <2>2 DEF RoomInv
<1>7. ASSUME NEW s \in Sockets, Post(s)
      PROVE  RoomInv'
  <2>1. \A t \in Sockets : receiver[t] \notin {"fanout", "reply"} /\ todo[t] = {}
    BY <1>1, <1>7 DEF Post, Readers, RoomInv
  <2>2. /\ posted' = posted + 1 /\ members' = members
        /\ receiver'[s] = "fanout" /\ todo'[s] = members /\ held'[s] = <<posted + 1>>
        /\ \A t \in Sockets \ {s} : receiver'[t] = receiver[t] /\ todo'[t] = todo[t]
    BY <1>1, <1>7 DEF Post, TypeOK
  <2> QED
    BY <1>1, <2>1, <2>2 DEF RoomInv
<1>8. ASSUME NEW s \in Sockets, NEW u \in Names, FanOut(s, u)
      PROVE  RoomInv'
  <2>1. /\ todo'[s] \subseteq todo[s] /\ \A t \in Sockets \ {s} : todo'[t] = todo[t]
        /\ UNCHANGED <<members, posted, receiver, held>> /\ receiver[s] = "fanout"
    BY <1>1, <1>8 DEF FanOut, TypeOK
  <2> QED
    BY <1>1, <2>1 DEF RoomInv
<1>9. ASSUME NEW s \in Sockets, FanOutDone(s) \/ CopyHistory(s) \/ Reply(s)
      PROVE  RoomInv'
  <2>1. /\ \A t \in Sockets \ {s} : receiver'[t] = receiver[t] /\ held'[t] = held[t]
        /\ UNCHANGED <<members, posted, todo>>
    BY <1>1, <1>9 DEF FanOutDone, CopyHistory, Reply, TypeOK
  <2>2. /\ todo[s] = {}
        /\ receiver'[s] = "idle" \/ (receiver'[s] = "reply" /\ held'[s] = Latest(posted))
    <3>1. CASE FanOutDone(s)
      BY <1>1, <3>1 DEF FanOutDone, TypeOK
    <3>2. CASE CopyHistory(s)
      BY <1>1, <3>2 DEF CopyHistory, TypeOK, RoomInv
    <3>3. CASE Reply(s)
      BY <1>1, <3>3 DEF Reply, TypeOK, RoomInv
    <3> QED
      BY <1>9, <3>1, <3>2, <3>3
  <2> QED
    BY <1>1, <2>1, <2>2 DEF RoomInv
<1>10. ASSUME NEW s \in Sockets, ReceiverEnds(s) \/ \E step \in {"post", "ask"} : Request(s, step)
       PROVE  RoomInv'
  <2>1. /\ \A t \in Sockets \ {s} : receiver'[t] = receiver[t]
        /\ UNCHANGED <<members, posted, todo, held>>
        /\ receiver[s] = "idle" /\ receiver'[s] \in {"post", "ask", "ended"}
    BY <1>1, <1>10 DEF ReceiverEnds, Request, TypeOK
  <2> QED
    BY <1>1, <2>1 DEF RoomInv
<1>11. CASE UNCHANGED vars
  BY <1>2, <1>11 DEF vars
<1> QED
  BY <1>3, <1>4, <1>5, <1>6, <1>7, <1>8, <1>9, <1>10, <1>11
  DEF Next, Setup, Work, Client, Ends

LEMMA StepNames ==
  ASSUME IInv, [Next]_vars
  PROVE  NameInv'
<1> USE DEF room, registry, channel, tasks, locals, client, At, Following, Open, Joined
<1>1. TypeOK /\ NameInv /\ PlaceInv
  BY DEF IInv
<1>2. ASSUME UNCHANGED <<members, connections, name, shared>>,
             \A s \in Sockets : Open(s)' = Open(s) /\ (main'[s] \in Joined => main[s] \in Joined)
      PROVE  NameInv'
  BY <1>1, <1>2 DEF NameInv
<1>3. ASSUME NEW s \in Sockets, NEW session \in Users \cup {None}, Connect(s, session)
      PROVE  NameInv'
  <2>1. PICK u \in Names : /\ name' = [name EXCEPT ![s] = u]
                           /\ connections' = [connections EXCEPT ![u] = s]
                           /\ shared \subseteq shared'
                           /\ \A t \in Sockets : Open(t) /\ name[t] = u => {s, t} \subseteq shared'
    <3>1. session = None => GuestNames[guests + 1] \in Names
      BY <1>3 DEF Connect, Names
    <3>2. session # None => session \in Names
      BY DEF Names
    <3> QED
      BY <1>3, <3>1, <3>2 DEF Connect
  <2>2. /\ main[s] = "connect" /\ main' = [main EXCEPT ![s] = "join"] /\ UNCHANGED members
    BY <1>3 DEF Connect
  <2>3. name[s] = None /\ u # None /\ ~Open(s)
    BY <1>1, <2>2, ChatAssumption DEF PlaceInv
  <2>4. /\ name'[s] = u /\ \A t \in Sockets \ {s} : name'[t] = name[t] /\ main'[t] = main[t]
        /\ main'[s] = "join"
        /\ connections'[u] = s /\ \A v \in Names \ {u} : connections'[v] = connections[v]
    BY <1>1, <2>1, <2>2 DEF TypeOK
  <2>5. \A v \in Names : connections'[v] # None => name'[connections'[v]] = v
    <3> SUFFICES ASSUME NEW v \in Names, v # u, connections[v] # None
                 PROVE  name'[connections[v]] = v
      BY <2>4
    <3>1. connections[v] \in Sockets /\ name[connections[v]] = v /\ v # None
      BY <1>1, ChatAssumption DEF NameInv, TypeOK
    <3> QED
      BY <2>3, <2>4, <3>1
  <2>6. ASSUME NEW t \in Sockets \ shared'
        PROVE  /\ Open(t)' => connections'[name'[t]] = t
               /\ main'[t] \in Joined => name'[t] \in members'
               /\ name'[t] # None /\ connections'[name'[t]] = t =>
                    \A o \in Sockets \ {t} : name'[o] = name'[t] => ~Open(o)'
    <3>1. CASE t = s
      BY <2>1, <2>4, <3>1
    <3>2. CASE t # s
      <4>1. /\ t \notin shared /\ name'[t] = name[t] /\ main'[t] = main[t]
            /\ name[t] \in Names \cup {None}
        BY <1>1, <2>1, <2>4, <3>2 DEF TypeOK
      <4>2. Open(t) => name[t] # u /\ name[t] \in Names
        BY <1>1, <2>1, <2>4, <4>1 DEF PlaceInv
      <4>3. Open(t) => connections'[name[t]] = t
        BY <1>1, <2>4, <4>1, <4>2 DEF NameInv
      <4>4. main[t] \in Joined => name[t] \in members'
        BY <1>1, <2>2, <4>1 DEF NameInv
      <4>5. ASSUME name[t] # None, connections'[name[t]] = t
            PROVE  \A o \in Sockets \ {t} : name'[o] = name[t] => ~Open(o)'
        <5>1. name[t] # u /\ connections[name[t]] = t
          BY <2>4, <3>2, <4>1, <4>5
        <5> QED
          BY <1>1, <2>3, <2>4, <4>1, <4>5, <5>1 DEF NameInv
      <4> QED
        BY <4>1, <4>3, <4>4, <4>5
    <3> QED
      BY <3>1, <3>2
  <2> QED
    BY <2>5, <2>6 DEF NameInv
<1>4. ASSUME NEW s \in Sockets, Join(s)
      PROVE  NameInv'
  BY <1>1, <1>4 DEF Join, NameInv, TypeOK
<1>5. ASSUME NEW s \in Sockets, Disconnect(s)
      PROVE  NameInv'
  BY <1>1, <1>5 DEF Disconnect, NameInv, TypeOK, PlaceInv
<1>6. ASSUME NEW s \in Sockets,
             Subscribe(s) \/ SendInfo(s) \/ ReadHistory(s) \/ SendHistory(s) \/ Select(s)
      PROVE  NameInv'
  BY <1>1, <1>2, <1>6 DEF Subscribe, SendInfo, ReadHistory, SendHistory, Select, TypeOK
<1>7. ASSUME NEW s \in Sockets,
             \/ Deliver(s) \/ Work(s) \/ Ends(s) \/ AnswerNotice(s)
             \/ \E step \in {"post", "ask"} : Request(s, step)
      PROVE  NameInv'
  <2>1. UNCHANGED <<members, connections, name, shared, main>>
    BY <1>7 DEF Deliver, Work, Ends, AnswerNotice, Request, Post, FanOut, FanOutDone,
       CopyHistory, Reply, SenderEnds, ReceiverEnds
  <2> QED
    BY <1>2, <2>1
<1>8. CASE UNCHANGED vars
  BY <1>2, <1>8 DEF vars
<1> QED
  BY <1>3, <1>4, <1>5, <1>6, <1>7, <1>8 DEF Next, Setup, Client


-----------------------------------------------------------------------------
(* Order.                                                                  *)

LEMMA OrderedAppend ==
  ASSUME NEW q \in Seq(Response), NEW r \in Response, NEW h \in Nat, NEW n \in Nat,
         Ordered(h, q, n)
  PROVE  /\ ~IsLive(r) => Ordered(h, Append(q, r), n)
         /\ r = Message(n + 1) => Ordered(h, Append(q, r), n + 1)
         /\ Ordered(h, q, n + 1)
         /\ Ordered(h, <<>>, n)
<1> DEFINE a == Append(q, r)
           l == Len(q)
<1>1. /\ l \in Nat /\ Len(a) = l + 1 /\ a[l + 1] = r
      /\ \A i \in 1 .. l : a[i] = q[i] /\ q[i] \in Response
  OBVIOUS
<1>2. \A i \in 1 .. l : IsLive(q[i]) => q[i].shows[1] \in Numbers /\ q[i].shows[1] <= n
  <2> SUFFICES ASSUME NEW i \in 1 .. l, IsLive(q[i])
               PROVE  q[i].shows[1] \in Numbers /\ q[i].shows[1] <= n
    OBVIOUS
  <2>1. Len(q[i].shows) = 1 /\ q[i].shows[1] <= n
    BY DEF Ordered
  <2>2. q[i].shows \in Seq(Numbers)
    BY <1>1 DEF Response
  <2> QED
    BY <2>1, <2>2
<1> HIDE DEF a, l
<1>3. ASSUME ~IsLive(r) PROVE Ordered(h, a, n)
  <2>1. \A i \in 1 .. l + 1 : IsLive(a[i]) => i \in 1 .. l
    BY <1>1, <1>3
  <2>2. \A i \in 1 .. l : \A j \in 1 .. i - 1 : j \in 1 .. l
    BY <1>1
  <2> QED
    BY <1>1, <2>1, <2>2 DEF Ordered, l
<1>4. ASSUME r = Message(n + 1) PROVE Ordered(h, a, n + 1)
  <2>1. /\ IsLive(r) /\ r.shows = <<n + 1>> /\ Len(r.shows) = 1 /\ r.shows[1] = n + 1
        /\ h <= n
    BY <1>4 DEF Message, IsLive, Ordered
  <2>2. ASSUME NEW i \in 1 .. l + 1, IsLive(a[i])
        PROVE  /\ Len(a[i].shows) = 1 /\ h < a[i].shows[1] /\ a[i].shows[1] <= n + 1
               /\ \A j \in 1 .. i - 1 : IsLive(a[j]) => a[j].shows[1] < a[i].shows[1]
    <3>1. CASE i = l + 1
      <4>1. \A j \in 1 .. i - 1 : j \in 1 .. l /\ a[j] = q[j]
        BY <1>1, <3>1
      <4>2. \A j \in 1 .. i - 1 : IsLive(a[j]) => a[j].shows[1] < n + 1
        BY <1>2, <4>1 DEF Numbers
      <4>3. a[i].shows[1] = n + 1 /\ Len(a[i].shows) = 1
        BY <1>1, <2>1, <3>1
      <4> QED
        BY <2>1, <4>2, <4>3
    <3>2. CASE i \in 1 .. l
      <4>1. \A j \in 1 .. i - 1 : j \in 1 .. l
        BY <1>1, <3>2
      <4>2. /\ Len(q[i].shows) = 1 /\ h < q[i].shows[1]
            /\ \A j \in 1 .. i - 1 : IsLive(q[j]) => q[j].shows[1] < q[i].shows[1]
        BY <1>1, <2>2, <3>2 DEF Ordered, l
      <4> QED
        BY <1>1, <1>2, <2>2, <3>2, <4>1, <4>2 DEF Numbers
    <3> QED
      BY <1>1, <3>1, <3>2
  <2> QED
    BY <1>1, <2>1, <2>2 DEF Ordered
<1>5. Ordered(h, q, n + 1)
  BY <1>2 DEF Ordered, Numbers, l
<1>6. Ordered(h, <<>>, n)
  BY DEF Ordered
<1> QED
  BY <1>3, <1>4, <1>5, <1>6 DEF a

LEMMA OrderedTail ==
  ASSUME NEW q \in Seq(Response), q # <<>>, NEW h \in Nat, NEW n \in Nat, Ordered(h, q, n)
  PROVE  /\ Ordered(h, Tail(q), n)
         /\ IsLive(Head(q)) => /\ Head(q).shows[1] \in Numbers
                               /\ Ordered(Head(q).shows[1], Tail(q), n)
<1> DEFINE t == Tail(q)
           l == Len(q)
<1>1. /\ t \in Seq(Response) /\ Len(t) = l - 1 /\ l \in Nat \ {0} /\ Head(q) = q[1]
      /\ \A i \in 1 .. l - 1 : t[i] = q[i + 1] /\ i + 1 \in 1 .. l
      /\ \A i \in 1 .. l : q[i] \in Response
  OBVIOUS
<1>2. \A i \in 1 .. l : IsLive(q[i]) =>
        /\ q[i].shows[1] \in Numbers /\ Len(q[i].shows) = 1
        /\ h < q[i].shows[1] /\ q[i].shows[1] <= n
        /\ \A j \in 1 .. i - 1 : IsLive(q[j]) => q[j].shows[1] < q[i].shows[1]
  BY <1>1 DEF Ordered, Response
<1>3. ASSUME NEW i \in 1 .. l - 1, IsLive(t[i])
      PROVE  /\ Len(t[i].shows) = 1 /\ h < t[i].shows[1] /\ t[i].shows[1] <= n
             /\ IsLive(Head(q)) => Head(q).shows[1] < t[i].shows[1]
             /\ \A j \in 1 .. i - 1 : IsLive(t[j]) => t[j].shows[1] < t[i].shows[1]
  <2>1. /\ i + 1 \in 1 .. l /\ 1 \in 1 .. i + 1 - 1 /\ t[i] = q[i + 1]
        /\ \A j \in 1 .. i - 1 : j + 1 \in 1 .. i + 1 - 1 /\ t[j] = q[j + 1]
    BY <1>1
  <2> DEFINE k == i + 1
  <2>2. k \in 1 .. l /\ t[i] = q[k] /\ IsLive(q[k]) /\ 1 \in 1 .. k - 1
    BY <1>3, <2>1
  <2> HIDE DEF t, l, k
  <2>3. /\ Len(q[k].shows) = 1 /\ h < q[k].shows[1] /\ q[k].shows[1] <= n
        /\ \A j \in 1 .. k - 1 : IsLive(q[j]) => q[j].shows[1] < q[k].shows[1]
    BY <1>2, <2>2
  <2>4. IsLive(Head(q)) => Head(q).shows[1] < q[k].shows[1]
    BY <1>1, <2>2, <2>3
  <2>5. \A j \in 1 .. i - 1 : IsLive(t[j]) => t[j].shows[1] < q[k].shows[1]
    BY <2>1, <2>3 DEF k
  <2> QED
    BY <2>2, <2>3, <2>4, <2>5
<1>4. h <= n /\ (IsLive(Head(q)) => Head(q).shows[1] <= n /\ Head(q).shows[1] \in Numbers)
  BY <1>1, <1>2 DEF Ordered
<1> HIDE DEF t, l
<1> QED
  BY <1>1, <1>3, <1>4 DEF Ordered, t

LEMMA OrderedSend ==
  ASSUME TypeOK, NEW t \in Sockets, NEW r \in Response, Send(t, r),
         NEW n \in Nat, Ordered(heard[t], queue[t], n)
  PROVE  /\ ~IsLive(r) => Ordered(heard[t], queue'[t], n)
         /\ r = Message(n + 1) => Ordered(heard[t], queue'[t], n + 1)
<1>1. queue[t] \in Seq(Response) /\ heard[t] \in Nat
  BY DEF TypeOK
<1>2. CASE queue'[t] = queue[t]
  BY <1>1, <1>2, OrderedAppend
<1>3. CASE queue'[t] = Append(queue[t], r)
  BY <1>1, <1>3, OrderedAppend
<1>4. CASE queue[t] # <<>> /\ queue'[t] = Append(Tail(queue[t]), r)
  <2>1. Tail(queue[t]) \in Seq(Response) /\ Ordered(heard[t], Tail(queue[t]), n)
    BY <1>1, <1>4, OrderedTail
  <2> QED
    BY <1>1, <1>4, <2>1, OrderedAppend
<1> QED
  BY <1>2, <1>3, <1>4, SendEffect

LEMMA StepOrder ==
  ASSUME IInv, [Next]_vars
  PROVE  OrderInv'
<1> USE DEF room, registry, channel, tasks, locals, client, At
<1>1. TypeOK /\ PlaceInv /\ RoomInv /\ NameInv /\ OrderInv
  BY DEF IInv
<1>2. /\ posted \in Nat /\ \A t \in Sockets : todo[t] # {} => posted - 1 \in Nat
      /\ \A t \in Sockets : heard[t] \in Nat /\ queue[t] \in Seq(Response)
  <2>1. posted \in Nat /\ \A t \in Sockets : heard[t] \in Nat /\ queue[t] \in Seq(Response)
    BY <1>1 DEF TypeOK
  <2>2. \A t \in Sockets : todo[t] # {} => posted > 0
    BY <1>1 DEF RoomInv
  <2> QED
    BY <2>1, <2>2
<1>3. ASSUME UNCHANGED <<posted, queue, heard, connections, todo>>
      PROVE  OrderInv'
  BY <1>1, <1>3 DEF OrderInv
<1>4. ASSUME NEW s \in Sockets,
             \/ Join(s) \/ Subscribe(s) \/ ReadHistory(s) \/ Select(s) \/ Disconnect(s)
             \/ FanOutDone(s) \/ CopyHistory(s) \/ ReceiverEnds(s)
             \/ \E step \in {"post", "ask"} : Request(s, step)
      PROVE  OrderInv'
  BY <1>3, <1>4 DEF Join, Subscribe, ReadHistory, Select, Disconnect, FanOutDone, CopyHistory,
     ReceiverEnds, Request
<1>5. ASSUME NEW s \in Sockets, SendInfo(s) \/ SendHistory(s) \/ Reply(s) \/ AnswerNotice(s)
      PROVE  OrderInv'
  <2>1. PICK r \in Response : Send(s, r) /\ ~IsLive(r)
    BY <1>1, <1>5, Responses DEF SendInfo, SendHistory, Reply, AnswerNotice, TypeOK
  <2>2. UNCHANGED <<posted, heard, connections, todo>>
    BY <1>5 DEF SendInfo, SendHistory, Reply, AnswerNotice
  <2>3. ASSUME NEW t \in Sockets, NEW n \in Nat, Ordered(heard[t], queue[t], n)
        PROVE  Ordered(heard[t], queue'[t], n)
    <3>1. CASE t = s
      BY <1>1, <2>1, <2>3, <3>1, OrderedSend
    <3>2. CASE t # s
      BY <1>1, <2>1, <2>3, <3>2, SendEffect
    <3> QED
      BY <3>1, <3>2
  <2> QED
    BY <1>1, <1>2, <2>2, <2>3 DEF OrderInv
<1>6. ASSUME NEW s \in Sockets, NEW session \in Users \cup {None}, Connect(s, session)
      PROVE  OrderInv'
  <2>1. /\ UNCHANGED <<posted, queue, heard, todo>>
        /\ \E u \in Names : connections' = [connections EXCEPT ![u] = s]
    <3>1. session = None => GuestNames[guests + 1] \in Names
      BY <1>6 DEF Connect, Names
    <3>2. session # None => session \in Names
      BY DEF Names
    <3> QED
      BY <1>6, <3>1, <3>2 DEF Connect
  <2>2. queue[s] = <<>> /\ heard[s] = 0
    BY <1>1, <1>6 DEF Connect, PlaceInv, Early
  <2>3. \A n \in Nat : Ordered(0, <<>>, n)
    BY DEF Ordered
  <2>4. ASSUME NEW t \in Sockets, NEW o \in Sockets, NEW u \in Names,
               u \in todo[t], connections'[u] = o
        PROVE  Ordered(heard[o], queue[o], posted - 1)
    <3>1. CASE o = s
      BY <1>2, <2>2, <2>3, <2>4, <3>1
    <3>2. CASE o # s
      <4>1. connections[u] = o
        BY <1>1, <2>1, <2>4, <3>2 DEF TypeOK
      <4> QED
        BY <1>1, <2>4, <4>1 DEF OrderInv
    <3> QED
      BY <3>1, <3>2
  <2> QED
    BY <1>1, <2>1, <2>4 DEF OrderInv
<1>7. ASSUME NEW s \in Sockets, Deliver(s)
      PROVE  OrderInv'
  <2> DEFINE q == queue[s]
  <2>1. q \in Seq(Response) /\ q # <<>> /\ UNCHANGED <<posted, connections, todo>>
    BY <1>2, <1>7 DEF Deliver
  <2>2. /\ queue'[s] = Tail(q)
        /\ heard'[s] = IF IsLive(Head(q)) THEN Head(q).shows[1] ELSE heard[s]
        /\ \A t \in Sockets \ {s} : queue'[t] = queue[t] /\ heard'[t] = heard[t]
    BY <1>1, <1>7 DEF Deliver, TypeOK
  <2>3. ASSUME NEW t \in Sockets, NEW n \in Nat, Ordered(heard[t], queue[t], n)
        PROVE  Ordered(heard'[t], queue'[t], n)
    <3>1. CASE t = s
      BY <1>2, <2>1, <2>2, <2>3, <3>1, OrderedTail
    <3>2. CASE t # s
      BY <2>2, <2>3, <3>2
    <3> QED
      BY <3>1, <3>2
  <2> HIDE DEF q
  <2> QED
    BY <1>1, <1>2, <2>1, <2>3 DEF OrderInv
<1>8. ASSUME NEW s \in Sockets, SenderEnds(s)
      PROVE  OrderInv'
  <2>1. /\ queue'[s] = <<>> /\ \A t \in Sockets \ {s} : queue'[t] = queue[t]
        /\ UNCHANGED <<posted, heard, connections, todo>>
    BY <1>1, <1>8 DEF SenderEnds, TypeOK
  <2>2. \A t \in Sockets, n \in Nat : Ordered(heard[t], queue[t], n) => Ordered(heard[t], queue'[t], n)
    BY <2>1 DEF Ordered
  <2> QED
    BY <1>1, <1>2, <2>1, <2>2 DEF OrderInv
<1>9. ASSUME NEW s \in Sockets, Post(s)
      PROVE  OrderInv'
  <2>1. posted' = posted + 1 /\ UNCHANGED <<queue, heard, connections>>
    BY <1>9 DEF Post
  <2>2. \A t \in Sockets : /\ Ordered(heard[t], queue[t], posted)
                           /\ Ordered(heard[t], queue[t], posted + 1)
    <3>1. Notice \in Response
      BY Responses
    <3> QED
      BY <1>1, <1>2, <3>1, OrderedAppend DEF OrderInv
  <2>3. posted' - 1 = posted
    BY <1>2, <2>1
  <2> QED
    BY <2>1, <2>2, <2>3 DEF OrderInv
<1>10. ASSUME NEW s \in Sockets, NEW u \in Names, FanOut(s, u)
       PROVE  OrderInv'
  <2>1. /\ u \in todo[s] /\ todo'[s] = todo[s] \ {u} /\ \A t \in Sockets \ {s} : todo'[t] = todo[t]
        /\ UNCHANGED <<posted, heard, connections>>
    BY <1>1, <1>10 DEF FanOut, TypeOK
  <2>2. CASE connections[u] = None
    BY <1>1, <1>10, <2>1, <2>2, FanOutSends DEF OrderInv
  <2>3. CASE connections[u] # None
    <3> DEFINE c == connections[u]
    <3>1. c \in Sockets /\ Send(c, Message(posted)) /\ Message(posted) \in Response
      BY <1>10, <2>3, FanOutSends
    <3>2. Ordered(heard[c], queue[c], posted - 1) /\ posted - 1 \in Nat /\ posted - 1 + 1 = posted
      BY <1>1, <1>2, <2>1, <3>1 DEF OrderInv
    <3>3. Ordered(heard[c], queue'[c], posted)
      BY <1>1, <3>1, <3>2, OrderedSend
    <3>4. \A t \in Sockets \ {c} : queue'[t] = queue[t]
      BY <1>1, <3>1, SendEffect
    <3>5. ASSUME NEW t \in Sockets, NEW v \in Names, v \in todo'[t]
          PROVE  connections[v] # c /\ v \in todo[t]
      <4>1. v \in todo[t] /\ receiver[t] = "fanout" /\ receiver[s] = "fanout"
        BY <1>1, <2>1, <3>5 DEF RoomInv
      <4>2. t = s /\ v # u
        BY <1>1, <2>1, <3>5, <4>1 DEF RoomInv
      <4>3. name[c] = u
        BY <1>1, <2>3 DEF NameInv
      <4> QED
        BY <1>1, <3>1, <4>1, <4>2, <4>3, ChatAssumption DEF NameInv
    <3> HIDE DEF c
    <3>6. ASSUME NEW o \in Sockets
          PROVE  /\ Ordered(heard[o], queue'[o], posted)
                 /\ \A t \in Sockets, v \in Names :
                      v \in todo'[t] /\ connections[v] = o => Ordered(heard[o], queue'[o], posted - 1)
      <4>1. CASE o = c
        BY <3>3, <3>5, <4>1
      <4>2. CASE o # c
        BY <1>1, <3>4, <3>5, <4>2 DEF OrderInv
      <4> QED
        BY <4>1, <4>2
    <3> QED
      BY <2>1, <3>6 DEF OrderInv
  <2> QED
    BY <2>2, <2>3
<1>11. CASE UNCHANGED vars
  BY <1>3, <1>11 DEF vars
<1> QED
  BY <1>4, <1>5, <1>6, <1>7, <1>8, <1>9, <1>10, <1>11 DEF Next, Setup, Work, Client, Ends


-----------------------------------------------------------------------------
(* Holes.                                                                  *)

LEMMA ReachAppend ==
  ASSUME NEW q \in Seq(Response), NEW r \in Response, NEW shows \in SUBSET Numbers
  PROVE  /\ \A k \in 0 .. Len(q) : Reach(shows, Append(q, r), k) = Reach(shows, q, k)
         /\ Reach(shows, Append(q, r), Len(Append(q, r))) = Reach(shows, q, Len(q)) \cup Range(r.shows)
<1> DEFINE a == Append(q, r)
           l == Len(q)
<1>1. /\ l \in Nat /\ Len(a) = l + 1 /\ a[l + 1] = r
      /\ \A i \in 1 .. l : a[i] = q[i]
  OBVIOUS
<1>2. Range(r.shows) \subseteq Nat
  BY DEF Response, Range, Numbers
<1> HIDE DEF a, l
<1>3. ASSUME NEW k \in 0 .. l PROVE Reach(shows, a, k) = Reach(shows, q, k)
  <2>1. \A i \in 1 .. k : i \in 1 .. l
    BY <1>1
  <2> QED
    BY <1>1, <2>1 DEF Reach
<1>4. Reach(shows, a, l + 1) = Reach(shows, q, l) \cup Range(r.shows)
  <2>1. \A i : i \in 1 .. l + 1 <=> i \in 1 .. l \/ i = l + 1
    BY <1>1
  <2>2. ASSUME NEW n \in Nat
        PROVE  (\E i \in 1 .. l + 1 : n \in Range(a[i].shows))
                 <=> (\E i \in 1 .. l : n \in Range(q[i].shows)) \/ n \in Range(r.shows)
    <3>1. ASSUME NEW i \in 1 .. l + 1, n \in Range(a[i].shows)
          PROVE  (\E o \in 1 .. l : n \in Range(q[o].shows)) \/ n \in Range(r.shows)
      BY <1>1, <2>1, <3>1
    <3>2. ASSUME NEW i \in 1 .. l, n \in Range(q[i].shows)
          PROVE  \E o \in 1 .. l + 1 : n \in Range(a[o].shows)
      BY <1>1, <2>1, <3>2
    <3>3. ASSUME n \in Range(r.shows)
          PROVE  \E o \in 1 .. l + 1 : n \in Range(a[o].shows)
      BY <1>1, <2>1, <3>3
    <3> QED
      BY <3>1, <3>2, <3>3
  <2> QED
    BY <1>2, <2>2 DEF Reach
<1> QED
  BY <1>1, <1>3, <1>4 DEF a, l

LEMMA ReachTail ==
  ASSUME NEW q \in Seq(Response), q # <<>>, NEW shows \in SUBSET Numbers
  PROVE  /\ \A k \in 0 .. Len(Tail(q)) :
              Reach(shows \cup Range(Head(q).shows), Tail(q), k) = Reach(shows, q, k + 1)
         /\ Len(q) = Len(Tail(q)) + 1
         /\ Reach(shows, Tail(q), Len(Tail(q))) \subseteq Reach(shows, q, Len(q))
<1> DEFINE t == Tail(q)
           l == Len(t)
           r == Head(q)
<1>1. /\ l \in Nat /\ Len(q) = l + 1 /\ q[1] = r
      /\ \A i \in 1 .. l : t[i] = q[i + 1] /\ i + 1 \in 1 .. l + 1
  OBVIOUS
<1> HIDE DEF t, l, r
<1>2. ASSUME NEW k \in 0 .. l, NEW n \in Nat
      PROVE  (\E i \in 1 .. k + 1 : n \in Range(q[i].shows))
               <=> n \in Range(r.shows) \/ (\E i \in 1 .. k : n \in Range(t[i].shows))
  <2>1. ASSUME NEW i \in 1 .. k + 1, n \in Range(q[i].shows)
        PROVE  n \in Range(r.shows) \/ (\E o \in 1 .. k : n \in Range(t[o].shows))
    <3>1. CASE i = 1
      BY <1>1, <2>1, <3>1
    <3>2. CASE i # 1
      <4>1. i - 1 \in 1 .. k /\ i - 1 \in 1 .. l /\ i - 1 + 1 = i
        BY <1>1, <3>2
      <4> QED
        BY <1>1, <2>1, <4>1
    <3> QED
      BY <3>1, <3>2
  <2>2. ASSUME n \in Range(r.shows) PROVE \E i \in 1 .. k + 1 : n \in Range(q[i].shows)
    <3>1. 1 \in 1 .. k + 1
      BY <1>1
    <3> QED
      BY <1>1, <2>2, <3>1
  <2>3. ASSUME NEW i \in 1 .. k, n \in Range(t[i].shows)
        PROVE  \E o \in 1 .. k + 1 : n \in Range(q[o].shows)
    <3>1. i \in 1 .. l /\ i + 1 \in 1 .. k + 1
      BY <1>1
    <3> QED
      BY <1>1, <2>3, <3>1
  <2> QED
    BY <2>1, <2>2, <2>3
<1>3. \A k \in 0 .. l : Reach(shows \cup Range(r.shows), t, k) = Reach(shows, q, k + 1)
  BY <1>2 DEF Reach
<1>4. Reach(shows, t, l) \subseteq Reach(shows, q, l + 1)
  <2>1. l \in 0 .. l
    BY <1>1
  <2> QED
    BY <1>2, <2>1 DEF Reach
<1> QED
  BY <1>1, <1>3, <1>4 DEF t, l, r

LEMMA ReachNone ==
  ASSUME NEW q, NEW shows \in SUBSET Numbers
  PROVE  Reach(shows, q, 0) = shows
<1>1. \A i \in 1 .. 0 : FALSE
  OBVIOUS
<1>2. shows \subseteq Nat
  BY DEF Numbers
<1>3. \A n \in Nat : ~(\E i \in 1 .. 0 : n \in Range(q[i].shows))
  BY <1>1
<1> QED
  BY <1>2, <1>3 DEF Reach

LEMMA RangeLatest ==
  ASSUME NEW m \in Nat
  PROVE  Range(Latest(m)) = Oldest(m) + 1 .. m /\ Oldest(m) \in Nat /\ Oldest(m) <= m
         /\ (m > 0 => Oldest(m) < m)
<1>1. Oldest(m) \in Nat /\ Oldest(m) <= m /\ (m > 0 => Oldest(m) < m)
  BY CapacityAssumption DEF Oldest
<1> DEFINE o == Oldest(m)
<1> HIDE DEF o
<1>2. Range([i \in 1 .. m - o |-> o + i]) = {o + i : i \in 1 .. m - o}
  BY DEF Range
<1>3. {o + i : i \in 1 .. m - o} = o + 1 .. m
  <2>1. ASSUME NEW x \in o + 1 .. m PROVE x - o \in 1 .. m - o /\ x = o + (x - o)
    BY <1>1 DEF o
  <2>2. \A i \in 1 .. m - o : o + i \in o + 1 .. m
    BY <1>1 DEF o
  <2> QED
    BY <2>1, <2>2
<1> QED
  BY <1>1, <1>2, <1>3 DEF Latest, o

\* Two stretches of numbers that touch are one.
LEMMA Joining ==
  ASSUME NEW X \in SUBSET Nat, Contiguous(X), NEW a \in Nat, NEW b \in Nat,
         X # {} => /\ \E i \in X : i <= b + 1
                   /\ \E i \in X : i + 1 >= a
  PROVE  Contiguous(X \cup a .. b)
<1> SUFFICES ASSUME NEW i \in X \cup a .. b, NEW j \in X \cup a .. b, NEW x \in i .. j,
                    x \notin a .. b
             PROVE  x \in X
  BY DEF Contiguous
<1>1. i \in Nat /\ j \in Nat /\ x \in Nat /\ i <= x /\ x <= j
  OBVIOUS
<1>2. CASE x < a
  <2>1. i \in X
    BY <1>1, <1>2
  <2>2. PICK k \in X : k + 1 >= a
    BY <2>1
  <2>3. x \in i .. k
    BY <1>1, <1>2, <2>2
  <2> QED
    BY <2>1, <2>2, <2>3 DEF Contiguous
<1>3. CASE x > b
  <2>1. j \in X
    BY <1>1, <1>3
  <2>2. PICK k \in X : k <= b + 1
    BY <2>1
  <2>3. x \in k .. j
    BY <1>1, <1>3, <2>2
  <2> QED
    BY <2>1, <2>2, <2>3 DEF Contiguous
<1> QED
  BY <1>1, <1>2, <1>3

\* A history joins what has been sent, and brings it up to date.
LEMMA HistoryJoins ==
  ASSUME NEW n \in Nat, NEW X \in SUBSET (1 .. n), Contiguous(X), NEW m \in 0 .. n,
         NEW w \in BOOLEAN,
         X # {} => n \in X \/ (w /\ n - 1 \in X),
         X = {} => m = n \/ (w /\ m = n - 1),
         X # {} => \E i \in X : i <= m + 1
  PROVE  LET Y == X \cup Range(Latest(m))
         IN  /\ Contiguous(Y) /\ Y \subseteq 1 .. n
             /\ Y # {} => n \in Y \/ (w /\ n - 1 \in Y)
             /\ Y # {} \/ n = 0 \/ (w /\ n = 1)
<1> DEFINE o == Oldest(m)
           Y == X \cup Range(Latest(m))
<1>1. /\ Y = X \cup (o + 1 .. m) /\ o \in Nat /\ m \in Nat /\ o <= m
      /\ m > 0 => o < m
  <2>1. m \in Nat
    OBVIOUS
  <2>2. /\ Range(Latest(m)) = Oldest(m) + 1 .. m /\ Oldest(m) \in Nat /\ Oldest(m) <= m
        /\ m > 0 => Oldest(m) < m
    BY <2>1, RangeLatest
  <2> QED
    BY <2>1, <2>2
<1> HIDE DEF o, Y
<1>2. X # {} => \E i \in X : i + 1 >= o + 1
  BY <1>1
<1>3. Contiguous(Y)
  <2>1. X \in SUBSET Nat /\ o + 1 \in Nat
    BY <1>1
  <2> QED
    BY <1>1, <1>2, <2>1, Joining
<1>4. Y \subseteq 1 .. n
  BY <1>1
<1>5. m > 0 => m \in Y
  BY <1>1
<1>6. Y # {} => n \in Y \/ (w /\ n - 1 \in Y)
  <2>1. CASE X # {}
    BY <1>1, <2>1
  <2>2. CASE X = {}
    BY <1>1, <1>5, <2>2
  <2> QED
    BY <2>1, <2>2
<1>7. Y # {} \/ n = 0 \/ (w /\ n = 1)
  <2> SUFFICES ASSUME Y = {} PROVE n = 0 \/ (w /\ n = 1)
    OBVIOUS
  <2>1. X = {} /\ m = 0
    BY <1>1, <1>5
  <2> QED
    BY <2>1
<1> QED
  BY <1>3, <1>4, <1>6, <1>7 DEF Y


LEMMA ReachReplace ==
  ASSUME NEW q \in Seq(Response), q # <<>>, NEW r \in Response, NEW shows \in SUBSET Numbers
  PROVE  Reach(shows, Append(Tail(q), r), Len(Append(Tail(q), r)))
           \subseteq Reach(shows, q, Len(q)) \cup Range(r.shows)
<1> DEFINE t == Tail(q)
<1>1. t \in Seq(Response)
  OBVIOUS
<1>2. Reach(shows, t, Len(t)) \subseteq Reach(shows, q, Len(q))
  BY ReachTail
<1> HIDE DEF t
<1>3. Reach(shows, Append(t, r), Len(Append(t, r))) = Reach(shows, t, Len(t)) \cup Range(r.shows)
  BY <1>1, ReachAppend
<1> QED
  BY <1>2, <1>3 DEF t

LEMMA WholeAppend ==
  ASSUME NEW q \in Seq(Response), NEW r \in Response, NEW shows \in SUBSET Numbers,
         Whole(shows, q), Contiguous(Reach(shows, q, Len(q)) \cup Range(r.shows))
  PROVE  Whole(shows, Append(q, r))
<1> DEFINE a == Append(q, r)
           l == Len(q)
<1>1. l \in Nat /\ Len(a) = l + 1
  OBVIOUS
<1>2. /\ \A k \in 0 .. l : Reach(shows, a, k) = Reach(shows, q, k)
      /\ Reach(shows, a, l + 1) = Reach(shows, q, l) \cup Range(r.shows)
  BY <1>1, ReachAppend
<1> HIDE DEF a, l
<1>3. \A k \in 0 .. l + 1 : k \in 0 .. l \/ k = l + 1
  BY <1>1
<1>4. \A k \in 0 .. l : Contiguous(Reach(shows, q, k))
  BY DEF Whole, l
<1>5. Contiguous(Reach(shows, q, l) \cup Range(r.shows))
  BY DEF l
<1>6. ASSUME NEW k \in 0 .. l + 1 PROVE Contiguous(Reach(shows, a, k))
  BY <1>2, <1>3, <1>4, <1>5
<1> QED
  BY <1>1, <1>6 DEF Whole, a

LEMMA WholeTail ==
  ASSUME NEW q \in Seq(Response), q # <<>>, NEW shows \in SUBSET Numbers, Whole(shows, q)
  PROVE  /\ Whole(shows \cup Range(Head(q).shows), Tail(q))
         /\ Contiguous(shows \cup Range(Head(q).shows))
         /\ Reach(shows \cup Range(Head(q).shows), Tail(q), Len(Tail(q))) = Reach(shows, q, Len(q))
<1> DEFINE t == Tail(q)
           l == Len(t)
           more == shows \cup Range(Head(q).shows)
<1>1. l \in Nat /\ Len(q) = l + 1 /\ Head(q) \in Response
  OBVIOUS
<1>2. \A k \in 0 .. l : Reach(more, t, k) = Reach(shows, q, k + 1)
  BY ReachTail
<1>3. more \in SUBSET Numbers
  BY <1>1 DEF Response, Range
<1> HIDE DEF t, l, more
<1>4. \A k \in 0 .. l : k + 1 \in 0 .. l + 1
  BY <1>1
<1>5. \A k \in 0 .. l : Contiguous(Reach(more, t, k))
  BY <1>1, <1>2, <1>4 DEF Whole
<1>6. 0 \in 0 .. l /\ l \in 0 .. l
  BY <1>1
<1>7. Contiguous(more)
  BY <1>3, <1>5, <1>6, ReachNone
<1>8. Reach(more, t, l) = Reach(shows, q, Len(q))
  BY <1>1, <1>2, <1>6
<1>9. Whole(more, t)
  BY <1>5 DEF Whole, l
<1> QED
  BY <1>7, <1>8, <1>9 DEF more, l, t

\* A response that joins what has been sent leaves it without holes.
LEMMA SendUnbroken ==
  ASSUME TypeOK, NEW s \in Sockets, NEW r \in Response, Send(s, r), Unbroken(s),
         Range(r.shows) \subseteq 1 .. posted,
         sender[s] = "running" /\ ~lagged'[s] => Contiguous(Sent(s) \cup Range(r.shows)),
         shown' = shown, posted' = posted
  PROVE  /\ Unbroken(s)'
         /\ sender[s] = "running" /\ ~lagged'[s] => Sent(s)' = Sent(s) \cup Range(r.shows)
         /\ ~lagged'[s] => ~lagged[s]
<1> DEFINE q == queue[s]
<1>1. /\ q \in Seq(Response) /\ shown[s] \in SUBSET Numbers
      /\ Sent(s) = Reach(shown[s], q, Len(q)) /\ Sent(s)' = Reach(shown[s], queue'[s], Len(queue'[s]))
  BY DEF TypeOK, Sent
<1>2. ~lagged'[s] => ~lagged[s]
  BY SendEffect
<1>3. CASE queue'[s] = q /\ sender[s] # "running"
  BY <1>1, <1>2, <1>3 DEF Unbroken
<1>4. CASE sender[s] = "running" /\ queue'[s] = Append(q, r)
  <2>1. Sent(s)' = Sent(s) \cup Range(r.shows)
    BY <1>1, <1>4, ReachAppend
  <2>2. ~lagged'[s] => Whole(shown[s], queue'[s])
    BY <1>1, <1>2, <1>4, WholeAppend DEF Unbroken
  <2> QED
    BY <1>2, <2>1, <2>2 DEF Unbroken
<1>5. CASE sender[s] = "running" /\ q # <<>> /\ queue'[s] = Append(Tail(q), r) /\ lagged'[s]
  <2>1. Sent(s)' \subseteq Sent(s) \cup Range(r.shows)
    BY <1>1, <1>5, ReachReplace
  <2> QED
    BY <1>5, <2>1 DEF Unbroken
<1> QED
  BY <1>3, <1>4, <1>5, SendEffect


-----------------------------------------------------------------------------
(* The steps.                                                              *)

\* What is sent to a socket is whole as long as nothing is sent to it and its
\* tasks do not come closer to being set up.
LEMMA KeepStream ==
  ASSUME NEW s \in Sockets, StreamFor(s),
         shown'[s] = shown[s], queue'[s] = queue[s], lagged[s] => lagged'[s], posted' = posted,
         main'[s] = "history" => main[s] = "history" /\ held'[s] = held[s],
         \/ main'[s] \notin Joined
         \/ sender'[s] # "running"
         \/ /\ main[s] \in Joined /\ sender'[s] = sender[s]
            /\ Waiting(s) => Waiting(s)'
            /\ main'[s] = "select" => main[s] = "select"
  PROVE  StreamFor(s)'
<1>1. Sent(s)' = Sent(s)
  BY DEF Sent
<1>2. Unbroken(s)'
  BY <1>1 DEF StreamFor, Unbroken
<1>3. Recent(s)'
  BY <1>1 DEF StreamFor, Recent
<1>4. WasRead(s)'
  BY DEF StreamFor, WasRead
<1> QED
  BY <1>2, <1>3, <1>4 DEF StreamFor

\* A socket that has never had a rival and is sent live messages is in the room.
LEMMA LeadsToJoined ==
  ASSUME IInv, NEW s \in Sockets \ shared, NEW t \in Sockets, name[s] \in todo[t],
         connections[name[s]] = s, sender[s] = "running"
  PROVE  main[s] \in Joined
<1>1. name[s] \in members /\ name[s] # None
  BY ChatAssumption DEF IInv, TypeOK, RoomInv
<1>2. PICK o \in Sockets : name[o] = name[s] /\ main[o] \in Joined
  BY <1>1 DEF IInv, MemberInv
<1>3. Open(o)
  BY <1>2 DEF Open, Joined
<1>4. o = s
  BY <1>1, <1>2, <1>3 DEF IInv, NameInv
<1> QED
  BY <1>2, <1>4

\* Sending nothing that shows a message, or a history of the room.
LEMMA StreamSend ==
  ASSUME IInv, NEW s \in Sockets, NEW r \in Response, Send(s, r), StreamFor(s),
         UNCHANGED <<posted, shown, sender, todo, name>>,
         \/ /\ Range(r.shows) = {}
            /\ main'[s] = "history" => main[s] = "history" /\ held'[s] = held[s]
            /\ main'[s] = "select" => main[s] = "select"
         \/ /\ main'[s] # "history"
            /\ sender[s] = "running" => main[s] \in Joined
            /\ \E m \in 0 .. posted :
                 /\ Range(r.shows) = Range(Latest(m))
                 /\ ~lagged[s] /\ sender[s] = "running" =>
                      /\ Sent(s) = {} => m = posted \/ (Waiting(s) /\ m = posted - 1)
                      /\ Sent(s) # {} => \E i \in Sent(s) : i <= m + 1,
         main'[s] \in Joined /\ sender[s] = "running" => main[s] \in Joined
  PROVE  StreamFor(s)'
<1>1. posted \in Nat /\ Waiting(s)' = Waiting(s) /\ Unbroken(s) /\ Recent(s) /\ TypeOK
  BY DEF IInv, TypeOK, Waiting, StreamFor
<1>6. WasRead(s)'
  BY DEF StreamFor, WasRead
<1>2. ~lagged[s] => Contiguous(Sent(s))
  <2>1. Len(queue[s]) \in 0 .. Len(queue[s])
    BY <1>1 DEF TypeOK
  <2> QED
    BY <1>1, <2>1 DEF Unbroken, Whole, Sent
<1>3. ~lagged'[s] => ~lagged[s]
  BY <1>1, SendEffect
<1>4. CASE /\ Range(r.shows) = {}
           /\ main'[s] = "history" => main[s] = "history" /\ held'[s] = held[s]
           /\ main'[s] = "select" => main[s] = "select"
  <2>1. Unbroken(s)' /\ (sender[s] = "running" /\ ~lagged'[s] => Sent(s)' = Sent(s))
    <3>1. Sent(s) \cup Range(r.shows) = Sent(s) /\ Range(r.shows) \subseteq 1 .. posted
      BY <1>4
    <3> QED
      BY <1>1, <1>2, <1>3, <3>1, SendUnbroken
  <2>2. Recent(s)'
    BY <1>1, <1>3, <1>4, <2>1 DEF Recent
  <2> QED
    BY <1>6, <2>1, <2>2 DEF StreamFor
<1>5. CASE /\ main'[s] # "history"
           /\ sender[s] = "running" => main[s] \in Joined
           /\ \E m \in 0 .. posted :
                /\ Range(r.shows) = Range(Latest(m))
                /\ ~lagged[s] /\ sender[s] = "running" =>
                     /\ Sent(s) = {} => m = posted \/ (Waiting(s) /\ m = posted - 1)
                     /\ Sent(s) # {} => \E i \in Sent(s) : i <= m + 1
  <2> DEFINE X == Sent(s)
             w == Waiting(s)
  <2>1. PICK m \in 0 .. posted :
          /\ Range(r.shows) = Range(Latest(m))
          /\ ~lagged[s] /\ sender[s] = "running" =>
               /\ X = {} => m = posted \/ (w /\ m = posted - 1)
               /\ X # {} => \E i \in X : i <= m + 1
    BY <1>5
  <2> DEFINE Y == X \cup Range(Latest(m))
  <2>2. Range(Latest(m)) \subseteq 1 .. posted
    <3>1. m \in Nat /\ m <= posted
      BY <1>1
    <3>2. Range(Latest(m)) = Oldest(m) + 1 .. m /\ Oldest(m) \in Nat
      BY <3>1, RangeLatest
    <3> QED
      BY <1>1, <3>1, <3>2
  <2>3. w \in BOOLEAN /\ X \in SUBSET (1 .. posted)
    BY <1>1 DEF Waiting, Unbroken
  <2>4. ASSUME ~lagged[s], sender[s] = "running"
        PROVE  /\ Contiguous(Y)
               /\ Y # {} => posted \in Y \/ (w /\ posted - 1 \in Y)
               /\ Y # {} \/ posted = 0 \/ (w /\ posted = 1)
    <3>1. Contiguous(X) /\ (X # {} => posted \in X \/ (w /\ posted - 1 \in X))
      BY <1>1, <1>2, <1>5, <2>4 DEF Recent
    <3>2. /\ X = {} => m = posted \/ (w /\ m = posted - 1)
          /\ X # {} => \E i \in X : i <= m + 1
      BY <2>1, <2>4
    <3> HIDE DEF X, w
    <3> QED
      BY <1>1, <2>3, <3>1, <3>2, HistoryJoins
  <2>5. Unbroken(s)' /\ (sender[s] = "running" /\ ~lagged'[s] => Sent(s)' = Y)
    BY <1>1, <1>3, <2>1, <2>2, <2>4, SendUnbroken
  <2>6. Recent(s)'
    BY <1>1, <1>3, <1>5, <2>4, <2>5 DEF Recent
  <2> QED
    BY <1>6, <2>5, <2>6 DEF StreamFor
<1> QED
  BY <1>4, <1>5


LEMMA StreamOfOthers ==
  ASSUME IInv, NEW t \in Sockets, NEW r \in Response, Send(t, r),
         UNCHANGED <<posted, shown, sender, todo, name, shared>>,
         \A s \in Sockets \ {t} : main'[s] = main[s] /\ held'[s] = held[s]
  PROVE  \A s \in Sockets \ (shared \cup {t}) : StreamFor(s)'
<1> SUFFICES ASSUME NEW s \in Sockets \ (shared \cup {t}) PROVE StreamFor(s)'
  OBVIOUS
<1>1. StreamFor(s)
  BY DEF IInv, StreamInv
<1>2. queue'[s] = queue[s] /\ (lagged[s] => lagged'[s])
  BY SendEffect DEF IInv
<1>3. Waiting(s)' = Waiting(s)
  BY DEF Waiting
<1> QED
  BY <1>1, <1>2, <1>3, KeepStream

\* The steps of the main task.
LEMMA StreamSetup ==
  ASSUME IInv, NEW s \in Sockets, Setup(s)
  PROVE  StreamInv'
<1> USE DEF room, registry, channel, tasks, locals, client, At, Following, Joined
<1>1. /\ TypeOK /\ PlaceInv /\ MemberInv /\ HistoryInv /\ StreamInv /\ posted \in Nat
      /\ main \in [Sockets -> {"connect", "join", "subscribe", "info", "read", "history",
                               "select", "disconnect", "done"}]
      /\ held \in [Sockets -> Seq(Numbers)] /\ sender \in [Sockets -> {"none", "running", "ended"}]
  BY DEF IInv, MemberInv, TypeOK
<1>2. CASE Join(s) \/ Select(s) \/ Disconnect(s)
  <2> SUFFICES ASSUME NEW o \in Sockets \ shared PROVE StreamFor(o)'
    BY <1>2 DEF Join, Select, Disconnect, StreamInv
  <2>1. StreamFor(o)
    BY <1>1 DEF StreamInv
  <2>2. UNCHANGED <<shown, queue, lagged, posted, sender, held, todo, name>>
    BY <1>2 DEF Join, Select, Disconnect
  <2>3. Waiting(o)' = Waiting(o)
    BY <2>2 DEF Waiting
  <2>4. \/ main'[o] = main[o]
        \/ main[o] = "join" /\ main'[o] = "subscribe"
        \/ main[o] = "select" /\ main'[o] = "disconnect"
        \/ main'[o] = "done"
    BY <1>1, <1>2 DEF Join, Select, Disconnect
  <2>5. main[o] = "join" => sender[o] # "running"
    BY <1>1 DEF PlaceInv, Early
  <2> QED
    BY <2>1, <2>2, <2>3, <2>4, <2>5, KeepStream
<1>3. CASE Subscribe(s)
  <2> SUFFICES ASSUME NEW o \in Sockets \ shared PROVE StreamFor(o)'
    BY <1>3 DEF Subscribe, StreamInv
  <2>1. StreamFor(o)
    BY <1>1 DEF StreamInv
  <2>2. UNCHANGED <<shown, queue, lagged, posted, held, todo, name>>
    BY <1>3 DEF Subscribe
  <2>3. Waiting(o)' = Waiting(o) /\ Sent(o)' = Sent(o)
    BY <2>2 DEF Waiting, Sent
  <2>4. CASE o = s
    <3>1. shown[o] = {} /\ queue[o] = <<>>
      BY <1>1, <1>3, <2>4 DEF Subscribe, PlaceInv, Early
    <3>2. Sent(o) = {}
      BY <3>1, ReachNone DEF Sent
    <3>3. main'[o] = "info"
      BY <1>1, <1>3, <2>4 DEF Subscribe
    <3>4. Unbroken(o)' /\ WasRead(o)'
      BY <2>1, <2>2, <2>3, <3>3 DEF StreamFor, Unbroken, WasRead
    <3>5. Recent(o)'
      BY <2>3, <3>2, <3>3 DEF Recent
    <3> QED
      BY <3>4, <3>5 DEF StreamFor
  <2>5. CASE o # s
    <3>1. main'[o] = main[o] /\ sender'[o] = sender[o]
      BY <1>1, <1>3, <2>5 DEF Subscribe
    <3> QED
      BY <2>1, <2>2, <2>3, <3>1, KeepStream
  <2> QED
    BY <2>4, <2>5
<1>4. CASE SendInfo(s)
  <2>1. /\ Send(s, Notice) /\ Notice \in Response /\ main[s] = "info" /\ main'[s] = "read"
        /\ UNCHANGED <<posted, shown, sender, todo, name, shared, held>>
        /\ \A o \in Sockets \ {s} : main'[o] = main[o]
    BY <1>1, <1>4, Responses DEF SendInfo
  <2>2. Range(Notice.shows) = {}
    BY DEF Notice, Range
  <2>3. s \notin shared => StreamFor(s)'
    BY <1>1, <2>1, <2>2, StreamSend DEF StreamInv
  <2>4. \A o \in Sockets \ (shared \cup {s}) : StreamFor(o)'
    BY <2>1, StreamOfOthers
  <2> QED
    BY <2>1, <2>3, <2>4 DEF StreamInv
<1>5. CASE ReadHistory(s)
  <2> SUFFICES ASSUME NEW o \in Sockets \ shared PROVE StreamFor(o)'
    BY <1>5 DEF ReadHistory, StreamInv
  <2>1. StreamFor(o)
    BY <1>1 DEF StreamInv
  <2>2. UNCHANGED <<shown, queue, lagged, posted, sender, todo, name>>
    BY <1>5 DEF ReadHistory
  <2>3. Waiting(o)' = Waiting(o) /\ Sent(o)' = Sent(o)
    BY <2>2 DEF Waiting, Sent
  <2>4. CASE o = s
    <3>1. main[o] = "read" /\ main'[o] = "history" /\ held'[o] = Latest(posted)
      BY <1>1, <1>5, <2>4 DEF ReadHistory, HistoryInv
    <3>2. posted \in 0 .. posted /\ \A i \in 1 .. posted : i <= posted + 1
      BY <1>1
    <3>3. Unbroken(o)' /\ WasRead(o)'
      BY <2>1, <2>2, <2>3, <3>1, <3>2 DEF StreamFor, Unbroken, WasRead
    <3>4. Recent(o)'
      <4>1. Sent(o) # {} => \E i \in Sent(o) : i <= posted + 1
        BY <2>1, <3>2 DEF StreamFor, Unbroken
      <4> QED
        BY <2>1, <2>2, <2>3, <3>1, <3>2, <4>1 DEF StreamFor, Recent
    <3> QED
      BY <3>3, <3>4 DEF StreamFor
  <2>5. CASE o # s
    <3>1. main'[o] = main[o] /\ held'[o] = held[o]
      BY <1>1, <1>5, <2>5 DEF ReadHistory
    <3> QED
      BY <2>1, <2>2, <2>3, <3>1, KeepStream
  <2> QED
    BY <2>4, <2>5
<1>6. CASE SendHistory(s)
  <2>1. /\ Send(s, RoomHistory(held[s])) /\ RoomHistory(held[s]) \in Response
        /\ main[s] = "history" /\ main'[s] = "select"
        /\ UNCHANGED <<posted, shown, sender, todo, name, shared>>
        /\ \A o \in Sockets \ {s} : main'[o] = main[o] /\ held'[o] = held[o]
    BY <1>1, <1>6, Responses DEF SendHistory
  <2>2. RoomHistory(held[s]).shows = held[s]
    BY DEF RoomHistory
  <2>3. ASSUME s \notin shared PROVE StreamFor(s)'
    <3>1. StreamFor(s)
      BY <1>1, <2>3 DEF StreamInv
    <3>2. PICK m \in 0 .. posted :
            /\ held[s] = Latest(m)
            /\ ~lagged[s] /\ sender[s] = "running" =>
                 /\ Sent(s) = {} => m = posted \/ (Waiting(s) /\ m = posted - 1)
                 /\ Sent(s) # {} => \E i \in Sent(s) : i <= m + 1
      BY <2>1, <3>1 DEF StreamFor, Recent, WasRead
    <3> QED
      BY <2>1, <2>2, <3>1, <3>2, StreamSend
  <2>4. \A o \in Sockets \ (shared \cup {s}) : StreamFor(o)'
    BY <2>1, StreamOfOthers
  <2> QED
    BY <2>1, <2>3, <2>4 DEF StreamInv
<1> QED
  BY <1>2, <1>3, <1>4, <1>5, <1>6 DEF Setup


\* The steps of the send task, and of a client that comes or asks.
LEMMA StreamClient ==
  ASSUME IInv, NEW s \in Sockets, Deliver(s) \/ Ends(s) \/ Client(s)
  PROVE  StreamInv'
<1> USE DEF room, registry, channel, tasks, locals, client, At, Following, Joined
<1>1. /\ TypeOK /\ PlaceInv /\ StreamInv
      /\ main \in [Sockets -> {"connect", "join", "subscribe", "info", "read", "history",
                               "select", "disconnect", "done"}]
      /\ name \in [Sockets -> Names \cup {None}]
  BY DEF IInv, MemberInv
<1>2. CASE Deliver(s)
  <2> SUFFICES ASSUME NEW o \in Sockets \ shared PROVE StreamFor(o)'
    BY <1>2 DEF Deliver, StreamInv
  <2>1. StreamFor(o)
    BY <1>1 DEF StreamInv
  <2>2. UNCHANGED <<posted, sender, todo, name, main, held, lagged>>
    BY <1>2 DEF Deliver
  <2>3. Waiting(o)' = Waiting(o)
    BY <2>2 DEF Waiting
  <2>4. CASE o = s
    <3>1. /\ queue[o] \in Seq(Response) /\ queue[o] # <<>> /\ shown[o] \in SUBSET Numbers
          /\ queue'[o] = Tail(queue[o]) /\ shown'[o] = shown[o] \cup Range(Head(queue[o]).shows)
          /\ ~lagged[o]
      BY <1>1, <1>2, <2>4 DEF Deliver, TypeOK
    <3>2. Whole(shown[o], queue[o])
      BY <2>1, <3>1 DEF StreamFor, Unbroken
    <3>3. Whole(shown'[o], queue'[o]) /\ Contiguous(shown'[o]) /\ Sent(o)' = Sent(o)
      BY <3>1, <3>2, WholeTail DEF Sent
    <3>4. Unbroken(o)'
      BY <2>1, <2>2, <3>3 DEF StreamFor, Unbroken
    <3>5. Recent(o)' /\ WasRead(o)'
      BY <2>1, <2>2, <2>3, <3>3 DEF StreamFor, Recent, WasRead
    <3> QED
      BY <3>4, <3>5 DEF StreamFor
  <2>5. CASE o # s
    <3>1. queue'[o] = queue[o] /\ shown'[o] = shown[o]
      BY <1>1, <1>2, <2>5 DEF Deliver, TypeOK
    <3> QED
      BY <2>1, <2>2, <2>3, <3>1, KeepStream
  <2> QED
    BY <2>4, <2>5
<1>3. CASE SenderEnds(s)
  <2> SUFFICES ASSUME NEW o \in Sockets \ shared PROVE StreamFor(o)'
    BY <1>3 DEF SenderEnds, StreamInv
  <2>1. StreamFor(o)
    BY <1>1 DEF StreamInv
  <2>2. UNCHANGED <<posted, shown, todo, name, main, held, lagged>>
    BY <1>3 DEF SenderEnds
  <2>3. CASE o = s
    <3>1. queue'[o] = <<>> /\ sender'[o] = "ended" /\ shown[o] \in SUBSET Numbers
      BY <1>1, <1>3, <2>3 DEF SenderEnds, TypeOK
    <3>2. Len(<<>>) = 0 /\ \A k \in 0 .. 0 : k = 0
      OBVIOUS
    <3>3. Reach(shown[o], <<>>, 0) = shown[o]
      BY <3>1, ReachNone
    <3>4. shown[o] \subseteq Sent(o)
      BY <3>1 DEF Sent, Reach, Numbers
    <3>5. Whole(shown'[o], queue'[o])
      <4>1. Contiguous(Reach(shown[o], <<>>, 0))
        BY <2>1, <3>3 DEF StreamFor, Unbroken
      <4>2. \A k \in 0 .. Len(<<>>) : Contiguous(Reach(shown[o], <<>>, k))
        BY <3>2, <4>1
      <4> QED
        BY <2>2, <3>1, <4>2 DEF Whole
    <3>6. Sent(o)' = shown[o]
      BY <2>2, <3>1, <3>2, <3>3 DEF Sent
    <3>7. Unbroken(o)'
      BY <2>1, <2>2, <3>4, <3>5, <3>6 DEF StreamFor, Unbroken
    <3>8. Recent(o)' /\ WasRead(o)'
      BY <2>1, <2>2, <3>1 DEF StreamFor, Recent, WasRead
    <3> QED
      BY <3>7, <3>8 DEF StreamFor
  <2>4. CASE o # s
    <3>1. queue'[o] = queue[o] /\ sender'[o] = sender[o] /\ (Waiting(o)' = Waiting(o))
      BY <1>1, <1>3, <2>2, <2>4 DEF SenderEnds, TypeOK, Waiting
    <3> QED
      BY <2>1, <2>2, <3>1, KeepStream
  <2> QED
    BY <2>3, <2>4
<1>4. CASE ReceiverEnds(s) \/ \E step \in {"post", "ask"} : Request(s, step)
  <2> SUFFICES ASSUME NEW o \in Sockets \ shared PROVE StreamFor(o)'
    BY <1>4 DEF ReceiverEnds, Request, StreamInv
  <2>1. StreamFor(o)
    BY <1>1 DEF StreamInv
  <2>2. UNCHANGED <<posted, shown, queue, sender, todo, name, main, held, lagged>>
    BY <1>4 DEF ReceiverEnds, Request
  <2>3. Waiting(o)' = Waiting(o)
    BY <2>2 DEF Waiting
  <2> QED
    BY <2>1, <2>2, <2>3, KeepStream
<1>5. CASE AnswerNotice(s)
  <2>1. /\ Send(s, Notice) /\ Notice \in Response
        /\ UNCHANGED <<posted, shown, sender, todo, name, shared, main, held>>
    BY <1>5, Responses DEF AnswerNotice
  <2>2. Range(Notice.shows) = {}
    BY DEF Notice, Range
  <2>3. s \notin shared => StreamFor(s)'
    BY <1>1, <2>1, <2>2, StreamSend DEF StreamInv
  <2>4. \A o \in Sockets \ (shared \cup {s}) : StreamFor(o)'
    BY <2>1, StreamOfOthers
  <2> QED
    BY <2>1, <2>3, <2>4 DEF StreamInv
<1>6. ASSUME NEW session \in Users \cup {None}, Connect(s, session)
      PROVE  StreamInv'
  <2> SUFFICES ASSUME NEW o \in Sockets \ shared' PROVE StreamFor(o)'
    BY DEF StreamInv
  <2>1. StreamFor(o)
    BY <1>1, <1>6 DEF Connect, StreamInv
  <2>2. UNCHANGED <<posted, shown, queue, sender, todo, held, lagged>>
    BY <1>6 DEF Connect
  <2>3. CASE o = s
    <3>1. main'[o] = "join"
      BY <1>1, <1>6, <2>3 DEF Connect
    <3> QED
      BY <2>1, <2>2, <3>1, KeepStream
  <2>4. CASE o # s
    <3>1. main'[o] = main[o] /\ name'[o] = name[o]
      BY <1>1, <1>6, <2>4 DEF Connect
    <3>2. Waiting(o)' = Waiting(o)
      BY <2>2, <3>1 DEF Waiting
    <3> QED
      BY <2>1, <2>2, <3>1, <3>2, KeepStream
  <2> QED
    BY <2>3, <2>4
<1> QED
  BY <1>2, <1>3, <1>4, <1>5, <1>6 DEF Client, Ends

\* The steps of the receive task.
LEMMA StreamWork ==
  ASSUME IInv, NEW s \in Sockets, Work(s)
  PROVE  StreamInv'
<1> USE DEF room, registry, channel, tasks, locals, client, Becomes
<1>1. /\ TypeOK /\ PlaceInv /\ RoomInv /\ NameInv /\ MemberInv /\ StreamInv
      /\ posted \in Nat /\ held \in [Sockets -> Seq(Numbers)] /\ todo \in [Sockets -> SUBSET Names]
      /\ receiver \in [Sockets -> {"none", "idle", "post", "fanout", "ask", "reply", "ended"}]
      /\ lagged \in [Sockets -> BOOLEAN] /\ connections \in [Names -> Sockets \cup {None}]
  BY DEF IInv, TypeOK
<1>2. \A o \in Sockets : main[o] = "history" => receiver[o] = "none"
  BY <1>1 DEF PlaceInv, Before
<1>3. \A o \in Sockets \ shared : main[o] \in Joined =>
        name[o] \in members /\ name[o] # None /\ connections[name[o]] = o
  BY <1>1, ChatAssumption DEF NameInv, Joined, Open, TypeOK
<1>4. CASE FanOutDone(s) \/ CopyHistory(s)
  <2> SUFFICES ASSUME NEW o \in Sockets \ shared PROVE StreamFor(o)'
    BY <1>4 DEF FanOutDone, CopyHistory, StreamInv
  <2>1. StreamFor(o)
    BY <1>1 DEF StreamInv
  <2>2. UNCHANGED <<posted, shown, queue, sender, todo, name, main, lagged>>
    BY <1>4 DEF FanOutDone, CopyHistory
  <2>3. Waiting(o)' = Waiting(o)
    BY <2>2 DEF Waiting
  <2>4. main[o] = "history" => held'[o] = held[o]
    BY <1>1, <1>2, <1>4 DEF FanOutDone, CopyHistory
  <2> QED
    BY <2>1, <2>2, <2>3, <2>4, KeepStream
<1>5. CASE Reply(s)
  <2>1. /\ Send(s, RoomHistory(held[s])) /\ RoomHistory(held[s]) \in Response
        /\ receiver[s] = "reply" /\ held[s] = Latest(posted)
        /\ UNCHANGED <<posted, shown, sender, todo, name, shared, main>>
        /\ \A o \in Sockets \ {s} : held'[o] = held[o]
    BY <1>1, <1>5, Responses DEF Reply, RoomInv
  <2>2. RoomHistory(held[s]).shows = held[s]
    BY DEF RoomHistory
  <2>3. main[s] # "history" /\ (sender[s] = "running" => main[s] \in Joined)
    <3>1. main[s] \notin Before /\ (Aborted(s) => sender[s] = "ended")
      BY <1>1, <2>1 DEF PlaceInv
    <3> QED
      BY <1>1, <3>1 DEF Before, Aborted, Joined, MemberInv
  <2>4. ASSUME s \notin shared PROVE StreamFor(s)'
    <3>1. StreamFor(s)
      BY <1>1, <2>4 DEF StreamInv
    <3>2. Sent(s) # {} => \E i \in Sent(s) : i <= posted + 1
      BY <1>1, <3>1 DEF StreamFor, Unbroken
    <3>3. posted \in 0 .. posted
      BY <1>1
    <3> QED
      BY <2>1, <2>2, <2>3, <3>1, <3>2, <3>3, StreamSend
  <2>5. \A o \in Sockets \ (shared \cup {s}) : StreamFor(o)'
    BY <2>1, StreamOfOthers
  <2> QED
    BY <2>1, <2>4, <2>5 DEF StreamInv
<1>6. CASE Post(s)
  <2> SUFFICES ASSUME NEW o \in Sockets \ shared PROVE StreamFor(o)'
    BY <1>6 DEF Post, StreamInv
  <2>1. StreamFor(o)
    BY <1>1 DEF StreamInv
  <2>2. /\ UNCHANGED <<shown, queue, sender, name, main, lagged>> /\ posted' = posted + 1
        /\ Readers = {} /\ todo'[s] = members /\ (main[o] = "history" => held'[o] = held[o])
    BY <1>1, <1>2, <1>6 DEF Post
  <2>3. ~Waiting(o) /\ Sent(o)' = Sent(o)
    <3>1. \A t \in Sockets : todo[t] = {}
      BY <1>1, <2>2 DEF Readers, RoomInv
    <3> QED
      BY <2>2, <3>1 DEF Waiting, Sent
  <2>4. 1 .. posted \subseteq 1 .. posted + 1 /\ 0 .. posted \subseteq 0 .. posted + 1
    BY <1>1
  <2>5. Unbroken(o)' /\ WasRead(o)'
    BY <2>1, <2>2, <2>3, <2>4 DEF StreamFor, Unbroken, WasRead
  <2>6. Recent(o)'
    <3>1. main[o] \in Joined => Waiting(o)'
      BY <1>3, <2>2 DEF Waiting
    <3>2. posted' - 1 = posted /\ (posted = 0 => posted' = 1)
      BY <1>1, <2>2
    <3> QED
      BY <1>1, <2>1, <2>2, <2>3, <2>4, <3>1, <3>2 DEF StreamFor, Recent
  <2> QED
    BY <2>5, <2>6 DEF StreamFor
<1>7. ASSUME NEW u \in Names, FanOut(s, u)
      PROVE  StreamInv'
  <2> DEFINE c == connections[u]
  <2>1. /\ receiver[s] = "fanout" /\ posted \in Numbers /\ Message(posted) \in Response
        /\ c \in Sockets \cup {None} /\ u \in todo[s]
        /\ todo' = [todo EXCEPT ![s] = @ \ {u}]
        /\ UNCHANGED <<posted, shown, sender, name, main, held, shared>>
    BY <1>7, FanOutSends DEF FanOut
  <2>2. /\ c = None => UNCHANGED <<queue, lagged>>
        /\ c # None => Send(c, Message(posted)) /\ c \in Sockets
    BY <1>7, <2>1, FanOutSends
  <2> SUFFICES ASSUME NEW o \in Sockets \ shared PROVE StreamFor(o)'
    BY <2>1 DEF StreamInv
  <2>3. StreamFor(o)
    BY <1>1 DEF StreamInv
  <2>4. ASSUME name[o] # u PROVE Waiting(o) => Waiting(o)'
    BY <1>1, <2>1, <2>4 DEF Waiting
  <2>5. CASE o # c
    <3>1. main[o] \in Joined => name[o] # u
      BY <1>3, <2>5
    <3>2. queue'[o] = queue[o] /\ (lagged[o] => lagged'[o])
      BY <1>1, <2>1, <2>2, <2>5, SendEffect
    <3> QED
      BY <2>1, <2>3, <2>4, <3>1, <3>2, KeepStream
  <2>6. CASE o = c
    <3>1. Send(o, Message(posted)) /\ name[o] = u /\ connections[name[o]] = o
      BY <1>1, <2>2, <2>6, ChatAssumption DEF NameInv
    <3>2. Range(Message(posted).shows) = {posted} /\ posted \in Nat
      BY <1>1 DEF Message, Range
    <3>3. ~lagged'[o] => ~lagged[o]
      BY <1>1, <2>1, <3>1, SendEffect
    <3>4. sender[o] = "running" => main[o] \in Joined
      BY <2>1, <3>1, LeadsToJoined
    <3>5. ASSUME sender[o] = "running", ~lagged[o]
          PROVE  Contiguous(Sent(o) \cup {posted})
      <4>1. Contiguous(Sent(o)) /\ Sent(o) \subseteq 1 .. posted
        <5>1. Len(queue[o]) \in 0 .. Len(queue[o])
          BY <1>1 DEF TypeOK
        <5> QED
          BY <2>3, <3>5, <5>1 DEF StreamFor, Unbroken, Whole, Sent
      <4>2. Sent(o) # {} => posted \in Sent(o) \/ posted - 1 \in Sent(o)
        BY <2>3, <3>4, <3>5 DEF StreamFor, Recent
      <4>3. posted .. posted = {posted}
        BY <1>1
      <4> DEFINE X == Sent(o)
      <4>4. X \in SUBSET Nat /\ Contiguous(X)
        BY <1>1, <4>1
      <4>5. X # {} => (\E i \in X : i <= posted + 1) /\ (\E i \in X : i + 1 >= posted)
        BY <1>1, <4>1, <4>2
      <4> HIDE DEF X
      <4>6. Contiguous(X \cup posted .. posted)
        BY <1>1, <4>4, <4>5, Joining
      <4> QED
        BY <4>3, <4>6 DEF X
    <3>6. Unbroken(o)' /\ (sender[o] = "running" /\ ~lagged'[o] => Sent(o)' = Sent(o) \cup {posted})
      <4>1. {posted} \subseteq 1 .. posted
        BY <2>1 DEF Numbers
      <4> QED
        BY <1>1, <2>1, <2>3, <3>1, <3>2, <3>3, <3>5, <4>1, SendUnbroken DEF StreamFor
    <3>7. WasRead(o)'
      BY <2>1, <2>3 DEF StreamFor, WasRead
    <3>8. Recent(o)'
      <4> SUFFICES ASSUME ~lagged'[o], sender[o] = "running", main[o] \in Joined
                   PROVE  /\ posted \in Sent(o)'
                          /\ main[o] = "history" => \E m \in 0 .. posted :
                               /\ held[o] = Latest(m)
                               /\ Sent(o)' # {}
                               /\ \E i \in Sent(o)' : i <= m + 1
        BY <2>1 DEF Recent
      <4>1. Sent(o)' = Sent(o) \cup {posted}
        BY <3>6
      <4>2. ASSUME main[o] = "history"
            PROVE  \E m \in 0 .. posted :
                     held[o] = Latest(m) /\ \E i \in Sent(o) \cup {posted} : i <= m + 1
        <5>1. PICK m \in 0 .. posted :
                /\ held[o] = Latest(m)
                /\ Sent(o) = {} => m = posted \/ m = posted - 1
                /\ Sent(o) # {} => \E i \in Sent(o) : i <= m + 1
          BY <2>3, <3>3, <4>2 DEF StreamFor, Recent
        <5>2. CASE Sent(o) = {}
          <6>1. posted <= m + 1
            BY <1>1, <5>1, <5>2
          <6> QED
            BY <5>1, <6>1
        <5>3. CASE Sent(o) # {}
          BY <5>1, <5>3
        <5> QED
          BY <5>2, <5>3
      <4> QED
        BY <4>1, <4>2
    <3> QED
      BY <3>6, <3>7, <3>8 DEF StreamFor
  <2> QED
    BY <2>5, <2>6
<1> QED
  BY <1>4, <1>5, <1>6, <1>7 DEF Work


-----------------------------------------------------------------------------
(* The invariant and what follows from it.                                 *)

LEMMA InitIInv == Init => IInv
<1> SUFFICES ASSUME Init PROVE IInv
  OBVIOUS
<1> USE ChatAssumption
<1>1. HistoryInv
  <2>1. Latest(0) = <<>>
    BY LatestType, CapacityAssumption DEF Latest, Oldest
  <2> QED
    BY <2>1, NewRingShows DEF Init, HistoryInv
<1>2. TypeOK
  <2>1. "connect" \in DOMAIN Following
    BY DEF Following
  <2>2. <<>> \in Seq(Response) /\ <<>> \in Seq(Numbers) /\ Len(<<>>) = 0 /\ InBounds(ring, Numbers)
    BY <1>1 DEF HistoryInv
  <2> QED
    BY <2>1, <2>2 DEF Init, TypeOK
<1>3. MemberInv /\ PlaceInv
  BY DEF Init, MemberInv, PlaceInv, Early, Before, Aborted
<1>4. RoomInv /\ NameInv
  BY DEF Init, RoomInv, NameInv, Open, Joined
<1>5. OrderInv
  <2>1. Len(<<>>) = 0 /\ \A i \in 1 .. 0 : FALSE
    OBVIOUS
  <2>2. Ordered(0, <<>>, 0)
    BY <2>1 DEF Ordered
  <2> QED
    BY <2>2 DEF Init, OrderInv
<1>6. StreamInv
  <2> SUFFICES ASSUME NEW s \in Sockets PROVE StreamFor(s)
    BY DEF StreamInv
  <2>1. shown[s] = {} /\ queue[s] = <<>> /\ main[s] = "connect"
    BY DEF Init
  <2>2. Len(<<>>) = 0 /\ \A k \in 0 .. 0 : k = 0
    OBVIOUS
  <2>3. Reach({}, <<>>, 0) = {}
    BY ReachNone
  <2>4. Contiguous({}) /\ Whole({}, <<>>)
    BY <2>2, <2>3 DEF Contiguous, Whole
  <2>5. Sent(s) = {}
    BY <2>1, <2>2, <2>3 DEF Sent
  <2>6. Unbroken(s)
    BY <2>1, <2>4, <2>5 DEF Unbroken
  <2>7. Recent(s) /\ WasRead(s)
    BY <2>1 DEF Recent, WasRead, Joined
  <2> QED
    BY <2>6, <2>7 DEF StreamFor
<1> QED
  BY <1>1, <1>2, <1>3, <1>4, <1>5, <1>6 DEF IInv

LEMMA StepIInv ==
  ASSUME IInv, [Next]_vars
  PROVE  IInv'
<1>1. TypeOK' /\ PlaceInv' /\ RoomInv' /\ NameInv' /\ OrderInv'
  BY StepTypes, StepPlaces, StepRoom, StepNames, StepOrder
<1>2. HistoryInv'
  <2>1. HistoryInv
    BY DEF IInv
  <2>2. CASE ring' = Push(ring, posted + 1) /\ posted' = posted + 1
    BY <2>1, <2>2, PushLatest DEF HistoryInv
  <2>3. CASE UNCHANGED <<ring, posted>>
    BY <2>1, <2>3 DEF HistoryInv
  <2> QED
    BY <2>2, <2>3, WhoWritesHistory
<1>3. MemberInv'
  BY StepMembers DEF IInv
<1>4. StreamInv'
  <2>1. CASE UNCHANGED vars
    <3> SUFFICES ASSUME NEW s \in Sockets \ shared PROVE StreamFor(s)'
      BY <2>1 DEF vars, registry, StreamInv
    <3>1. StreamFor(s)
      BY DEF IInv, StreamInv
    <3>2. Waiting(s)' = Waiting(s)
      BY <2>1 DEF vars, registry, locals, Waiting
    <3> QED
      BY <2>1, <3>1, <3>2, KeepStream DEF vars, room, channel, tasks, locals, client
  <2>2. ASSUME NEW s \in Sockets, Setup(s) \/ Deliver(s) \/ Work(s) \/ Client(s) \/ Ends(s)
        PROVE  StreamInv'
    BY <2>2, StreamSetup, StreamWork, StreamClient
  <2> QED
    BY <2>1, <2>2 DEF Next
<1> QED
  BY <1>1, <1>2, <1>3, <1>4 DEF IInv

\* The strengthening holds in every state: the tasks of a socket, the guard on the
\* room, the names of the registry and what is in the channels fit together.
THEOREM InductiveInvariant == Spec => []IInv
<1>1. IInv /\ [Next]_vars => IInv'
  BY StepIInv
<1> QED
  BY <1>1, InitIInv, PTL DEF Spec

\* The state keeps its shape; in particular no channel ever holds more than its
\* capacity of responses (state.rs:84).
THEOREM TypeCorrect == Spec => []TypeOK
<1>1. IInv => TypeOK
  BY DEF IInv
<1> QED
  BY <1>1, InductiveInvariant, PTL

\* No client is sent live messages out of order or twice, however many receivers
\* push at once and whoever shares a name (state.rs:114).
THEOREM LiveOrdered == Spec => []LiveInOrder
<1>1. IInv => LiveInOrder
  <2> SUFFICES ASSUME IInv, NEW s \in Sockets, NEW i \in DOMAIN queue[s], IsLive(queue[s][i])
               PROVE  /\ heard[s] < queue[s][i].shows[1]
                      /\ \A j \in 1 .. i - 1 :
                           IsLive(queue[s][j]) => queue[s][j].shows[1] < queue[s][i].shows[1]
    BY DEF LiveInOrder
  <2>1. DOMAIN queue[s] = 1 .. Len(queue[s])
    BY DEF IInv, TypeOK
  <2> QED
    BY <2>1 DEF IInv, OrderInv, Ordered
<1> QED
  BY <1>1, InductiveInvariant, PTL

\* What a client has been sent has no hole, however its connect raced with posts,
\* as long as no other socket has come with its name (mod.rs:72).
THEOREM WithoutHoles == Spec => []NoGap
<1>1. IInv => NoGap
  BY DEF IInv, StreamInv, StreamFor, Unbroken, Contiguous, NoGap
<1> QED
  BY <1>1, InductiveInvariant, PTL

\* A client that is set up and has nothing waiting has been sent the newest
\* message, unless a fan-out is still on its way to it (state.rs:117).
THEOREM UpToDate == Spec => []CaughtUp
<1>1. IInv => CaughtUp
  <2> SUFFICES ASSUME IInv, NEW s \in Sockets \ shared,
                      main[s] = "select", sender[s] = "running", ~lagged[s], queue[s] = <<>>,
                      \A t \in Sockets : name[s] \notin todo[t], posted > 0
               PROVE  posted \in shown[s]
    BY DEF CaughtUp
  <2>1. ~Waiting(s) /\ Recent(s) /\ shown[s] \in SUBSET Numbers
    BY DEF IInv, StreamInv, StreamFor, Waiting, TypeOK
  <2>2. Len(<<>>) = 0
    OBVIOUS
  <2>3. Sent(s) = shown[s]
    BY <2>1, <2>2, ReachNone DEF Sent
  <2>4. Sent(s) # {}
    BY <2>1 DEF Recent, Joined, IInv, TypeOK
  <2> QED
    BY <2>1, <2>3, <2>4 DEF Recent, Joined
<1> QED
  BY <1>1, InductiveInvariant, PTL

=============================================================================
