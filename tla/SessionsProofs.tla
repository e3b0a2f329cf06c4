--------------------------- MODULE SessionsProofs ---------------------------
(***************************************************************************)
(* Proofs about Sessions: IInv is inductive, and with it no step lets a    *)
(* request through by a session that is over.                              *)
(***************************************************************************)
EXTENDS Sessions, TLAPS

LEMMA InitInv == Init => IInv
<1> SUFFICES ASSUME Init PROVE IInv
  OBVIOUS
<1> USE DEF Init, NoLocals
<1>1. TypeOK
  BY DEF TypeOK, Locals, Steps, Busy
<1>2. PastInv
  BY DEF PastInv, Busy
<1>3. FreshInv /\ EndedInv /\ IdleInv
  BY DEF FreshInv, EndedInv, IdleInv
<1> QED
  BY <1>1, <1>2, <1>3 DEF IInv


-----------------------------------------------------------------------------
\* The ways a step can change the state, with the refusals of all handlers taken
\* together.

VerifyRead(r, t) == pc[r] = "idle" /\ Usable(sessions[t]) /\ Read(r, t, "verify")
LogoutRead(r, t) == pc[r] = "idle" /\ sessions[t] # None /\ Read(r, t, "logout")
Accept(r, time) ==
  pc[r] = "verify" /\ ~Expired(loc[r].session, time) /\ VerifySet(r, time)

LEMMA StepCases ==
  ASSUME [Next]_vars
  PROVE  \/ UNCHANGED vars \/ Tick \/ Restart
         \/ \E r \in Requests : Refuse(r) \/ CreateSession(r) \/ LogoutSet(r)
         \/ \E r \in Requests, t \in Tokens :
              VerifyRead(r, t) \/ LogoutRead(r, t) \/ \E u \in Usernames : Login(r, u, t)
         \/ \E r \in Requests : \E time \in Clock(r) : Accept(r, time)
<1>1. ASSUME NEW r \in Requests, Handler(r)
      PROVE  \/ Refuse(r) \/ CreateSession(r) \/ LogoutSet(r)
             \/ \E t \in Tokens :
                  VerifyRead(r, t) \/ LogoutRead(r, t) \/ \E u \in Usernames : Login(r, u, t)
             \/ \E time \in Clock(r) : Accept(r, time)
  <2>1. ASSUME NEW t \in Tokens, VerifyGet(r, t) PROVE Refuse(r) \/ VerifyRead(r, t)
    BY <2>1 DEF VerifyGet, VerifyRead
  <2>2. ASSUME NEW t \in Tokens, LogoutGet(r, t) PROVE Refuse(r) \/ LogoutRead(r, t)
    BY <2>2 DEF LogoutGet, LogoutRead
  <2>3. ASSUME NEW time \in Clock(r), VerifySet(r, time) PROVE Refuse(r) \/ Accept(r, time)
    BY <2>3 DEF VerifySet, Accept
  <2>4. Answer(r) => Refuse(r)
    BY DEF Answer
  <2> QED
    BY <1>1, <2>1, <2>2, <2>3, <2>4 DEF Handler
<1> QED
  BY <1>1 DEF Next

\* What the two writes do to the record they were given.
LEMMA Updates ==
  ASSUME NEW session \in Session, NEW time \in Nat
  PROVE  /\ [session EXCEPT !.last_active = time] \in Session
         /\ [session EXCEPT !.last_active = time].last_active = time
         /\ [session EXCEPT !.last_active = time].logged_out = session.logged_out
         /\ [session EXCEPT !.logged_out = TRUE] \in Session
         /\ [session EXCEPT !.logged_out = TRUE].last_active = session.last_active
         /\ [session EXCEPT !.logged_out = TRUE].logged_out = TRUE
BY DEF Session

\* An acceptance, spelt out.
LEMMA AcceptEffect ==
  ASSUME TypeOK, NEW r \in Requests, NEW time \in Clock(r), Accept(r, time)
  PROVE  /\ time \in Nat /\ loc[r].at <= time /\ time <= now
         /\ loc[r].token \in Tokens /\ loc[r].session \in Session
         /\ \E session \in Session :
              /\ session.last_active = time
              /\ sessions' = [sessions EXCEPT ![loc[r].token] = session]
         /\ pc' = [pc EXCEPT ![r] = "accepted"]
         /\ loc' = [loc EXCEPT ![r] = NoLocals]
         /\ UNCHANGED <<now, ended, idle>>
<1>1. loc[r].at \in Nat /\ now \in Nat /\ loc[r].token \in Tokens /\ loc[r].session \in Session
  BY DEF TypeOK, Locals, Accept, Busy
<1>2. time \in Nat /\ loc[r].at <= time /\ time <= now
  BY <1>1 DEF Clock
<1> DEFINE session == [loc[r].session EXCEPT !.last_active = time]
<1>3. session \in Session /\ session.last_active = time
  BY <1>1, <1>2, Updates
<1>4. /\ sessions' = [sessions EXCEPT ![loc[r].token] = session]
      /\ pc' = [pc EXCEPT ![r] = "accepted"]
      /\ loc' = [loc EXCEPT ![r] = NoLocals]
      /\ UNCHANGED <<now, ended, idle>>
  BY DEF Accept, VerifySet, Goto, Forget
<1> HIDE DEF session
<1> QED
  BY <1>1, <1>2, <1>3, <1>4

LEMMA LogoutEffect ==
  ASSUME TypeOK, NEW r \in Requests, LogoutSet(r)
  PROVE  /\ loc[r].token \in Tokens /\ loc[r].session \in Session
         /\ \E session \in Session :
              /\ session.last_active = loc[r].session.last_active /\ session.logged_out
              /\ sessions' = [sessions EXCEPT ![loc[r].token] = session]
         /\ ended' = IF Verifying(loc[r].token) = {} THEN ended \cup {loc[r].token} ELSE ended
         /\ pc' = [pc EXCEPT ![r] = "idle"]
         /\ loc' = [loc EXCEPT ![r] = NoLocals]
         /\ UNCHANGED <<now, idle>>
<1>1. loc[r].token \in Tokens /\ loc[r].session \in Session
  BY DEF TypeOK, LogoutSet, Busy
<1> DEFINE session == [loc[r].session EXCEPT !.logged_out = TRUE]
<1>2. /\ session \in Session /\ session.logged_out
      /\ session.last_active = loc[r].session.last_active
  BY <1>1, Updates
<1>3. /\ sessions' = [sessions EXCEPT ![loc[r].token] = session]
      /\ ended' = IF Verifying(loc[r].token) = {} THEN ended \cup {loc[r].token} ELSE ended
      /\ pc' = [pc EXCEPT ![r] = "idle"]
      /\ loc' = [loc EXCEPT ![r] = NoLocals]
      /\ UNCHANGED <<now, idle>>
  BY DEF LogoutSet, Finish, Goto, Forget
<1> HIDE DEF session
<1> QED
  BY <1>1, <1>2, <1>3

\* A login and its stamp, spelt out.
LEMMA LoginEffect ==
  ASSUME TypeOK, NEW r \in Requests, NEW u \in Usernames, NEW t \in Tokens, Login(r, u, t)
  PROVE  /\ pc[r] = "idle" /\ sessions[t] = None /\ \A q \in Requests : loc[q].token # t
         /\ \E new \in Locals :
              /\ new.token = t /\ new.at = now /\ new.session \in Session
              /\ new.session.last_active = now
              /\ loc' = [loc EXCEPT ![r] = new]
         /\ pc' = [pc EXCEPT ![r] = "login"]
         /\ UNCHANGED <<sessions, now, ended, idle>>
<1> DEFINE session == [username |-> u, last_active |-> now, logged_out |-> FALSE]
           new == [token |-> t, at |-> now, session |-> session]
<1>1. session \in Session /\ session.last_active = now
  BY DEF Session, TypeOK
<1>2. loc' = [loc EXCEPT ![r] = new]
  BY DEF Login
<1> HIDE DEF session
<1>3. new \in Locals /\ new.token = t /\ new.at = now /\ new.session = session
  BY <1>1 DEF Locals, TypeOK
<1> HIDE DEF new
<1> QED
  BY <1>1, <1>2, <1>3 DEF Login, Goto

LEMMA ReadEffect ==
  ASSUME TypeOK, NEW r \in Requests, NEW t \in Tokens, NEW step \in {"verify", "logout"},
         sessions[t] # None, Read(r, t, step)
  PROVE  /\ \E new \in Locals :
              /\ new.token = t /\ new.at = now /\ new.session = sessions[t]
              /\ loc' = [loc EXCEPT ![r] = new]
         /\ sessions[t] \in Session
         /\ pc' = [pc EXCEPT ![r] = step]
         /\ UNCHANGED <<sessions, now, ended, idle>>
<1> DEFINE new == [token |-> t, session |-> sessions[t], at |-> now]
<1>1. new \in Locals /\ new.token = t /\ new.at = now /\ new.session = sessions[t]
  BY DEF Locals, TypeOK
<1>2. loc' = [loc EXCEPT ![r] = new]
  BY DEF Read
<1> HIDE DEF new
<1> QED
  BY <1>1, <1>2 DEF Read, Goto, TypeOK

-----------------------------------------------------------------------------
\* Each part of the invariant is kept by every step.

LEMMA Empty == NoLocals \in Locals /\ NoLocals.token = None /\ NoLocals.at = 0
BY DEF NoLocals, Locals

\* The numbers the invariant compares.
LEMMA Times ==
  ASSUME TypeOK
  PROVE  /\ now \in Nat
         /\ \A t \in Tokens : sessions[t] # None => sessions[t].last_active \in Nat
         /\ \A r \in Requests : loc[r].at \in Nat
         /\ \A r \in Requests : Busy(r) => loc[r].session.last_active \in Nat
BY DEF TypeOK, Session, Locals

\* Types.
LEMMA StepTypes ==
  ASSUME IInv, [Next]_vars
  PROVE  TypeOK'
<1> USE SessionsAssumption DEF IInv
<1>1. CASE UNCHANGED vars
  BY <1>1 DEF vars, TypeOK, Locals, Busy, Steps
<1>2. CASE Tick
  BY <1>2 DEF Tick, TypeOK, Locals, Busy, Steps
<1>3. CASE Restart
  BY <1>3 DEF Restart, NoLocals, TypeOK, Locals, Busy, Steps
<1>4. ASSUME NEW r \in Requests, Refuse(r) PROVE TypeOK'
  BY <1>4 DEF Refuse, Finish, Goto, Forget, NoLocals, TypeOK, Locals, Busy, Steps
<1>5. ASSUME NEW r \in Requests, CreateSession(r) PROVE TypeOK'
  BY <1>5 DEF CreateSession, Finish, Goto, Forget, NoLocals, TypeOK, Locals, Busy, Steps
<1>6. ASSUME NEW r \in Requests, LogoutSet(r) PROVE TypeOK'
  <2> PICK session \in Session : sessions' = [sessions EXCEPT ![loc[r].token] = session]
    BY <1>6, LogoutEffect
  <2> QED
    BY <1>6, LogoutEffect, Empty DEF TypeOK, Busy, Steps
<1>7. ASSUME NEW r \in Requests, NEW t \in Tokens, VerifyRead(r, t) PROVE TypeOK'
  <2>1. sessions[t] # None /\ Read(r, t, "verify")
    BY <1>7 DEF VerifyRead, Usable
  <2> PICK new \in Locals :
         new.token = t /\ new.session = sessions[t] /\ loc' = [loc EXCEPT ![r] = new]
    BY <2>1, ReadEffect
  <2> QED
    BY <2>1, ReadEffect DEF TypeOK, Busy, Steps
<1>8. ASSUME NEW r \in Requests, NEW t \in Tokens, LogoutRead(r, t) PROVE TypeOK'
  <2>1. sessions[t] # None /\ Read(r, t, "logout")
    BY <1>8 DEF LogoutRead
  <2> PICK new \in Locals :
         new.token = t /\ new.session = sessions[t] /\ loc' = [loc EXCEPT ![r] = new]
    BY <2>1, ReadEffect
  <2> QED
    BY <2>1, ReadEffect DEF TypeOK, Busy, Steps
<1>9. ASSUME NEW r \in Requests, NEW u \in Usernames, NEW t \in Tokens, Login(r, u, t)
      PROVE  TypeOK'
  <2> PICK new \in Locals :
         new.token = t /\ new.session \in Session /\ loc' = [loc EXCEPT ![r] = new]
    BY <1>9, LoginEffect
  <2>1. pc' = [pc EXCEPT ![r] = "login"] /\ UNCHANGED <<sessions, now, ended, idle>>
    BY <1>9, LoginEffect
  <2> QED
    BY <2>1 DEF TypeOK, Busy, Steps
<1>10. ASSUME NEW r \in Requests, NEW time \in Clock(r), Accept(r, time) PROVE TypeOK'
  <2> PICK session \in Session : sessions' = [sessions EXCEPT ![loc[r].token] = session]
    BY <1>10, AcceptEffect
  <2> QED
    BY <1>10, AcceptEffect, Empty DEF TypeOK, Busy, Steps
<1> QED
  BY <1>1, <1>2, <1>3, <1>4, <1>5, <1>6, <1>7, <1>8, <1>9, <1>10, StepCases

\* Stamps and reading times stay in the past.
LEMMA StepPast ==
  ASSUME IInv, [Next]_vars
  PROVE  PastInv'
<1> USE SessionsAssumption DEF IInv
<1>1. CASE UNCHANGED vars
  BY <1>1 DEF vars, PastInv, TypeOK, Locals, Busy
<1>2. CASE Tick
  <2>1. now' = now + 1 /\ UNCHANGED <<sessions, pc, loc>>
    BY <1>2 DEF Tick
  <2> QED
    BY <2>1, Times DEF PastInv, Busy
<1>3. CASE Restart
  BY <1>3 DEF Restart, NoLocals, PastInv, TypeOK, Locals, Busy
<1>4. ASSUME NEW r \in Requests, Refuse(r) PROVE PastInv'
  BY <1>4 DEF Refuse, Finish, Goto, Forget, NoLocals, PastInv, TypeOK, Locals, Busy
<1>5. ASSUME NEW r \in Requests, CreateSession(r) PROVE PastInv'
  <2>1. /\ Busy(r) /\ sessions' = [sessions EXCEPT ![loc[r].token] = loc[r].session]
        /\ pc' = [pc EXCEPT ![r] = "idle"] /\ loc' = [loc EXCEPT ![r] = NoLocals] /\ now' = now
    BY <1>5 DEF CreateSession, Finish, Goto, Forget, Busy
  <2> QED
    BY <2>1, Times, Empty DEF PastInv, Busy, TypeOK
<1>6. ASSUME NEW r \in Requests, LogoutSet(r) PROVE PastInv'
  <2> PICK session \in Session :
         /\ session.last_active = loc[r].session.last_active
         /\ sessions' = [sessions EXCEPT ![loc[r].token] = session]
    BY <1>6, LogoutEffect
  <2>1. Busy(r)
    BY <1>6 DEF LogoutSet, Busy
  <2>2. /\ pc' = [pc EXCEPT ![r] = "idle"] /\ loc' = [loc EXCEPT ![r] = NoLocals] /\ now' = now
        /\ loc[r].token \in Tokens
    BY <1>6, LogoutEffect
  <2> QED
    BY <2>1, <2>2, Times, Empty DEF PastInv, Busy, TypeOK
<1>7. ASSUME NEW r \in Requests, NEW t \in Tokens, VerifyRead(r, t) PROVE PastInv'
  <2>1. sessions[t] # None /\ Read(r, t, "verify")
    BY <1>7 DEF VerifyRead, Usable
  <2> PICK new \in Locals :
         new.at = now /\ new.session = sessions[t] /\ loc' = [loc EXCEPT ![r] = new]
    BY <2>1, ReadEffect
  <2>2. pc' = [pc EXCEPT ![r] = "verify"] /\ UNCHANGED <<sessions, now>>
    BY <2>1, ReadEffect
  <2> QED
    BY <2>1, <2>2, Times DEF PastInv, TypeOK, Busy
<1>8. ASSUME NEW r \in Requests, NEW t \in Tokens, LogoutRead(r, t) PROVE PastInv'
  <2>1. sessions[t] # None /\ Read(r, t, "logout")
    BY <1>8 DEF LogoutRead
  <2> PICK new \in Locals :
         new.at = now /\ new.session = sessions[t] /\ loc' = [loc EXCEPT ![r] = new]
    BY <2>1, ReadEffect
  <2>2. pc' = [pc EXCEPT ![r] = "logout"] /\ UNCHANGED <<sessions, now>>
    BY <2>1, ReadEffect
  <2> QED
    BY <2>1, <2>2, Times DEF PastInv, TypeOK, Busy
<1>9. ASSUME NEW r \in Requests, NEW u \in Usernames, NEW t \in Tokens, Login(r, u, t)
      PROVE  PastInv'
  BY <1>9, LoginEffect DEF PastInv, TypeOK, Locals, Busy
<1>10. ASSUME NEW r \in Requests, NEW time \in Clock(r), Accept(r, time) PROVE PastInv'
  <2> PICK session \in Session :
         session.last_active = time /\ sessions' = [sessions EXCEPT ![loc[r].token] = session]
    BY <1>10, AcceptEffect
  <2>1. /\ pc' = [pc EXCEPT ![r] = "accepted"] /\ loc' = [loc EXCEPT ![r] = NoLocals]
        /\ now' = now /\ time \in Nat /\ time <= now /\ loc[r].token \in Tokens
    BY <1>10, AcceptEffect
  <2> QED
    BY <2>1, Times, Empty DEF PastInv, Busy, TypeOK
<1> QED
  BY <1>1, <1>2, <1>3, <1>4, <1>5, <1>6, <1>7, <1>8, <1>9, <1>10, StepCases

\* A token drawn by a login stays out of every other handler's reach.
LEMMA StepFresh ==
  ASSUME IInv, [Next]_vars
  PROVE  FreshInv'
<1> USE SessionsAssumption DEF IInv
<1>1. CASE UNCHANGED vars
  BY <1>1 DEF vars, FreshInv, TypeOK, Locals, Busy
<1>2. CASE Tick
  BY <1>2 DEF Tick, FreshInv, TypeOK, Locals, Busy
<1>3. CASE Restart
  BY <1>3 DEF Restart, NoLocals, FreshInv, TypeOK, Locals, Busy
<1>4. ASSUME NEW r \in Requests, Refuse(r) PROVE FreshInv'
  BY <1>4 DEF Refuse, Finish, Goto, Forget, NoLocals, FreshInv, TypeOK, Locals, Busy
<1>5. ASSUME NEW r \in Requests, CreateSession(r) PROVE FreshInv'
  BY <1>5 DEF CreateSession, Finish, Goto, Forget, NoLocals, FreshInv, TypeOK, Locals, Busy
<1>6. ASSUME NEW r \in Requests, LogoutSet(r) PROVE FreshInv'
  BY <1>6, LogoutEffect DEF NoLocals, FreshInv, TypeOK, Locals, Busy
<1>7. ASSUME NEW r \in Requests, NEW t \in Tokens, VerifyRead(r, t) PROVE FreshInv'
  BY <1>7, ReadEffect DEF VerifyRead, Usable, FreshInv, TypeOK, Locals, Busy
<1>8. ASSUME NEW r \in Requests, NEW t \in Tokens, LogoutRead(r, t) PROVE FreshInv'
  BY <1>8, ReadEffect DEF LogoutRead, FreshInv, TypeOK, Locals, Busy
<1>9. ASSUME NEW r \in Requests, NEW u \in Usernames, NEW t \in Tokens, Login(r, u, t)
      PROVE  FreshInv'
  BY <1>9, LoginEffect DEF FreshInv, TypeOK, Locals, Busy
<1>10. ASSUME NEW r \in Requests, NEW time \in Clock(r), Accept(r, time) PROVE FreshInv'
  <2> PICK session \in Session : sessions' = [sessions EXCEPT ![loc[r].token] = session]
    BY <1>10, AcceptEffect
  <2>1. /\ pc' = [pc EXCEPT ![r] = "accepted"] /\ loc' = [loc EXCEPT ![r] = NoLocals]
        /\ pc[r] = "verify" /\ loc[r].token \in Tokens
    BY <1>10, AcceptEffect DEF Accept
  <2>2. ASSUME NEW q \in Requests, pc'[q] = "login"
        PROVE  /\ sessions'[loc'[q].token] = None
               /\ \A o \in Requests \ {q} : loc'[o].token # loc'[q].token
    <3>1. q # r /\ pc[q] = "login" /\ loc'[q] = loc[q] /\ loc[q].token \in Tokens
      BY <2>1, <2>2 DEF TypeOK, Busy
    <3> QED
      BY <2>1, <3>1, Empty DEF FreshInv, TypeOK
  <2> QED
    BY <2>2 DEF FreshInv
<1> QED
  BY <1>1, <1>2, <1>3, <1>4, <1>5, <1>6, <1>7, <1>8, <1>9, <1>10, StepCases

\* What a logout has ended is not written back alive.
LEMMA StepEnded ==
  ASSUME IInv, [Next]_vars
  PROVE  EndedInv'
<1> USE SessionsAssumption DEF IInv
<1>1. CASE UNCHANGED vars
  BY <1>1 DEF vars, EndedInv, FreshInv, TypeOK, Busy, Verifying
<1>2. CASE Tick
  BY <1>2 DEF Tick, EndedInv, FreshInv, TypeOK, Busy, Verifying
<1>3. CASE Restart
  BY <1>3 DEF Restart, NoLocals, EndedInv, FreshInv, TypeOK, Busy, Verifying
<1>4. ASSUME NEW r \in Requests, Refuse(r) PROVE EndedInv'
  BY <1>4 DEF Refuse, Finish, Goto, Forget, NoLocals, EndedInv, FreshInv, TypeOK, Busy, Verifying
<1>5. ASSUME NEW r \in Requests, CreateSession(r) PROVE EndedInv'
  BY <1>5 DEF CreateSession, Finish, Goto, Forget, NoLocals, EndedInv, FreshInv, TypeOK, Busy, Verifying
<1>6. ASSUME NEW r \in Requests, LogoutSet(r) PROVE EndedInv'
  <2> PICK session \in Session :
         /\ session.last_active = loc[r].session.last_active /\ session.logged_out
         /\ sessions' = [sessions EXCEPT ![loc[r].token] = session]
    BY <1>6, LogoutEffect
  <2>1. /\ pc' = [pc EXCEPT ![r] = "idle"] /\ loc' = [loc EXCEPT ![r] = NoLocals]
        /\ ended' = IF Verifying(loc[r].token) = {} THEN ended \cup {loc[r].token} ELSE ended
    BY <1>6, LogoutEffect
  <2>2. session # None
    BY DEF Session
  <2>3. ASSUME NEW t \in ended'
        PROVE  /\ sessions'[t] # None /\ sessions'[t].logged_out
               /\ \A q \in Requests : pc'[q] = "verify" => loc'[q].token # t
    <3>1. \A q \in Requests : pc[q] = "verify" => loc[q].token # t
      BY <2>1 DEF EndedInv, Verifying
    <3>2. \A q \in Requests : pc'[q] = "verify" => loc'[q].token # t
      BY <2>1, <3>1 DEF TypeOK
    <3>3. t = loc[r].token \/ t \in ended
      BY <2>1, <2>3
    <3>4. t \in Tokens
      BY <1>6, <3>3, LogoutEffect DEF TypeOK
    <3> QED
      BY <2>2, <3>2, <3>3, <3>4 DEF EndedInv, TypeOK
  <2> QED
    BY <2>3 DEF EndedInv
<1>7. ASSUME NEW r \in Requests, NEW t \in Tokens, VerifyRead(r, t) PROVE EndedInv'
  BY <1>7, ReadEffect DEF VerifyRead, Usable, EndedInv, FreshInv, TypeOK, Busy, Verifying
<1>8. ASSUME NEW r \in Requests, NEW t \in Tokens, LogoutRead(r, t) PROVE EndedInv'
  BY <1>8, ReadEffect DEF LogoutRead, EndedInv, FreshInv, TypeOK, Busy, Verifying
<1>9. ASSUME NEW r \in Requests, NEW u \in Usernames, NEW t \in Tokens, Login(r, u, t)
      PROVE  EndedInv'
  BY <1>9, LoginEffect DEF EndedInv, FreshInv, TypeOK, Busy, Verifying
<1>10. ASSUME NEW r \in Requests, NEW time \in Clock(r), Accept(r, time) PROVE EndedInv'
  BY <1>10, AcceptEffect DEF Accept, NoLocals, EndedInv, FreshInv, TypeOK, Busy, Verifying
<1> QED
  BY <1>1, <1>2, <1>3, <1>4, <1>5, <1>6, <1>7, <1>8, <1>9, <1>10, StepCases

\* What has expired is not refreshed.
LEMMA StepIdle ==
  ASSUME IInv, [Next]_vars
  PROVE  IdleInv'
<1> USE SessionsAssumption DEF IInv
<1>1. CASE UNCHANGED vars
  BY <1>1 DEF vars, IdleInv, FreshInv, PastInv, TypeOK, Busy, Locals, Session, Expired, Verifying
<1>2. CASE Tick
  BY <1>2 DEF Tick, IdleInv, FreshInv, PastInv, TypeOK, Busy, Locals, Session, Expired, Verifying
<1>3. CASE Restart
  BY <1>3 DEF Restart, NoLocals, IdleInv, FreshInv, PastInv, TypeOK, Busy, Locals, Session, Expired, Verifying
<1>4. ASSUME NEW r \in Requests, Refuse(r) PROVE IdleInv'
  BY <1>4 DEF Refuse, Finish, Goto, Forget, NoLocals, IdleInv, FreshInv, PastInv, TypeOK, Busy, Locals, Session, Expired, Verifying
<1>5. ASSUME NEW r \in Requests, CreateSession(r) PROVE IdleInv'
  BY <1>5 DEF CreateSession, Finish, Goto, Forget, NoLocals, IdleInv, FreshInv, PastInv, TypeOK, Busy, Locals, Session, Expired, Verifying
<1>6. ASSUME NEW r \in Requests, LogoutSet(r) PROVE IdleInv'
  <2> PICK session \in Session :
         session.logged_out /\ sessions' = [sessions EXCEPT ![loc[r].token] = session]
    BY <1>6, LogoutEffect
  <2>1. /\ pc' = [pc EXCEPT ![r] = "idle"] /\ loc' = [loc EXCEPT ![r] = NoLocals]
        /\ UNCHANGED <<now, idle>> /\ session # None
    BY <1>6, LogoutEffect, SessionsAssumption DEF Session
  <2> QED
    BY <2>1 DEF IdleInv, TypeOK
<1>7. ASSUME NEW r \in Requests, NEW t \in Tokens, VerifyRead(r, t) PROVE IdleInv'
  BY <1>7, ReadEffect DEF VerifyRead, Usable, IdleInv, FreshInv, PastInv, TypeOK, Busy, Locals, Session, Expired, Verifying
<1>8. ASSUME NEW r \in Requests, NEW t \in Tokens, LogoutRead(r, t) PROVE IdleInv'
  BY <1>8, ReadEffect DEF LogoutRead, IdleInv, FreshInv, PastInv, TypeOK, Busy, Locals, Session, Expired, Verifying
<1>9. ASSUME NEW r \in Requests, NEW u \in Usernames, NEW t \in Tokens, Login(r, u, t)
      PROVE  IdleInv'
  BY <1>9, LoginEffect DEF IdleInv, FreshInv, PastInv, TypeOK, Busy, Locals, Session, Expired, Verifying
<1>10. ASSUME NEW r \in Requests, NEW time \in Clock(r), Accept(r, time) PROVE IdleInv'
  <2> PICK session \in Session : sessions' = [sessions EXCEPT ![loc[r].token] = session]
    BY <1>10, AcceptEffect
  <2>1. /\ pc' = [pc EXCEPT ![r] = "accepted"] /\ loc' = [loc EXCEPT ![r] = NoLocals]
        /\ UNCHANGED <<now, idle>> /\ time \in Nat /\ loc[r].at <= time
        /\ loc[r].token \in Tokens /\ pc[r] = "verify"
    BY <1>10, AcceptEffect DEF Accept
  <2>2. loc[r].token \notin idle
    <3>1. ~Expired(loc[r].session, loc[r].at)
      BY <1>10, <2>1, Times DEF Accept, Expired, Busy
    <3> QED
      BY <2>1, <3>1 DEF IdleInv
  <2> QED
    BY <2>1, <2>2 DEF IdleInv, TypeOK
<1> QED
  BY <1>1, <1>2, <1>3, <1>4, <1>5, <1>6, <1>7, <1>8, <1>9, <1>10, StepCases

-----------------------------------------------------------------------------
LEMMA StepInv ==
  ASSUME IInv, [Next]_vars
  PROVE  IInv'
<1>1. TypeOK' /\ PastInv'
  BY StepTypes, StepPast
<1>2. FreshInv'
  BY StepFresh
<1>3. EndedInv' /\ IdleInv'
  BY StepEnded, StepIdle
<1> QED
  BY <1>1, <1>2, <1>3 DEF IInv

\* The inductive invariant holds in every reachable state.
THEOREM InductiveInvariant == Spec => []IInv
<1>1. Init => IInv
  BY InitInv
<1>2. IInv /\ [Next]_vars => IInv'
  BY StepInv
<1> QED
  BY <1>1, <1>2, PTL DEF Spec

\* The table, the handlers between their accesses and the histories are well
\* typed in every reachable state.
THEOREM TypeCorrect == Spec => []TypeOK
<1>1. IInv => TypeOK
  BY DEF IInv
<1> QED
  BY <1>1, InductiveInvariant, PTL

\* Once a session has been logged out with no verification of it under way, no
\* request is let through by it again (users.rs:290, 300).
THEOREM LogoutFinal == Spec => LoggedOutRefused
<1>1. ASSUME IInv, NEW r \in Requests, NEW t \in ended PROVE ~Accepts(r, t)
  BY <1>1 DEF IInv, EndedInv, Accepts
<1>2. IInv => [\A r \in Requests, t \in ended : ~Accepts(r, t)]_vars
  BY <1>1
<1> QED
  BY <1>2, InductiveInvariant, PTL DEF LoggedOutRefused

\* Once a session has been left alone for longer than the timeout, no request is
\* let through by it again (users.rs:307).
THEOREM TimeoutFinal == Spec => IdleRefused
<1>1. ASSUME IInv, [Next]_vars, NEW r \in Requests, NEW t \in idle, Accepts(r, t)
      PROVE  FALSE
  <2>1. TypeOK /\ pc[r] = "verify" /\ pc'[r] = "accepted" /\ loc[r].token = t
    BY <1>1 DEF IInv, Accepts
  <2>2. PICK time \in Clock(r) : Accept(r, time)
    <3>1. pc \in [Requests -> Steps]
      BY <2>1 DEF TypeOK
    <3>2. ASSUME NEW q \in Requests, NEW step \in Steps \ {"accepted"},
                 pc' = [pc EXCEPT ![q] = step]
          PROVE  FALSE
      BY <2>1, <3>1, <3>2
    <3>3. ASSUME NEW q \in Requests, NEW time \in Clock(q), Accept(q, time) PROVE q = r
      BY <2>1, <3>1, <3>3, AcceptEffect
    <3>4. ~(UNCHANGED vars \/ Tick \/ Restart)
      BY <2>1, <3>1 DEF vars, Tick, Restart
    <3>5. ASSUME NEW q \in Requests PROVE ~(Refuse(q) \/ CreateSession(q) \/ LogoutSet(q))
      BY <3>2 DEF Refuse, CreateSession, LogoutSet, Finish, Goto, Steps
    <3>6. ASSUME NEW q \in Requests, NEW x \in Tokens
          PROVE  ~(VerifyRead(q, x) \/ LogoutRead(q, x) \/ \E u \in Usernames : Login(q, u, x))
      BY <3>2 DEF VerifyRead, LogoutRead, Read, Login, Goto, Steps
    <3> QED
      BY <1>1, <3>3, <3>4, <3>5, <3>6, StepCases
  <2>3. time \in Nat /\ loc[r].at <= time /\ ~Expired(loc[r].session, time)
    BY <2>1, <2>2, AcceptEffect DEF Accept
  <2>4. ~Expired(loc[r].session, loc[r].at)
    BY <2>1, <2>3, Times, SessionsAssumption DEF Expired, Busy
  <2> QED
    BY <1>1, <2>1, <2>4 DEF IInv, IdleInv
<1>2. IInv /\ [Next]_vars => [\A r \in Requests, t \in idle : ~Accepts(r, t)]_vars
  BY <1>1
<1> QED
  BY <1>2, InductiveInvariant, PTL DEF Spec, IdleRefused

=============================================================================
