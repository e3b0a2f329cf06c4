------------------------------ MODULE Sessions ------------------------------
(***************************************************************************)
(* Sessions: login makes one, every request with its cookie verifies and   *)
(* refreshes it, logout ends it, and so does a week without a request      *)
(* (src/src/state/users.rs 265-318, src/src/web/middleware.rs).            *)
(*                                                                         *)
(* Verifying and logging out read the record, decide, and write the whole  *)
(* record back; nothing keeps other handlers out in between.  The clock is *)
(* read between the two accesses, so a handler's idea of the time may be   *)
(* as old as its first access.                                             *)
(***************************************************************************)
EXTENDS Integers

CONSTANTS
  Usernames,   \* names people log in with
  Tokens,      \* cuids drawn for sessions
  Requests,    \* slots for handlers that are running
  Timeout,     \* SESSION_TIMEOUT
  MaxTime,     \* bound: the clock stops there
  None         \* no record, no token

ASSUME SessionsAssumption ==
  /\ Timeout \in Nat
  /\ MaxTime \in Nat
  /\ None \notin Tokens
  /\ None \notin [username : Usernames, last_active : Nat, logged_out : BOOLEAN]

Session == [username : Usernames, last_active : Nat, logged_out : BOOLEAN]

Steps == {"idle", "login", "verify", "logout", "accepted"}

\* What a handler keeps: the token of its cookie or the one it has drawn, the
\* session it read or is about to write, and the time of its first access.
Locals == [token : Tokens \cup {None}, session : Session \cup {None}, at : Nat]
NoLocals == [token |-> None, session |-> None, at |-> 0]

VARIABLES
  sessions,   \* table: session token -> session
  now,        \* the clock
  pc,         \* step of each running handler
  loc,        \* local variables of each running handler
  ended,      \* history: tokens logged out while no verification was under way
  idle        \* history: tokens left alone for longer than Timeout

vars == <<sessions, now, pc, loc, ended, idle>>

Init ==
  /\ sessions = [t \in Tokens |-> None]
  /\ now = 0
  /\ pc = [r \in Requests |-> "idle"]
  /\ loc = [r \in Requests |-> NoLocals]
  /\ ended = {}
  /\ idle = {}

Goto(r, step) == pc' = [pc EXCEPT ![r] = step]
Forget(r) == loc' = [loc EXCEPT ![r] = NoLocals]

\* The handler is over, with success or without.
Finish(r) == Goto(r, "idle") /\ Forget(r)
Refuse(r) == Finish(r) /\ UNCHANGED <<sessions, now, ended, idle>>

\* Handlers that have read the session of t and may still write it back alive.
Verifying(t) == {r \in Requests : pc[r] = "verify" /\ loc[r].token = t}

\* The clock as a handler reads it, some time after its first access.
Clock(r) == loc[r].at .. now

Expired(session, time) == time - session.last_active > Timeout

-----------------------------------------------------------------------------
\* login: the password has been verified, which is not modelled here; then the
\* session is drawn, stamped and written.

Login(r, u, t) ==
  /\ pc[r] = "idle"
  /\ sessions[t] = None
  /\ \A q \in Requests : loc[q].token # t
  /\ loc' = [loc EXCEPT ![r] =
       [token |-> t, at |-> now,
        session |-> [username |-> u, last_active |-> now, logged_out |-> FALSE]]]
  /\ Goto(r, "login")
  /\ UNCHANGED <<sessions, now, ended, idle>>

CreateSession(r) ==
  /\ pc[r] = "login"
  /\ sessions' = [sessions EXCEPT ![loc[r].token] = loc[r].session]
  /\ Finish(r)
  /\ UNCHANGED <<now, ended, idle>>

-----------------------------------------------------------------------------
\* verify_session, run by the middleware before the handler itself.

Read(r, t, step) ==
  /\ loc' = [loc EXCEPT ![r] = [token |-> t, session |-> sessions[t], at |-> now]]
  /\ Goto(r, step)
  /\ UNCHANGED <<sessions, now, ended, idle>>

\* Mutant: logged_out is not looked at.
UsableAny(session) == session # None

Usable(session) == session # None /\ ~session.logged_out

VerifyGet(r, t) ==
  /\ pc[r] = "idle"
  /\ \/ /\ ~Usable(sessions[t])
        /\ Refuse(r)
     \/ /\ Usable(sessions[t])
        /\ Read(r, t, "verify")

\* Mutant: the session is refreshed before it is judged.
VerifySetFirst(r, time) ==
  LET t == loc[r].token IN
  /\ pc[r] = "verify"
  /\ sessions' = [sessions EXCEPT ![t] = [loc[r].session EXCEPT !.last_active = time]]
  /\ Goto(r, IF Expired([loc[r].session EXCEPT !.last_active = time], time)
             THEN "idle" ELSE "accepted")
  /\ Forget(r)
  /\ UNCHANGED <<now, ended, idle>>

VerifySet(r, time) ==
  /\ pc[r] = "verify"
  /\ \/ /\ Expired(loc[r].session, time)
        /\ Refuse(r)
     \/ /\ ~Expired(loc[r].session, time)
        /\ sessions' = [sessions EXCEPT ![loc[r].token] =
             [loc[r].session EXCEPT !.last_active = time]]
        /\ Goto(r, "accepted")
        /\ Forget(r)
        /\ UNCHANGED <<now, ended, idle>>

-----------------------------------------------------------------------------
\* logout, which does not go through the middleware.

\* Mutant: a token without a session is logged out all the same.
LogoutGetAny(r, t) ==
  /\ pc[r] = "idle"
  /\ Read(r, t, "logout")

LogoutGet(r, t) ==
  /\ pc[r] = "idle"
  /\ \/ sessions[t] = None /\ Refuse(r)
     \/ sessions[t] # None /\ Read(r, t, "logout")

LogoutSet(r) ==
  LET t == loc[r].token IN
  /\ pc[r] = "logout"
  /\ sessions' = [sessions EXCEPT ![t] = [loc[r].session EXCEPT !.logged_out = TRUE]]
  /\ ended' = IF Verifying(t) = {} THEN ended \cup {t} ELSE ended
  /\ Finish(r)
  /\ UNCHANGED <<now, idle>>

-----------------------------------------------------------------------------
\* What the middleware has let through comes to its end, or an access fails and
\* ends a handler early.
Answer(r) ==
  /\ pc[r] # "idle"
  /\ Refuse(r)

\* The process dies and is started again; the table stays.
Restart ==
  /\ pc' = [r \in Requests |-> "idle"]
  /\ loc' = [r \in Requests |-> NoLocals]
  /\ UNCHANGED <<sessions, now, ended, idle>>

Tick ==
  /\ now < MaxTime
  /\ now' = now + 1
  /\ idle' = idle \cup {t \in Tokens : /\ sessions[t] # None
                                       /\ Expired(sessions[t], now + 1)
                                       /\ Verifying(t) = {}}
  /\ UNCHANGED <<sessions, pc, loc, ended>>

Handler(r) ==
  \/ \E u \in Usernames, t \in Tokens : Login(r, u, t)
  \/ CreateSession(r)
  \/ \E t \in Tokens : VerifyGet(r, t)
  \/ \E time \in Clock(r) : VerifySet(r, time)
  \/ \E t \in Tokens : LogoutGet(r, t)
  \/ LogoutSet(r)
  \/ Answer(r)

Next == Tick \/ Restart \/ \E r \in Requests : Handler(r)

Spec == Init /\ [][Next]_vars

-----------------------------------------------------------------------------
(***************************************************************************)
(* Properties.                                                             *)
(***************************************************************************)

Busy(r) == pc[r] \in {"login", "verify", "logout"}

\* The type invariant; between its accesses a handler holds a session.
TypeOK ==
  /\ sessions \in [Tokens -> Session \cup {None}]
  /\ now \in Nat
  /\ pc \in [Requests -> Steps]
  /\ loc \in [Requests -> Locals]
  /\ \A r \in Requests : Busy(r) => loc[r].token \in Tokens /\ loc[r].session \in Session
  /\ ended \subseteq Tokens
  /\ idle \subseteq Tokens

\* A handler is let through by the session t.
Accepts(r, t) == pc[r] = "verify" /\ pc'[r] = "accepted" /\ loc[r].token = t

\* A logout (users.rs:290) that no verification of the same session overlaps is
\* final, whatever stale copies other handlers write back: no request is let
\* through by that session again.  One that is overlapped may be undone.
LoggedOutRefused == [][\A r \in Requests, t \in ended : ~Accepts(r, t)]_vars

\* A session left alone for longer than the timeout (users.rs:307) lets no
\* request through again, although handlers judge it by the time and the copy
\* they have read, and write last_active back in any order.
IdleRefused == [][\A r \in Requests, t \in idle : ~Accepts(r, t)]_vars

-----------------------------------------------------------------------------
(***************************************************************************)
(* The inductive invariant behind these properties.                        *)
(***************************************************************************)

\* Nothing is stamped later than it was read, nor read later than now.
PastInv ==
  /\ \A t \in Tokens : sessions[t] # None => sessions[t].last_active <= now
  /\ \A r \in Requests : loc[r].at <= now
  /\ \A r \in Requests : Busy(r) => loc[r].session.last_active <= loc[r].at

\* A session that is still to be created is known to its login alone.
FreshInv ==
  \A r \in Requests : pc[r] = "login" =>
    /\ sessions[loc[r].token] = None
    /\ \A q \in Requests \ {r} : loc[q].token # loc[r].token

EndedInv ==
  \A t \in ended :
    /\ sessions[t] # None /\ sessions[t].logged_out
    /\ \A r \in Requests : pc[r] = "verify" => loc[r].token # t

IdleInv ==
  \A t \in idle :
    /\ sessions[t] # None
    /\ sessions[t].logged_out \/ Expired(sessions[t], now)
    /\ \A r \in Requests :
         pc[r] = "verify" /\ loc[r].token = t => Expired(loc[r].session, loc[r].at)

IInv == TypeOK /\ PastInv /\ FreshInv /\ EndedInv /\ IdleInv

=============================================================================
