---------------------------- MODULE AtomicRecords ----------------------------
(***************************************************************************)
(* What a user may expect of a change to a record: a request answered with *)
(* success has been carried out once, whole, on the record as it was at    *)
(* that moment; one answered with a failure has changed nothing.           *)
(***************************************************************************)

CONSTANTS
  Usernames, InitialUser, Passwords, ValidKeys, Requests, None,
  Asks   \* what requests may ask for

VARIABLES
  users,    \* the record of each account, None without one
  ask,      \* what each request asks for, None without one
  answer    \* how far the request is: none, admitted, ok or failed

vars == <<users, ask, answer>>

New(p, r) == [password |-> p, keys |-> {}, role |-> r]

Named(record, n) == {key \in record.keys : key[1] = n}

\* Whether a record allows a change, and what it makes of it.
Allowed(a, record) ==
  /\ record # None
  /\ a.op = "add" => Named(record, a.name) = {} /\ a.key \in ValidKeys
  /\ a.op = "remove" => Named(record, a.name) # {}

Changed(a, record) ==
  CASE a.op = "add" -> [record EXCEPT !.keys = @ \cup {<<a.name, a.key>>}]
    [] a.op = "remove" -> [record EXCEPT !.keys = @ \ Named(record, a.name)]
    [] a.op = "password" -> [record EXCEPT !.password = a.password]

Init ==
  /\ users = [u \in Usernames |-> None]
  /\ ask = [r \in Requests |-> None]
  /\ answer = [r \in Requests |-> "none"]

Answers(r, a) ==
  /\ answer' = [answer EXCEPT ![r] = a]
  /\ ask' = [ask EXCEPT ![r] = None]

Ask(r, a) ==
  /\ answer[r] = "none" /\ ask[r] = None
  /\ ask' = [ask EXCEPT ![r] = a]
  /\ UNCHANGED <<users, answer>>

Change(r) ==
  LET a == ask[r] IN
  /\ answer[r] = "none" /\ a # None
  /\ a.op \in {"add", "remove", "password"}
  /\ Allowed(a, users[a.user])
  /\ users' = [users EXCEPT ![a.user] = Changed(a, @)]
  /\ Answers(r, "ok")

\* Only who is an administrator is let in.
Admit(r, a) ==
  /\ answer[r] = "none" /\ ask[r] = None
  /\ users[a.user] # None /\ users[a.user].role = "admin"
  /\ ask' = [ask EXCEPT ![r] = a]
  /\ answer' = [answer EXCEPT ![r] = "admitted"]
  /\ UNCHANGED users

Delete(r) ==
  /\ answer[r] = "admitted"
  /\ ask[r].op = "delete"
  /\ users' = [users EXCEPT ![ask[r].target] = None]
  /\ Answers(r, "ok")

\* An administrator's request that leaves the users alone.
Serve(r) ==
  /\ answer[r] = "admitted"
  /\ ask[r].op # "delete"
  /\ Answers(r, "ok")
  /\ UNCHANGED users

Refuse(r) ==
  /\ answer[r] \in {"none", "admitted"}
  /\ Answers(r, "failed")
  /\ UNCHANGED users

Finish(r) ==
  /\ answer[r] \in {"ok", "failed"}
  /\ Answers(r, "none")
  /\ UNCHANGED users

\* Where there is no account, one is made, without keys and role.
Create(u) ==
  /\ users[u] = None
  /\ \E p \in Passwords : users' = [users EXCEPT ![u] = New(p, None)]
  /\ UNCHANGED <<ask, answer>>

\* All requests are lost; the initial user gets an account if it has none.
Restart ==
  /\ \/ UNCHANGED users
     \/ /\ users[InitialUser] = None
        /\ \E p \in Passwords : users' = [users EXCEPT ![InitialUser] = New(p, "admin")]
  /\ ask' = [r \in Requests |-> None]
  /\ answer' = [r \in Requests |-> "none"]

Next ==
  \/ \E r \in Requests :
       \/ \E a \in Asks : Ask(r, a) \/ Admit(r, a)
       \/ Change(r) \/ Delete(r) \/ Serve(r) \/ Refuse(r) \/ Finish(r)
  \/ \E u \in Usernames : Create(u)
  \/ Restart

Spec == Init /\ [][Next]_vars

=============================================================================
