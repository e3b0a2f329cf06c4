----------------------------- MODULE UserRecords -----------------------------
(***************************************************************************)
(* The records of the users while several requests change them: public     *)
(* keys and passwords, inside the transactions of the database, and the    *)
(* creation and deletion of records, outside (src/src/state/users.rs, with *)
(* the handlers of src/src/web/api.rs and src/src/web/api_admin.rs).       *)
(*                                                                         *)
(* A transaction is optimistic: it takes no lock, it works on the record   *)
(* it has read, and its commit fails when the record has been written by   *)
(* anyone else meanwhile.  How a claim comes to create a record is in      *)
(* Accounts; a request's session is taken to name any user.                *)
(***************************************************************************)

CONSTANTS
  Usernames,
  InitialUser,  \* the configured `initial_user', an administrator
  Passwords,
  InitialPassword,
  KeyNames,     \* what users call their public keys
  Keys,         \* what users send as a key
  ValidKeys,    \* those of them valid_public_key accepts
  AdminAsks,    \* what administrators ask for that is served elsewhere
  Requests,     \* slots for handlers that are running
  None

\* The order of the keys is left out: nothing depends on it.
Record == [password : Passwords, keys : SUBSET (KeyNames \X ValidKeys), role : {"admin", None}]

New(p, r) == [password |-> p, keys |-> {}, role |-> r]
Named(record, n) == {key \in record.keys : key[1] = n}

Changes ==
  [op : {"add"}, user : Usernames, name : KeyNames, key : Keys]
    \cup [op : {"remove"}, user : Usernames, name : KeyNames]
    \cup [op : {"password"}, user : Usernames, password : Passwords]

Deletions == [op : {"delete"}, user : Usernames, target : Usernames]

ASSUME RecordsAssumption ==
  /\ InitialUser \in Usernames
  /\ InitialPassword \in Passwords
  /\ ValidKeys \subseteq Keys
  /\ \A a \in AdminAsks : a.user \in Usernames /\ a.op \notin {"add", "remove", "password", "delete"}
  /\ None \notin Usernames \cup Record \cup Changes \cup Deletions \cup AdminAsks

Staged == [user : Usernames, record : Record]
NoWrite == [user |-> None, record |-> None]

VARIABLES
  users,     \* table: the record of each account, None without one
  pc,        \* step of each handler
  ask,       \* what its request asks for
  write,     \* what its transaction is about to write
  fresh,     \* nobody has written that record since the transaction read it
  claimed    \* history: accounts made by a claim

handlers == <<pc, ask, write>>
vars == <<users, handlers, fresh, claimed>>

Init ==
  /\ users = [u \in Usernames |-> None]
  /\ pc = [r \in Requests |-> "idle"]
  /\ ask = [r \in Requests |-> None]
  /\ write = [r \in Requests |-> NoWrite]
  /\ fresh = [r \in Requests |-> FALSE]
  /\ claimed = {}

-----------------------------------------------------------------------------
\* Mutant: only a write that leaves a record makes a transaction stale.
WriteRecordDeleteUnnoticed(u, record) ==
  /\ users' = [users EXCEPT ![u] = record]
  /\ fresh' = [r \in Requests |-> fresh[r] /\ (write[r].user = u => record = None)]

\* Every write of a record makes the transactions that have read it stale.
WriteRecord(u, record) ==
  /\ users' = [users EXCEPT ![u] = record]
  /\ fresh' = [r \in Requests |-> fresh[r] /\ write[r].user # u]

\* A handler goes on with a request, or is done with it, well or not.
Goto(r, step, a) ==
  /\ pc' = [pc EXCEPT ![r] = step]
  /\ ask' = [ask EXCEPT ![r] = a]
  /\ write' = [write EXCEPT ![r] = NoWrite]

Refuse(r) ==
  /\ Goto(r, "failed", None)
  /\ fresh' = [fresh EXCEPT ![r] = FALSE]
  /\ UNCHANGED <<users, claimed>>

\* The changed record goes into the transaction.
Stage(r, a, record) ==
  /\ pc' = [pc EXCEPT ![r] = "commit"]
  /\ ask' = [ask EXCEPT ![r] = a]
  /\ write' = [write EXCEPT ![r] = [user |-> a.user, record |-> record]]
  /\ fresh' = [fresh EXCEPT ![r] = TRUE]
  /\ UNCHANGED <<users, claimed>>

-----------------------------------------------------------------------------
\* The handlers that change a record: a transaction begins, reads the record,
\* checks what is asked, and stages the change.

\* Mutant: any text is stored as a key.
AddPublicKeyAny(r, a) ==
  LET record == users[a.user]
      accepted == record # None /\ Named(record, a.name) = {}
  IN
  /\ pc[r] = "idle" /\ a.op = "add"
  /\ \/ accepted /\ Stage(r, a, [record EXCEPT !.keys = @ \cup {<<a.name, a.key>>}])
     \/ ~accepted /\ Refuse(r)

AddPublicKey(r, a) ==
  LET record == users[a.user]
      accepted == record # None /\ a.key \in ValidKeys /\ Named(record, a.name) = {}
  IN
  /\ pc[r] = "idle" /\ a.op = "add"
  /\ \/ accepted /\ Stage(r, a, [record EXCEPT !.keys = @ \cup {<<a.name, a.key>>}])
     \/ ~accepted /\ Refuse(r)

RemovePublicKey(r, a) ==
  LET record == users[a.user]
      accepted == record # None /\ Named(record, a.name) # {}
  IN
  /\ pc[r] = "idle" /\ a.op = "remove"
  /\ \/ accepted /\ Stage(r, a, [record EXCEPT !.keys = @ \ Named(record, a.name)])
     \/ ~accepted /\ Refuse(r)

\* verify_password reads the record; its answer, which is also no when there is
\* no record, is dropped: only an error ends the handler (Fail).
VerifyPassword(r, a) ==
  /\ pc[r] = "idle" /\ a.op = "password"
  /\ Goto(r, "change", a)
  /\ UNCHANGED <<users, fresh, claimed>>

ChangePassword(r) ==
  LET a == ask[r]
      record == users[a.user]
  IN
  /\ pc[r] = "change"
  /\ \/ record # None /\ Stage(r, a, [record EXCEPT !.password = a.password])
     \/ record = None /\ Refuse(r)

\* Mutant: the transaction only looks whether the record is still there.
CommitIfThere(r) ==
  /\ pc[r] = "commit"
  /\ \/ /\ users[write[r].user] # None
        /\ WriteRecord(write[r].user, write[r].record)
        /\ Goto(r, "ok", None)
        /\ UNCHANGED claimed
     \/ users[write[r].user] = None /\ Refuse(r)

\* The transaction writes its record, unless another write came in between.
Commit(r) ==
  /\ pc[r] = "commit"
  /\ \/ /\ fresh[r]
        /\ WriteRecord(write[r].user, write[r].record)
        /\ Goto(r, "ok", None)
        /\ UNCHANGED claimed
     \/ ~fresh[r] /\ Refuse(r)

-----------------------------------------------------------------------------
\* The middleware of the administrators' requests reads the record once, before
\* the handler runs.
Admit(r, a) ==
  LET record == users[a.user]
      admin == record # None /\ record.role = "admin"
  IN
  /\ pc[r] = "idle"
  /\ \/ admin /\ Goto(r, "admitted", a) /\ UNCHANGED <<users, fresh, claimed>>
     \/ ~admin /\ Refuse(r)

DeleteUser(r) ==
  /\ pc[r] = "admitted" /\ ask[r].op = "delete"
  /\ WriteRecord(ask[r].target, None)
  /\ claimed' = claimed \ {ask[r].target}
  /\ Goto(r, "ok", None)

\* An access fails: nothing is written.
Fail(r) ==
  /\ pc[r] \in {"change", "commit", "admitted"}
  /\ Refuse(r)

Answer(r) ==
  /\ pc[r] \in {"ok", "failed"}
  /\ Goto(r, "idle", None)
  /\ UNCHANGED <<users, fresh, claimed>>

\* The step of a claim that creates the record, if there is none.
ClaimCreateUser(u, p) ==
  /\ users[u] = None
  /\ WriteRecord(u, New(p, None))
  /\ claimed' = claimed \cup {u}
  /\ UNCHANGED handlers

\* The initial user is created if it is not there.
InitialRecord ==
  [users EXCEPT ![InitialUser] =
     IF @ = None THEN New(InitialPassword, "admin") ELSE @]

\* The process dies and comes back; an error of the creation is ignored.
Restart ==
  /\ users' \in {users, InitialRecord}
  /\ pc' = [r \in Requests |-> "idle"]
  /\ ask' = [r \in Requests |-> None]
  /\ write' = [r \in Requests |-> NoWrite]
  /\ fresh' = [r \in Requests |-> FALSE]
  /\ UNCHANGED claimed

Handler(r) ==
  \/ \E a \in Changes : AddPublicKey(r, a) \/ RemovePublicKey(r, a) \/ VerifyPassword(r, a)
  \/ ChangePassword(r)
  \/ Commit(r)
  \/ \E a \in Deletions \cup AdminAsks : Admit(r, a)
  \/ DeleteUser(r)
  \/ Fail(r)
  \/ Answer(r)

Next ==
  \/ \E r \in Requests : Handler(r)
  \/ \E u \in Usernames, p \in Passwords : ClaimCreateUser(u, p)
  \/ Restart

Spec == Init /\ [][Next]_vars

-----------------------------------------------------------------------------
(***************************************************************************)
(* Properties.                                                             *)
(***************************************************************************)

\* The type invariant; every key that is stored or staged is a valid one.
TypeOK ==
  /\ users \in [Usernames -> Record \cup {None}]
  /\ pc \in [Requests -> {"idle", "change", "commit", "admitted", "ok", "failed"}]
  /\ ask \in [Requests -> Changes \cup Deletions \cup AdminAsks \cup {None}]
  /\ write \in [Requests -> Staged \cup {NoWrite}]
  /\ fresh \in [Requests -> BOOLEAN]
  /\ \A r \in Requests :
       IF pc[r] = "commit" THEN write[r] \in Staged
       ELSE write[r] = NoWrite /\ ~fresh[r]
  /\ claimed \subseteq Usernames

\* An account that somebody claimed stays, and is no administrator's, even under
\* the name of one that was deleted while changes to its record were being committed
\* (users.rs:205, 235; main.rs:31).
ClaimedIsNoAdmin ==
  \A u \in claimed : users[u] # None /\ users[u].role = None

\* However requests interleave, a change that is answered with success has been
\* made once and whole to the record as it was, one that is refused not at all,
\* and a record that comes back after its deletion starts afresh (users.rs:220).
AnswerOf(step) == IF step \in {"admitted", "ok", "failed"} THEN step ELSE "none"

Atomic == INSTANCE AtomicRecords
  WITH answer <- [r \in Requests |-> AnswerOf(pc[r])],
       Asks <- Changes \cup Deletions \cup AdminAsks

ChangesAreAtomic == Atomic!Spec

=============================================================================
