----------------------------- MODULE RecordsProofs -----------------------------
(***************************************************************************)
(* Theorems about UserRecords and Guestbook, for any number of users, keys,*)
(* entries and requests.                                                   *)
(***************************************************************************)
EXTENDS Guestbook, TLAPS

AdminRequests == Deletions \cup AdminAsks

\* What a handler asks for fits the step it is at.
AsksFit ==
  \A r \in Requests :
    /\ pc[r] \in {"idle", "ok", "failed"} => ask[r] = None
    /\ pc[r] = "change" => ask[r] \in Changes /\ ask[r].op = "password"
    /\ pc[r] = "commit" => ask[r] \in Changes /\ ask[r].user = write[r].user
    /\ pc[r] = "admitted" => ask[r] \in AdminRequests

\* While nobody else writes, what a transaction is about to write is the change
\* it was asked for, applied to the record as it is.
StagedFits ==
  \A r \in Requests : fresh[r] =>
    /\ Atomic!Allowed(ask[r], users[ask[r].user])
    /\ write[r].record = Atomic!Changed(ask[r], users[ask[r].user])

IInv == TypeOK /\ ClaimedIsNoAdmin /\ AsksFit /\ StagedFits

LEMMA InitIInv == Init => IInv
  BY DEF Init, IInv, TypeOK, ClaimedIsNoAdmin, AsksFit, StagedFits, NoWrite

-----------------------------------------------------------------------------
(* What one step does to the invariant.                                    *)

\* A request that ends, is let in or begins a change of the password.
LEMMA GotoKeeps ==
  ASSUME IInv, NEW r \in Requests, NEW step, NEW a, Goto(r, step, a),
         UNCHANGED <<users, claimed>>,
         \/ step \in {"idle", "ok", "failed"} /\ a = None
         \/ step = "change" /\ a \in Changes /\ a.op = "password"
         \/ step = "admitted" /\ a \in AdminRequests,
         \/ fresh' = [fresh EXCEPT ![r] = FALSE]
         \/ pc[r] # "commit" /\ fresh' = fresh
  PROVE  IInv'
<1>0. step # "commit"
  OBVIOUS
<1>1. ~fresh'[r] /\ \A q \in Requests \ {r} : fresh'[q] = fresh[q]
  BY DEF IInv, TypeOK
<1>2. TypeOK'
  <2>1. /\ pc' \in [Requests -> {"idle", "change", "commit", "admitted", "ok", "failed"}]
        /\ ask' \in [Requests -> Changes \cup Deletions \cup AdminAsks \cup {None}]
    BY DEF IInv, TypeOK, Goto, AdminRequests
  <2>2. fresh' \in [Requests -> BOOLEAN] /\ write' \in [Requests -> Staged \cup {NoWrite}]
    BY DEF IInv, TypeOK, Goto
  <2>3. ASSUME NEW q \in Requests
        PROVE  IF pc'[q] = "commit" THEN write'[q] \in Staged
               ELSE write'[q] = NoWrite /\ ~fresh'[q]
    <3>1. CASE q = r
      <4>1. pc'[r] = step /\ write'[r] = NoWrite
        BY DEF IInv, TypeOK, Goto
      <4> QED
        BY <1>0, <1>1, <3>1, <4>1
    <3>2. CASE q # r
      BY <1>1, <3>2 DEF IInv, TypeOK, Goto
    <3> QED
      BY <3>1, <3>2
  <2> QED
    BY <2>1, <2>2, <2>3 DEF IInv, TypeOK
<1>3. AsksFit'
  BY DEF IInv, AsksFit, Goto, TypeOK
<1>4. StagedFits'
  BY <1>1 DEF IInv, StagedFits, Goto, TypeOK
<1> QED
  BY <1>2, <1>3, <1>4 DEF IInv, ClaimedIsNoAdmin

LEMMA RefuseKeeps ==
  ASSUME IInv, NEW r \in Requests, Refuse(r)
  PROVE  IInv'
  BY GotoKeeps DEF Refuse

LEMMA StageKeeps ==
  ASSUME IInv, NEW r \in Requests, NEW a \in Changes, NEW record \in Record,
         Stage(r, a, record),
         Atomic!Allowed(a, users[a.user]),
         record = Atomic!Changed(a, users[a.user])
  PROVE  IInv'
<1>0. a.user \in Usernames
  BY DEF Changes
<1>1. /\ pc'[r] = "commit" /\ ask'[r] = a /\ fresh'[r]
      /\ write'[r] = [user |-> a.user, record |-> record]
      /\ \A q \in Requests \ {r} :
           pc'[q] = pc[q] /\ ask'[q] = ask[q] /\ fresh'[q] = fresh[q] /\ write'[q] = write[q]
  <2>1. pc \in [Requests -> {"idle", "change", "commit", "admitted", "ok", "failed"}]
    BY DEF IInv, TypeOK
  <2>2. ask \in [Requests -> Changes \cup Deletions \cup AdminAsks \cup {None}]
    BY DEF IInv, TypeOK
  <2>3. fresh \in [Requests -> BOOLEAN]
    BY DEF IInv, TypeOK
  <2>4. write \in [Requests -> Staged \cup {NoWrite}]
    BY DEF IInv, TypeOK
  <2> QED
    BY <2>1, <2>2, <2>3, <2>4 DEF Stage
<1>2. TypeOK'
  <2>1. /\ pc' \in [Requests -> {"idle", "change", "commit", "admitted", "ok", "failed"}]
        /\ ask' \in [Requests -> Changes \cup Deletions \cup AdminAsks \cup {None}]
        /\ fresh' \in [Requests -> BOOLEAN]
        /\ write' \in [Requests -> Staged \cup {NoWrite}]
    BY <1>0 DEF IInv, TypeOK, Stage, Staged
  <2>2. ASSUME NEW q \in Requests
        PROVE  IF pc'[q] = "commit" THEN write'[q] \in Staged
               ELSE write'[q] = NoWrite /\ ~fresh'[q]
    BY <1>0, <1>1 DEF IInv, TypeOK, Staged
  <2> QED
    BY <2>1, <2>2 DEF IInv, TypeOK, Stage
<1>3. AsksFit'
  BY <1>0, <1>1 DEF IInv, AsksFit
<1>4. StagedFits'
  BY <1>1 DEF IInv, StagedFits, Stage
<1> QED
  BY <1>2, <1>3, <1>4 DEF IInv, ClaimedIsNoAdmin, Stage

\* A record is written: whoever had read it is no longer fresh.
LEMMA WriteKeeps ==
  ASSUME IInv, NEW u \in Usernames, NEW record \in Record \cup {None},
         WriteRecord(u, record),
         claimed' \subseteq Usernames,
         \A v \in claimed' : v = u \/ v \in claimed,
         u \in claimed' => record # None /\ record.role = None,
         \/ UNCHANGED handlers
         \/ \E r \in Requests : Goto(r, "ok", None) /\ (fresh[r] => write[r].user = u)
  PROVE  IInv'
<1>1. /\ users'[u] = record /\ \A v \in Usernames \ {u} : users'[v] = users[v]
      /\ \A q \in Requests : fresh'[q] => fresh[q] /\ write[q].user # u
  BY DEF IInv, TypeOK, WriteRecord
<1>2. \A q \in Requests :
        \/ pc'[q] = pc[q] /\ ask'[q] = ask[q] /\ write'[q] = write[q]
        \/ pc'[q] = "ok" /\ ask'[q] = None /\ write'[q] = NoWrite /\ ~fresh'[q]
  <2>1. CASE UNCHANGED handlers
    BY <2>1 DEF handlers
  <2>2. ASSUME NEW r \in Requests, Goto(r, "ok", None), fresh[r] => write[r].user = u
        PROVE  \A q \in Requests :
                 \/ pc'[q] = pc[q] /\ ask'[q] = ask[q] /\ write'[q] = write[q]
                 \/ pc'[q] = "ok" /\ ask'[q] = None /\ write'[q] = NoWrite /\ ~fresh'[q]
    <3>1. pc'[r] = "ok" /\ ask'[r] = None /\ write'[r] = NoWrite /\ ~fresh'[r]
      BY <1>1, <2>2 DEF IInv, TypeOK, Goto
    <3>2. \A q \in Requests \ {r} : pc'[q] = pc[q] /\ ask'[q] = ask[q] /\ write'[q] = write[q]
      BY <2>2 DEF IInv, TypeOK, Goto
    <3> QED
      BY <3>1, <3>2
  <2> QED
    BY <2>1, <2>2
<1>4. TypeOK'
  <2>1. users' \in [Usernames -> Record \cup {None}]
    BY DEF IInv, TypeOK, WriteRecord
  <2>2. /\ pc' \in [Requests -> {"idle", "change", "commit", "admitted", "ok", "failed"}]
        /\ ask' \in [Requests -> Changes \cup Deletions \cup AdminAsks \cup {None}]
    BY DEF IInv, TypeOK, Goto, handlers
  <2>3. fresh' \in [Requests -> BOOLEAN] /\ write' \in [Requests -> Staged \cup {NoWrite}]
    BY DEF IInv, TypeOK, WriteRecord, Goto, handlers
  <2>4. ASSUME NEW q \in Requests
        PROVE  IF pc'[q] = "commit" THEN write'[q] \in Staged
               ELSE write'[q] = NoWrite /\ ~fresh'[q]
    BY <1>1, <1>2 DEF IInv, TypeOK
  <2> QED
    BY <2>1, <2>2, <2>3, <2>4 DEF IInv, TypeOK
<1>5. AsksFit'
  BY <1>2 DEF IInv, AsksFit
<1>6. StagedFits'
  <2> SUFFICES ASSUME NEW q \in Requests, fresh'[q]
               PROVE  /\ Atomic!Allowed(ask[q], users[ask[q].user])'
                      /\ (write[q].record = Atomic!Changed(ask[q], users[ask[q].user]))'
    BY DEF StagedFits
  <2>1. fresh[q] /\ write[q].user # u /\ ask'[q] = ask[q] /\ write'[q] = write[q]
    BY <1>1, <1>2
  <2>2. pc[q] = "commit" /\ ask[q].user = write[q].user /\ write[q].user \in Usernames
    BY <2>1 DEF IInv, TypeOK, AsksFit, Staged
  <2> QED
    BY <1>1, <2>1, <2>2 DEF IInv, StagedFits
<1>7. ClaimedIsNoAdmin'
  BY <1>1 DEF IInv, ClaimedIsNoAdmin
<1> QED
  BY <1>4, <1>5, <1>6, <1>7 DEF IInv

LEMMA ChangesTyped ==
  ASSUME NEW a \in Changes, NEW record \in Record, Atomic!Allowed(a, record)
  PROVE  a.user \in Usernames /\ Atomic!Changed(a, record) \in Record
  BY DEF Changes, Record, Atomic!Allowed, Atomic!Changed, Atomic!Named

\* A commit that succeeds writes a change of the record that is there.
LEMMA CommitWrites ==
  ASSUME IInv, NEW r \in Requests, fresh[r]
  PROVE  /\ users[write[r].user] # None
         /\ write[r].record.role = users[write[r].user].role
<1>1. pc[r] = "commit" /\ ask[r] \in Changes /\ ask[r].user = write[r].user
  BY DEF IInv, TypeOK, AsksFit
<1>2. users[ask[r].user] \in Record
  BY <1>1 DEF IInv, TypeOK, StagedFits, Atomic!Allowed, Changes
<1> QED
  BY <1>1, <1>2 DEF IInv, StagedFits, Atomic!Allowed, Atomic!Changed, Changes, Record

LEMMA NamedSame ==
  ASSUME NEW record, NEW n
  PROVE  Atomic!Named(record, n) = Named(record, n)
  BY DEF Named, Atomic!Named

\* Every step of the users' records.
LEMMA NextKeeps ==
  ASSUME IInv, Next
  PROVE  IInv'
<1> USE RecordsAssumption
<1>1. ASSUME NEW r \in Requests, NEW a \in Changes, AddPublicKey(r, a)
      PROVE  IInv'
  <2> DEFINE record == users[a.user]
             new == [record EXCEPT !.keys = @ \cup {<<a.name, a.key>>}]
  <2>1. CASE Refuse(r)
    BY <2>1, RefuseKeeps
  <2>2. ASSUME record # None, a.key \in ValidKeys, Named(record, a.name) = {}, Stage(r, a, new)
        PROVE  IInv'
    <3>1. record \in Record
      BY <2>2 DEF IInv, TypeOK, Changes
    <3>2. Atomic!Allowed(a, record) /\ new = Atomic!Changed(a, record)
      BY <1>1, <2>2, NamedSame DEF AddPublicKey, Atomic!Allowed, Atomic!Changed
    <3> QED
      BY <2>2, <3>1, <3>2, ChangesTyped, StageKeeps
  <2> QED
    BY <1>1, <2>1, <2>2 DEF AddPublicKey
<1>2. ASSUME NEW r \in Requests, NEW a \in Changes, RemovePublicKey(r, a)
      PROVE  IInv'
  <2> DEFINE record == users[a.user]
             new == [record EXCEPT !.keys = @ \ Named(record, a.name)]
  <2>1. CASE Refuse(r)
    BY <2>1, RefuseKeeps
  <2>2. ASSUME record # None, Named(record, a.name) # {}, Stage(r, a, new)
        PROVE  IInv'
    <3>1. record \in Record
      BY <2>2 DEF IInv, TypeOK, Changes
    <3>2. Atomic!Allowed(a, record) /\ new = Atomic!Changed(a, record)
      BY <1>2, <2>2, NamedSame DEF RemovePublicKey, Atomic!Allowed, Atomic!Changed
    <3> QED
      BY <2>2, <3>1, <3>2, ChangesTyped, StageKeeps
  <2> QED
    BY <1>2, <2>1, <2>2 DEF RemovePublicKey
<1>3. ASSUME NEW r \in Requests, NEW a \in Changes, VerifyPassword(r, a)
      PROVE  IInv'
  BY <1>3, GotoKeeps DEF VerifyPassword
<1>4. ASSUME NEW r \in Requests, ChangePassword(r)
      PROVE  IInv'
  <2> DEFINE a == ask[r]
             record == users[a.user]
             new == [record EXCEPT !.password = a.password]
  <2>1. CASE Refuse(r)
    BY <2>1, RefuseKeeps
  <2>2. ASSUME record # None, Stage(r, a, new)
        PROVE  IInv'
    <3>1. a \in Changes /\ a.op = "password"
      BY <1>4 DEF IInv, AsksFit, ChangePassword
    <3>2. record \in Record
      BY <2>2, <3>1 DEF IInv, TypeOK, Changes
    <3>3. Atomic!Allowed(a, record) /\ new = Atomic!Changed(a, record)
      BY <2>2, <3>1 DEF Atomic!Allowed, Atomic!Changed
    <3> QED
      BY <2>2, <3>1, <3>2, <3>3, ChangesTyped, StageKeeps
  <2> QED
    BY <1>4, <2>1, <2>2 DEF ChangePassword
<1>5. ASSUME NEW r \in Requests, Commit(r)
      PROVE  IInv'
  <2>1. CASE Refuse(r)
    BY <2>1, RefuseKeeps
  <2>2. ASSUME fresh[r], pc[r] = "commit",
               WriteRecord(write[r].user, write[r].record), Goto(r, "ok", None), UNCHANGED claimed
        PROVE  IInv'
    <3>1. write[r].user \in Usernames /\ write[r].record \in Record /\ ask[r].user = write[r].user
      BY <2>2 DEF IInv, TypeOK, AsksFit, Staged
    <3>2. claimed \subseteq Usernames
      BY DEF IInv, TypeOK
    <3>3. write[r].record.role = users[write[r].user].role /\ users[write[r].user] # None
      BY <2>2, <3>1, CommitWrites
    <3>4. write[r].user \in claimed => write[r].record.role = None
      BY <3>1, <3>3 DEF IInv, ClaimedIsNoAdmin
    <3> QED
      BY <2>2, <3>1, <3>2, <3>4, WriteKeeps
  <2> QED
    BY <1>5, <2>1, <2>2 DEF Commit
<1>6. ASSUME NEW r \in Requests, NEW a \in AdminRequests, Admit(r, a)
      PROVE  IInv'
  <2>1. CASE Refuse(r)
    BY <2>1, RefuseKeeps
  <2>2. CASE pc[r] = "idle" /\ Goto(r, "admitted", a) /\ UNCHANGED <<users, fresh, claimed>>
    BY <2>2, GotoKeeps
  <2> QED
    BY <1>6, <2>1, <2>2 DEF Admit
<1>7. ASSUME NEW r \in Requests, DeleteUser(r)
      PROVE  IInv'
  <2>1. ask[r].target \in Usernames
    BY <1>7 DEF DeleteUser, IInv, AsksFit, AdminRequests, Deletions
  <2>2. ~fresh[r]
    BY <1>7 DEF DeleteUser, IInv, TypeOK
  <2>3. claimed \subseteq Usernames
    BY DEF IInv, TypeOK
  <2> QED
    BY <1>7, <2>1, <2>2, <2>3, WriteKeeps DEF DeleteUser
<1>8. ASSUME NEW r \in Requests, Refuse(r)
      PROVE  IInv'
  BY <1>8, RefuseKeeps
<1>9. ASSUME NEW r \in Requests, Answer(r)
      PROVE  IInv'
  BY <1>9, GotoKeeps DEF Answer
<1>10. ASSUME NEW u \in Usernames, NEW p \in Passwords, ClaimCreateUser(u, p)
       PROVE  IInv'
  <2>1. New(p, None) \in Record /\ New(p, None).role = None
    BY DEF New, Record
  <2>2. claimed \subseteq Usernames
    BY DEF IInv, TypeOK
  <2> QED
    BY <1>10, <2>1, <2>2, WriteKeeps DEF ClaimCreateUser
<1>11. CASE Restart
  <2>1. users' \in [Usernames -> Record \cup {None}]
    BY <1>11 DEF Restart, InitialRecord, IInv, TypeOK, New, Record
  <2>2. \A u \in Usernames : users[u] # None => users'[u] = users[u]
    BY <1>11 DEF Restart, InitialRecord, IInv, TypeOK
  <2> QED
    BY <1>11, <2>1, <2>2 DEF Restart, IInv, TypeOK, ClaimedIsNoAdmin, AsksFit, StagedFits
<1> QED
  BY <1>1, <1>2, <1>3, <1>4, <1>5, <1>6, <1>7, <1>8, <1>9, <1>10, <1>11
     DEF Next, Handler, Fail, AdminRequests

-----------------------------------------------------------------------------
(* Every step of the users' records is one of the abstract ones.           *)

Answers == [r \in Requests |-> AnswerOf(pc[r])]

LEMMA AnswersGoto ==
  ASSUME TypeOK, NEW r \in Requests, NEW step, pc' = [pc EXCEPT ![r] = step]
  PROVE  Answers' = [Answers EXCEPT ![r] = AnswerOf(step)]
  BY DEF TypeOK, Answers

LEMMA RefuseRefuses ==
  ASSUME IInv, NEW r \in Requests, Refuse(r), pc[r] \notin {"ok", "failed"}
  PROVE  Atomic!Next
<1>1. Answers' = [Answers EXCEPT ![r] = "failed"]
  BY AnswersGoto DEF IInv, Refuse, Goto, AnswerOf
<1>2. Atomic!Refuse(r)
  BY <1>1 DEF Atomic!Refuse, Atomic!Answers, Refuse, Goto, Answers, AnswerOf, IInv, TypeOK
<1> QED
  BY <1>2 DEF Atomic!Next

\* A first step takes up the request, with its transaction or without.
LEMMA BeginsAsk ==
  ASSUME IInv, NEW r \in Requests, NEW a \in Changes, NEW step \in {"change", "commit"},
         pc[r] = "idle", pc' = [pc EXCEPT ![r] = step], ask' = [ask EXCEPT ![r] = a],
         UNCHANGED users
  PROVE  Atomic!Next
<1>1. Answers' = [Answers EXCEPT ![r] = "none"] /\ Answers[r] = "none" /\ ask[r] = None
  BY AnswersGoto DEF IInv, AnswerOf, Answers, AsksFit
<1>2. Answers' = Answers
  BY <1>1 DEF Answers
<1>3. Atomic!Ask(r, a)
  BY <1>1, <1>2 DEF Atomic!Ask, Answers
<1> QED
  BY <1>3 DEF Atomic!Next

LEMMA NextRefines ==
  ASSUME IInv, Next
  PROVE  [Atomic!Next]_(Atomic!vars)
<1> USE RecordsAssumption
<1>1. ASSUME NEW r \in Requests, NEW a \in Changes, AddPublicKey(r, a)
      PROVE  Atomic!Next
  BY <1>1, RefuseRefuses, BeginsAsk DEF AddPublicKey, Stage
<1>2. ASSUME NEW r \in Requests, NEW a \in Changes, RemovePublicKey(r, a)
      PROVE  Atomic!Next
  BY <1>2, RefuseRefuses, BeginsAsk DEF RemovePublicKey, Stage
<1>3. ASSUME NEW r \in Requests, NEW a \in Changes, VerifyPassword(r, a)
      PROVE  Atomic!Next
  BY <1>3, BeginsAsk DEF VerifyPassword, Goto
<1>4. ASSUME NEW r \in Requests, ChangePassword(r)
      PROVE  [Atomic!Next]_(Atomic!vars)
  <2>1. CASE Refuse(r)
    BY <1>4, <2>1, RefuseRefuses DEF ChangePassword
  <2>2. CASE \E record : Stage(r, ask[r], record)
    <3>1. Answers' = [Answers EXCEPT ![r] = "none"] /\ Answers[r] = "none"
      BY <1>4, <2>2, AnswersGoto DEF ChangePassword, Stage, IInv, AnswerOf, Answers
    <3>2. Answers' = Answers /\ ask' = ask /\ users' = users
      BY <2>2, <3>1 DEF Stage, Answers, IInv, TypeOK
    <3> QED
      BY <3>2 DEF Atomic!vars, Answers
  <2> QED
    BY <1>4, <2>1, <2>2 DEF ChangePassword
<1>5. ASSUME NEW r \in Requests, Commit(r)
      PROVE  Atomic!Next
  <2>1. CASE Refuse(r)
    BY <1>5, <2>1, RefuseRefuses DEF Commit
  <2>2. ASSUME fresh[r], WriteRecord(write[r].user, write[r].record), Goto(r, "ok", None)
        PROVE  Atomic!Next
    <3>1. Answers' = [Answers EXCEPT ![r] = "ok"] /\ Answers[r] = "none"
      BY <1>5, <2>2, AnswersGoto DEF Commit, Goto, IInv, AnswerOf, Answers
    <3>2. ask[r] \in Changes /\ ask[r].user = write[r].user
      BY <1>5 DEF Commit, IInv, AsksFit
    <3>3. ask[r] # None /\ ask[r].op \in {"add", "remove", "password"}
      BY <3>2 DEF Changes
    <3>4. users' = [users EXCEPT ![ask[r].user] = Atomic!Changed(ask[r], @)]
      BY <2>2, <3>2 DEF WriteRecord, IInv, StagedFits
    <3>5. Atomic!Change(r)
      BY <2>2, <3>1, <3>3, <3>4 DEF Atomic!Change, Atomic!Answers, Goto, Answers, IInv, StagedFits
    <3> QED
      BY <3>5 DEF Atomic!Next
  <2> QED
    BY <1>5, <2>1, <2>2 DEF Commit
<1>6. ASSUME NEW r \in Requests, NEW a \in AdminRequests, Admit(r, a)
      PROVE  Atomic!Next
  <2>1. CASE Refuse(r)
    BY <1>6, <2>1, RefuseRefuses DEF Admit
  <2>2. ASSUME users[a.user] # None, users[a.user].role = "admin",
               Goto(r, "admitted", a), UNCHANGED users
        PROVE  Atomic!Next
    <3>1. Answers' = [Answers EXCEPT ![r] = "admitted"] /\ Answers[r] = "none" /\ ask[r] = None
      BY <1>6, <2>2, AnswersGoto DEF Admit, Goto, IInv, AnswerOf, Answers, AsksFit
    <3>2. Atomic!Admit(r, a)
      BY <2>2, <3>1 DEF Atomic!Admit, Goto, Answers
    <3> QED
      BY <3>2 DEF Atomic!Next, AdminRequests
  <2> QED
    BY <1>6, <2>1, <2>2 DEF Admit
<1>7. ASSUME NEW r \in Requests, DeleteUser(r)
      PROVE  Atomic!Next
  <2>1. Answers' = [Answers EXCEPT ![r] = "ok"] /\ Answers[r] = "admitted"
    BY <1>7, AnswersGoto DEF DeleteUser, Goto, IInv, AnswerOf, Answers
  <2>2. Atomic!Delete(r)
    BY <1>7, <2>1 DEF Atomic!Delete, Atomic!Answers, DeleteUser, WriteRecord, Goto, Answers
  <2> QED
    BY <2>2 DEF Atomic!Next
<1>8. ASSUME NEW r \in Requests, Fail(r)
      PROVE  Atomic!Next
  BY <1>8, RefuseRefuses DEF Fail
<1>9. ASSUME NEW r \in Requests, Answer(r)
      PROVE  Atomic!Next
  <2>1. Answers' = [Answers EXCEPT ![r] = "none"] /\ Answers[r] \in {"ok", "failed"}
    BY <1>9, AnswersGoto DEF Answer, Goto, IInv, AnswerOf, Answers
  <2>2. Atomic!Finish(r)
    BY <1>9, <2>1 DEF Atomic!Finish, Atomic!Answers, Answer, Goto, Answers
  <2> QED
    BY <2>2 DEF Atomic!Next
<1>10. ASSUME NEW u \in Usernames, NEW p \in Passwords, ClaimCreateUser(u, p)
       PROVE  Atomic!Next
  BY <1>10 DEF ClaimCreateUser, WriteRecord, New, handlers, Atomic!Create, Atomic!New, Atomic!Next
<1>11. CASE Restart
  <2>1. Answers' = [r \in Requests |-> "none"] /\ ask' = [r \in Requests |-> None]
    BY <1>11 DEF Restart, Answers, AnswerOf
  <2>2. \/ UNCHANGED users
        \/ users[InitialUser] = None /\ users' = [users EXCEPT ![InitialUser] = New(InitialPassword, "admin")]
    BY <1>11 DEF Restart, InitialRecord, IInv, TypeOK
  <2>3. Atomic!Restart
    BY <2>1, <2>2 DEF Atomic!Restart, Atomic!New, New, Answers
  <2> QED
    BY <2>3 DEF Atomic!Next
<1> QED
  BY <1>1, <1>2, <1>3, <1>4, <1>5, <1>6, <1>7, <1>8, <1>9, <1>10, <1>11
     DEF Next, Handler, AdminRequests

-----------------------------------------------------------------------------
(* The guestbook.                                                          *)

Entry == [message : Messages, approved : BOOLEAN]

\* A copy that is about to be written back is of an entry that is there and that
\* an administrator asked for, and has its text.
BookInv ==
  /\ guestbook \in [Entries -> Entry \cup {None}]
  /\ copy \in [Requests -> Entry \cup {NoCopy}]
  /\ \A r \in Requests :
       /\ pc[r] = "admitted" /\ ask[r].op = "approve" => ask[r].entry \in requested
       /\ copy[r] # NoCopy =>
            /\ pc[r] = "admitted" /\ ask[r].op = "approve"
            /\ guestbook[ask[r].entry] # None
            /\ copy[r].message = guestbook[ask[r].entry].message
  /\ Approved \subseteq requested
  /\ requested \subseteq Entries

BookIInv == IInv /\ BookInv

LEMMA AskedEntry ==
  ASSUME IInv, NEW r \in Requests, pc[r] = "admitted", ask[r].op = "approve"
  PROVE  ask[r].entry \in Entries
  BY GuestbookAssumption DEF IInv, AsksFit, AdminRequests, Deletions, Approvals

\* A request is let in from idle, and then stays as it is until it ends.
LEMMA WhoIsAdmitted ==
  ASSUME IInv, Next, NEW r \in Requests, pc'[r] = "admitted"
  PROVE  \/ pc[r] = "idle"
         \/ pc[r] = "admitted" /\ ask'[r] = ask[r]
<1> USE DEF IInv, TypeOK
<1>1. CASE \E q \in Requests, a \in Changes :
             AddPublicKey(q, a) \/ RemovePublicKey(q, a) \/ VerifyPassword(q, a)
  BY <1>1 DEF AddPublicKey, RemovePublicKey, VerifyPassword, Stage, Refuse, Goto
<1>2. CASE \E q \in Requests : ChangePassword(q) \/ Commit(q)
  BY <1>2 DEF ChangePassword, Commit, Stage, Refuse, Goto
<1>3. CASE \E q \in Requests, a \in AdminRequests : Admit(q, a)
  BY <1>3 DEF Admit, Refuse, Goto
<1>4. CASE \E q \in Requests : DeleteUser(q) \/ Fail(q) \/ Answer(q)
  BY <1>4 DEF DeleteUser, Fail, Answer, Refuse, Goto
<1>5. CASE \E u \in Usernames, p \in Passwords : ClaimCreateUser(u, p)
  BY <1>5 DEF ClaimCreateUser, handlers
<1>6. CASE Restart
  BY <1>6 DEF Restart
<1> QED
  BY <1>1, <1>2, <1>3, <1>4, <1>5, <1>6 DEF Next, Handler, AdminRequests

LEMMA GuestbookInitOK == GuestbookInit => BookIInv
<1> SUFFICES ASSUME GuestbookInit PROVE BookIInv
  OBVIOUS
<1>1. IInv
  BY InitIInv DEF GuestbookInit
<1>2. BookInv
  BY GuestbookAssumption DEF GuestbookInit, Init, BookInv, Approved, NoCopy
<1> QED
  BY <1>1, <1>2 DEF BookIInv

LEMMA GuestbookKeeps ==
  ASSUME BookIInv, GuestbookNext
  PROVE  BookIInv'
<1> USE GuestbookAssumption DEF BookIInv
<1>1. CASE UserStep
  <2>1. IInv'
    BY <1>1, NextKeeps DEF UserStep
  <2>2. copy' \in [Requests -> Entry \cup {NoCopy}] /\ UNCHANGED guestbook
    BY <1>1 DEF UserStep, BookInv
  <2>3. \A r \in Requests : pc'[r] = "admitted" /\ ask'[r].op = "approve" => ask'[r].entry \in requested'
    BY <1>1 DEF UserStep
  <2>4. requested \subseteq requested' /\ requested' \subseteq Entries
    <3>1. \A r \in Requests : pc'[r] = "admitted" /\ ask'[r].op = "approve" => ask'[r].entry \in Entries
      BY <2>1 DEF IInv, AsksFit, AdminRequests, Deletions, Approvals
    <3> QED
      BY <1>1, <3>1 DEF UserStep, BookInv
  <2>5. ASSUME NEW r \in Requests, copy'[r] # NoCopy
        PROVE  /\ pc'[r] = "admitted" /\ ask'[r].op = "approve"
               /\ guestbook[ask'[r].entry] # None
               /\ copy'[r].message = guestbook[ask'[r].entry].message
    <3>1. pc'[r] = "admitted" /\ copy'[r] = copy[r]
      BY <1>1, <2>5 DEF UserStep
    <3>2. pc[r] = "admitted" /\ ask'[r] = ask[r]
      BY <1>1, <2>5, <3>1, WhoIsAdmitted DEF UserStep, BookInv
    <3> QED
      BY <2>5, <3>1, <3>2 DEF BookInv
  <2>6. BookInv'
    BY <2>2, <2>3, <2>4, <2>5 DEF BookInv, Approved
  <2> QED
    BY <2>1, <2>6
<1>2. ASSUME NEW e \in Entries, NEW m \in Messages, AddEntry(e, m)
      PROVE  BookIInv'
  <2>1. IInv'
    BY <1>2 DEF AddEntry, vars, handlers, IInv, TypeOK, ClaimedIsNoAdmin, AsksFit, StagedFits
  <2>2. BookInv'
    BY <1>2 DEF AddEntry, vars, handlers, BookInv, Approved, Entry
  <2> QED
    BY <2>1, <2>2
<1>3. ASSUME NEW r \in Requests, ApproveGet(r)
      PROVE  BookIInv'
  <2>1. CASE Refuse(r) /\ UNCHANGED copy
    <3>1. IInv'
      BY <2>1, RefuseKeeps
    <3>2. BookInv'
      BY <1>3, <2>1 DEF ApproveGet, Refuse, Goto, BookInv, Approved, IInv, TypeOK
    <3> QED
      BY <3>1, <3>2
  <2>2. CASE guestbook[ask[r].entry] # None /\ copy' = [copy EXCEPT ![r] = guestbook[ask[r].entry]] /\ UNCHANGED vars
    <3>1. IInv'
      BY <2>2 DEF vars, handlers, IInv, TypeOK, ClaimedIsNoAdmin, AsksFit, StagedFits
    <3>2. guestbook[ask[r].entry] \in Entry
      BY <1>3, <2>2, AskedEntry DEF ApproveGet, BookInv
    <3>3. BookInv'
      BY <1>3, <2>2, <3>2 DEF ApproveGet, vars, handlers, BookInv, Approved
    <3> QED
      BY <3>1, <3>3
  <2> QED
    BY <1>3, <2>1, <2>2 DEF ApproveGet
<1>4. ASSUME NEW r \in Requests, ApproveSet(r)
      PROVE  BookIInv'
  <2>1. IInv'
    <3>1. ~fresh[r] /\ pc[r] # "commit"
      BY <1>4 DEF ApproveSet, IInv, TypeOK
    <3> QED
      BY <1>4, <3>1, GotoKeeps DEF ApproveSet
  <2>2. copy[r] \in Entry /\ ask[r].entry \in Entries
    BY <1>4, AskedEntry DEF ApproveSet, BookInv
  <2>3. \A e \in Entries : guestbook[e] # None => guestbook'[e] # None /\ guestbook'[e].message = guestbook[e].message
    BY <1>4, <2>2 DEF ApproveSet, BookInv, Entry
  <2>4. ask[r].entry \in requested
    BY <1>4 DEF ApproveSet, BookInv
  <2>5. guestbook' \in [Entries -> Entry \cup {None}]
    BY <1>4, <2>2 DEF ApproveSet, BookInv, Entry
  <2>6. Approved' \subseteq requested
    BY <1>4, <2>2, <2>4 DEF ApproveSet, BookInv, Approved
  <2>7. copy' \in [Requests -> Entry \cup {NoCopy}]
    BY <1>4 DEF ApproveSet, BookInv
  <2>8. \A q \in Requests \ {r} : pc'[q] = pc[q] /\ ask'[q] = ask[q] /\ copy'[q] = copy[q]
    BY <1>4 DEF ApproveSet, Goto, BookInv, IInv, TypeOK
  <2>9. pc'[r] = "ok" /\ copy'[r] = NoCopy /\ requested' = requested
    BY <1>4 DEF ApproveSet, Goto, BookInv, IInv, TypeOK
  <2>10. ASSUME NEW q \in Requests \ {r}, copy[q] # NoCopy
         PROVE  guestbook'[ask[q].entry] # None /\ copy[q].message = guestbook'[ask[q].entry].message
    <3>1. ask[q].entry \in Entries
      BY <2>10, AskedEntry DEF BookInv
    <3> QED
      BY <2>3, <2>10, <3>1 DEF BookInv
  <2>11. BookInv'
    BY <2>5, <2>6, <2>7, <2>8, <2>9, <2>10 DEF BookInv
  <2> QED
    BY <2>1, <2>11
<1> QED
  BY <1>1, <1>2, <1>3, <1>4 DEF GuestbookNext

LEMMA InductiveInvariant == GuestbookSpec => []BookIInv
<1>1. BookIInv /\ UNCHANGED guestbookVars => BookIInv'
  BY DEF guestbookVars, vars, handlers, BookIInv, IInv, TypeOK, ClaimedIsNoAdmin, AsksFit,
         StagedFits, BookInv, Approved
<1>2. BookIInv /\ [GuestbookNext]_guestbookVars => BookIInv'
  BY <1>1, GuestbookKeeps
<1> QED
  BY <1>2, GuestbookInitOK, PTL DEF GuestbookSpec

\* No interleaving of handlers, claims, deletions and restarts takes a record, a
\* key, a transaction or a handler out of its type (users.rs:34, utils.rs:98).
THEOREM TypeCorrect == GuestbookSpec => []TypeOK
<1>1. BookIInv => TypeOK
  BY DEF BookIInv, IInv
<1> QED
  BY <1>1, InductiveInvariant, PTL

\* A claimed account stays and is nobody's but a plain user's, whatever is still
\* being committed for whoever had its name before (users.rs:205, 235).
THEOREM ClaimedStaysPlain == GuestbookSpec => []ClaimedIsNoAdmin
<1>1. BookIInv => ClaimedIsNoAdmin
  BY DEF BookIInv, IInv
<1> QED
  BY <1>1, InductiveInvariant, PTL

\* The handlers, with their transactions, implement changes that happen at once:
\* no change that was answered with success is lost (users.rs:220-262).
THEOREM RecordsImplementAtomic == GuestbookSpec => ChangesAreAtomic
<1>1. GuestbookInit => Atomic!Init
  BY DEF GuestbookInit, Init, Atomic!Init, AnswerOf
<1>2. BookIInv /\ [GuestbookNext]_guestbookVars => [Atomic!Next]_(Atomic!vars)
  <2> SUFFICES ASSUME BookIInv, [GuestbookNext]_guestbookVars
               PROVE  [Atomic!Next]_(Atomic!vars)
    OBVIOUS
  <2> USE DEF BookIInv
  <2>1. CASE UNCHANGED vars
    BY <2>1 DEF vars, handlers, Atomic!vars
  <2>2. CASE UserStep
    BY <2>2, NextRefines DEF UserStep
  <2>3. ASSUME NEW r \in Requests, ApproveGet(r), Refuse(r)
        PROVE  Atomic!Next
    BY <2>3, RefuseRefuses DEF ApproveGet
  <2>4. ASSUME NEW r \in Requests, ApproveSet(r)
        PROVE  Atomic!Next
    <3>1. Answers' = [Answers EXCEPT ![r] = "ok"] /\ Answers[r] = "admitted"
      BY <2>4, AnswersGoto DEF ApproveSet, Goto, IInv, AnswerOf, Answers
    <3>2. Atomic!Serve(r)
      BY <2>4, <3>1 DEF Atomic!Serve, Atomic!Answers, ApproveSet, Goto, Answers
    <3> QED
      BY <3>2 DEF Atomic!Next
  <2> QED
    BY <2>1, <2>2, <2>3, <2>4 DEF GuestbookNext, AddEntry, ApproveGet, guestbookVars
<1> QED
  BY <1>1, <1>2, InductiveInvariant, PTL DEF GuestbookSpec, ChangesAreAtomic, Atomic!Spec

\* The handlers implement the promise of the guestbook: copies that are written
\* back, by any number of administrators, never unlist an entry, change its text
\* or list one nobody asked for (guestbook.rs:53-66).
THEOREM GuestbookImplementsModeration == GuestbookSpec => Moderated
<1>1. GuestbookInit => ModeratedBook!Init
  BY DEF GuestbookInit, ModeratedBook!Init, Approved
<1>2. BookIInv /\ [GuestbookNext]_guestbookVars => [ModeratedBook!Next]_(ModeratedBook!vars)
  <2> SUFFICES ASSUME BookIInv, [GuestbookNext]_guestbookVars
               PROVE  [ModeratedBook!Next]_(ModeratedBook!vars)
    OBVIOUS
  <2> USE GuestbookAssumption DEF BookIInv
  <2>1. CASE UNCHANGED <<guestbook, requested>>
    BY <2>1 DEF ModeratedBook!vars, Approved
  <2>2. CASE UserStep
    <3>1. BookIInv'
      BY <2>2, GuestbookKeeps DEF GuestbookNext
    <3>2. requested \subseteq requested' /\ requested' \subseteq Entries /\ UNCHANGED guestbook
      BY <2>2, <3>1 DEF UserStep, BookInv
    <3>3. ModeratedBook!Request
      BY <3>2 DEF ModeratedBook!Request, Approved
    <3> QED
      BY <3>3 DEF ModeratedBook!Next
  <2>3. ASSUME NEW e \in Entries, NEW m \in Messages, AddEntry(e, m)
        PROVE  ModeratedBook!Next
    <3>0. [message |-> m, approved |-> FALSE] \in [message : Messages, approved : BOOLEAN]
      OBVIOUS
    <3>1. guestbook'[e] = [message |-> m, approved |-> FALSE] /\ guestbook'[e] # None
      BY <2>3, <3>0 DEF AddEntry, BookInv
    <3>2. Approved' = Approved
      BY <2>3, <3>1 DEF AddEntry, Approved, BookInv
    <3>3. ModeratedBook!Write(e)
      BY <2>3, <3>1, <3>2 DEF ModeratedBook!Write, AddEntry, BookInv
    <3> QED
      BY <3>3 DEF ModeratedBook!Next
  <2>4. ASSUME NEW r \in Requests, ApproveSet(r)
        PROVE  ModeratedBook!Next
    <3> DEFINE e == ask[r].entry
    <3>1. e \in Entries /\ e \in requested /\ guestbook[e] # None /\ guestbook[e] \in Entry
      BY <2>4, AskedEntry DEF ApproveSet, BookInv
    <3>2. copy[r] \in Entry /\ copy[r].message = guestbook[e].message
      BY <2>4 DEF ApproveSet, BookInv
    <3>3. guestbook'[e] # None /\ guestbook'[e].approved /\ guestbook'[e].message = guestbook[e].message
      BY <2>4, <3>1, <3>2 DEF ApproveSet, BookInv, Entry
    <3>4. \A d \in Entries \ {e} : guestbook'[d] = guestbook[d]
      BY <2>4 DEF ApproveSet, BookInv
    <3>5. Approved' = Approved \cup {e}
      BY <3>1, <3>3, <3>4 DEF Approved
    <3>6. \A d \in Entries : (IF guestbook'[d] = None THEN None ELSE guestbook'[d].message)
                             = (IF guestbook[d] = None THEN None ELSE guestbook[d].message)
      BY <3>1, <3>3, <3>4
    <3>7. [d \in Entries |-> IF guestbook'[d] = None THEN None ELSE guestbook'[d].message]
            = [d \in Entries |-> IF guestbook[d] = None THEN None ELSE guestbook[d].message]
      BY <3>6
    <3>8. (IF guestbook[e] = None THEN None ELSE guestbook[e].message) # None
      BY <3>1 DEF Entry
    <3>9. requested' = requested
      BY <2>4 DEF ApproveSet
    <3>10. ModeratedBook!List(e)
      BY <3>1, <3>5, <3>7, <3>8, <3>9 DEF ModeratedBook!List
    <3> QED
      BY <3>1, <3>10 DEF ModeratedBook!Next
  <2> QED
    BY <2>1, <2>2, <2>3, <2>4 DEF GuestbookNext, ApproveGet, guestbookVars
<1> QED
  BY <1>1, <1>2, InductiveInvariant, PTL DEF GuestbookSpec, Moderated, ModeratedBook!Spec

===============================================================================
