------------------------------ MODULE Accounts ------------------------------
(***************************************************************************)
(* The onboarding of users: somebody applies for an account, an admin      *)
(* approves the application and hands out a claim token, the applicant     *)
(* claims the account with the token, the server creates the user record   *)
(* and the home folder (src/src/state/users.rs, the handlers of            *)
(* src/src/web/api.rs and src/src/web/api_admin.rs).                       *)
(*                                                                         *)
(* Every access to a database table is atomic, nothing larger is: apart    *)
(* from the key and password changes (not in this module) no transaction   *)
(* spans two accesses.  Handlers run in parallel on the threads of the     *)
(* runtime, so each handler is one action per access and keeps what it     *)
(* has read in its local variables, `loc'.  A handler ends early when an   *)
(* access fails, and the process may die between any two accesses; the     *)
(* tables and the files survive.                                           *)
(***************************************************************************)

CONSTANTS
  Usernames,        \* names that occur in applications and user records
  InitialUser,      \* the configured `initial_user', made an admin on start
  InitialPassword,  \* the password configured for it
  Passwords,        \* passwords clients choose
  AppIds,           \* cuids drawn for applications
  Tokens,           \* cuids drawn for claim tokens
  Requests,         \* slots for handlers that are running
  DefaultHome,      \* the entries of the folder default-home
  Directories,      \* those of them that are directories
  None              \* an absent record or field

Application ==
  [username : Usernames, approved : BOOLEAN, claimed : BOOLEAN,
   claim_token : Tokens \cup {None}]

User == [password : Passwords, role : {"admin", "member"}]

\* Where a handler is: the database access or file operation it does next,
\* or the answer it is about to send.
ClaimSteps == {"claim_check", "claim_create", "claim_mark", "claim_spend",
               "claim_copy"}
ApproveSteps == {"approve_set", "approve_token"}
Answers == {"approved", "claimed", "refused", "failed"}
Steps == {"idle"} \cup ClaimSteps \cup ApproveSteps \cup Answers

\* The local variables of a handler; `app' is its copy of the application,
\* `todo' the directory entries create_home has still to visit.
Locals ==
  [id : AppIds \cup {None}, token : Tokens \cup {None},
   username : Usernames \cup {None}, pw : Passwords \cup {None},
   app : Application \cup {None}, todo : SUBSET DefaultHome]

NoLocals ==
  [id |-> None, token |-> None, username |-> None, pw |-> None,
   app |-> None, todo |-> {}]

ASSUME ConstantsAssumption ==
  /\ InitialUser \in Usernames
  /\ InitialPassword \in Passwords
  /\ Directories \subseteq DefaultHome
  /\ None \notin Usernames \cup Passwords \cup AppIds \cup Tokens
  /\ None \notin Application \cup User

VARIABLES
  applications,   \* table: application id -> application
  claim_tokens,   \* table: claim token -> application id
  users,          \* table: username -> user
  homes,          \* files: username -> entries in the home folder
  pc,             \* step of each running handler
  loc,            \* local variables of each running handler
  cuids,          \* identifiers drawn so far; cuid() never repeats one
  issuedFor,      \* history: token -> the application it was drawn for
  torn,           \* history: tokens of approvals cut between their two writes
  retired,        \* history: tokens that have left their application
  ousted,         \* history: claims whose account was deleted after they made it
  created         \* history: names for which a claim has created an account

tables == <<applications, claim_tokens, users, homes>>
drawn == <<cuids, issuedFor>>
history == <<torn, retired, ousted, created>>
vars == <<tables, pc, loc, drawn, history>>

-----------------------------------------------------------------------------
\* Init and Restart below share how the process comes up: the tables are as
\* they were, no handler runs, and the initial user exists.

Admin == [password |-> InitialPassword, role |-> "admin"]

\* users.set_nx writes only where there is no record.
SetNx(table, key, value) ==
  IF table[key] = None THEN [table EXCEPT ![key] = value] ELSE table

Init ==
  /\ applications = [a \in AppIds |-> None]
  /\ claim_tokens = [t \in Tokens |-> None]
  /\ users = SetNx([u \in Usernames |-> None], InitialUser, Admin)
  /\ homes = [u \in Usernames |-> {}]
  /\ pc = [r \in Requests |-> "idle"]
  /\ loc = [r \in Requests |-> NoLocals]
  /\ cuids = {}
  /\ issuedFor = [t \in Tokens |-> None]
  /\ torn = {}
  /\ retired = {}
  /\ ousted = {}
  /\ created = {}

\* The admin middleware lets a request through when its session names a user
\* whose record says so; the check is made once, before the handler runs.
AdminExists == \E u \in Usernames : users[u] # None /\ users[u].role = "admin"

\* The token an application carries, if there is such an application.
TokenOf(a) == IF applications[a] = None THEN {} ELSE {applications[a].claim_token} \ {None}

Goto(r, step) == pc' = [pc EXCEPT ![r] = step]

\* A handler returns early with an error before it has written anything.
Refuse(r) == Goto(r, "refused") /\ UNCHANGED <<tables, loc, drawn, history>>

-----------------------------------------------------------------------------
\* Operations of one access.

Apply(a, u) ==
  /\ a \notin cuids
  /\ applications' = SetNx(applications, a,
       [username |-> u, approved |-> FALSE, claimed |-> FALSE, claim_token |-> None])
  /\ cuids' = cuids \cup {a}
  /\ UNCHANGED <<claim_tokens, users, homes, pc, loc, issuedFor, history>>

DeleteApplication(a) ==
  /\ AdminExists
  /\ applications' = [applications EXCEPT ![a] = None]
  /\ retired' = retired \cup TokenOf(a)
  /\ UNCHANGED <<claim_tokens, users, homes, pc, loc, drawn, torn, ousted, created>>

\* The claims that have made the account of u: set_nx let each of them through.
\* A claim that fails after that is not undone.
Makers(u) ==
  {r \in Requests : /\ pc[r] \in {"claim_mark", "claim_spend", "claim_copy", "claimed", "failed"}
                    /\ loc[r].pw # None
                    /\ loc[r].app.username = u}

DeleteUser(u) ==
  /\ AdminExists
  /\ users' = [users EXCEPT ![u] = None]
  /\ ousted' = ousted \cup Makers(u)
  /\ UNCHANGED <<applications, claim_tokens, homes, pc, loc, drawn, torn, retired, created>>

-----------------------------------------------------------------------------
\* approve_application: read, write the application, write the token.

ApproveGet(r, a, t) ==
  /\ pc[r] = "idle"
  /\ AdminExists
  /\ \/ /\ applications[a] = None
        /\ Refuse(r)
     \/ /\ applications[a] # None
        /\ t \notin cuids
        /\ cuids' = cuids \cup {t}
        /\ issuedFor' = [issuedFor EXCEPT ![t] = a]
        /\ loc' = [loc EXCEPT ![r] = [NoLocals EXCEPT !.id = a, !.token = t,
                                                      !.app = applications[a]]]
        /\ Goto(r, "approve_set")
        /\ UNCHANGED <<tables, history>>

\* Mutant: the record update forgets the new token.
ApproveSetApplicationOldToken(r) ==
  LET a == loc[r].id IN
  /\ pc[r] = "approve_set"
  /\ applications' = [applications EXCEPT ![a] =
       [loc[r].app EXCEPT !.approved = TRUE, !.claimed = FALSE]]
  /\ retired' = retired \cup TokenOf(a)
  /\ Goto(r, "approve_token")
  /\ UNCHANGED <<claim_tokens, users, homes, loc, drawn, torn, ousted, created>>

ApproveSetApplication(r) ==
  LET a == loc[r].id IN
  /\ pc[r] = "approve_set"
  /\ applications' = [applications EXCEPT ![a] =
       [username |-> loc[r].app.username, approved |-> TRUE, claimed |-> FALSE,
        claim_token |-> loc[r].token]]
  /\ retired' = retired \cup TokenOf(a)
  /\ Goto(r, "approve_token")
  /\ UNCHANGED <<claim_tokens, users, homes, loc, drawn, torn, ousted, created>>

\* Mutant: the token is mapped to the name instead of the application.
ApproveSetTokenName(r) ==
  /\ pc[r] = "approve_token"
  /\ claim_tokens' = [claim_tokens EXCEPT ![loc[r].token] = loc[r].app.username]
  /\ Goto(r, "approved")
  /\ UNCHANGED <<applications, users, homes, loc, drawn, history>>

ApproveSetToken(r) ==
  /\ pc[r] = "approve_token"
  /\ claim_tokens' = [claim_tokens EXCEPT ![loc[r].token] = loc[r].id]
  /\ Goto(r, "approved")
  /\ UNCHANGED <<applications, users, homes, loc, drawn, history>>

-----------------------------------------------------------------------------
\* claim: six accesses in a row, then the files.

\* Mutant: the look-up takes the token out of the table.
ClaimTakeToken(r, t, u, p) ==
  /\ pc[r] = "idle"
  /\ claim_tokens[t] # None
  /\ loc' = [loc EXCEPT ![r] = [NoLocals EXCEPT !.id = claim_tokens[t], !.token = t,
                                                !.username = u, !.pw = p]]
  /\ claim_tokens' = [claim_tokens EXCEPT ![t] = None]
  /\ Goto(r, "claim_check")
  /\ UNCHANGED <<applications, users, homes, drawn, history>>

ClaimGetToken(r, t, u, p) ==
  /\ pc[r] = "idle"
  /\ \/ /\ claim_tokens[t] = None
        /\ Refuse(r)
     \/ /\ claim_tokens[t] # None
        /\ loc' = [loc EXCEPT ![r] = [NoLocals EXCEPT !.id = claim_tokens[t], !.token = t,
                                                      !.username = u, !.pw = p]]
        /\ Goto(r, "claim_check")
        /\ UNCHANGED <<tables, drawn, history>>

\* Mutant: the token is not compared with the application's.
ClaimableByAnyToken(app, token, username) ==
  app # None /\ app.approved /\ app.username = username

\* The four conditions a claim has to meet, on the application as it is now.
Claimable(app, token, username) ==
  /\ app # None
  /\ app.approved
  /\ app.claim_token = token
  /\ app.username = username

\* Mutant: the application is marked as soon as it has been checked.
ClaimMarkEarly(r) ==
  LET app == applications[loc[r].id] IN
  /\ pc[r] = "claim_check"
  /\ Claimable(app, loc[r].token, loc[r].username)
  /\ loc' = [loc EXCEPT ![r].app = app]
  /\ applications' = [applications EXCEPT ![loc[r].id].claimed = TRUE]
  /\ Goto(r, "claim_create")
  /\ UNCHANGED <<claim_tokens, users, homes, drawn, history>>

ClaimGetApplication(r) ==
  LET app == applications[loc[r].id] IN
  /\ pc[r] = "claim_check"
  /\ \/ /\ ~Claimable(app, loc[r].token, loc[r].username)
        /\ Refuse(r)
     \/ /\ Claimable(app, loc[r].token, loc[r].username)
        /\ loc' = [loc EXCEPT ![r].app = app]
        /\ Goto(r, "claim_create")
        /\ UNCHANGED <<tables, drawn, history>>

\* Mutant: set in place of set_nx.
ClaimSetUser(r) ==
  LET u == loc[r].app.username IN
  /\ pc[r] = "claim_create"
  /\ users' = [users EXCEPT ![u] = [password |-> loc[r].pw, role |-> "member"]]
  /\ created' = created \cup {u}
  /\ Goto(r, "claim_mark")
  /\ UNCHANGED <<applications, claim_tokens, homes, loc, drawn, torn, retired, ousted>>

\* set_nx answers with an error where there is a record already, and `?'
\* returns it: the claim ends without having written anything.
ClaimCreateUser(r) ==
  LET u == loc[r].app.username IN
  /\ pc[r] = "claim_create"
  /\ \/ /\ users[u] # None
        /\ Refuse(r)
     \/ /\ users[u] = None
        /\ users' = SetNx(users, u, [password |-> loc[r].pw, role |-> "member"])
        /\ created' = created \cup {u}
        /\ Goto(r, "claim_mark")
        /\ UNCHANGED <<applications, claim_tokens, homes, loc, drawn, torn, retired, ousted>>

\* Mutant: the record update leaves claim_token as it was read.
ClaimSetApplicationKeepToken(r) ==
  LET a == loc[r].id IN
  /\ pc[r] = "claim_mark"
  /\ applications' = [applications EXCEPT ![a] = [loc[r].app EXCEPT !.claimed = TRUE]]
  /\ retired' = retired \cup TokenOf(a) \cup {loc[r].token}
  /\ Goto(r, "claim_spend")
  /\ UNCHANGED <<claim_tokens, users, homes, loc, drawn, torn, ousted, created>>

\* The copy the handler read is written back, whatever happened since.
ClaimSetApplication(r) ==
  LET a == loc[r].id IN
  /\ pc[r] = "claim_mark"
  /\ applications' = [applications EXCEPT ![a] =
       [username |-> loc[r].app.username, approved |-> loc[r].app.approved,
        claimed |-> TRUE, claim_token |-> None]]
  /\ retired' = retired \cup TokenOf(a) \cup {loc[r].token}
  /\ Goto(r, "claim_spend")
  /\ UNCHANGED <<claim_tokens, users, homes, loc, drawn, torn, ousted, created>>

ClaimDeleteToken(r) ==
  /\ pc[r] = "claim_spend"
  /\ claim_tokens' = [claim_tokens EXCEPT ![loc[r].token] = None]
  /\ loc' = [loc EXCEPT ![r].todo = DefaultHome]
  /\ Goto(r, "claim_copy")
  /\ UNCHANGED <<applications, users, homes, drawn, history>>

-----------------------------------------------------------------------------
\* create_home: one entry of default-home at a time, in directory order,
\* which is any order.  std::fs::copy copies regular files only.

Visited(r, f) == loc' = [loc EXCEPT ![r].todo = @ \ {f}]

CreateHomeEntry(r, f) ==
  LET u == loc[r].app.username IN
  /\ pc[r] = "claim_copy"
  /\ f \in loc[r].todo
  /\ \/ /\ f \in homes[u]
        /\ Visited(r, f)
        /\ UNCHANGED <<homes, pc>>
     \/ /\ f \notin homes[u] \cup Directories
        /\ homes' = [homes EXCEPT ![u] = @ \cup {f}]
        /\ Visited(r, f)
        /\ UNCHANGED pc
     \/ /\ f \in Directories \ homes[u]
        /\ Goto(r, "failed")
        /\ UNCHANGED <<homes, loc>>
  /\ UNCHANGED <<applications, claim_tokens, users, drawn, history>>

\* Mutant: the answer does not wait for the copy.
ClaimDoneAtOnce(r) ==
  /\ pc[r] = "claim_copy"
  /\ Goto(r, "claimed")
  /\ UNCHANGED <<tables, loc, drawn, history>>

ClaimDone(r) ==
  /\ pc[r] = "claim_copy"
  /\ loc[r].todo = {}
  /\ Goto(r, "claimed")
  /\ UNCHANGED <<tables, loc, drawn, history>>

-----------------------------------------------------------------------------
\* The answer leaves the server and the handler is gone.
Answer(r) ==
  /\ pc[r] \in Answers
  /\ Goto(r, "idle")
  /\ loc' = [loc EXCEPT ![r] = NoLocals]
  /\ ousted' = ousted \ {r}
  /\ UNCHANGED <<tables, drawn, torn, retired, created>>

\* Tokens that an application carries while claim_tokens does not yet know them.
CutTokens(rs) == {loc[r].token : r \in {q \in rs : pc[q] = "approve_token"}}

\* An access or a file operation fails and `?' ends the handler there.
StorageError(r) ==
  /\ pc[r] \in ClaimSteps \cup ApproveSteps
  /\ Goto(r, IF pc[r] \in {"claim_check", "claim_create", "approve_set"}
             THEN "refused" ELSE "failed")
  /\ torn' = torn \cup CutTokens({r})
  /\ UNCHANGED <<tables, loc, drawn, retired, ousted, created>>

\* The process dies and is started again: tables and files stay, handlers do
\* not, and main creates the initial user if there is none.
Restart ==
  /\ pc' = [r \in Requests |-> "idle"]
  /\ loc' = [r \in Requests |-> NoLocals]
  /\ users' = SetNx(users, InitialUser, Admin)
  /\ torn' = torn \cup CutTokens(Requests)
  /\ ousted' = {}
  /\ UNCHANGED <<applications, claim_tokens, homes, drawn, retired, created>>

-----------------------------------------------------------------------------
Client ==
  \/ \E a \in AppIds, u \in Usernames : Apply(a, u)
  \/ \E a \in AppIds : DeleteApplication(a)
  \/ \E u \in Usernames : DeleteUser(u)
  \/ \E r \in Requests, a \in AppIds, t \in Tokens : ApproveGet(r, a, t)
  \/ \E r \in Requests, t \in Tokens, u \in Usernames, p \in Passwords :
       ClaimGetToken(r, t, u, p)

Handler(r) ==
  \/ ApproveSetApplication(r)
  \/ ApproveSetToken(r)
  \/ ClaimGetApplication(r)
  \/ ClaimCreateUser(r)
  \/ ClaimSetApplication(r)
  \/ ClaimDeleteToken(r)
  \/ \E f \in DefaultHome : CreateHomeEntry(r, f)
  \/ ClaimDone(r)
  \/ Answer(r)

Fault == Restart \/ \E r \in Requests : StorageError(r)

Sound == Client \/ \E r \in Requests : Handler(r)
Next == Sound \/ Fault

Spec == Init /\ [][Next]_vars

\* No access fails and the process never dies.
SoundSpec == Init /\ [][Sound]_vars

-----------------------------------------------------------------------------
(***************************************************************************)
(* Properties.                                                             *)
(***************************************************************************)

TypeOK ==
  /\ applications \in [AppIds -> Application \cup {None}]
  /\ claim_tokens \in [Tokens -> AppIds \cup {None}]
  /\ users \in [Usernames -> User \cup {None}]
  /\ homes \in [Usernames -> SUBSET DefaultHome]
  /\ pc \in [Requests -> Steps]
  /\ loc \in [Requests -> Locals]
  /\ cuids \subseteq AppIds \cup Tokens
  /\ issuedFor \in [Tokens -> AppIds \cup {None}]
  /\ torn \subseteq Tokens
  /\ retired \subseteq Tokens
  /\ ousted \subseteq Requests
  /\ created \subseteq Usernames

\* approve_application writes the application before the token (users.rs:73),
\* claim clears them in the same order (users.rs:135), and any other approval
\* or claim may come between: a token an application carries can be looked up,
\* but for an approval that is still to write it or was cut short there.
Redeemable ==
  \A a \in AppIds : \A t \in TokenOf(a) :
    \/ claim_tokens[t] = a
    \/ \E r \in Requests : pc[r] = "approve_token" /\ loc[r].id = a /\ loc[r].token = t
    \/ t \in torn

\* An approval that answers with a token (users.rs:76) has handed out one that
\* works, unless a later approval, a claim or a deletion has retired it since.
ApprovalStands ==
  \A r \in Requests : pc[r] = "approved" =>
    \/ loc[r].token \in retired
    \/ /\ loc[r].token \in TokenOf(loc[r].id)
       /\ claim_tokens[loc[r].token] = loc[r].id

\* Whatever other claims of the same name or token run beside it, a claim that
\* got past set_nx (users.rs:127) has given the account its own password, and it
\* stays so until an admin deletes the account, even if the claim fails later.
ClaimantOwnsAccount ==
  \A u \in Usernames : \A r \in Makers(u) \ ousted :
    users[u] = [password |-> loc[r].pw, role |-> "member"]

\* A claim is answered with success only when the whole default home is there
\* (users.rs:138).
ClaimedHasHome ==
  \A r \in Requests : pc[r] = "claimed" => DefaultHome \subseteq homes[loc[r].app.username]

\* The claim marks the application after the account exists (users.rs:127, 135):
\* no failure between the two leaves an application claimed for nobody.
MarkedAfterCreated ==
  \A a \in AppIds : applications[a] # None /\ applications[a].claimed =>
    applications[a].username \in created

\* Both approve and claim write back an application they read earlier
\* (users.rs:66, 121): no such stale copy brings a retired token back.
RetiredStaysRetired == \A a \in AppIds : TokenOf(a) \cap retired = {}

\* A claim that looks at the application after its token was retired, by another
\* claim of the same token or a newer approval, is refused (users.rs:113).
RetiredTokenRefused ==
  [][\A r \in Requests :
       pc[r] = "claim_check" /\ pc'[r] = "claim_create" => loc[r].token \notin retired]_vars

\* "copy the default home folder to the user's new home folder" (users.rs:144):
\* when no access and no file operation fails, a claim that has created its
\* account is not answered with an error.  To be checked of SoundSpec.
DefaultHomeCopied == \A r \in Requests : pc[r] # "failed"

-----------------------------------------------------------------------------
(***************************************************************************)
(* The inductive invariant behind these properties.                        *)
(***************************************************************************)

Approving(r) == pc[r] \in ApproveSteps \cup {"approved"}
Claiming(r) == pc[r] \in ClaimSteps \cup {"claimed"}
PastCheck(r) == Claiming(r) /\ pc[r] # "claim_check"

\* What a handler has in its local variables at each step.
LocalsInv ==
  \A r \in Requests :
    /\ Approving(r) \/ Claiming(r) => loc[r].id \in AppIds /\ loc[r].token \in Tokens
    /\ Approving(r) => loc[r].pw = None /\ loc[r].app \in Application
    /\ Claiming(r) => loc[r].username \in Usernames /\ loc[r].pw \in Passwords
    /\ PastCheck(r) => loc[r].app \in Application
    /\ pc[r] = "failed" /\ loc[r].pw # None => loc[r].app \in Application

\* Wherever a token turns up, it goes with the application it was drawn for.
TokenInv ==
  /\ \A a \in AppIds : \A t \in TokenOf(a) : issuedFor[t] = a
  /\ \A t \in Tokens : claim_tokens[t] # None => claim_tokens[t] = issuedFor[t]
  /\ \A r \in Requests : Approving(r) \/ Claiming(r) => loc[r].id = issuedFor[loc[r].token]
  /\ \A t \in Tokens : issuedFor[t] # None => t \in cuids
  /\ \A t \in retired : issuedFor[t] # None

\* Until the application is written, nobody but the approval knows its token.
FreshInv ==
  \A r \in Requests : pc[r] = "approve_set" =>
    /\ claim_tokens[loc[r].token] = None
    /\ loc[r].token \notin retired
    /\ \A a \in AppIds : loc[r].token \notin TokenOf(a)
    /\ \A q \in Requests \ {r} : Approving(q) \/ Claiming(q) => loc[q].token # loc[r].token

\* Between the two writes of an approval and between those of a claim.
WriteInv ==
  \A r \in Requests :
    /\ pc[r] = "approve_token" =>
         loc[r].token \in retired \/ loc[r].token \in TokenOf(loc[r].id)
    /\ pc[r] = "claim_spend" => loc[r].token \in retired

\* How far a claim past the check has got.
ProgressInv ==
  \A r \in Requests :
    /\ pc[r] \in {"claim_mark", "claim_spend", "claim_copy", "claimed"} =>
         loc[r].app.username \in created
    /\ pc[r] = "claim_copy" => DefaultHome \ loc[r].todo \subseteq homes[loc[r].app.username]

IInv ==
  /\ TypeOK
  /\ LocalsInv
  /\ TokenInv
  /\ FreshInv
  /\ WriteInv
  /\ ProgressInv
  /\ Redeemable
  /\ ApprovalStands
  /\ ClaimantOwnsAccount
  /\ ClaimedHasHome
  /\ MarkedAfterCreated
  /\ RetiredStaysRetired

=============================================================================
