--------------------------- MODULE AccountsProofs ---------------------------
(***************************************************************************)
(* Theorems about Accounts, for any number of users, applications, tokens  *)
(* and handlers.                                                           *)
(***************************************************************************)
EXTENDS Accounts, TLAPS

-----------------------------------------------------------------------------
(* What the handlers know.                                                 *)

Basic == TypeOK /\ LocalsInv

LEMMA NoLocalsType == NoLocals \in Locals
  BY DEF NoLocals, Locals

LEMMA ApplicationUpdates ==
  ASSUME NEW app \in Application, NEW t \in Tokens \cup {None}, NEW b \in BOOLEAN, NEW c \in BOOLEAN
  PROVE  [username |-> app.username, approved |-> b, claimed |-> c, claim_token |-> t]
           \in Application
  BY DEF Application

LEMMA StepTypes ==
  Steps = {"idle", "claim_check", "claim_create", "claim_mark", "claim_spend", "claim_copy",
           "approve_set", "approve_token", "approved", "claimed", "refused", "failed"}
  BY DEF Steps, ClaimSteps, ApproveSteps, Answers

LEMMA InitBasic == Init => Basic
<1> SUFFICES ASSUME Init PROVE Basic
  OBVIOUS
<1>1. TypeOK
  BY ConstantsAssumption, NoLocalsType, StepTypes
  DEF Init, TypeOK, SetNx, Admin, User
<1>2. LocalsInv
  BY DEF Init, LocalsInv, Approving, Claiming, PastCheck, ApproveSteps, ClaimSteps
<1> QED
  BY <1>1, <1>2 DEF Basic

\* The steps that end a handler, and those that start one.
LEMMA RefuseBasic ==
  ASSUME Basic, NEW r \in Requests, Refuse(r)
  PROVE  Basic'
  BY StepTypes DEF Refuse, Goto, Basic, TypeOK, LocalsInv, Approving, Claiming, PastCheck,
     ApproveSteps, ClaimSteps, tables, drawn, history

LEMMA ApproveGetBasic ==
  ASSUME Basic, NEW r \in Requests, NEW a \in AppIds, NEW t \in Tokens, ApproveGet(r, a, t)
  PROVE  Basic'
<1>1. CASE Refuse(r)
  BY <1>1, RefuseBasic
<1>2. CASE ~Refuse(r)
  <2> DEFINE new == [NoLocals EXCEPT !.id = a, !.token = t, !.app = applications[a]]
  <2>1. /\ applications[a] \in Application
        /\ loc' = [loc EXCEPT ![r] = new]
        /\ pc' = [pc EXCEPT ![r] = "approve_set"]
        /\ cuids' = cuids \cup {t}
        /\ issuedFor' = [issuedFor EXCEPT ![t] = a]
        /\ UNCHANGED <<tables, history>>
    BY <1>2 DEF ApproveGet, Goto, Basic, TypeOK
  <2>2. new \in Locals /\ new.id = a /\ new.token = t /\ new.app = applications[a] /\ new.pw = None
    BY <2>1 DEF new, NoLocals, Locals
  <2> HIDE DEF new
  <2>3. TypeOK'
    BY <2>1, <2>2, StepTypes DEF Basic, TypeOK, tables, history
  <2>4. LocalsInv'
    BY <2>1, <2>2 DEF Basic, TypeOK, LocalsInv, Approving, Claiming, PastCheck,
       ApproveSteps, ClaimSteps
  <2> QED
    BY <2>3, <2>4 DEF Basic
<1> QED
  BY <1>1, <1>2

LEMMA ClaimGetTokenBasic ==
  ASSUME Basic, NEW r \in Requests, NEW t \in Tokens, NEW u \in Usernames, NEW p \in Passwords,
         ClaimGetToken(r, t, u, p)
  PROVE  Basic'
<1>1. CASE Refuse(r)
  BY <1>1, RefuseBasic
<1>2. CASE ~Refuse(r)
  <2> DEFINE new == [NoLocals EXCEPT !.id = claim_tokens[t], !.token = t, !.username = u, !.pw = p]
  <2>1. /\ claim_tokens[t] \in AppIds
        /\ loc' = [loc EXCEPT ![r] = new]
        /\ pc' = [pc EXCEPT ![r] = "claim_check"]
        /\ UNCHANGED <<tables, drawn, history>>
    BY <1>2 DEF ClaimGetToken, Goto, Basic, TypeOK
  <2>2. /\ new \in Locals
        /\ new.id = claim_tokens[t] /\ new.token = t /\ new.username = u /\ new.pw = p
    BY <2>1 DEF new, NoLocals, Locals
  <2> HIDE DEF new
  <2>3. TypeOK'
    BY <2>1, <2>2, StepTypes DEF Basic, TypeOK, tables, drawn, history
  <2>4. LocalsInv'
    BY <2>1, <2>2 DEF Basic, TypeOK, LocalsInv, Approving, Claiming, PastCheck,
       ApproveSteps, ClaimSteps
  <2> QED
    BY <2>3, <2>4 DEF Basic
<1> QED
  BY <1>1, <1>2

LEMMA StepBasic ==
  ASSUME Basic, [Next]_vars
  PROVE  Basic'
<1> USE ConstantsAssumption, StepTypes
    DEF Basic, TypeOK, LocalsInv, Approving, Claiming, PastCheck, ApproveSteps, ClaimSteps
<1>1. ASSUME NEW a \in AppIds, NEW u \in Usernames, Apply(a, u)
      PROVE  Basic'
  BY <1>1 DEF Apply, SetNx, Application, history
<1>2. ASSUME NEW a \in AppIds, DeleteApplication(a)
      PROVE  Basic'
  BY <1>2 DEF DeleteApplication, TokenOf, Application, drawn
<1>3. ASSUME NEW u \in Usernames, DeleteUser(u)
      PROVE  Basic'
  BY <1>3 DEF DeleteUser, Makers, drawn
<1>6. ASSUME NEW r \in Requests, ApproveSetApplication(r)
      PROVE  Basic'
  BY <1>6 DEF ApproveSetApplication, Goto, TokenOf, Application, Locals, drawn
<1>7. ASSUME NEW r \in Requests, ApproveSetToken(r)
      PROVE  Basic'
  BY <1>7 DEF ApproveSetToken, Goto, Locals, drawn, history
<1>8. ASSUME NEW r \in Requests, ClaimGetApplication(r)
      PROVE  Basic'
  <2> HIDE DEF Basic
  <2>1. CASE Refuse(r)
    BY <2>1, RefuseBasic
  <2> USE DEF Basic
  <2>2. CASE ~Refuse(r)
    <3> DEFINE app == applications[loc[r].id]
    <3>1. /\ pc[r] = "claim_check" /\ pc' = [pc EXCEPT ![r] = "claim_create"]
          /\ loc' = [loc EXCEPT ![r].app = app]
          /\ app # None
          /\ UNCHANGED <<tables, drawn, history>>
      BY <1>8, <2>2 DEF ClaimGetApplication, Claimable, Goto
    <3>2. loc[r].id \in AppIds /\ app \in Application
      BY <3>1
    <3> HIDE DEF app
    <3> QED
      BY <3>1, <3>2 DEF Locals, tables, drawn, history
  <2> QED
    BY <2>1, <2>2
<1>9. ASSUME NEW r \in Requests, ClaimCreateUser(r)
      PROVE  Basic'
  <2>1. CASE Refuse(r)
    BY <2>1, RefuseBasic
  <2>2. CASE ~Refuse(r)
    BY <1>9, <2>2, SMTT(30) DEF ClaimCreateUser, SetNx, Goto, Locals, User, Application, drawn
  <2> QED
    BY <2>1, <2>2
<1>10. ASSUME NEW r \in Requests, ClaimSetApplication(r)
       PROVE  Basic'
  BY <1>10 DEF ClaimSetApplication, Goto, TokenOf, Application, Locals, drawn
<1>11. ASSUME NEW r \in Requests, ClaimDeleteToken(r)
       PROVE  Basic'
  BY <1>11 DEF ClaimDeleteToken, Goto, Locals, drawn, history
<1>12. ASSUME NEW r \in Requests, NEW f \in DefaultHome, CreateHomeEntry(r, f)
       PROVE  Basic'
  BY <1>12, SMTT(30) DEF CreateHomeEntry, Visited, Goto, Locals, drawn, history
<1>13. ASSUME NEW r \in Requests, ClaimDone(r)
       PROVE  Basic'
  BY <1>13 DEF ClaimDone, Goto, tables, drawn, history
<1>14. ASSUME NEW r \in Requests, Answer(r)
       PROVE  Basic'
  BY <1>14, NoLocalsType DEF Answer, Answers, Goto, tables, drawn
<1>15. ASSUME NEW r \in Requests, StorageError(r)
       PROVE  Basic'
  BY <1>15 DEF StorageError, CutTokens, Goto, Locals, tables, drawn
<1>16. CASE Restart
  BY <1>16, NoLocalsType DEF Restart, CutTokens, SetNx, Admin, User, Locals, drawn
<1>17. CASE UNCHANGED vars
  BY <1>17 DEF vars, tables, drawn, history
<1> HIDE DEF Basic, TypeOK, LocalsInv
<1> QED
  BY <1>1, <1>2, <1>3, <1>6, <1>7, <1>8, <1>9, <1>10, <1>11, <1>12, <1>13, <1>14, <1>15, <1>16,
     <1>17, ApproveGetBasic, ClaimGetTokenBasic
  DEF Next, Sound, Client, Handler, Fault

-----------------------------------------------------------------------------
(* What the steps do to local variables, field by field.                   *)

Others(r) == \A q \in Requests \ {r} : loc'[q] = loc[q] /\ pc'[q] = pc[q]

LEMMA ApproveGetEffect ==
  ASSUME Basic, NEW r \in Requests, NEW a \in AppIds, NEW t \in Tokens, ApproveGet(r, a, t),
         ~Refuse(r)
  PROVE  /\ applications[a] \in Application
         /\ t \notin cuids
         /\ cuids' = cuids \cup {t}
         /\ issuedFor' = [issuedFor EXCEPT ![t] = a]
         /\ pc[r] = "idle" /\ pc'[r] = "approve_set"
         /\ loc'[r].id = a /\ loc'[r].token = t /\ loc'[r].pw = None
         /\ Others(r)
         /\ UNCHANGED <<tables, history>>
<1> DEFINE new == [NoLocals EXCEPT !.id = a, !.token = t, !.app = applications[a]]
<1>1. new.id = a /\ new.token = t /\ new.pw = None
  BY DEF new, NoLocals
<1> HIDE DEF new
<1>2. /\ applications[a] \in Application
      /\ t \notin cuids
      /\ cuids' = cuids \cup {t}
      /\ issuedFor' = [issuedFor EXCEPT ![t] = a]
      /\ pc[r] = "idle"
      /\ loc' = [loc EXCEPT ![r] = new]
      /\ pc' = [pc EXCEPT ![r] = "approve_set"]
      /\ UNCHANGED <<tables, history>>
  BY DEF ApproveGet, Goto, Basic, TypeOK, new
<1> QED
  BY <1>1, <1>2 DEF Basic, TypeOK, Others

LEMMA ClaimGetTokenEffect ==
  ASSUME Basic, NEW r \in Requests, NEW t \in Tokens, NEW u \in Usernames, NEW p \in Passwords,
         ClaimGetToken(r, t, u, p), ~Refuse(r)
  PROVE  /\ claim_tokens[t] \in AppIds
         /\ pc[r] = "idle" /\ pc'[r] = "claim_check"
         /\ loc'[r].id = claim_tokens[t] /\ loc'[r].token = t
         /\ Others(r)
         /\ UNCHANGED <<tables, drawn, history>>
<1> DEFINE new == [NoLocals EXCEPT !.id = claim_tokens[t], !.token = t, !.username = u, !.pw = p]
<1>1. new.id = claim_tokens[t] /\ new.token = t
  BY DEF new, NoLocals
<1> HIDE DEF new
<1>2. /\ claim_tokens[t] \in AppIds
      /\ pc[r] = "idle"
      /\ loc' = [loc EXCEPT ![r] = new]
      /\ pc' = [pc EXCEPT ![r] = "claim_check"]
      /\ UNCHANGED <<tables, drawn, history>>
  BY DEF ClaimGetToken, Goto, Basic, TypeOK, new
<1> QED
  BY <1>1, <1>2 DEF Basic, TypeOK, Others

LEMMA ClaimGetApplicationEffect ==
  ASSUME Basic, NEW r \in Requests, ClaimGetApplication(r), ~Refuse(r)
  PROVE  /\ loc[r].token \in TokenOf(loc[r].id)
         /\ pc[r] = "claim_check" /\ pc'[r] = "claim_create"
         /\ loc'[r].id = loc[r].id /\ loc'[r].token = loc[r].token /\ loc'[r].pw = loc[r].pw
         /\ Others(r)
         /\ UNCHANGED <<tables, drawn, history>>
<1> DEFINE app == applications[loc[r].id]
<1>1. /\ pc[r] = "claim_check" /\ pc' = [pc EXCEPT ![r] = "claim_create"]
      /\ loc' = [loc EXCEPT ![r].app = app]
      /\ app # None /\ app.claim_token = loc[r].token
      /\ UNCHANGED <<tables, drawn, history>>
  BY DEF ClaimGetApplication, Claimable, Goto
<1>2. loc[r].token \in Tokens
  BY <1>1 DEF Basic, LocalsInv, Claiming, ClaimSteps
<1>3. loc[r].token \in TokenOf(loc[r].id)
  BY <1>1, <1>2, ConstantsAssumption DEF TokenOf
<1> HIDE DEF app
<1> QED
  BY <1>1, <1>3 DEF Basic, TypeOK, Locals, Others

LEMMA CreateHomeEntryEffect ==
  ASSUME Basic, NEW r \in Requests, NEW f \in DefaultHome, CreateHomeEntry(r, f)
  PROVE  /\ pc[r] = "claim_copy" /\ pc'[r] \in {"claim_copy", "failed"}
         /\ loc'[r].id = loc[r].id /\ loc'[r].token = loc[r].token /\ loc'[r].pw = loc[r].pw
         /\ loc'[r].app = loc[r].app
         /\ pc'[r] = "claim_copy" =>
              DefaultHome \ loc'[r].todo \subseteq (DefaultHome \ loc[r].todo) \cup {f}
              /\ f \in homes'[loc[r].app.username]
         /\ \A u \in Usernames : homes[u] \subseteq homes'[u]
         /\ Others(r)
         /\ UNCHANGED <<applications, claim_tokens, users, drawn, history>>
<1>1. loc[r].app.username \in Usernames
  BY DEF CreateHomeEntry, Basic, LocalsInv, PastCheck, Claiming, ClaimSteps, Application
<1> QED
  BY <1>1 DEF CreateHomeEntry, Visited, Goto, Basic, TypeOK, Locals, Others

\* What every access to the applications does to the tokens they carry.
LEMMA TokenOfType ==
  ASSUME Basic, NEW a \in AppIds
  PROVE  TokenOf(a) \subseteq Tokens /\ \A t, s \in TokenOf(a) : t = s
  BY DEF Basic, TypeOK, TokenOf, Application

LEMMA ApplyEffect ==
  ASSUME Basic, NEW a \in AppIds, NEW u \in Usernames, Apply(a, u)
  PROVE  /\ \A b \in AppIds : TokenOf(b)' = TokenOf(b)
         /\ UNCHANGED <<claim_tokens, pc, loc, issuedFor, history>>
         /\ cuids \subseteq cuids'
<1> DEFINE new == [username |-> u, approved |-> FALSE, claimed |-> FALSE, claim_token |-> None]
<1>1. new \in Application /\ new.claim_token = None
  BY DEF Application
<1> HIDE DEF new
<1>2. applications' = SetNx(applications, a, new)
  BY DEF Apply, new
<1>3. \A b \in AppIds : TokenOf(b)' = TokenOf(b)
  BY <1>1, <1>2, ConstantsAssumption DEF SetNx, TokenOf, Basic, TypeOK
<1> QED
  BY <1>3 DEF Apply

LEMMA DeleteApplicationEffect ==
  ASSUME Basic, NEW a \in AppIds, DeleteApplication(a)
  PROVE  /\ TokenOf(a)' = {}
         /\ \A b \in AppIds \ {a} : TokenOf(b)' = TokenOf(b)
         /\ retired' = retired \cup TokenOf(a)
         /\ UNCHANGED <<claim_tokens, pc, loc, drawn, torn>>
  BY DEF DeleteApplication, TokenOf, Basic, TypeOK

LEMMA ApproveSetApplicationEffect ==
  ASSUME Basic, NEW r \in Requests, ApproveSetApplication(r)
  PROVE  /\ pc[r] = "approve_set" /\ pc'[r] = "approve_token"
         /\ loc[r].id \in AppIds /\ loc[r].token \in Tokens
         /\ TokenOf(loc[r].id)' = {loc[r].token}
         /\ \A b \in AppIds \ {loc[r].id} : TokenOf(b)' = TokenOf(b)
         /\ retired' = retired \cup TokenOf(loc[r].id)
         /\ Others(r)
         /\ UNCHANGED <<claim_tokens, loc, drawn, torn>>
<1>1. loc[r].id \in AppIds /\ loc[r].token \in Tokens /\ loc[r].token # None
  BY ConstantsAssumption DEF ApproveSetApplication, Basic, LocalsInv, Approving, ApproveSteps
<1>2. /\ applications'[loc[r].id] # None
      /\ applications'[loc[r].id].claim_token = loc[r].token
      /\ \A b \in AppIds \ {loc[r].id} : applications'[b] = applications[b]
  <2>1. applications'[loc[r].id] \in Application /\ loc[r].app \in Application
    BY ApplicationUpdates, <1>1
    DEF ApproveSetApplication, Basic, TypeOK, LocalsInv, Approving, ApproveSteps
  <2> QED
    BY <1>1, <2>1, ConstantsAssumption DEF ApproveSetApplication, Basic, TypeOK
<1>3. /\ TokenOf(loc[r].id)' = {loc[r].token}
      /\ \A b \in AppIds \ {loc[r].id} : TokenOf(b)' = TokenOf(b)
  BY <1>1, <1>2 DEF TokenOf, ApproveSetApplication
<1> QED
  BY <1>1, <1>3 DEF ApproveSetApplication, Goto, Others, Basic, TypeOK

LEMMA ClaimSetApplicationEffect ==
  ASSUME Basic, NEW r \in Requests, ClaimSetApplication(r)
  PROVE  /\ pc[r] = "claim_mark" /\ pc'[r] = "claim_spend"
         /\ loc[r].id \in AppIds /\ loc[r].token \in Tokens
         /\ TokenOf(loc[r].id)' = {}
         /\ \A b \in AppIds \ {loc[r].id} : TokenOf(b)' = TokenOf(b)
         /\ retired' = retired \cup TokenOf(loc[r].id) \cup {loc[r].token}
         /\ Others(r)
         /\ UNCHANGED <<claim_tokens, loc, drawn, torn>>
<1>1. loc[r].id \in AppIds /\ loc[r].token \in Tokens
  BY DEF ClaimSetApplication, Basic, LocalsInv, Claiming, ClaimSteps
<1>2. /\ applications'[loc[r].id].claim_token = None
      /\ \A b \in AppIds \ {loc[r].id} : applications'[b] = applications[b]
  BY <1>1 DEF ClaimSetApplication, Basic, TypeOK
<1>3. /\ TokenOf(loc[r].id)' = {}
      /\ \A b \in AppIds \ {loc[r].id} : TokenOf(b)' = TokenOf(b)
  BY <1>1, <1>2 DEF TokenOf, ClaimSetApplication
<1> QED
  BY <1>1, <1>3 DEF ClaimSetApplication, Goto, Others, Basic, TypeOK

LEMMA ApproveSetTokenEffect ==
  ASSUME Basic, NEW r \in Requests, ApproveSetToken(r)
  PROVE  /\ pc[r] = "approve_token" /\ pc'[r] = "approved"
         /\ loc[r].id \in AppIds /\ loc[r].token \in Tokens
         /\ claim_tokens'[loc[r].token] = loc[r].id
         /\ \A t \in Tokens \ {loc[r].token} : claim_tokens'[t] = claim_tokens[t]
         /\ Others(r)
         /\ UNCHANGED <<applications, loc, drawn, torn, retired>>
<1>1. loc[r].id \in AppIds /\ loc[r].token \in Tokens
  BY DEF ApproveSetToken, Basic, LocalsInv, Approving, ApproveSteps
<1> QED
  BY <1>1 DEF ApproveSetToken, Goto, Others, Basic, TypeOK, history

LEMMA ClaimDeleteTokenEffect ==
  ASSUME Basic, NEW r \in Requests, ClaimDeleteToken(r)
  PROVE  /\ pc[r] = "claim_spend" /\ pc'[r] = "claim_copy"
         /\ loc[r].id \in AppIds /\ loc[r].token \in Tokens
         /\ loc'[r].id = loc[r].id /\ loc'[r].token = loc[r].token
         /\ claim_tokens'[loc[r].token] = None
         /\ \A t \in Tokens \ {loc[r].token} : claim_tokens'[t] = claim_tokens[t]
         /\ Others(r)
         /\ UNCHANGED <<applications, drawn, torn, retired>>
<1>1. loc[r].id \in AppIds /\ loc[r].token \in Tokens
  BY DEF ClaimDeleteToken, Basic, LocalsInv, Claiming, ClaimSteps
<1> QED
  BY <1>1 DEF ClaimDeleteToken, Goto, Others, Basic, TypeOK, Locals, history

-----------------------------------------------------------------------------
(* Tokens.                                                                 *)

TokenWorld ==
  TokenInv /\ FreshInv /\ WriteInv /\ RetiredStaysRetired /\ Redeemable /\ ApprovalStands

\* Handler r moves on or ends without a token being written or read.
Quiet(r) ==
  /\ UNCHANGED <<applications, claim_tokens, issuedFor, retired>>
  /\ cuids \subseteq cuids' /\ torn \subseteq torn'
  /\ Others(r)
  /\ ~Approving(r)' /\ pc'[r] # "claim_spend"
  /\ Claiming(r)' => Claiming(r) /\ loc'[r].token = loc[r].token /\ loc'[r].id = loc[r].id
  /\ pc[r] = "approve_token" => loc[r].token \in torn'

LEMMA QuietTokens ==
  ASSUME Basic, TokenWorld, NEW r \in Requests, Quiet(r)
  PROVE  TokenWorld'
<1> USE DEF TokenWorld, Quiet, Others
<1>0. \A a \in AppIds : TokenOf(a)' = TokenOf(a)
  BY DEF TokenOf
<1>1. TokenInv'
  BY <1>0, ConstantsAssumption DEF TokenInv, Approving, Claiming
<1>2. FreshInv'
  BY <1>0 DEF FreshInv, Approving, Claiming, ApproveSteps
<1>3. WriteInv'
  <2> SUFFICES ASSUME NEW q \in Requests
               PROVE  (/\ pc[q] = "approve_token" =>
                            loc[q].token \in retired \/ loc[q].token \in TokenOf(loc[q].id)
                       /\ pc[q] = "claim_spend" => loc[q].token \in retired)'
    BY DEF WriteInv
  <2>1. CASE q = r
    BY <2>1 DEF Approving, ApproveSteps
  <2>2. CASE q # r
    BY <2>2, <1>0 DEF WriteInv, Basic, LocalsInv, Approving, ApproveSteps
  <2> QED
    BY <2>1, <2>2
<1>4. RetiredStaysRetired'
  BY <1>0 DEF RetiredStaysRetired
<1>5. Redeemable'
  BY <1>0 DEF Redeemable
<1>6. ApprovalStands'
  BY <1>0 DEF ApprovalStands, Approving, Basic, LocalsInv
<1> QED
  BY <1>1, <1>2, <1>3, <1>4, <1>5, <1>6

LEMMA QuietSteps ==
  ASSUME Basic, NEW r \in Requests,
         \/ Refuse(r) /\ pc[r] # "approve_token"
         \/ ClaimGetApplication(r)
         \/ ClaimCreateUser(r)
         \/ \E f \in DefaultHome : CreateHomeEntry(r, f)
         \/ ClaimDone(r)
         \/ Answer(r)
         \/ StorageError(r)
  PROVE  Quiet(r)
<1> USE DEF Quiet, Others, Goto, Approving, Claiming, ApproveSteps, ClaimSteps,
            tables, drawn, history
<1>1. ASSUME Refuse(r), pc[r] # "approve_token"
      PROVE  Quiet(r)
  BY <1>1 DEF Refuse, Basic, TypeOK
<1>2. CASE ClaimGetApplication(r) /\ ~Refuse(r)
  BY <1>2, ClaimGetApplicationEffect
<1>3. CASE ClaimCreateUser(r) /\ ~Refuse(r)
  BY <1>3 DEF ClaimCreateUser, Basic, TypeOK
<1>4. ASSUME NEW f \in DefaultHome, CreateHomeEntry(r, f)
      PROVE  Quiet(r)
  BY <1>4, CreateHomeEntryEffect
<1>5. CASE ClaimDone(r)
  BY <1>5 DEF ClaimDone, Basic, TypeOK
<1>6. CASE Answer(r)
  BY <1>6 DEF Answer, Answers, Basic, TypeOK
<1>7. CASE StorageError(r)
  BY <1>7 DEF StorageError, CutTokens, Basic, TypeOK
<1>8. ClaimGetApplication(r) \/ ClaimCreateUser(r) => pc[r] # "approve_token"
  BY DEF ClaimGetApplication, ClaimCreateUser
<1> QED
  BY <1>1, <1>2, <1>3, <1>4, <1>5, <1>6, <1>7, <1>8

LEMMA ApplyTokens ==
  ASSUME Basic, TokenWorld, NEW a \in AppIds, NEW u \in Usernames, Apply(a, u)
  PROVE  TokenWorld'
<1> USE ApplyEffect DEF TokenWorld, history
<1>1. TokenInv'
  BY DEF TokenInv, Approving, Claiming
<1>2. FreshInv'
  BY DEF FreshInv, Approving, Claiming
<1>3. WriteInv'
  BY DEF WriteInv, Basic, LocalsInv, Approving, ApproveSteps
<1>4. RetiredStaysRetired'
  BY DEF RetiredStaysRetired
<1>5. Redeemable'
  BY DEF Redeemable
<1>6. ApprovalStands'
  BY DEF ApprovalStands, Approving, Basic, LocalsInv
<1> QED
  BY <1>1, <1>2, <1>3, <1>4, <1>5, <1>6

LEMMA DeleteApplicationTokens ==
  ASSUME Basic, TokenWorld, NEW a \in AppIds, DeleteApplication(a)
  PROVE  TokenWorld'
<1> USE DeleteApplicationEffect DEF TokenWorld, drawn
<1>1. TokenInv'
  BY ConstantsAssumption DEF TokenInv, Approving, Claiming
<1>2. FreshInv'
  BY DEF FreshInv, Approving, Claiming
<1>3. WriteInv'
  BY DEF WriteInv, Basic, LocalsInv, Approving, ApproveSteps
<1>4. RetiredStaysRetired'
  BY DEF RetiredStaysRetired, TokenInv
<1>5. Redeemable'
  BY DEF Redeemable
<1>6. ApprovalStands'
  BY DEF ApprovalStands, Approving, Basic, LocalsInv
<1> QED
  BY <1>1, <1>2, <1>3, <1>4, <1>5, <1>6

LEMMA ApproveGetTokens ==
  ASSUME Basic, TokenWorld, NEW r \in Requests, NEW a \in AppIds, NEW t \in Tokens,
         ApproveGet(r, a, t), ~Refuse(r)
  PROVE  TokenWorld'
<1> USE ApproveGetEffect DEF TokenWorld, Others, tables, history
<1>0. \A b \in AppIds : TokenOf(b)' = TokenOf(b)
  BY DEF TokenOf
<1>1. \* nobody has seen this identifier before
      /\ issuedFor[t] = None /\ claim_tokens[t] = None /\ t \notin retired
      /\ \A b \in AppIds : t \notin TokenOf(b)
      /\ \A q \in Requests : Approving(q) \/ Claiming(q) => loc[q].token # t
  <2>1. issuedFor[t] = None
    BY DEF TokenInv
  <2> QED
    BY <2>1, ConstantsAssumption DEF TokenInv, Basic, TypeOK, LocalsInv
<1>2. TokenInv'
  <2>1. /\ issuedFor'[t] = a
        /\ \A s \in Tokens \ {t} : issuedFor'[s] = issuedFor[s]
    BY DEF Basic, TypeOK
  <2> HIDE ApproveGetEffect
  <2>2. \A b \in AppIds : \A s \in TokenOf(b) : issuedFor'[s] = b
    BY <1>1, <2>1, TokenOfType DEF TokenInv
  <2>3. \A s \in Tokens : claim_tokens[s] # None => claim_tokens[s] = issuedFor'[s]
    BY <1>1, <2>1 DEF TokenInv
  <2>4. \A q \in Requests \ {r} :
          Approving(q) \/ Claiming(q) => loc[q].id = issuedFor'[loc[q].token]
    BY <1>1, <2>1 DEF TokenInv, Basic, LocalsInv
  <2>5. /\ \A s \in Tokens : issuedFor'[s] # None => s \in cuids \cup {t}
        /\ \A s \in retired : issuedFor'[s] # None
    BY <1>1, <2>1 DEF TokenInv, Basic, TypeOK
  <2> QED
    BY <1>0, <2>1, <2>2, <2>3, <2>4, <2>5, ApproveGetEffect DEF TokenInv, Approving, Claiming
<1>3. FreshInv'
  BY <1>0, <1>1 DEF FreshInv, Approving, Claiming, ApproveSteps
<1>4. WriteInv'
  BY <1>0 DEF WriteInv, Basic, LocalsInv, Approving, ApproveSteps
<1>5. RetiredStaysRetired'
  BY <1>0 DEF RetiredStaysRetired
<1>6. Redeemable'
  BY <1>0 DEF Redeemable
<1>7. ApprovalStands'
  BY <1>0 DEF ApprovalStands, Approving, Basic, LocalsInv
<1> QED
  BY <1>2, <1>3, <1>4, <1>5, <1>6, <1>7

LEMMA ClaimGetTokenTokens ==
  ASSUME Basic, TokenWorld, NEW r \in Requests, NEW t \in Tokens, NEW u \in Usernames,
         NEW p \in Passwords, ClaimGetToken(r, t, u, p), ~Refuse(r)
  PROVE  TokenWorld'
<1> USE ClaimGetTokenEffect DEF TokenWorld, Others, tables, drawn, history
<1>0. \A b \in AppIds : TokenOf(b)' = TokenOf(b)
  BY DEF TokenOf
<1>1. claim_tokens[t] = issuedFor[t] /\ claim_tokens[t] # None
  BY ConstantsAssumption DEF TokenInv
<1>2. TokenInv'
  BY <1>0, <1>1 DEF TokenInv, Approving, Claiming, ApproveSteps
<1>3. FreshInv'
  BY <1>0, <1>1 DEF FreshInv, Approving, Claiming, ApproveSteps
<1>4. WriteInv'
  BY <1>0 DEF WriteInv, Basic, LocalsInv, Approving, ApproveSteps
<1>5. RetiredStaysRetired'
  BY <1>0 DEF RetiredStaysRetired
<1>6. Redeemable'
  BY <1>0 DEF Redeemable
<1>7. ApprovalStands'
  BY <1>0 DEF ApprovalStands, Approving, Basic, LocalsInv
<1> QED
  BY <1>2, <1>3, <1>4, <1>5, <1>6, <1>7

LEMMA ApproveSetApplicationTokens ==
  ASSUME Basic, TokenWorld, NEW r \in Requests, ApproveSetApplication(r)
  PROVE  TokenWorld'
<1> USE ApproveSetApplicationEffect DEF TokenWorld, Others, drawn
<1>1. /\ issuedFor[loc[r].token] = loc[r].id
      /\ loc[r].token \notin TokenOf(loc[r].id) \cup retired
      /\ \A q \in Requests \ {r} : Approving(q) \/ Claiming(q) => loc[q].token # loc[r].token
  BY DEF TokenInv, FreshInv, Approving, ApproveSteps
<1>2. TokenInv'
  BY <1>1, ConstantsAssumption DEF TokenInv, Approving, Claiming, ApproveSteps, ClaimSteps
<1>3. FreshInv'
  <2> SUFFICES ASSUME NEW q \in Requests, pc'[q] = "approve_set"
               PROVE  (/\ claim_tokens[loc[q].token] = None
                       /\ loc[q].token \notin retired
                       /\ \A a \in AppIds : loc[q].token \notin TokenOf(a)
                       /\ \A s \in Requests \ {q} :
                            Approving(s) \/ Claiming(s) => loc[s].token # loc[q].token)'
    BY DEF FreshInv
  <2>1. q # r /\ pc[q] = "approve_set"
    OBVIOUS
  <2>2. loc[q].token # loc[r].token
    BY <2>1 DEF FreshInv, Approving, ApproveSteps
  <2> QED
    BY <2>1, <2>2, <1>1 DEF FreshInv, Approving, Claiming, ApproveSteps, ClaimSteps
<1>4. WriteInv'
  BY <1>1 DEF WriteInv, Basic, LocalsInv, Approving, ApproveSteps
<1>5. RetiredStaysRetired'
  BY <1>1 DEF RetiredStaysRetired, TokenInv
<1>6. Redeemable'
  BY <1>1 DEF Redeemable
<1>7. ApprovalStands'
  BY <1>1 DEF ApprovalStands, Approving, Basic, LocalsInv
<1> QED
  BY <1>2, <1>3, <1>4, <1>5, <1>6, <1>7

LEMMA ApproveSetTokenTokens ==
  ASSUME Basic, TokenWorld, NEW r \in Requests, ApproveSetToken(r)
  PROVE  TokenWorld'
<1> USE ApproveSetTokenEffect DEF TokenWorld, Others, drawn
<1>0. \A b \in AppIds : TokenOf(b)' = TokenOf(b)
  BY DEF TokenOf
<1>1. issuedFor[loc[r].token] = loc[r].id
  BY DEF TokenInv, Approving, ApproveSteps
<1>2. TokenInv'
  BY <1>0, <1>1 DEF TokenInv, Approving, Claiming, ApproveSteps, ClaimSteps
<1>3. FreshInv'
  BY <1>0, <1>1 DEF FreshInv, Approving, Claiming, ApproveSteps, ClaimSteps, Basic, LocalsInv
<1>4. WriteInv'
  BY <1>0 DEF WriteInv, Basic, LocalsInv, Approving, ApproveSteps
<1>5. RetiredStaysRetired'
  BY <1>0 DEF RetiredStaysRetired
<1>6. Redeemable'
  BY <1>0, <1>1, TokenOfType DEF Redeemable, TokenInv
<1>7. ApprovalStands'
  <2> SUFFICES ASSUME NEW q \in Requests, pc'[q] = "approved", loc[q].token \notin retired
               PROVE  loc[q].token \in TokenOf(loc[q].id) /\ claim_tokens'[loc[q].token] = loc[q].id
    BY <1>0 DEF ApprovalStands, Basic, LocalsInv, Approving
  <2>1. CASE q = r
    BY <2>1 DEF WriteInv
  <2>2. CASE q # r
    BY <2>2, <1>1 DEF ApprovalStands, TokenInv, Approving, Basic, LocalsInv
  <2> QED
    BY <2>1, <2>2
<1> QED
  BY <1>2, <1>3, <1>4, <1>5, <1>6, <1>7

LEMMA ClaimSetApplicationTokens ==
  ASSUME Basic, TokenWorld, NEW r \in Requests, ClaimSetApplication(r)
  PROVE  TokenWorld'
<1> USE ClaimSetApplicationEffect DEF TokenWorld, Others, drawn
<1>1. issuedFor[loc[r].token] = loc[r].id
  BY DEF TokenInv, Claiming, ClaimSteps
<1>2. TokenInv'
  BY <1>1, ConstantsAssumption DEF TokenInv, Approving, Claiming, ApproveSteps, ClaimSteps
<1>3. FreshInv'
  BY <1>1 DEF FreshInv, Approving, Claiming, ApproveSteps, ClaimSteps
<1>4. WriteInv'
  BY <1>1 DEF WriteInv, Basic, LocalsInv, Approving, ApproveSteps
<1>5. RetiredStaysRetired'
  BY <1>1 DEF RetiredStaysRetired, TokenInv
<1>6. Redeemable'
  BY DEF Redeemable
<1>7. ApprovalStands'
  BY DEF ApprovalStands, Approving, Basic, LocalsInv
<1> QED
  BY <1>2, <1>3, <1>4, <1>5, <1>6, <1>7

LEMMA ClaimDeleteTokenTokens ==
  ASSUME Basic, TokenWorld, NEW r \in Requests, ClaimDeleteToken(r)
  PROVE  TokenWorld'
<1> USE ClaimDeleteTokenEffect DEF TokenWorld, Others, drawn
<1>0. \A b \in AppIds : TokenOf(b)' = TokenOf(b)
  BY DEF TokenOf
<1>1. loc[r].token \in retired /\ \A a \in AppIds : loc[r].token \notin TokenOf(a)
  BY DEF WriteInv, RetiredStaysRetired
<1>2. TokenInv'
  BY <1>0 DEF TokenInv, Approving, Claiming, ApproveSteps, ClaimSteps
<1>3. FreshInv'
  BY <1>0, <1>1 DEF FreshInv, Approving, Claiming, ApproveSteps, ClaimSteps, Basic, LocalsInv
<1>4. WriteInv'
  BY <1>0 DEF WriteInv, Basic, LocalsInv, Approving, ApproveSteps
<1>5. RetiredStaysRetired'
  BY <1>0 DEF RetiredStaysRetired
<1>6. Redeemable'
  BY <1>0, <1>1, TokenOfType DEF Redeemable
<1>7. ApprovalStands'
  BY <1>0, <1>1 DEF ApprovalStands, Approving, Basic, LocalsInv
<1> QED
  BY <1>2, <1>3, <1>4, <1>5, <1>6, <1>7

LEMMA RestartTokens ==
  ASSUME Basic, TokenWorld, Restart
  PROVE  TokenWorld'
<1> USE DEF TokenWorld, drawn
<1>0. /\ \A b \in AppIds : TokenOf(b)' = TokenOf(b)
      /\ \A r \in Requests : pc'[r] = "idle"
      /\ UNCHANGED <<claim_tokens, drawn, retired>>
      /\ torn' = torn \cup CutTokens(Requests)
  BY DEF Restart, TokenOf
<1>1. TokenInv'
  BY <1>0 DEF TokenInv, Approving, Claiming, ApproveSteps, ClaimSteps
<1>2. FreshInv'
  BY <1>0 DEF FreshInv
<1>3. WriteInv'
  BY <1>0 DEF WriteInv
<1>4. RetiredStaysRetired'
  BY <1>0 DEF RetiredStaysRetired
<1>5. Redeemable'
  BY <1>0 DEF Redeemable, CutTokens
<1>6. ApprovalStands'
  BY <1>0 DEF ApprovalStands
<1> QED
  BY <1>1, <1>2, <1>3, <1>4, <1>5, <1>6

LEMMA UnchangedTokens ==
  ASSUME Basic, TokenWorld,
         UNCHANGED <<applications, claim_tokens, pc, loc, drawn, torn, retired>>
  PROVE  TokenWorld'
<1> USE DEF TokenWorld, drawn
<1>0. \A b \in AppIds : TokenOf(b)' = TokenOf(b)
  BY DEF TokenOf
<1>1. TokenInv'
  BY <1>0 DEF TokenInv, Approving, Claiming
<1>2. FreshInv'
  BY <1>0 DEF FreshInv, Approving, Claiming
<1>3. WriteInv'
  BY <1>0 DEF WriteInv, Basic, LocalsInv, Approving, ApproveSteps
<1>4. RetiredStaysRetired'
  BY <1>0 DEF RetiredStaysRetired
<1>5. Redeemable'
  BY <1>0 DEF Redeemable
<1>6. ApprovalStands'
  BY <1>0 DEF ApprovalStands, Approving, Basic, LocalsInv
<1> QED
  BY <1>1, <1>2, <1>3, <1>4, <1>5, <1>6

LEMMA StepTokens ==
  ASSUME Basic, TokenWorld, [Next]_vars
  PROVE  TokenWorld'
<1>1. ASSUME NEW r \in Requests, Handler(r)
      PROVE  TokenWorld'
  BY <1>1, QuietSteps, QuietTokens, ApproveSetApplicationTokens, ApproveSetTokenTokens,
     ClaimSetApplicationTokens, ClaimDeleteTokenTokens DEF Handler
<1>2. CASE Client
  <2>1. ASSUME NEW r \in Requests, NEW a \in AppIds, NEW t \in Tokens, ApproveGet(r, a, t)
        PROVE  TokenWorld'
    <3>1. pc[r] # "approve_token"
      BY <2>1 DEF ApproveGet
    <3> QED
      BY <2>1, <3>1, QuietSteps, QuietTokens, ApproveGetTokens
  <2>2. ASSUME NEW r \in Requests, NEW t \in Tokens, NEW u \in Usernames, NEW p \in Passwords,
               ClaimGetToken(r, t, u, p)
        PROVE  TokenWorld'
    <3>1. pc[r] # "approve_token"
      BY <2>2 DEF ClaimGetToken
    <3> QED
      BY <2>2, <3>1, QuietSteps, QuietTokens, ClaimGetTokenTokens
  <2>3. ASSUME NEW u \in Usernames, DeleteUser(u)
        PROVE  TokenWorld'
    BY <2>3, UnchangedTokens DEF DeleteUser
  <2> QED
    BY <1>2, <2>1, <2>2, <2>3, ApplyTokens, DeleteApplicationTokens DEF Client
<1>3. ASSUME NEW r \in Requests, StorageError(r)
      PROVE  TokenWorld'
  BY <1>3, QuietSteps, QuietTokens
<1>4. CASE UNCHANGED vars
  BY <1>4, UnchangedTokens DEF vars, tables, history
<1> QED
  BY <1>1, <1>2, <1>3, <1>4, RestartTokens DEF Next, Sound, Fault

-----------------------------------------------------------------------------
(* Accounts and homes.                                                     *)

AccountWorld == ProgressInv /\ ClaimantOwnsAccount /\ ClaimedHasHome /\ MarkedAfterCreated

\* Handler r is not a claim that has made an account, after the step.
Outside(r) ==
  /\ UNCHANGED <<applications, users, homes, ousted, created>>
  /\ Others(r)
  /\ pc'[r] \notin {"claim_mark", "claim_spend", "claim_copy", "claimed", "failed"}

LEMMA OutsideAccounts ==
  ASSUME Basic, AccountWorld, NEW r \in Requests, Outside(r)
  PROVE  AccountWorld'
<1> USE DEF AccountWorld, Outside, Others
<1>1. ProgressInv'
  BY DEF ProgressInv
<1>2. ClaimantOwnsAccount'
  BY DEF ClaimantOwnsAccount, Makers
<1>3. ClaimedHasHome'
  BY DEF ClaimedHasHome
<1>4. MarkedAfterCreated'
  BY DEF MarkedAfterCreated
<1> QED
  BY <1>1, <1>2, <1>3, <1>4

LEMMA ClaimCreateUserAccounts ==
  ASSUME Basic, AccountWorld, NEW r \in Requests, ClaimCreateUser(r), ~Refuse(r)
  PROVE  AccountWorld'
<1> DEFINE u == loc[r].app.username
<1>1. /\ pc[r] = "claim_create" /\ pc'[r] = "claim_mark"
      /\ u \in Usernames /\ users[u] = None
      /\ users'[u] = [password |-> loc[r].pw, role |-> "member"]
      /\ \A v \in Usernames \ {u} : users'[v] = users[v]
      /\ created' = created \cup {u}
      /\ Others(r)
      /\ UNCHANGED <<applications, homes, loc, ousted>>
  BY DEF ClaimCreateUser, SetNx, Goto, Others, Basic, TypeOK, LocalsInv, PastCheck, Claiming,
     ClaimSteps, Application
<1>2. Makers(u) \subseteq ousted \* a live claim that made u would have left a record
  <2>1. \A q \in Requests :
          loc[q].pw \in Passwords => [password |-> loc[q].pw, role |-> "member"] \in User
    BY DEF User
  <2>2. \A q \in Makers(u) : loc[q].pw \in Passwords
    BY DEF Makers, Basic, TypeOK, Locals
  <2> HIDE DEF u
  <2>3. \A q \in Makers(u) \ ousted : users[u] = [password |-> loc[q].pw, role |-> "member"]
    BY <1>1 DEF AccountWorld, ClaimantOwnsAccount
  <2>4. Makers(u) \subseteq Requests
    BY DEF Makers
  <2> QED
    BY <1>1, <2>1, <2>2, <2>3, <2>4, ConstantsAssumption
<1> HIDE DEF u
<1> USE DEF AccountWorld, Others
<1>3. ProgressInv'
  BY <1>1 DEF ProgressInv, u
<1>4. ClaimantOwnsAccount'
  <2>1. \A v \in Usernames : Makers(v)' \subseteq Makers(v) \cup {r} /\ (r \in Makers(v)' => v = u)
    BY <1>1 DEF Makers, u
  <2> QED
    BY <1>1, <1>2, <2>1 DEF ClaimantOwnsAccount
<1>5. ClaimedHasHome'
  BY <1>1 DEF ClaimedHasHome
<1>6. MarkedAfterCreated'
  BY <1>1 DEF MarkedAfterCreated
<1> QED
  BY <1>3, <1>4, <1>5, <1>6

LEMMA StepAccounts ==
  ASSUME Basic, Basic', AccountWorld, [Next]_vars
  PROVE  AccountWorld'
<1> USE ConstantsAssumption
    DEF AccountWorld, ProgressInv, ClaimantOwnsAccount, ClaimedHasHome, MarkedAfterCreated,
        Makers, Basic, TypeOK, LocalsInv, Approving, Claiming, PastCheck, ApproveSteps,
        ClaimSteps, tables, drawn, history, Goto
<1>1. ASSUME NEW a \in AppIds, NEW u \in Usernames, Apply(a, u)
      PROVE  AccountWorld'
  BY <1>1 DEF Apply, SetNx
<1>2. ASSUME NEW a \in AppIds, DeleteApplication(a)
      PROVE  AccountWorld'
  BY <1>2 DEF DeleteApplication
<1>3. ASSUME NEW u \in Usernames, DeleteUser(u)
      PROVE  AccountWorld'
  BY <1>3 DEF DeleteUser
<1>4. ASSUME NEW r \in Requests, ApproveSetApplication(r)
      PROVE  AccountWorld'
  BY <1>4 DEF ApproveSetApplication
<1>5. ASSUME NEW r \in Requests, ApproveSetToken(r)
      PROVE  AccountWorld'
  BY <1>5 DEF ApproveSetToken
<1>6. ASSUME NEW r \in Requests, ClaimSetApplication(r)
      PROVE  AccountWorld'
  BY <1>6 DEF ClaimSetApplication
<1>7. ASSUME NEW r \in Requests, ClaimDeleteToken(r)
      PROVE  AccountWorld'
  BY <1>7 DEF ClaimDeleteToken
<1>8. ASSUME NEW r \in Requests, NEW f \in DefaultHome, CreateHomeEntry(r, f)
      PROVE  AccountWorld'
  BY <1>8, CreateHomeEntryEffect, SMTT(30) DEF Others
<1>9. ASSUME NEW r \in Requests, ClaimDone(r)
      PROVE  AccountWorld'
  BY <1>9 DEF ClaimDone
<1>10. ASSUME NEW r \in Requests, Answer(r)
       PROVE  AccountWorld'
  BY <1>10 DEF Answer, Answers, NoLocals
<1>11. ASSUME NEW r \in Requests, StorageError(r)
       PROVE  AccountWorld'
  BY <1>11 DEF StorageError
<1>12. CASE Restart
  BY <1>12 DEF Restart, SetNx
<1>13. CASE UNCHANGED vars
  BY <1>13 DEF vars
<1>14. ASSUME NEW r \in Requests, Refuse(r)
       PROVE  AccountWorld'
  <2>1. Outside(r)
    BY <1>14 DEF Refuse, Outside, Others
  <2> QED
    BY <2>1, OutsideAccounts
<1> HIDE DEF AccountWorld, Basic
<1>15. ASSUME NEW r \in Requests, NEW a \in AppIds, NEW t \in Tokens, ApproveGet(r, a, t),
              ~Refuse(r)
       PROVE  AccountWorld'
  <2>1. Outside(r)
    BY <1>15, ApproveGetEffect DEF Outside
  <2> QED
    BY <2>1, OutsideAccounts
<1>16. ASSUME NEW r \in Requests, NEW t \in Tokens, NEW u \in Usernames, NEW p \in Passwords,
              ClaimGetToken(r, t, u, p), ~Refuse(r)
       PROVE  AccountWorld'
  <2>1. Outside(r)
    BY <1>16, ClaimGetTokenEffect DEF Outside
  <2> QED
    BY <2>1, OutsideAccounts
<1>17. ASSUME NEW r \in Requests, ClaimGetApplication(r), ~Refuse(r)
       PROVE  AccountWorld'
  <2>1. Outside(r)
    BY <1>17, ClaimGetApplicationEffect DEF Outside
  <2> QED
    BY <2>1, OutsideAccounts
<1> QED
  BY <1>1, <1>2, <1>3, <1>4, <1>5, <1>6, <1>7, <1>8, <1>9, <1>10, <1>11, <1>12, <1>13, <1>14,
     <1>15, <1>16, <1>17, ClaimCreateUserAccounts
  DEF Next, Sound, Client, Handler, Fault

-----------------------------------------------------------------------------
(* The theorems.                                                           *)

LEMMA InitInv == Init => IInv
<1> SUFFICES ASSUME Init PROVE IInv
  OBVIOUS
<1>1. \A a \in AppIds : TokenOf(a) = {}
  BY DEF Init, TokenOf
<1>2. TokenInv /\ FreshInv /\ WriteInv /\ Redeemable /\ ApprovalStands /\ RetiredStaysRetired
  BY <1>1 DEF Init, TokenInv, FreshInv, WriteInv, Redeemable, ApprovalStands,
     RetiredStaysRetired, Approving, Claiming, ApproveSteps, ClaimSteps
<1>3. ProgressInv /\ ClaimantOwnsAccount /\ ClaimedHasHome /\ MarkedAfterCreated
  BY DEF Init, ProgressInv, ClaimantOwnsAccount, ClaimedHasHome, MarkedAfterCreated, Makers
<1> QED
  BY <1>2, <1>3, InitBasic DEF IInv, Basic

LEMMA StepInv ==
  ASSUME IInv, [Next]_vars
  PROVE  IInv'
<1> USE DEF IInv, Basic, TokenWorld, AccountWorld
<1>1. Basic /\ TokenWorld /\ AccountWorld
  OBVIOUS
<1> HIDE DEF IInv, Basic, TokenWorld, AccountWorld
<1>2. Basic'
  BY <1>1, StepBasic
<1>3. TokenWorld' /\ AccountWorld'
  BY <1>1, <1>2, StepTokens, StepAccounts
<1> QED
  BY <1>2, <1>3 DEF IInv, Basic, TokenWorld, AccountWorld

\* The inductive invariant holds of every behaviour of the onboarding
\* (src/src/state/users.rs), with failures and restarts.
THEOREM InductiveInvariant == Spec => []IInv
<1>1. Init => IInv
  BY InitInv
<1>2. IInv /\ [Next]_vars => IInv'
  BY StepInv
<1> QED
  BY <1>1, <1>2, PTL DEF Spec

\* Tables, files and local variables hold what their types say.
THEOREM TypeCorrect == Spec => []TypeOK
<1>1. IInv => TypeOK
  BY DEF IInv
<1> QED
  BY <1>1, InductiveInvariant, PTL

\* A token an application carries can be looked up, unless its approval is
\* still to write it or was cut short between the two writes (users.rs:73).
THEOREM TokensRedeemable == Spec => []Redeemable
<1>1. IInv => Redeemable
  BY DEF IInv
<1> QED
  BY <1>1, InductiveInvariant, PTL

\* A token handed out works until it is retired (users.rs:76).
THEOREM ApprovalsStand == Spec => []ApprovalStands
<1>1. IInv => ApprovalStands
  BY DEF IInv
<1> QED
  BY <1>1, InductiveInvariant, PTL

\* The claim that set_nx let through owns the account (users.rs:127).
THEOREM AccountsOwned == Spec => []ClaimantOwnsAccount
<1>1. IInv => ClaimantOwnsAccount
  BY DEF IInv
<1> QED
  BY <1>1, InductiveInvariant, PTL

\* An application is marked as claimed only after its account was made (users.rs:135),
\* so that a cut between the two leaves none claimed for nobody.
THEOREM ClaimsMarkedLater == Spec => []MarkedAfterCreated
<1>1. IInv => MarkedAfterCreated
  BY DEF IInv
<1> QED
  BY <1>1, InductiveInvariant, PTL

\* A claim answered with success has its whole home (users.rs:138).
THEOREM ClaimsComplete == Spec => []ClaimedHasHome
<1>1. IInv => ClaimedHasHome
  BY DEF IInv
<1> QED
  BY <1>1, InductiveInvariant, PTL

\* No stale copy of an application brings back a retired token (users.rs:66, 121).
THEOREM RetiredForGood == Spec => []RetiredStaysRetired
<1>1. IInv => RetiredStaysRetired
  BY DEF IInv
<1> QED
  BY <1>1, InductiveInvariant, PTL

\* A claim is let past its check only with a token that was never retired
\* (users.rs:113): only ClaimGetApplication lets a claim past, it has just seen
\* the token in the application, and no application carries a retired one.
THEOREM RetiredRefused == Spec => RetiredTokenRefused
<1>1. ASSUME IInv, [Next]_vars, NEW r \in Requests,
             pc[r] = "claim_check", pc'[r] = "claim_create"
      PROVE  loc[r].token \notin retired
  <2> USE <1>1
  <2>1. Basic /\ RetiredStaysRetired
    BY DEF IInv, Basic
  <2>2. ClaimGetApplication(r) /\ ~Refuse(r)
    <3> USE <2>1 DEF Basic, TypeOK, Goto
    <3>1. pc' # pc
      OBVIOUS
    <3>2. CASE Client
      BY <3>1, <3>2 DEF Client, Apply, DeleteApplication, DeleteUser, ApproveGet, ClaimGetToken, Refuse
    <3>3. ASSUME NEW q \in Requests, Handler(q)
          PROVE  ClaimGetApplication(r) /\ ~Refuse(r)
      BY <3>3 DEF Handler, ApproveSetApplication, ApproveSetToken, ClaimGetApplication,
         ClaimCreateUser, ClaimSetApplication, ClaimDeleteToken, CreateHomeEntry, ClaimDone,
         Answer, Refuse
    <3>4. ASSUME NEW q \in Requests, StorageError(q)
          PROVE  FALSE
      BY <3>4 DEF StorageError
    <3>5. ~Restart
      BY DEF Restart
    <3> QED
      BY <3>1, <3>2, <3>3, <3>4, <3>5 DEF Next, Sound, Fault, vars
  <2>3. loc[r].token \in TokenOf(loc[r].id) /\ loc[r].id \in AppIds
    BY <2>1, <2>2, ClaimGetApplicationEffect
    DEF Basic, LocalsInv, Claiming, ClaimSteps
  <2> QED
    BY <2>1, <2>3 DEF RetiredStaysRetired
<1>2. IInv /\ [Next]_vars =>
        [\A r \in Requests :
           pc[r] = "claim_check" /\ pc'[r] = "claim_create" => loc[r].token \notin retired]_vars
  BY <1>1
<1> QED
  BY <1>2, InductiveInvariant, PTL DEF Spec, RetiredTokenRefused

=============================================================================
