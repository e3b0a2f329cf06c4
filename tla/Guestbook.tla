------------------------------ MODULE Guestbook ------------------------------
(***************************************************************************)
(* The guestbook (src/src/state/guestbook.rs): everybody adds entries,     *)
(* administrators approve them, everybody reads those that are approved.   *)
(* Who is an administrator is decided on the records of UserRecords, which *)
(* go on changing while a request that was let in is carried out.          *)
(***************************************************************************)
EXTENDS UserRecords

CONSTANTS
  Entries,   \* the ids cuid makes
  Messages   \* what guests write

Approvals == [op : {"approve"}, user : Usernames, entry : Entries]
NoCopy == [message |-> None, approved |-> FALSE]

ASSUME GuestbookAssumption ==
  /\ AdminAsks = Approvals
  /\ None \notin Messages \cup [message : Messages, approved : BOOLEAN]

VARIABLES
  guestbook,  \* table: the entries
  copy,       \* the entry each handler is about to write back
  requested   \* history: entries an administrator's request has been let in for

guestbookVars == <<vars, guestbook, copy, requested>>

GuestbookInit ==
  /\ Init
  /\ guestbook = [e \in Entries |-> None]
  /\ copy = [r \in Requests |-> NoCopy]
  /\ requested = {}

\* An entry of a guest, under an id that is new.
AddEntry(e, m) ==
  /\ guestbook[e] = None
  /\ guestbook' = [guestbook EXCEPT ![e] = [message |-> m, approved |-> FALSE]]
  /\ UNCHANGED <<vars, copy, requested>>

\* approve_guestbook_entry reads the entry, and ends when there is none.
ApproveGet(r) ==
  LET e == ask[r].entry IN
  /\ pc[r] = "admitted" /\ ask[r].op = "approve"
  /\ copy[r] = NoCopy
  /\ \/ /\ guestbook[e] # None
        /\ copy' = [copy EXCEPT ![r] = guestbook[e]]
        /\ UNCHANGED vars
     \/ guestbook[e] = None /\ Refuse(r) /\ UNCHANGED copy
  /\ UNCHANGED <<guestbook, requested>>

\* Mutant: the approval is a switch.
ApproveSetSwitch(r) ==
  /\ pc[r] = "admitted" /\ ask[r].op = "approve"
  /\ copy[r] # NoCopy
  /\ guestbook' = [guestbook EXCEPT ![ask[r].entry] = [copy[r] EXCEPT !.approved = ~@]]
  /\ copy' = [copy EXCEPT ![r] = NoCopy]
  /\ Goto(r, "ok", None)
  /\ UNCHANGED <<users, fresh, claimed, requested>>

\* The whole entry is written back, approved.
ApproveSet(r) ==
  /\ pc[r] = "admitted" /\ ask[r].op = "approve"
  /\ copy[r] # NoCopy
  /\ guestbook' = [guestbook EXCEPT ![ask[r].entry] = [copy[r] EXCEPT !.approved = TRUE]]
  /\ copy' = [copy EXCEPT ![r] = NoCopy]
  /\ Goto(r, "ok", None)
  /\ UNCHANGED <<users, fresh, claimed, requested>>

\* What happens to the users, the requests let in are noted, those that end drop
\* what they had read.
UserStep ==
  /\ Next
  /\ copy' = [r \in Requests |-> IF pc'[r] = "admitted" THEN copy[r] ELSE NoCopy]
  /\ requested' = requested \cup {ask'[r].entry : r \in {q \in Requests : pc'[q] = "admitted" /\ ask'[q].op = "approve"}}
  /\ UNCHANGED guestbook

GuestbookNext ==
  \/ UserStep
  \/ \E e \in Entries, m \in Messages : AddEntry(e, m)
  \/ \E r \in Requests : ApproveGet(r) \/ ApproveSet(r)

GuestbookSpec == GuestbookInit /\ [][GuestbookNext]_guestbookVars

-----------------------------------------------------------------------------
(***************************************************************************)
(* Properties.                                                             *)
(***************************************************************************)

\* The entries GET /guestbook answers with.
Approved == {e \in Entries : guestbook[e] # None /\ guestbook[e].approved}

\* Whatever else happens to its author's or its administrator's account, and
\* whoever writes a copy back, an entry keeps its text, is listed only after an
\* administrator asked for it, and stays listed (guestbook.rs:53-66).
ModeratedBook == INSTANCE Moderation
  WITH book <- [e \in Entries |-> IF guestbook[e] = None THEN None ELSE guestbook[e].message],
       listed <- Approved

Moderated == ModeratedBook!Spec

=============================================================================
