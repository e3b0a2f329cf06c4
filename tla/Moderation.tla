------------------------------ MODULE Moderation ------------------------------
(***************************************************************************)
(* What the guestbook promises: an entry stays as it was written, it is    *)
(* listed only after an administrator has asked for it, and once listed it *)
(* stays listed.                                                           *)
(***************************************************************************)

CONSTANTS Entries, None

VARIABLES
  book,       \* what was written under each entry, None at first
  listed,     \* the entries everybody can read
  requested   \* the entries administrators have asked for

vars == <<book, listed, requested>>

Init ==
  /\ book = [e \in Entries |-> None]
  /\ listed = {}
  /\ requested = {}

Write(e) ==
  /\ book[e] = None
  /\ book'[e] # None
  /\ \A other \in Entries \ {e} : book'[other] = book[other]
  /\ UNCHANGED <<listed, requested>>

Request ==
  /\ requested \subseteq requested' /\ requested' \subseteq Entries
  /\ UNCHANGED <<book, listed>>

List(e) ==
  /\ e \in requested
  /\ book[e] # None
  /\ listed' = listed \cup {e}
  /\ UNCHANGED <<book, requested>>

Next ==
  \/ \E e \in Entries : Write(e) \/ List(e)
  \/ Request

Spec == Init /\ [][Next]_vars

=============================================================================
