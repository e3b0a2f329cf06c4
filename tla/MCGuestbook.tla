----------------------------- MODULE MCGuestbook -----------------------------
(* An instance of Guestbook, and with it of UserRecords, for TLC. *)
EXTENDS Guestbook, TLC

CONSTANTS henry, alice, p1, p2, laptop, k1, k2, bad, e1, hello, bye, r1, r2

MCUsernames == {henry, alice}
MCPasswords == {p1, p2}
MCKeyNames == {laptop}
MCKeys == {k1, k2, bad}
MCValidKeys == {k1, k2}
MCEntries == {e1}
MCMessages == {hello, bye}
MCRequests == {r1, r2}

MCSymmetry == Permutations(MCRequests)

=============================================================================
