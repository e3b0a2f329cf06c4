----------------------------- MODULE MCSessions -----------------------------
(* An instance of Sessions for TLC. *)
EXTENDS Sessions, TLC

CONSTANTS alice, t1, t2, r1, r2, r3

MCUsernames == {alice}
MCTokens == {t1, t2}
MCRequests == {r1, r2, r3}

MCSymmetry == Permutations(MCTokens) \cup Permutations(MCRequests)

=============================================================================
