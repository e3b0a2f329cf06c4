----------------------------- MODULE MCAccounts -----------------------------
(* Instances of Accounts for TLC. *)
EXTENDS Accounts, TLC

CONSTANTS henry, alice, a1, a2, t1, t2, r1, r2, secret, guess, readme, zshrc, public

MCUsernames == {henry, alice}
MCAppIds == {a1, a2}
MCTokens == {t1, t2}
MCRequests == {r1, r2}
MCPasswords == {secret, guess}

\* A default home of files only, and one like src/default-home, with a folder.
MCFlat == {readme, zshrc}
MCNoFolder == {}
MCTree == {readme, public}
MCFolder == {public}

\* Identifiers of one kind are alike in every definition of Accounts.
MCSymmetry == Permutations(MCAppIds) \cup Permutations(MCTokens) \cup Permutations(MCRequests)

=============================================================================
