------------------------------- MODULE MCChat -------------------------------
(* Instances of Chat for TLC. *)
EXTENDS Chat, TLC

CONSTANTS s1, s2, guest0, guest1

MCSockets == {s1, s2}

\* A user has registered under the name the first guest will be given: sockets
\* may have one name by two sessions, by a session and a guest, or two names.
MCUsers == {guest0}
MCNoUsers == {}
MCGuestNames == <<guest0, guest1>>

MCSymmetry == Permutations(MCSockets)

=============================================================================
