---------------------------- MODULE MCSshSession ----------------------------
(* Instances of SshSession for TLC. *)
EXTENDS SshSession, TLC

CONSTANTS alice, henry, s1, s2, c1, c2, p1, p2, p3

MCUsernames == {alice, henry}
MCOneUser == {alice}
MCConnections == {s1, s2}
MCOneConnection == {s1}
MCChannels == {c1, c2}
MCProcesses == {p1, p2, p3}
MCTwoProcesses == {p1, p2}

\* What may happen besides what is expected.
MCAnything == {"again", "bare", "early", "garbled", "break", "fail"}
MCBareChannels == {"bare"}

MCSymmetry ==
  Permutations(MCConnections) \cup Permutations(MCChannels) \cup Permutations(MCProcesses)

=============================================================================
