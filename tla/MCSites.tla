------------------------------- MODULE MCSites -------------------------------
(* An instance of Sites for TLC: one of the names is the built-in subdomain, *)
(* and one has no folder, as it is the name of the domain itself.           *)
EXTENDS Sites, TLC

CONSTANTS henry, alice, iceberg, dawdle_space, r1, r2

MCUsernames == {henry, alice, iceberg, dawdle_space}
MCValidNames == {henry, alice, iceberg}
MCRequests == {r1, r2}

\* Hosts: the domain, its subdomains, another domain, a name without a domain
\* and what is no host at all.
MCPrefixes ==
  ("henry.dawdle.space" :> henry) @@ ("alice.dawdle.space" :> alice)
    @@ ("iceberg.dawdle.space" :> iceberg) @@ ("www.dawdle.space" :> "www") @@ (dawdle_space :> None)

MCHosts == DOMAIN MCPrefixes \cup {alice, "other.org", "?"}

MCDomainOf ==
  [h \in MCHosts |->
     IF h \in DOMAIN MCPrefixes THEN [root |-> "dawdle.space", prefix |-> MCPrefixes[h]]
     ELSE IF h = "?" THEN None
     ELSE [root |-> IF h = alice THEN "none" ELSE "other", prefix |-> None]]

MCSymmetry == Permutations(MCRequests)

=============================================================================
