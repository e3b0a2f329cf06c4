----------------------------- MODULE SitesProofs -----------------------------
(***************************************************************************)
(* Proofs about Sites: whatever accounts are claimed and deleted while the *)
(* server runs, the hosts it was started with lead where they should.      *)
(***************************************************************************)
EXTENDS Sites, TLAPS

\* The map requests are routed by stays the one that was collected.
KeptInv ==
  process # "down" =>
    /\ sites[FixedSite] = Site(FixedOwner)
    /\ \A u \in Own(settled) : sites[u] = User(u)

IInv == TypeOK /\ KeptInv

-----------------------------------------------------------------------------
\* Facts about the maps the steps make.

LEMMA WebsitesAreWebsites ==
  /\ Site(FixedOwner) \in Website
  /\ \A u \in Usernames : User(u) \in Website
  BY DEF Website

LEMMA CollectedIsMap ==
  ASSUME NEW names \in SUBSET Usernames
  PROVE  /\ Collected(names) \in SiteMap
         /\ Collected(names)[FixedSite] = Site(FixedOwner)
         /\ \A u \in Own(names) : Collected(names)[u] = User(u)
<1>1. FixedSite \in Subdomains /\ Own(names) \subseteq Subdomains
  BY DEF Subdomains, Own
<1>2. \A h \in Subdomains :
        (IF h = FixedSite THEN Site(FixedOwner) ELSE IF h \in names THEN User(h) ELSE None)
          \in Website \cup {None}
  BY WebsitesAreWebsites
<1>3. Collected(names) \in SiteMap
  BY <1>2 DEF Collected, SiteMap
<1> QED
  BY <1>1, <1>3 DEF Collected, Own

LEMMA NoSitesIsMap == NoSites \in SiteMap
  BY DEF NoSites, SiteMap

\* A claim writes a clone, which stays a map.
LEMMA InsertIsMap ==
  ASSUME NEW map \in SiteMap, NEW u \in Usernames
  PROVE  [map EXCEPT ![u] = User(u)] \in SiteMap
  BY WebsitesAreWebsites DEF SiteMap

-----------------------------------------------------------------------------
LEMMA InitInv == Init => IInv
<1> SUFFICES ASSUME Init PROVE IInv
  OBVIOUS
<1> USE DEF Init
<1>1. TypeOK
  BY NoSitesIsMap DEF TypeOK
<1>2. KeptInv
  BY DEF KeptInv
<1> QED
  BY <1>1, <1>2 DEF IInv

\* Handlers leave what requests are routed by alone.
LEMMA HandlerInv ==
  ASSUME IInv, NEW r \in Requests, Handler(r)
  PROVE  IInv'
<1> USE DEF IInv, Goto
<1>1. CASE \E u \in Usernames : ClaimBegin(r, u)
  <2>1. PICK u \in Usernames : ClaimBegin(r, u)
    BY <1>1
  <2>2. [name |-> u, sites |-> sites] \in [name : Usernames, sites : SiteMap]
    BY DEF TypeOK
  <2>3. ASSUME NEW q \in Requests
        PROVE  pc'[q] = "idle" <=> loc'[q] = Idle
    BY <2>1, SitesAssumption DEF TypeOK, ClaimBegin, Idle
  <2>4. TypeOK'
    BY <2>1, <2>2, <2>3 DEF TypeOK, ClaimBegin
  <2>5. KeptInv'
    BY <2>1 DEF KeptInv, ClaimBegin, Own
  <2> QED
    BY <2>4, <2>5
<1>2. CASE ClaimUser(r)
  <2>1. loc[r] \in [name : Usernames, sites : SiteMap]
    BY <1>2 DEF TypeOK, ClaimUser
  <2>2. TypeOK'
    BY <1>2, <2>1 DEF TypeOK, ClaimUser
  <2>3. KeptInv'
    BY <1>2 DEF KeptInv, ClaimUser, Own
  <2> QED
    BY <2>2, <2>3
<1>3. CASE SetSite(r)
  <2>1. loc[r] \in [name : Usernames, sites : SiteMap]
    BY <1>3 DEF TypeOK, SetSite
  <2>2. [loc[r].sites EXCEPT ![loc[r].name] = User(loc[r].name)] \in SiteMap
    BY <2>1, InsertIsMap
  <2>3. [loc[r] EXCEPT !.sites = [loc[r].sites EXCEPT ![loc[r].name] = User(loc[r].name)]]
          \in [name : Usernames, sites : SiteMap]
    BY <2>1, <2>2
  <2>4. TypeOK'
    BY <1>3, <2>1, <2>3, SitesAssumption DEF TypeOK, SetSite, Idle
  <2>5. KeptInv'
    BY <1>3 DEF KeptInv, SetSite, Own
  <2> QED
    BY <2>4, <2>5
<1>4. CASE Answer(r)
  <2>1. ASSUME NEW q \in Requests
        PROVE  pc'[q] = "idle" <=> loc'[q] = Idle
    BY <1>4 DEF TypeOK, Answer
  <2>2. TypeOK'
    BY <1>4, <2>1 DEF TypeOK, Answer
  <2>3. KeptInv'
    BY <1>4 DEF KeptInv, Answer, Own
  <2> QED
    BY <2>2, <2>3
<1> QED
  BY <1>1, <1>2, <1>3, <1>4 DEF Handler

LEMMA StepInv == IInv /\ [Next]_vars => IInv'
<1> SUFFICES ASSUME IInv, [Next]_vars PROVE IInv'
  OBVIOUS
<1> USE DEF IInv
<1>1. CASE NewState
  <2>1. TypeOK'
    BY <1>1, CollectedIsMap DEF TypeOK, NewState
  <2>2. Own(settled') \subseteq Own(users)
    BY <1>1 DEF TypeOK, NewState, Own
  <2>3. KeptInv'
    BY <1>1, <2>2, CollectedIsMap DEF TypeOK, KeptInv, NewState
  <2> QED
    BY <2>1, <2>3
<1>2. CASE CreateInitialUser
  <2>1. TypeOK'
    BY <1>2, SitesAssumption DEF TypeOK, CreateInitialUser
  <2>2. KeptInv'
    BY <1>2 DEF KeptInv, CreateInitialUser, Own
  <2> QED
    BY <2>1, <2>2
<1>3. CASE \E r \in Requests : Handler(r)
  BY <1>3, HandlerInv
<1>4. CASE \E u \in Usernames : DeleteUser(u)
  <2>1. TypeOK'
    BY <1>4 DEF TypeOK, DeleteUser
  <2>2. KeptInv'
    BY <1>4 DEF KeptInv, DeleteUser, Own
  <2> QED
    BY <2>1, <2>2
<1>5. CASE Stop
  <2>1. TypeOK'
    BY <1>5, NoSitesIsMap DEF TypeOK, Stop
  <2>2. KeptInv'
    BY <1>5 DEF KeptInv, Stop
  <2> QED
    BY <2>1, <2>2
<1>6. CASE UNCHANGED vars
  BY <1>6 DEF vars, TypeOK, KeptInv, Own
<1> QED
  BY <1>1, <1>2, <1>3, <1>4, <1>5, <1>6 DEF Next

LEMMA Inductive == Spec => []IInv
  BY InitInv, StepInv, PTL DEF Spec

\* What the kept map means for requests.
LEMMA KeptIsServed == IInv => ServedAfterRestart
<1> SUFFICES ASSUME IInv, process = "up" PROVE ServedAfterRestart
  BY DEF ServedAfterRestart
<1> USE DEF SelectService, Api, Lookup, BadRequest
<1>1. ASSUME NEW h \in HostsOf(None) PROVE RouteRequest(h, "80") = Api
  BY DEF HostsOf, RouteRequest
<1>2. ASSUME NEW name \in Subdomains, NEW h \in HostsOf(name),
             sites[name] # None, sites[name].owner \in ValidNames
      PROVE  RouteRequest(h, "80") = sites[name]
  <2>1. SelectService(h, "80") = Lookup(name)
    BY SitesAssumption DEF HostsOf, Subdomains
  <2> QED
    BY <1>2, <2>1 DEF RouteRequest, Folder
<1>3. ASSUME NEW h \in HostsOf(FixedSite) PROVE RouteRequest(h, "80") = Site(FixedOwner)
  <2>1. /\ FixedSite \in Subdomains
        /\ Site(FixedOwner) # None
        /\ Site(FixedOwner).owner \in ValidNames
        /\ sites[FixedSite] = Site(FixedOwner)
    BY SitesAssumption DEF Subdomains, Site, IInv, KeptInv
  <2> QED
    BY <1>2, <2>1
<1>4. ASSUME NEW u \in Own(settled), NEW h \in HostsOf(u)
      PROVE  RouteRequest(h, "80") = User(u)
  <2>1. u \in Usernames /\ u \in ValidNames
    BY DEF Own, IInv, TypeOK
  <2>2. /\ u \in Subdomains
        /\ User(u) # None
        /\ User(u).owner \in ValidNames
        /\ sites[u] = User(u)
    BY <2>1, SitesAssumption DEF Subdomains, User, IInv, KeptInv
  <2> QED
    BY <1>2, <2>2
<1> QED
  BY <1>1, <1>3, <1>4 DEF ServedAfterRestart

-----------------------------------------------------------------------------
\* The type invariant: the clones of claims are maps like the one requests are
\* routed by, and who was there at the start and is not deleted has a record.
THEOREM TypeCorrect == Spec => []TypeOK
  BY Inductive, PTL DEF IInv

\* From a start on the accounts claimed before are served, the domain itself leads
\* to the API and the built-in subdomain to its project, for any names, hosts and
\* number of concurrent claims.
THEOREM Served == Spec => []ServedAfterRestart
  BY Inductive, KeptIsServed, PTL

=============================================================================
