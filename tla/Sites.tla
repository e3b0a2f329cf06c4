-------------------------------- MODULE Sites --------------------------------
(***************************************************************************)
(* Which websites are served: the map `sites' is filled when the state is  *)
(* made and looked up, by the host a request names, for every request      *)
(* (src/src/state/mod.rs, src/src/web/mod.rs, src/src/config.rs).          *)
(*                                                                         *)
(* AppState is cloned, for the router on start and for every request that  *)
(* takes it as an argument, and a clone of `sites' is a map of its own:    *)
(* set_site, called by the claim handler, writes the clone the handler was *)
(* given, which ends with the handler.                                     *)
(***************************************************************************)

CONSTANTS
  Usernames,     \* names accounts are claimed under
  ValidNames,    \* those is_valid_username accepts; claims do not ask
  InitialUser,   \* the configured `initial_user'
  FixedSite,     \* the subdomain of the one site that is built in
  FixedOwner,    \* whose project it is
  Requests,      \* slots for claim handlers that are running
  Hosts,         \* host names of requests, without their port
  DomainOf,      \* what the library makes of each: None, or its parts
  None           \* no website, no domain, no subdomain

ASSUME SitesAssumption ==
  /\ InitialUser \in Usernames
  /\ ValidNames \subseteq Usernames \cup {FixedOwner} /\ FixedOwner \in ValidNames
  /\ None \notin [owner : Usernames \cup {FixedOwner}, kind : {"user", "site"}]
  /\ None \notin Usernames \cup {FixedSite}
  /\ \A h \in Hosts : DomainOf[h] # None => DomainOf[h].root \in {"dawdle.space", "other", "none"}

Subdomains == Usernames \cup {FixedSite}

User(u) == [owner |-> u, kind |-> "user"]
Site(u) == [owner |-> u, kind |-> "site"]
Website == {User(u) : u \in Usernames} \cup {Site(FixedOwner)}

NoSites == [h \in Subdomains |-> None]
Idle == [name |-> None, sites |-> NoSites]

VARIABLES
  users,      \* table: the names with a record
  process,    \* down, collected (the state is made), or up (serving)
  sites,      \* the clone of the map that requests are routed by
  pc,         \* step of each claim handler
  loc,        \* its name, and the clone of the map it was given
  claimed,    \* history: names whose claim has been answered, not deleted since
  settled     \* history: those of them that were there when the process started

vars == <<users, process, sites, pc, loc, claimed, settled>>

Init ==
  /\ users = {}
  /\ process = "down"
  /\ sites = NoSites
  /\ pc = [r \in Requests |-> "idle"]
  /\ loc = [r \in Requests |-> Idle]
  /\ claimed = {}
  /\ settled = {}

Goto(r, step) == pc' = [pc EXCEPT ![r] = step]

-----------------------------------------------------------------------------
\* Starting: the state is made, then the initial user is created, then the
\* servers run.

\* Mutant: the built-in site is inserted first.
CollectedUsersLast(names) ==
  [h \in Subdomains |->
     IF h \in names THEN User(h) ELSE IF h = FixedSite THEN Site(FixedOwner) ELSE None]

\* The built-in site is inserted last and takes the place of a user of its name.
Collected(names) ==
  [h \in Subdomains |->
     IF h = FixedSite THEN Site(FixedOwner) ELSE IF h \in names THEN User(h) ELSE None]

NewState ==
  /\ process = "down"
  /\ process' = "collected"
  /\ sites' = Collected(users)
  /\ settled' = claimed
  /\ UNCHANGED <<users, pc, loc, claimed>>

\* An error is ignored.
CreateInitialUser ==
  /\ process = "collected"
  /\ process' = "up"
  /\ users' \in {users, users \cup {InitialUser}}
  /\ UNCHANGED <<sites, pc, loc, claimed, settled>>

-----------------------------------------------------------------------------
\* A claim, as far as names and sites go.

\* The handler is given a clone of the router's state.
ClaimBegin(r, u) ==
  /\ process = "up"
  /\ pc[r] = "idle"
  /\ loc' = [loc EXCEPT ![r] = [name |-> u, sites |-> sites]]
  /\ Goto(r, "claim")
  /\ UNCHANGED <<users, process, sites, claimed, settled>>

\* The claim is refused, or ends with an error before or after the record is
\* written, or goes on to set_site.
ClaimUser(r) ==
  LET u == loc[r].name IN
  /\ pc[r] = "claim"
  /\ \/ /\ Goto(r, "failed")
        /\ UNCHANGED users
     \/ /\ u \notin users
        /\ users' = users \cup {u}
        /\ \E step \in {"failed", "set_site"} : Goto(r, step)
  /\ UNCHANGED <<process, sites, loc, claimed, settled>>

\* Mutant: the site of the account is registered as a project.
SetSiteProject(r) ==
  LET u == loc[r].name IN
  /\ pc[r] = "set_site"
  /\ loc' = [loc EXCEPT ![r].sites[u] = Site(u)]
  /\ claimed' = claimed \cup ({u} \cap users)
  /\ Goto(r, "claimed")
  /\ UNCHANGED <<users, process, sites, settled>>

\* The account is there unless an administrator has already deleted it.
SetSite(r) ==
  LET u == loc[r].name IN
  /\ pc[r] = "set_site"
  /\ loc' = [loc EXCEPT ![r].sites[u] = User(u)]
  /\ claimed' = claimed \cup ({u} \cap users)
  /\ Goto(r, "claimed")
  /\ UNCHANGED <<users, process, sites, settled>>

\* The answer goes out; the clone is dropped.
Answer(r) ==
  /\ pc[r] \in {"claimed", "failed"}
  /\ Goto(r, "idle")
  /\ loc' = [loc EXCEPT ![r] = Idle]
  /\ UNCHANGED <<users, process, sites, claimed, settled>>

-----------------------------------------------------------------------------
\* A request for a website reads the map and changes nothing.

Api == [answer |-> "api"]
BadRequest == [answer |-> "bad_request"]
NotFound == [answer |-> "not_found"]
Lookup(name) == [answer |-> "lookup", name |-> name]

\* A release build takes port 80 only, which is what no port stands for; another
\* domain is looked up as it is, in the same map as the subdomains.
SelectService(host, port) ==
  LET domain == DomainOf[host] IN
  IF domain = None \/ port # "80" THEN BadRequest
  ELSE IF domain.root # "dawdle.space" THEN Lookup(host)
  ELSE IF domain.prefix = None THEN Api
  ELSE Lookup(domain.prefix)

\* The folder of a website: the website itself, unless its owner's name is one
\* that has no folder.
Folder(website) == IF website.owner \in ValidNames THEN website ELSE NotFound

RouteRequest(host, port) ==
  LET service == SelectService(host, port) IN
  IF service.answer # "lookup" THEN service
  ELSE IF service.name \notin Subdomains THEN NotFound
  ELSE IF sites[service.name] = None THEN NotFound
  ELSE Folder(sites[service.name])

-----------------------------------------------------------------------------
DeleteUser(u) ==
  /\ process = "up"
  /\ users' = users \ {u}
  /\ claimed' = claimed \ {u}
  /\ settled' = settled \ {u}
  /\ UNCHANGED <<process, sites, pc, loc>>

\* The process dies, with every map in it.
Stop ==
  /\ process # "down"
  /\ process' = "down"
  /\ sites' = NoSites
  /\ pc' = [r \in Requests |-> "idle"]
  /\ loc' = [r \in Requests |-> Idle]
  /\ UNCHANGED <<users, claimed, settled>>

Handler(r) ==
  \/ \E u \in Usernames : ClaimBegin(r, u)
  \/ ClaimUser(r)
  \/ SetSite(r)
  \/ Answer(r)

Next ==
  \/ NewState
  \/ CreateInitialUser
  \/ \E r \in Requests : Handler(r)
  \/ \E u \in Usernames : DeleteUser(u)
  \/ Stop

Spec == Init /\ [][Next]_vars

-----------------------------------------------------------------------------
(***************************************************************************)
(* Properties.                                                             *)
(***************************************************************************)

SiteMap == [Subdomains -> Website \cup {None}]

\* The type invariant; a handler that runs has a name and its own map.
TypeOK ==
  /\ users \subseteq Usernames
  /\ process \in {"down", "collected", "up"}
  /\ sites \in SiteMap
  /\ pc \in [Requests -> {"idle", "claim", "set_site", "claimed", "failed"}]
  /\ loc \in [Requests -> {Idle} \cup [name : Usernames, sites : SiteMap]]
  /\ \A r \in Requests : pc[r] = "idle" <=> loc[r] = Idle
  /\ settled \subseteq claimed /\ claimed \subseteq users

\* The names whose user's site no built-in site hides and that lead to a folder.
Own(names) == (names \cap ValidNames) \ {FixedSite}

\* The hosts that stand for a subdomain of the server's own domain; None is the
\* domain itself.
HostsOf(subdomain) ==
  {h \in Hosts : DomainOf[h] # None /\ DomainOf[h].root = "dawdle.space"
                                  /\ DomainOf[h].prefix = subdomain}

\* Whatever names accounts have, lose or are claimed under meanwhile, the domain
\* itself leads to the API and the built-in subdomain to its project; and an
\* account that was claimed before the process started is served from then on
\* (state/mod.rs:60-72, web/mod.rs:181).
ServedAfterRestart ==
  process = "up" =>
    /\ \A h \in HostsOf(None) : RouteRequest(h, "80") = Api
    /\ \A h \in HostsOf(FixedSite) : RouteRequest(h, "80") = Site(FixedOwner)
    /\ \A u \in Own(settled) : \A h \in HostsOf(u) : RouteRequest(h, "80") = User(u)

\* Once a claim has been answered the site of the new user is served: "only
\* needs to be called manually if e.g. a new user is added" (state/mod.rs:89).
\* The code breaks it: set_site fills the clone of its own request.
ClaimedIsServed ==
  process = "up" =>
    \A u \in Own(claimed) : \A h \in HostsOf(u) : RouteRequest(h, "80") = User(u)

=============================================================================
