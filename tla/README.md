# dawdle-server in TLA+

dawdle-server is one process that serves a small community: people apply for an
account, an admin approves them, they claim the account and get a home folder, a
website served out of it, a shell in a docker container over SSH, a WebDAV mount
and a chat room. This folder holds TLA+ modules of its parts, the TLC runs that
check them on small instances, and proofs checked by TLAPS that hold for every
value of the constants. Paths below are relative to the repository's own `src/`
folder (`PROJECT.json` counts from the repository's parent, `src/src/...`).

## 1. The system

| part | code | state | operations |
|---|---|---|---|
| accounts | `state/users.rs`, `web/api.rs`, `web/api_admin.rs`, `main.rs` | tables `applications`, `claim_tokens`, `users`; home folders | apply, approve, claim, delete an application or a user, create the initial user |
| sessions | `state/users.rs`, `web/middleware.rs` | table `sessions` | login, logout, verify on every request with a cookie |
| user records | `state/users.rs`, `web/api.rs` | public keys and password hash in `users` | add and remove a key, change the password |
| guestbook | `state/guestbook.rs` | table `guestbook` | add an entry, approve one, list |
| sites | `state/mod.rs`, `web/mod.rs` | `sites`, a map carried by every clone of `AppState` | collect on start, insert on claim, route a request |
| static files | `web/files.rs` | none of its own; the files of the site | redirect slashes, find the file of a path, conditional and range requests |
| host routing | `web/mod.rs`, `config.rs` | none of its own; `sites` | choose the API, a user's folder or a project by the host |
| chat | `chat/mod.rs`, `chat/state.rs`, `web/chat.rs` | the room (members, history), `connections`, a guest counter; three tasks and a channel per socket | connect, join, post, ask for the history, disconnect |
| ring buffer | `utils.rs` | a vector, a start and a size | push, read |
| SSH sessions | `ssh/mod.rs`, `ssh/session.rs` | the user with its keys, the channels with pty and process | authenticate, pty, shell, exec, data, resize, close |
| containers | `containers.rs` | none of its own; docker's | find or create, start, exec, resize, detatch |
| webdav, sftp, config, errors, main | the files of these names | none that changes | adapters, start-up |

**How they interact.** `main` opens the tables, builds one `AppState` and hands
clones of it to the web server and to the SSH server. Handlers run in parallel on
the threads of tokio. Most share only the tables: a table access is atomic, two
accesses are not, except where users.rs opens a transaction (keys and passwords).
The chat is shared memory: one `ChatState` behind an `Arc`, two `DashMap`s whose
guards are locks, and a broadcast channel from every connection to its send task.
A handler with a session cookie first runs `verify_session`, which writes; an
admin handler then reads the user's record once. The SSH server reads user
records on authentication and talks to docker, an external process.

**What is hard.**

* Read-modify-write of whole records without a transaction (approve, claim,
  verify, logout, guestbook): what is written back may be stale.
* Sequences of writes cut by an error (`?`) or a crash: application before token,
  user before application, files last.
* Names as identities: two applications for one name, one name over two sockets,
  a name that is deleted and claimed again, a guest named like a user.
* Tasks, locks and bounded channels in the chat: order, gaps, lag, aborts nobody
  waits for, leaving while somebody else posts.
* Copies of state taken at one moment and used at another: the sites of the
  router, the keys of an SSH session, the session a verify has read, the record a
  transaction has read, the metadata of a file that is then streamed.
* Processes in containers that outlive whoever should kill them.
* Wrap-around in the ring buffer.

Every place where one of these bites is in `PROJECT.json` under `hazards`, with
the properties that watch it or the reason why none does.

**What makes each part correct.**

* accounts: an approval's token works until retired and never after; a claim that
  made the account owns it; no interleaving or cut leaves an application claimed
  for nobody or a success without a home.
* sessions: a logout that nothing overlaps is final; an idle session is refused.
* user records: a change that succeeds happens once and whole; concurrent changes
  are not lost; key names stay unique; whoever claims a deleted name inherits
  nothing.
* guestbook: what is listed was written so, and an administrator asked for it.
* sites: a claimed account's site is routed, from the next start at the latest,
  and no user's site takes the place of a built-in one or of the domain itself.
* chat: history is the latest messages in order; a client is sent live messages
  in order, without a hole, to the newest; the room lists only open sockets; no
  task is stuck on a lock.
* ring buffer: it is the sliding window of the last items, and no index leaves it.
* SSH and containers: a process belongs to one channel, of its own user; it is
  killed when the channel goes and not before, and a channel goes when its program
  ends, unless the connection is stuck with another.
* static files: a page that is there and can be opened is served, whatever changes
  around it; a copy
  the client is told to keep is current; as much is sent as announced; a redirect
  leads home in one step.

## 2. Modules

| module | models | role |
|---|---|---|
| `Accounts` | users.rs 59-180, 205-208, its handlers, main.rs 30-39 | state machine |
| `AccountsProofs` | | theorems about `Accounts` |
| `MCAccounts` | | instance for TLC |
| `Sessions` | users.rs 265-318, api.rs 26-98, middleware.rs 92-141 | state machine |
| `SessionsProofs` | | theorems about `Sessions` |
| `MCSessions` | | instance for TLC |
| `UserRecords` | users.rs 184-262, api.rs 138-202 and 254-278, api_admin.rs 99-112, middleware.rs 57-81 | state machine |
| `AtomicRecords` | what a change to a record promises | abstract specification |
| `Guestbook` | guestbook.rs, api.rs 101-136, api_admin.rs 22-35 | extends `UserRecords` |
| `Moderation` | what the guestbook promises | abstract specification |
| `RecordsProofs` | | theorems about `UserRecords` and `Guestbook` |
| `MCGuestbook` | | instance of both for TLC |
| `Sites` | state/mod.rs 52-93, api.rs 236-252, web/mod.rs 106-214, config.rs 43-69 | state machine |
| `SitesProofs` | | theorems about `Sites` |
| `MCSites` | | instance for TLC |
| `RequestPaths` | files.rs 353-409 | operators on paths |
| `StaticFiles` | files.rs 30-351 | state machine, uses `RequestPaths` |
| `StaticFilesProofs` | | theorems about `RequestPaths` and `StaticFiles` |
| `MCStaticFiles` | | instance for TLC |
| `Containers` | containers.rs, docker | operators on docker's state |
| `SshSession` | ssh/session.rs, containers.rs 60-91, 179-250 | state machine, uses `Containers` |
| `SshProofs` | | theorems about `SshSession` |
| `MCSshSession` | | instances for TLC |
| `RingBuffer` | utils.rs 30-86 | operators on a ring |
| `RingBufferProofs` | | lemmas on the operators |
| `MessageWindow` | what the history of a room promises | abstract specification |
| `Chat` | chat/state.rs, chat/mod.rs 67-112 | state machine, uses `RingBuffer`, refines `MessageWindow` |
| `ChatProofs` | | theorems about `Chat`: history, members and what clients are sent, uses `RingBufferProofs` |
| `MCChat` | | instances for TLC |

### Accounts

The four tables and the homes are variables under the source's names (`homes`
stands for the folders below `.files/home`). A handler is a slot `r` in
`Requests`: `pc[r]` is the access it makes next, `loc[r]` its local variables.
Each access is one action, so `approve_application` is `ApproveGet`,
`ApproveSetApplication`, `ApproveSetToken`, and `claim` is `ClaimGetToken`,
`ClaimGetApplication` (with the four conditions of users.rs 109-119 in
`Claimable`), `ClaimCreateUser`, `ClaimSetApplication`, `ClaimDeleteToken`, then
one `CreateHomeEntry` per entry of the default home and `ClaimDone`. `apply` and
the two deletions make one access each and are one action. `Answer` frees the
slot. `StorageError` ends a handler at any access, as `?` does; `Restart` kills
every handler between any two accesses and creates the initial user when there is
none. A handler that ends without having written anything has `pc = "refused"`,
one that ends after a write `"failed"`.

Abstractions, each of them deliberate:

* `set_nx` comes from the okv crate, which is not in this repository. It is taken
  to reject a key that is present: `claim` relies on that with `?`, and main.rs 31
  discards the result because the initial user may be there.
* A failing access is taken to have written nothing, and the copy of one file to
  be atomic; a file cut in half by a crash is not modelled.
* E-mail, text and date of an application and the keys in a user record play no
  role here; a password hash is the password.
* The admin check is made once before a handler runs (`AdminExists`): which
  session makes it is the business of the module on sessions.
* Changes a user makes to the home over WebDAV or SSH are not modelled.

Five history variables record what properties talk about: which application a
token was drawn for (`issuedFor`), tokens of approvals cut between their two
writes (`torn`), tokens that have left their application (`retired`), claims whose
account an admin has deleted meanwhile (`ousted`), names for which a claim has
created an account (`created`). No guard reads them.

### Sessions

`sessions` is the table, `now` the clock in units of any length. `verify_session` is
`VerifyGet` and `VerifySet`, `logout_session` is `LogoutGet` and `LogoutSet`; both write
back the whole record they read, changed in one field. The clock is read between
the two accesses, so `VerifySet` judges and stamps by any time between them. A
verification that succeeds lets its request through (`pc = "accepted"`) until
`Answer` ends it; `Answer` is also a failing access. `Restart` kills the handlers
and leaves the table.

Left out: the check of the password in front of `Login` (whoever asks may pass or
not; nothing here depends on it), the field `created`, which nothing reads, the
cookies' own life time, which is the browser's business, and the user's record:
sessions outlive it, and the code does not look. The wall clock is taken not to go
back. Two history variables: `ended` are the tokens logged out while no
verification of them was under way, `idle` those that have been left alone for
longer than `Timeout` at some tick with no verification under way. The word
*undisturbed* is needed: a verification that read the session before the logout
writes it back alive, and this is what the code does.

### UserRecords, AtomicRecords

`users` holds a record per name, with its password, its keys and its role. The keys
are the set of pairs of a name and a key; the order of the code's list is left out. `add_public_key`,
`remove_public_key` and `change_password` are each a step that begins the transaction,
reads, checks and stages (`AddPublicKey`, `RemovePublicKey`, `ChangePassword`), and the
step `Commit`. Changing a password reads the record once more before it, for the
old password; the handler looks at errors of that check only (api.rs 267-270), so
neither answer is told from the other here. Creating (`ClaimCreateUser`, the
initial user in `Restart`) and deleting write without a transaction.

The database is the okv crate over RocksDB, which is not in this repository. The
model takes a transaction to be optimistic: it locks nothing, and its commit fails
when the record it read has been written since, by a transaction or not; `fresh`
is that knowledge, and `WriteRecord` the only place that touches it. This is what
`ChangesAreAtomic` rests on: if the library did not track plain writes, a change
could bring back a deleted account, as the mutant of `WriteRecord` shows.

An administrator's request is two steps, `Admit` and what it does, because the
middleware reads the record once and the handler runs later. `AdminAsks` are such
requests served elsewhere: `Guestbook` gives its own. `AtomicRecords` has the change
as one step on the record as it is, an answer per request, and no copies at all;
`ChangesAreAtomic` is its specification under the mapping of `pc` to answers.

### Guestbook, Moderation

`Guestbook` extends `UserRecords` with the table of entries: `AddEntry` is open to
everybody, an approval is `Admit`, `ApproveGet`, `ApproveSet`, the last of which writes
back the copy of the second. `UserStep` is any step of `UserRecords`, and drops the
copy of a handler that ends in it. `requested` is history: the entries an
administrator was let in for. In `Moderation` an entry is written once, asked for,
and listed for good.

### Sites

`sites` is the map in the clone of `AppState` that the router looks a request up in,
`loc[r].sites` the one in the clone a claim handler was given. `NewState` collects
the records of the users and inserts the built-in site, `CreateInitialUser` comes
after it, then the servers run. A claim is two steps here, the record and
`set_site`; its inside is `Accounts`. `Stop` ends the process at any point and
every map with it. `claimed` and `settled` are history: the accounts whose claim has
inserted its site, and those of them that were there when the process was
started. `SelectService` and `RouteRequest` are what a request for a host comes to,
from the port (a release build wants 80) over the domain, its subdomains and other
domains, which are looked up whole, to the folder of the website; a request changes
nothing, so they are operators over the state and not actions. What the parser of
the addr crate makes of a host is the constant `DomainOf`. A claim does not ask
whether a name is valid, the folder of a website does (`ValidNames`), so a name that
is not has an account and a site but no folder. Subdomains and usernames are one name space, and the name of the
built-in site is a legal username: one of the names of the instance is it, and another is
the domain of the server.

### RequestPaths, StaticFiles

`RequestPaths` are the two functions at the end of files.rs on paths taken apart at
their slashes. A segment is a name; `Decode` says what it decodes to, which may hold
slashes again (`%2F`), climb (`%2E%2E`) or be no text at all (`%FF`), and is empty only
for a segment that is. `Normal` is the loop over the components: a recursive function,
not an operator, so that theorems can be stated about it.

`StaticFiles` is one request at a time over the files of a site, since requests
share nothing else; the steps are the accesses to the file system, and between any
two of them the owner may write, put, delete or make a folder, and the clock may
tick. `Resolve` is is_dir, `Open` and `OpenHtml` are open_file, `Fallback` the 404.html,
`Metadata` reads the metadata, judges the conditions and the range and makes the head
(meta), `Body` streams the file as it is by then. `response` is the answer, kept until
something else happens; `copy` is one that the client keeps and whose date it may
send back as a condition. Dates are whole seconds of a clock that ticks twice a
second.

`page` is history: the page the rules name for the request, as long as it has been
there without interruption. The rules are those of the list of changes at the head
of files.rs: the html page stands for a name that has no extension (`Bare`). A file
that is there may fail to open, at each of the three places. At the first an error
other than "not found" is the answer (`Fail`); at the second (`if let Ok`, files.rs 324)
and the third (files.rs 99) every error is taken for a missing file, and so it is by
is_dir, which takes a folder without metadata for a file. A request that goes astray
in this way has no `page` any more: `PresentIsServed` is about requests to which the
file system refuses nothing, and says that the owner's changes alone cannot lead them
astray.

Left out: media types and the cache headers that depend on them, except that an
unknown type has no date to keep; chunks; symbolic links; files whose dates are set
by hand or which are moved into place with an older date; why an access fails
(permissions, too many open files).

What the model shows of the code besides its properties: a page that is there is
answered with 404.html when its open fails, though the comment on open_file (files.rs
313) has it return None only for a file that does not exist; the html page also
replaces another extension (`a.txt` is answered with `a.html`), though the list of
changes (files.rs 28) speaks of paths without one; `ends_with(".html")` (files.rs 323)
compares whole components and so holds for a file named `.html` alone, which costs a second look at the
same file; a folder that appears between is_dir and open is answered with the bare
fallback; 404.html is sent with status 200; HEAD is an error.

### Containers, SshSession

`Containers` holds docker's state, a container per user and a process per exec id,
and says what each call does to it. Docker is external; the model takes from the
code that a name cannot be used twice, that a call may fail (`?`), and that a kill
ends the process it names.

`SshSession` is one handler per connection (`SshSession::new`). russh awaits its
methods one after the other, so a connection has at most one method under way:
`task[s]`, with the call to docker it makes next as its step. `attach` is `List`,
`Create`, `Start`, `Exec`, `Run`, `Resize`, and `Attached` puts the process into the
channel; `detatch` is `Inspect`, `KillProcess` (creating the exec of the kill, which
nobody else sees, is part of the latter). `Program` is shell_request and
exec_request, which differ in the command alone; exec_request's is an error when it is
not UTF-8 (`GarbledCommand`). `Data` is input for the program, which is written before
the method returns: `Written` comes when the program has read it, or never. `ReaderEnds`
is the end of the spawned reader. `Fail` is an error returned from a method: russh ends the
connection and drops the handler, so `channels[s]` goes without a channel_close.

What a client keeps to is in `client`: a channel is opened once, closed once, and
asks for nothing after its close. `Behaviours` names what may happen beyond that:
`again` (a second program on a channel), `bare` (a channel closed without a
program), `early` (requests before the program or after the eof), `garbled` (a command
that is not UTF-8), `break` (broken connections, restarts), `fail` (failing calls, the answer of a start that has
happened among them; also docker's refusal to resize a program that has ended).
The history variable `calm` is true as long as none of them has been shown.

Left out: env_request, whose variables nothing reads; what the bytes of input and
output are; which keys are accepted (`Offer` lets either happen, and keeps
the session to its first name, as get_user does); stopping of containers from
outside. The exec ids are finite: a program is asked for while there are some.

### RingBuffer, MessageWindow

The ring is a record; `buffer` grows until it holds `Capacity` items and is
written in place afterwards, as the code does with its `Vec`. `MessageWindow` has one
step: the next message comes in at the end, the oldest leaves when there is no room.
The chat's ring, read through `ToVec`, implements it (`HistorySlides`).

### Chat

Messages are numbered in the order they are pushed, and a response is known by
the messages it shows. `main[s]`, `sender[s]`, `receiver[s]` are the three tasks of
a socket; `Following` is the order of the statements of `handle_chat_socket`
(mod.rs 71-111): connect, join, subscribe, send the information, read the
history, send it and start the receiver, select, disconnect. `queue[s]` is what
the send task has still to receive, at most `Backlog` responses: a full channel
drops its oldest and the send task, when it comes to the lag, ends. `connections`
keeps one socket per name and is never cleaned, as in the code.

The locks: `send_message` pushes under the write guard, downgrades it and keeps
the read guard while it visits the members, which is `Post`, `FanOut` per member,
`FanOutDone`; a history request keeps a read guard from the copy to the send,
which is `CopyHistory`, `Reply`. `Readers` are the sockets whose receiver holds
such a guard, and `Join`, `Disconnect` and `Post`, which write, wait until there
are none. Every other access to a map is one action. The model has one room, as
the code has: nothing adds another.

A name is the session's or the next guest name; a session may be named like a
guest. Two open sockets of one name share what the code gives one of them, so a
history variable `shared` keeps the sockets this has happened to, and properties
about what a client is sent leave those out. That is the behaviour of the code,
not a claim that it should be so: after a quick reconnect the old socket's
disconnect takes the new one's name out of the room, and the new one hears
nothing more.

Bounds: `MaxPosts` messages, `MaxReplies` replies asked for, each socket opened
once, as many guests as `GuestNames` has names. Each is a guard, named at its
declaration. A run may end when they are used up, so the configurations of the
chat do not check for deadlock; that no task is stuck is `RoomIsLetGo`.

## 3. Runs

`tlc -config <cfg> <module>`:

| run | instance | shows |
|---|---|---|
| `accounts` | 2 names (one the initial admin), 2 applications, 2 tokens, 2 handlers, 2 passwords, 2 files, crashes and errors anywhere | seven invariants, among them `Redeemable`, `ApprovalStands`, `ClaimantOwnsAccount`, `RetiredStaysRetired`, and the action property `RetiredTokenRefused` |
| `accounts_not_copied` | the default home of the repository: files and a folder, no failure | `DefaultHomeCopied` is violated, see section 5 |
| `sessions` | 1 name, 2 tokens, 3 handlers, timeout 1, clock to 3, restarts and errors anywhere | `LoggedOutRefused`, `IdleRefused` |
| `records` | 2 names (one the initial administrator), 2 passwords, 1 key name, 2 valid keys and one that is not, 1 entry, 2 handlers, claims, restarts and errors anywhere | `ChangesAreAtomic` and `Moderated`, the two refinements; `ClaimedIsNoAdmin` |
| `sites` | 4 names (the initial user, a user, the built-in site's, the domain's), 2 claims at a time, restarts, 8 hosts | `ServedAfterRestart`: the domain and the built-in site stay themselves, claimed accounts are served from the next start on |
| `sites_claimed` | the same | `ClaimedIsServed` is violated, see section 5 |
| `ssh` | 2 users, 2 connections, 2 channels each, 2 processes, all `Behaviours` | `OwnContainer`, `KillsWhatIsLetGo`, and `CleanedUp`: no process without a channel as long as nothing unexpected has happened, races for a container included |
| `ssh_ends` | 1 connection, 2 channels, 3 processes, all `Behaviours`, fair | `ProgramEndsChannel`, as long as the connection is not stuck with a program that runs and does not read its input |
| `ssh_bare` | 1 connection, 2 channels, the behaviour `bare` alone | `ClosingCleansUp` is violated, see section 5 |
| `files` | 3 sites, 6 paths, 2 changes, 2 sizes besides the first, 3 half seconds, 14 request paths, one with an extension that has an html page; opens that fail | `PresentIsServed`, `CopyIsCurrent`, `SentAsAnnounced`, `OneRedirect` |
| `chat` | 2 sockets, 2 guest names, a user named like the first guest, capacity 2, backlog 2, 3 posts, 1 reply | `HistoryIsLatest`, `LiveInOrder`, `NoGap`, `CaughtUp`, `NobodyLeftBehind`, and `HistorySlides`: the history implements the window |
| `chat_fair` | capacity 1, backlog 1, 1 post, 1 reply, guests only, fair tasks | `NewestArrives`: the newest message comes to every listener; `RoomIsLetGo`: history requests are answered, sockets leave |

**Why the bounds are enough.** Two handlers are what an interleaving of the
tables needs: every property of `Accounts` is about one write between two
accesses of one handler, and the second handler may run any number of operations
there. Two applications for one name and two tokens for one application both
occur. In `Sessions` three handlers are a stale writer, a logout and a witness, or
two verifications of different age and a witness; a timeout of one tick and three
ticks let a session be refreshed, expire, and be judged by a handler that began
before. Two connections are
what a race for a container needs, with two channels on one of them a bystander to
every request that ends the connection. In the chat two sockets give two receivers, two fan-outs, a rival for a
name and a bystander; three posts overfill a history of two and a channel of two,
so that the ring turns, a history overlaps live messages, and a lag happens. In
`records` two handlers are a transaction and whoever writes in between, who may be a
claim or a restart as well; one key name makes every two additions rivals. In
`files` two changes are what it takes to delete a page and put another one in its
place, or to write twice in a second, on both sides of a request; the copy of one
request is the condition of the next. The theorems below do not depend on any of
it. Symmetry is used for
tokens, applications, handlers and sockets where the configuration names it, and
never in a run that checks liveness.

**Fairness.** In the chat `FairSpec` has weak fairness for each of the three tasks of each
socket: tokio polls every task that is ready, and an abort takes effect at the
task's next await. There is none for clients: nobody has to connect, post or
leave. For the send task it says that a client which stays keeps reading, because
a send to a socket nobody reads from never returns; a client that does not is
covered by the ends a sender may come to at any time. Waiting for a lock is weak
fairness too: with a bounded number of requests nobody can be overtaken for ever,
and dashmap's locks make no stronger promise for an unbounded number. In
`SshSession` it has weak fairness for the method that waits for docker, because
bollard gives every call a timeout. A write to a program's input has no timeout
(session.rs 357), and a program need not read: `Written` is fair only once that program
has ended, when the write fails. What readers send goes out through the connection,
between its methods, among the client's messages; the connection's loop leaves neither
side out for ever, so a reader's end has strong fairness while no method is under
way, and so has a client's reply to the end of a channel, which the SSH protocol
makes its duty (RFC 4254, 5.3). Nothing makes a client ask for anything.
`ProgramEndsChannel` has the condition `[]<>~Blocked(s)`: without it TLC shows a program
that ends while the connection waits for another one to read, and whose channel
stays.

## 4. Proofs

`tlapm <module>` checks every step; nothing is assumed besides the constants'
assumptions (`ConstantsAssumption`, `SessionsAssumption`, `RecordsAssumption`,
`GuestbookAssumption`, `SitesAssumption`, `PathsAssumption`, `FilesAssumption`,
`CapacityAssumption`, `ChatAssumption`, `NoneAssumption`, `BehavioursAssumption`,
`ChannelAssumption`), which TLC evaluates in the runs.

**Accounts.** All of the invariants the run checks, for any number of names,
applications, tokens and handlers. They do not hold by themselves: that an
approval's token works when it is answered needs to know what every other handler
may write in the meantime. `IInv` adds five parts: what a handler has in its
local variables at each step (`LocalsInv`); wherever a token turns up it goes
with the one application it was drawn for (`TokenInv`); before its application
is written a token is known to its approval alone (`FreshInv`); a token is in its
application or retired while its approval is about to write it, and retired once
a claim has written its application back (`WriteInv`); how far a claim has got
(`ProgressInv`). `TokenInv` and `FreshInv` are what keeps a stale copy harmless: it
can only carry a token that is current for the same application or one the
history knows as retired. The proof has three layers: types and locals
(`StepBasic`), tokens (`StepTokens`), accounts and homes (`StepAccounts`), each with
one lemma per action that matters and one for the actions that leave its part
alone. `TypeCorrect`, `TokensRedeemable`, `ApprovalsStand`, `AccountsOwned`,
`ClaimsMarkedLater`, `ClaimsComplete`, `RetiredForGood` and `RetiredRefused` follow from
`InductiveInvariant`.

**Sessions.** `LogoutFinal` and `TimeoutFinal` are the two action properties,
`TypeCorrect` the types, all from `InductiveInvariant`. `IInv` says what a copy in a
handler's hands may carry: nothing is stamped later than it was read (`PastInv`);
a session still to be created is its login's alone (`FreshInv`); a token in `ended`
is logged out in the table and in no verification's hands (`EndedInv`); a token in
`idle` is logged out or expired in the table, and a verification that holds it
holds an expired copy (`IdleInv`). A logout that writes an old `last_active` back
does no harm because it logs out. The theorems hold for every timeout and for
every `MaxTime`, so the bound on the clock is none.

**User records and guestbook.** `RecordsImplementAtomic` and
`GuestbookImplementsModeration` are the two refinements, `TypeCorrect` and
`ClaimedStaysPlain` the invariants. What carries them is one part of the inductive
invariant: a staged record that is still `fresh` is the change that was asked for,
applied to the record which is in the table now, and allowed there. Then `Commit`
is the abstract change, staging is a stutter (or the asking), and a stale commit
is a refusal. For the guestbook the invariant says that a copy in hand has the text
of the entry in the table, and that its entry was asked for.

**Sites.** `Served` follows from `KeptInv`: while the process is not down its map has
the built-in site and the sites of the accounts settled at the start, because every
handler writes its own clone. The rest, from the kept map to the answer for a host,
is arithmetic of names (`KeptIsServed`), and needs that no name is `None`.

**Ring buffer.** `PushInBounds` keeps the bounds, `PushWhenRoom` and `PushWhenFull`
say what a push does to what `ToVec` shows, for every capacity and every set of
items. The arithmetic of `%` is the lemma `WrapOnce`.

**Chat.** `HistoryCorrect` carries the same lemmas into the chat: the history is
the last `Capacity` messages, whoever pushes; `HistoryImplementsWindow` that it implements
the window step by step. `MembersOpen` shows that no name is left in the room
without a socket; the argument is that `Join` comes after the socket has a name and
`Disconnect` is the only way from `select` to `done`.

The second part of `ChatProofs` proves what a client is sent: `LiveOrdered`, `WithoutHoles` and
`UpToDate`, with `TypeCorrect`, from one inductive invariant. Its parts: how far the
tasks of a socket can be apart (`PlaceInv`); that the guard on the room lets one
message be fanned out at a time, the newest, to names in the room (`RoomInv`); that a
socket without a rival is where its name leads (`NameInv`); that no live message in
a channel is newer than the newest, and that the one on its way to a socket is newer
than all it has been sent (`OrderInv`); and, for a socket without a rival (`StreamInv`),
that what it has been sent and what waits in its channel has no hole after any number
of receives, reaches the newest message or the one before it, which a fan-out is then
bringing, and touches the history the socket is about to send. `NoGap` says nothing
of the channel and `CaughtUp` nothing of a busy socket, so neither is inductive. The
argument for every send is one lemma on numbers: two stretches that touch are one
(`Joining`, and `HistoryJoins` for a history). The theorems hold for every capacity of
channel and history, so what a lagging client loses is covered whatever the 100 and the
history length are.

**SSH sessions.** `OwnProcesses`, `KillsLetGo` and `NothingLeftBehind`, with
`TypeCorrect`, for any number of users, connections, channels and processes. `IInv` says
where a process is: in the hands of one method or held by one channel, in the
container of the user of either (`ProcessInv`); for whom and on which channel a method
works, and that a session which is not open has nothing (`SessionInv`); and, for
`CleanedUp`, that a method is about to create a container only on a connection none of
whose channels has a process, so that the race for the container, which docker decides
by refusing the second and which ends that connection, leaves none behind
(`CalmInv`). Three lemmas carry the steps: a method goes on (`TaskStep`), a connection is
dropped (`DropStep`), whose the processes are stays as it is (`KeepStep`).

**Static files.** All five invariants of the run, for every site that is a tree, any
number of changes by the owner and any length of a request: `TypeCorrect`,
`PresentPageIsServed`, `KeptCopyIsCurrent`, `AnnouncedIsSent` and `RedirectsOnce`, from
`InductiveInvariant`; besides, `PathsStayBelow`, that a path which is not refused leads
to names below the folder of the site, none of them empty, `.` or `..`.

None but the first is inductive. `PresentIsServed` says nothing of the steps before the
file is open: `PageInv` adds where the request looks at each of them as long as its
page is there; a folder that turns up or goes between is_dir and open cannot matter,
because the length of the page tells whether the path was a folder's (`PageTells`), and
the fallback is out of reach; the steps that take a file which is there for a missing
one end the history of the page, and with it what `PageInv` says. `CopyIsCurrent` speaks of one answer: `PastInv` (no version
and no date is still to come), `OpenInv` (what has taken the place of an open file is
dated no earlier than it was opened) and `CopyInv` (whatever lies at the path of a copy,
or is open there, and is dated no later than the copy has its version, if the copy was
opened in a later second) carry it from the body that gave the copy, over any number of
changes, to the condition that shows its date. `HeadInv` says what the head has promised
while the body is to come: the file with the version of the head is the file of the
head, and the range fits it. Seven kinds of steps are told apart (`Kinds`), with one
lemma per part of the invariant.

`OneRedirect` and `PathsStayBelow` are about sequences of any length and recursive
functions on them. Induction is used in the form of sets: a set of numbers that is not
empty has a least element (`NatMin`, from the well-foundedness of the library), so an
interval lies in a set that every step stays in (`UpTo`), and a value carried on from
index to index makes a function (`Iterated`). By it `FlattenUnfolds` and `NormalUnfolds`
say what the folds over decoded segments and names return at each index; then the empty
segments `trim_start_matches` leaves at the end change neither validity nor
components (`DecodedPadded`, `NormalPadded`), and `TrimKeeps` compares the two ways
the code trims (files.rs 354 and 385).

**Only model-checked:** liveness (`NewestArrives`, `RoomIsLetGo`,
`ProgramEndsChannel`), which TLAPS cannot do with fairness here. Every other property of
a passing run is stated by a theorem.

## 5. What the checks found

`accounts_not_copied`: `create_home` calls `std::fs::copy` on every entry of the
default home, which fails for a directory, and the default home that `deploy.sh`
installs has one (`default-home/public`). The claim is answered with an error
after the account has been created, the application marked and the token spent;
the user can log in but what had not been copied yet is missing, and the claim
cannot be repeated. The comment at users.rs 144 says that the default home is
copied.

`sites_claimed`: `claim` calls `set_site` (api.rs 250) on the `AppState` its request was
given. That is a clone, and `sites` is a plain `DashMap`, so the clone has a map of
its own which ends with the request. The comment at state/mod.rs 89 says that the
call is what is needed when a user is added; the router goes on answering 404 for
the new user until the process is started again. `sites` shows that the restart
heals it. The trace: start, claim, `set_site`, and the router's map is unchanged.

`ssh_bare`: channel_close asks the channel for its exec id with `?` (session.rs 403).
A channel without a process makes it return an error, which ends the connection;
the processes of its other channels run on, and no channel_close will be called
for them. "Clean up" (session.rs 401) is what the comment promises.

Behaviour that no doc or comment speaks about is no finding but is stated where it
is modelled: an overlapped logout may be undone (`Sessions`), the second of two
sockets of one name can fall silent (`Chat`), sessions outlive their user,
a connection that breaks off leaves its processes (`SshSession`, `break`), and a
second program on a channel takes the place of the first, whose exec id is then
lost (session.rs 240 and 299, `again`), and a program that runs and does not read its
input keeps its connection from anything else (session.rs 357, `Blocked`), which a
program does for good that waits for its own output to be read first, because the
connection passes that on between methods only.

## 6. Not modelled

* WebDAV hands each request to the dav_server crate and keeps no state; sftp.rs is
  not wired to any session; errors.rs maps errors to responses; parsing, cookies,
  headers and logging have no property here.
* What the validators of names and keys accept is a set the models are given, and a
  password stands for its hash.
* The keys an SSH session has read when its user was first named (session.rs 88), and
  with them which offers are accepted; `Offer` lets either happen.
* Debug builds choose hosts by other names (web/mod.rs 198-200); the release build is
  the one modelled.
* Opening sockets, reading the configuration and choosing between the two servers in
  `main`.

## 7. Plan

Accounts, sessions, user records, guestbook, sites and hosts, static files, ring
buffer, chat, SSH sessions and containers are modelled, with the runs of section 3
and the proofs of section 4, which state every safety property of the runs. What is left
is liveness by proof, for a prover that can do `ENABLED`.
