------------------------------ MODULE StaticFiles ------------------------------
(***************************************************************************)
(* How a request for a file of a site is answered (src/src/web/files.rs)   *)
(* while the owner of the site changes the files: which file is opened,    *)
(* when the client is told that its copy will do, and how much is sent.    *)
(*                                                                         *)
(* Requests share nothing but the files, so there is one at a time.  Each  *)
(* access to the file system is a step; what is computed from its result,  *)
(* and from the request, belongs to the step.                              *)
(***************************************************************************)
EXTENDS RequestPaths

CONSTANTS
  Paths,       \* where files and folders may be, as sequences of names
  Base,        \* the folder of the site, one of them
  Index,       \* index.html
  NotFound,    \* 404.html
  WithHtml,    \* each name with its extension, if any, replaced by html
  Bare,        \* the names that have no extension
  Typed,       \* the names whose extension has a known media type
  Folders,     \* what the site may be like at first
  RequestSet,  \* paths clients ask for
  Sizes,       \* sizes of files
  MaxChanges,  \* bound: changes to the files
  MaxTime,     \* bound: the clock
  None, Dir

Names == STRING
Places == Seq(Names)
Node == [version : Nat, size : Nat, time : Nat]
Extent == [first : Nat, last : Nat]
Copy == [url : Places, path : Paths, version : Nat, date : Nat, opened : Nat]
Request == [url : Places \ {<<>>}, path : Places]
OpenFile == [at : Node \cup {Dir}, path : Paths, typed : BOOLEAN, opened : Nat]
Meta == [found : Node, range : Extent \cup {None}, upheld : Copy \cup {None}]

ASSUME FilesAssumption ==
  /\ Paths \subseteq Places \ {<<>>} /\ Base \in Paths
  /\ \A p \in Paths : Len(p) > 1 => Front(p) \in Paths
  /\ Index \in Names /\ NotFound \in Names /\ Bare \subseteq Names
  /\ Folders \subseteq [Paths -> {"file", "dir", "none"}]
  /\ \A folder \in Folders, p \in Paths :
       Len(p) > 1 /\ folder[p] # "none" => folder[Front(p)] = "dir"
  /\ RequestSet \subseteq Seq(Segments) \ {<<>>}
  /\ Sizes \subseteq Nat /\ MaxChanges \in Nat /\ MaxTime \in Nat
  /\ None # Dir /\ Dir \notin Node
  /\ None \notin Node \cup Places \cup Extent \cup Copy \cup Request

\* The clock ticks twice a second; dates count seconds.
Date(time) == time \div 2

VARIABLES
  fs,        \* what is at each path: a file with its metadata, Dir or None
  changes,   \* how many changes there have been; numbers the versions of files
  now,       \* the clock
  pc,        \* step of the request
  req,       \* what is asked for and, resolved, where to look for it
  file,      \* the open file
  meta,      \* its metadata and the range to send
  response,  \* the answer, until something else happens
  copy,      \* the copy of a file the client keeps, with its date
  page       \* history: the page that has been there, and could be had, during all
             \* of the request

files == <<fs, changes>>
request == <<pc, req, file, meta>>
vars == <<files, now, request, response, copy, page>>

NoFile == [at |-> None, path |-> None, typed |-> FALSE, opened |-> 0]
Plain(status) == [status |-> status]
NoAnswer == Plain("none")

Original == [version |-> 0, size |-> 1, time |-> 0]

Init ==
  /\ \E folder \in Folders :
       fs = [p \in Paths |-> IF folder[p] = "file" THEN Original
                             ELSE IF folder[p] = "dir" THEN Dir ELSE None]
  /\ changes = 0
  /\ now = 0
  /\ pc = "idle"
  /\ req = None
  /\ file = NoFile
  /\ meta = None
  /\ response = NoAnswer
  /\ copy = None
  /\ page = None

-----------------------------------------------------------------------------
\* The file system.

Parent(path) == Front(path)
Html(path) == [path EXCEPT ![Len(path)] = WithHtml[@]]

Found(f, path) == IF path \in Paths THEN f[path] ELSE None
IsDir(f, path) == Found(f, path) = Dir
IsFile(f, path) == Found(f, path) \notin {None, Dir}
BehindFile(f, path) == \E i \in 1 .. Len(path) - 1 : IsFile(f, SubSeq(path, 1, i))

\* The page a path stands for: the file itself, the index of the folder or, if
\* there is nothing and the path has no extension, the html file of that name.
Page(f, path) ==
  LET missing == Found(f, path) = None /\ ~BehindFile(f, path)
      candidate == IF IsDir(f, path) THEN path \o <<Index>>
                   ELSE IF missing /\ path[Len(path)] \in Bare THEN Html(path)
                   ELSE path
  IN  IF IsFile(f, candidate) THEN candidate ELSE None

Change(path, node) ==
  /\ changes < MaxChanges
  /\ changes' = changes + 1
  /\ fs' = [fs EXCEPT ![path] = node]
  /\ page' = IF req # None /\ Page(fs', req.url) # page THEN None ELSE page
  /\ response' = NoAnswer
  /\ UNCHANGED <<now, pc, req, meta, copy>>

Fresh(size) == [version |-> changes + 1, size |-> size, time |-> now]

\* In place: whoever has the file open sees it.
Write(path, size) ==
  /\ IsFile(fs, path)
  /\ Change(path, Fresh(size))
  /\ file' = IF file.path = path /\ file.at = fs[path] THEN [file EXCEPT !.at = fs'[path]] ELSE file

\* A new file, which may take the place of another.
Put(path, size) ==
  /\ fs[path] # Dir
  /\ Len(path) > 1 => fs[Parent(path)] = Dir
  /\ Change(path, Fresh(size))
  /\ UNCHANGED file

MakeDir(path) ==
  /\ fs[path] = None
  /\ Len(path) > 1 => fs[Parent(path)] = Dir
  /\ Change(path, Dir)
  /\ UNCHANGED file

Delete(path) ==
  /\ fs[path] # None
  /\ \A p \in Paths : Len(p) > 1 /\ Parent(p) = path => fs[p] = None
  /\ Change(path, None)
  /\ UNCHANGED file

Tick ==
  /\ now < MaxTime
  /\ now' = now + 1
  /\ response' = NoAnswer
  /\ UNCHANGED <<files, request, copy, page>>

-----------------------------------------------------------------------------
\* The handler.

Respond(answer) ==
  /\ response' = answer
  /\ pc' = "idle"
  /\ req' = None
  /\ file' = NoFile
  /\ meta' = None
  /\ page' = None

Goto(step) ==
  /\ pc' = step
  /\ response' = NoAnswer

\* The method, the slashes and the path are judged in this order, before any file
\* is touched.
Moved == {segments \in RequestSet : Redirected(segments)}
Refused == {segments \in RequestSet \ Moved : ~Valid(segments)}
Urls == {Base \o Components(segments) : segments \in RequestSet \ (Moved \cup Refused)}

\* Another method than GET, a path that is no path, or, last of all, HEAD.
RefuseRequest ==
  /\ pc = "idle"
  /\ \/ Respond(Plain("method_not_allowed"))
     \/ Refused # {} /\ Respond(Plain("bad_request"))
     \/ Urls # {} /\ Respond(Plain("error"))
  /\ UNCHANGED <<files, now, copy>>

Redirect(segments) ==
  /\ pc = "idle"
  /\ segments \in Moved
  /\ Respond([status |-> "moved", from |-> segments, location |-> NewPath(segments)])
  /\ UNCHANGED <<files, now, copy>>

\* A GET for a file.
Receive(url) ==
  /\ pc = "idle"
  /\ req' = [url |-> url, path |-> url]
  /\ page' = Page(fs, url)
  /\ Goto("resolve")
  /\ UNCHANGED <<files, now, file, meta, copy>>

\* Mutant: a folder is not looked into.
ResolveNoIndex ==
  /\ pc = "resolve"
  /\ Goto("open")
  /\ UNCHANGED <<req, files, now, file, meta, copy, page>>

\* A folder of which no metadata can be read is taken for a file.
Resolve ==
  /\ pc = "resolve"
  /\ \/ /\ req' = IF IsDir(fs, req.path) THEN [req EXCEPT !.path = @ \o <<Index>>] ELSE req
        /\ UNCHANGED page
     \/ IsDir(fs, req.path) /\ page' = None /\ UNCHANGED req
  /\ Goto("open")
  /\ UNCHANGED <<files, now, file, meta, copy>>

Opened(path, typed) ==
  /\ file' = [at |-> Found(fs, path), path |-> path, typed |-> typed, opened |-> Date(now)]
  /\ Goto("metadata")
  /\ UNCHANGED <<req, meta, page>>

IsTyped(path) == path[Len(path)] \in Typed

\* Only a file that is missing is looked for elsewhere.
Open ==
  /\ pc = "open"
  /\ \/ /\ Found(fs, req.path) # None
        /\ Opened(req.path, IsTyped(req.path))
     \/ /\ Found(fs, req.path) = None
        /\ BehindFile(fs, req.path)
        /\ Respond(Plain("error"))
     \/ /\ Found(fs, req.path) = None
        /\ ~BehindFile(fs, req.path)
        /\ Goto("open_html")
        /\ UNCHANGED <<req, file, meta, page>>
  /\ UNCHANGED <<files, now, copy>>

\* Here every error, of a file that is there too, is taken for a missing file.
OpenHtml ==
  LET path == Html(req.path) IN
  /\ pc = "open_html"
  /\ \/ Found(fs, path) # None /\ Opened(path, TRUE)
     \/ /\ page' = IF Found(fs, path) = None THEN page ELSE None
        /\ Goto("fallback")
        /\ UNCHANGED <<req, file, meta>>
  /\ UNCHANGED <<files, now, copy>>

\* Mutant: the page for what is missing is taken to be there.
FallbackAlways ==
  /\ pc = "fallback"
  /\ Opened(Base \o <<NotFound>>, TRUE)
  /\ UNCHANGED <<files, now, copy>>

\* And here.
Fallback ==
  LET path == Base \o <<NotFound>> IN
  /\ pc = "fallback"
  /\ \/ Found(fs, path) # None /\ Opened(path, IsTyped(path))
     \/ Respond(Plain("not_found"))
  /\ UNCHANGED <<files, now, copy>>

\* The file cannot be opened though it is there, or has no metadata to be read.
Fail ==
  /\ pc \in {"open", "metadata"}
  /\ Respond(Plain(IF pc = "open" THEN "error" ELSE "bad_request"))
  /\ UNCHANGED <<files, now, copy>>

-----------------------------------------------------------------------------
\* What is sent of an open file.

\* Mutant: the comparison is the wrong way round.
SinceSwapped(date, time) == date <= Date(time)

Since(date, time) == date >= Date(time)

\* What the library makes of a range header: ranges that fit the size it is
\* given, or none.
Ranges(size) ==
  LET fitting == {range \in [first : 0 .. size - 1, last : 0 .. size - 1] : range.first <= range.last}
  IN  {ranges \in SUBSET fitting : Cardinality(ranges) <= 2}

\* The body is still to come; the head is made from what is known now.
Send(range, upheld) ==
  /\ meta' = [found |-> file.at, range |-> range, upheld |-> upheld]
  /\ Goto("body")
  /\ UNCHANGED <<req, file, page>>

\* If-Unmodified-Since is judged before If-Modified-Since.
CheckModified(conditions, current) ==
  IF "unmodified" \in conditions /\ ~current THEN "precondition_failed"
  ELSE IF "modified" \in conditions /\ current THEN "not_modified"
  ELSE "none"

\* A condition is the date of the client's copy of what it asks for.  Conditions
\* are judged before the range, if there is one.
Metadata(conditions) ==
  LET verdict == CheckModified(conditions, Since(copy.date, file.at.time))
      upheld == IF "unmodified" \in conditions THEN copy ELSE None
  IN
  /\ pc = "metadata"
  /\ conditions # {} => copy # None /\ copy.url = req.url
  /\ \/ file.at = Dir /\ Respond(Plain("not_found"))
     \/ /\ file.at # Dir /\ verdict = "precondition_failed"
        /\ Respond(Plain("precondition_failed"))
     \/ /\ file.at # Dir /\ verdict = "not_modified"
        /\ Respond([status |-> "not_modified", path |-> file.path,
                    seen |-> file.at.version, upheld |-> copy])
     \/ /\ file.at # Dir /\ verdict = "none"
        /\ \/ Send(None, upheld)
           \/ \E ranges \in Ranges(file.at.size) :
                \/ ranges = {} /\ Respond(Plain("unsatisfiable"))
                \/ Cardinality(ranges) > 1 /\ Respond(Plain("error"))
                \/ Cardinality(ranges) = 1 /\ \E range \in ranges : Send(range, upheld)
  /\ UNCHANGED <<files, now, copy>>

Announced ==
  IF meta.range = None THEN meta.found.size ELSE meta.range.last - meta.range.first + 1

\* Mutant: the range is sent without its last byte.
SentShort(size) ==
  IF meta.range = None THEN size ELSE Max({0, Min({size, meta.range.last}) - meta.range.first})

\* A whole file is sent to its end, a range as far as there is anything.
Sent(size) ==
  IF meta.range = None THEN size
  ELSE Max({0, Min({size, meta.range.last + 1}) - meta.range.first})

\* The body is read after the head is made.  A client may keep what it gets
\* whole, if it has a date.
Body ==
  /\ pc = "body"
  /\ Respond([status |-> "sent", path |-> file.path,
              seen |-> meta.found.version, upheld |-> meta.upheld,
              range |-> meta.range, announced |-> Announced, sent |-> Sent(file.at.size),
              changed |-> file.at.version # meta.found.version])
  /\ \/ UNCHANGED copy
     \/ /\ meta.range = None /\ file.typed
        /\ copy' = [url |-> req.url, path |-> file.path, version |-> file.at.version,
                    date |-> Date(meta.found.time), opened |-> file.opened]
  /\ UNCHANGED <<files, now>>

Handler ==
  \/ Resolve \/ Open \/ OpenHtml \/ Fallback \/ Body \/ Fail
  \/ \E conditions \in SUBSET {"modified", "unmodified"} : Metadata(conditions)

Owner(path) ==
  \/ \E size \in Sizes : Write(path, size) \/ Put(path, size)
  \/ MakeDir(path)
  \/ Delete(path)

Next ==
  \/ RefuseRequest
  \/ \E segments \in Moved : Redirect(segments)
  \/ \E url \in Urls : Receive(url)
  \/ Handler
  \/ \E path \in Paths : Owner(path)
  \/ Tick

Spec == Init /\ [][Next]_vars

-----------------------------------------------------------------------------
(***************************************************************************)
(* Properties.                                                             *)
(***************************************************************************)

\* The type invariant; the tree is one, and an open file or folder was opened
\* where the request looked.
TypeOK ==
  /\ fs \in [Paths -> Node \cup {None, Dir}]
  /\ \A p \in Paths : Len(p) > 1 /\ fs[p] # None => fs[Parent(p)] = Dir
  /\ changes \in 0 .. MaxChanges
  /\ now \in 0 .. MaxTime
  /\ pc \in {"idle", "resolve", "open", "open_html", "fallback", "metadata", "body"}
  /\ IF pc = "idle" THEN req = None ELSE req \in Request
  /\ IF pc \in {"metadata", "body"} THEN file \in OpenFile ELSE file = NoFile
  /\ IF pc = "body" THEN meta \in Meta /\ file.at # Dir ELSE meta = None
  /\ copy \in Copy \cup {None}
  /\ page \in Paths \cup {None}

Served == {"sent", "not_modified"}

\* A page that is there from the moment a request is received is what the
\* request opens, whatever else changes between the four steps that look for it
\* (files.rs:90, 96, 99): the fallback is for pages that were missing.  It is for
\* pages that were there, too, whose folder's metadata could not be read or that
\* did not open (files.rs:164, 324): these steps make `page' None.
PresentIsServed ==
  page # None =>
    /\ pc # "fallback"
    /\ file # NoFile => file.path = page /\ file.at # Dir

\* A copy, kept or continued, is of the version that is there, unless the file
\* was written in the second it was opened in, or while it was, or the request
\* has come to lead to another path (files.rs:116, 273).
CopyIsCurrent ==
  response.status \in Served /\ response.upheld # None =>
    LET kept == response.upheld IN
    kept.opened > kept.date /\ kept.path = response.path => kept.version = response.seen

\* As much is sent as was announced unless the file changed after its metadata
\* was read, and a range never gets more (files.rs:208, 224).
SentAsAnnounced ==
  response.status = "sent" =>
    /\ ~response.changed => response.sent = response.announced
    /\ response.range # None => response.sent <= response.announced

\* A redirect leads to where the path led, and is not followed by another
\* (files.rs:50, 385).
OneRedirect ==
  response.status = "moved" =>
    /\ ~Redirected(response.location)
    /\ Valid(response.location) = Valid(response.from)
    /\ Valid(response.from) => Components(response.location) = Components(response.from)

=============================================================================
