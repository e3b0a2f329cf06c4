SPECIFICATION Spec
CONSTANTS
  Segments <- MCSegments
  Decode <- MCDecode
  Paths <- MCPaths
  Base <- MCBase
  Index = "index.html"
  NotFound = "404.html"
  WithHtml <- MCWithHtml
  Bare <- MCBare
  Typed <- MCTyped
  Folders <- MCFolders
  RequestSet <- MCRequestSet
  Sizes <- MCSizes
  MaxChanges = 2
  MaxTime = 2
  None = None
  Dir = Dir
INVARIANT TypeOK
INVARIANT PresentIsServed
INVARIANT CopyIsCurrent
INVARIANT SentAsAnnounced
INVARIANT OneRedirect
