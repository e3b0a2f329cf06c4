---------------------------- MODULE MCStaticFiles ----------------------------
(* An instance of StaticFiles for TLC: a site with a page, a folder, its own *)
(* 404.html, or none of them.                                               *)
EXTENDS StaticFiles

MCSegments == {"", ".", "..", "a", "a.html", "a.txt", "index.html", "404.html", "%2F", "a%2F", "%2E%2E", "%FF"}

MCDecode ==
  [s \in MCSegments |->
     CASE s = "%2F" -> <<"", "">>
       [] s = "a%2F" -> <<"a", "">>
       [] s = "%2E%2E" -> <<"..">>
       [] s = "%FF" -> <<>>
       [] OTHER -> <<s>>]

MCBase == <<"public">>
MCPaths == {MCBase} \cup
  {MCBase \o p : p \in {<<"a">>, <<"a.html">>, <<"404.html">>, <<"index.html">>, <<"a", "index.html">>}}

MCWithHtml ==
  [n \in {"public", "public.html", "a", "a.html", "a.txt", "404.html", "index.html"} |->
     CASE n \in {"a", "a.txt"} -> "a.html" [] n = "public" -> "public.html" [] OTHER -> n]

MCBare == {"public", "a"}

MCTyped == {"a.html", "404.html", "index.html"}

MCFolder(full, folders) ==
  [p \in MCPaths |-> IF p \in full THEN "file" ELSE IF p \in folders THEN "dir" ELSE "none"]

\* A page without its extension, one with it and a 404 page, and a folder.
MCFolders == {
  MCFolder({<<"public", "a">>}, {MCBase}),
  MCFolder({<<"public", "a.html">>, <<"public", "404.html">>}, {MCBase}),
  MCFolder({<<"public", "index.html">>, <<"public", "a", "index.html">>}, {MCBase, <<"public", "a">>})}

\* Paths of one segment, and longer ones with slashes where none are needed.
MCRequestSet ==
  [1 .. 1 -> MCSegments \ {"a.html", "404.html", "index.html"}] \cup {
    <<"", "">>, <<"a", "">>, <<"a", "a">>, <<"a", "", "">>, <<"", "a", "%2F">>}

MCSizes == {0, 2}

=============================================================================
