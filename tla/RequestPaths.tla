----------------------------- MODULE RequestPaths -----------------------------
(***************************************************************************)
(* From the path of a request to the path of a file: the redirect of       *)
(* superfluous slashes and the components that remain after decoding       *)
(* (normalize_trailing_slash and build_and_validate_path of                *)
(* src/src/web/files.rs).                                                  *)
(*                                                                         *)
(* The path of a request is the sequence of the segments between its       *)
(* slashes, the first of which is left out: <<"">> is /, <<"", "a", "">>   *)
(* is //a/.  A segment decodes to a sequence of segments, as it may hold   *)
(* encoded slashes, or to no text at all.                                  *)
(***************************************************************************)
EXTENDS Integers, SequencesExt

CONSTANTS
  Segments,   \* what may stand between two slashes, "" included
  Decode      \* what a segment decodes to, a sequence of segments or Garbage

Empty == ""
Garbage == <<>>

Skipped == {Empty, "."}

ASSUME PathsAssumption ==
  /\ Segments \subseteq STRING /\ {Empty, ".", ".."} \subseteq Segments
  /\ Decode \in [Segments -> Seq(Segments)]
  /\ \A s \in Segments : Decode[s] = <<Empty>> <=> s = Empty

\* A sequence without the empty segments it begins and ends with.
TrimStart(segments) ==
  LET named == {i \in DOMAIN segments : segments[i] # Empty} IN
  IF named = {} THEN <<Empty>> ELSE SubSeq(segments, Min(named), Len(segments))

Trim(segments) ==
  LET named == {i \in DOMAIN segments : segments[i] # Empty} IN
  IF named = {} THEN <<Empty>> ELSE SubSeq(segments, Min(named), Max(named))

\* Mutant: one slash is taken off the end.
NewPathOneSlash(segments) ==
  IF Len(segments) > 1 /\ Last(segments) = Empty THEN Front(segments) ELSE TrimStart(segments)

NewPath(segments) == Trim(segments)

\* A path with a slash at its end, or two at its start, is redirected unless it
\* is / already.
Redirected(segments) ==
  /\ Last(segments) = Empty \/ (Head(segments) = Empty /\ Len(segments) > 1)
  /\ NewPath(segments) # segments

Decoded(segments) ==
  FlattenSeq([i \in DOMAIN segments |-> Decode[segments[i]]])

\* Every part has to decode, to something that does not start with a slash or
\* climb to a parent.
Valid(segments) ==
  LET trimmed == TrimStart(segments)
      decoded == Decoded(trimmed)
  IN
  /\ \A i \in DOMAIN trimmed : Decode[trimmed[i]] # Garbage
  /\ Len(decoded) > 1 => decoded[1] # Empty
  /\ \A i \in DOMAIN decoded : decoded[i] # ".."

\* Empty names and `.' count for nothing.
Normal(names) ==
  LET kept[i \in 0 .. Len(names)] ==
        IF i = 0 THEN <<>>
        ELSE IF names[i] \in Skipped THEN kept[i - 1]
        ELSE Append(kept[i - 1], names[i])
  IN  kept[Len(names)]

\* The components of a valid path.
Components(segments) == Normal(Decoded(TrimStart(segments)))

=============================================================================
