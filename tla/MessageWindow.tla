---------------------------- MODULE MessageWindow ----------------------------
(***************************************************************************)
(* What the history of a room promises: the last Capacity messages, the    *)
(* oldest first.  Messages are numbered in the order they are posted.      *)
(***************************************************************************)
EXTENDS Naturals, Sequences

CONSTANT Capacity

VARIABLES window, posted

\* One more message comes in at the end, the oldest leaves when there is no room.
Slide(w, n) == IF Len(w) < Capacity THEN Append(w, n) ELSE Append(Tail(w), n)

Init == window = <<>> /\ posted = 0

Next == /\ posted' = posted + 1
        /\ window' = Slide(window, posted + 1)

Spec == Init /\ [][Next]_<<window, posted>>

=============================================================================
