---------------------------- MODULE RecentEvents ----------------------------
(***************************************************************************)
(* What the recent-events list of the admin page promises: the last Cap    *)
(* events that were recorded, newest first, each one once.                 *)
(*                                                                         *)
(* EventRing implements it with an array and two indices.                  *)
(***************************************************************************)
EXTENDS Naturals, Sequences

CONSTANTS
    Cap,    \* recentEventsCap: 500 in the code
    Event

VARIABLE recent

Init == recent = << >>

\* The list after e: e first, and the oldest event gone if there is no room.
Pushed(list, e) ==
    LET n == IF Len(list) < Cap THEN Len(list) + 1 ELSE Cap
    IN  [k \in 1 .. n |-> IF k = 1 THEN e ELSE list[k - 1]]

Record(e) == recent' = Pushed(recent, e)

Next == \E e \in Event : Record(e)

Spec == Init /\ [][Next]_recent
=============================================================================
