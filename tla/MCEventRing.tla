---------------------------- MODULE MCEventRing -----------------------------
(* Two interchangeable writers, two interchangeable routes and a ring of   *)
(* three slots that wraps around.                                          *)
EXTENDS EventRing, TLC

Symmetry == Permutations(Writer) \cup Permutations(Route)
=============================================================================
