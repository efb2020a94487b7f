------------------------------- MODULE MCESim -------------------------------
(* Small instances of ESim: one card with every profile, or a second card  *)
(* that can take its place, with a profile of its own.                     *)
EXTENDS ESim, TLC

CONSTANTS c1, c2, p1, p2

OneCard  == [p \in Profiles |-> c1]
TwoCards == [p \in Profiles |-> IF p = p1 THEN c1 ELSE c2]
=============================================================================
