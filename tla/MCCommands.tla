------------------------------ MODULE MCCommands ------------------------------
(* Commands on small instances: c1 updates an aggregate, c2 creates something *)
(* new, and c3 updates the aggregate of c1 as a resent invitation does, with   *)
(* the key of c2.                                                             *)
EXTENDS Commands, TLC

CONSTANTS c1, c2, c3, k1, k2, a, r1, r2, r3

MCKeyOf == [c \in Command |-> IF c = c1 THEN k1 ELSE k2]
MCAggregateOf == [c \in Command |-> a]
MCVersioned == Command \ {c2}
MCDeferred == Command \cap {c3}

MCSymmetry == Permutations(Request)
=============================================================================
