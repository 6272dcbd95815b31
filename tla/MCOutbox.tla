------------------------------ MODULE MCOutbox ------------------------------
(* Outbox on a small instance: two workers, one of which acts on late and on early readings of its clock. *)
EXTENDS Outbox

CONSTANTS w1, w2

MCWorker == {w1, w2}
MCSkewedClocks == [w \in MCWorker |-> IF w = w1 THEN {0} ELSE {0, 1}]
MCSameClocks == [w \in MCWorker |-> {0}]
=============================================================================
