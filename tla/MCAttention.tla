----------------------------- MODULE MCAttention -----------------------------
(* Attention on small instances. *)
EXTENDS Attention

CONSTANTS w1, w2, k1, k2
=============================================================================
