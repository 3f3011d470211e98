------------------------------ MODULE MCGateway ------------------------------
(* Instances of Gateway for TLC: a few requests of each kind.  Requests of *)
(* the same kind are alike.                                                *)
EXTENDS Gateway, TLC

NormalSymmetry == Permutations(Reqs \ Interactive)
=============================================================================
