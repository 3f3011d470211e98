----------------------------- MODULE MCApprovals -----------------------------
(* Instances of Approvals for TLC.  The decision requests are alike; the   *)
(* ids are not permuted, because AnId names one of them.                   *)
EXTENDS Approvals, TLC

PostSymmetry == Permutations(Posts)
=============================================================================
