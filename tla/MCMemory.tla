------------------------------ MODULE MCMemory ------------------------------
(* Memory for TLC.                                                          *)
EXTENDS Memory, TLC

\* Two tiers of the shape of retentionTiers, small enough to fill.
SmallTiers == << [horizon |-> 2, bucket |-> 2], [horizon |-> 3, bucket |-> 3] >>

\* retentionTiers in units of five minutes.
CodeTiers == << [horizon |-> 12, bucket |-> 1], [horizon |-> 2016, bucket |-> 12],
                [horizon |-> 25920, bucket |-> 288] >>

Symmetry == Permutations(Procs) \cup Permutations(Keys)
=============================================================================
