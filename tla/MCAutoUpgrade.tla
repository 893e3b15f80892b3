--------------------------- MODULE MCAutoUpgrade ----------------------------
(* Instances of AutoUpgrade for TLC.  Checks are interchangeable.              *)
EXTENDS AutoUpgrade, TLC

Symmetry == Permutations(Checks) \cup Permutations(Owners)

=============================================================================
