----------------------------- MODULE MCSiteApps -----------------------------
(* Instances of SiteApps for TLC.  Requests are interchangeable.              *)
EXTENDS SiteApps, TLC

CONSTANTS j1, j2

Symmetry == Permutations(Jobs)

=============================================================================
