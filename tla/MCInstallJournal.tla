-------------------------- MODULE MCInstallJournal --------------------------
(* Instances of InstallJournal for TLC.  Files are interchangeable, and so are *)
(* contents.                                                                   *)
EXTENDS InstallJournal, TLC

Symmetry == Permutations(Paths) \cup Permutations(Contents)

=============================================================================
