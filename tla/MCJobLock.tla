----------------------------- MODULE MCJobLock -----------------------------
(* Instances of JobLock for TLC.  Job identifiers are interchangeable, and so  *)
(* are request handlers; the liveness run uses no symmetry.                    *)
EXTENDS JobLock, TLC

Symmetry == Permutations(Jobs) \cup Permutations(Requests)

=============================================================================
