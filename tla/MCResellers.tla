----------------------------- MODULE MCResellers -----------------------------
(* Small instances of Resellers for TLC.                                       *)
EXTENDS Resellers, TLC

CONSTANTS ann, bob, cyd, none, req1, req2, std, big

\* Nothing is claimed of what follows a write on an overtaken check, or a check
\* that took what it could not read for nothing.
NothingAmiss == mess \cap {"stale", "unread"} = {}

\* The last of the requests is looked at where no package differs from the
\* Default one; all before it with packages of every cap.
LastOnDefault == asks = MaxAsks => cap = [p \in Packages |-> MaxCap]

Bounded == NothingAmiss /\ LastOnDefault
Symmetry == Permutations(Users) \cup Permutations(Requests)
=============================================================================
