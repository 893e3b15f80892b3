---------------------------- MODULE MCAccounts ----------------------------
(* Instances of Accounts for TLC. *)
EXTENDS Accounts, TLC

CONSTANTS root, bo_d, Bo_d, bo_sp_d

\* bo_d and Bo_d are one name but for the case.
Caseless == [n \in Names |-> IF n = Bo_d THEN bo_d ELSE n]
\* bo_d and bo_sp_d are different names of one file, like "bo_d" and "bo d".
Shared == [n \in Names |-> IF n = bo_sp_d THEN bo_d ELSE n]

Symmetric == Permutations(Requests) \cup Permutations(Passwords)
=============================================================================
