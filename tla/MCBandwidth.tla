---------------------------- MODULE MCBandwidth ----------------------------
(* A small instance of Bandwidth: two places for a log, two months.  Inode   *)
(* numbers are only compared.                                                *)
EXTENDS Bandwidth, TLC

Symmetric == Permutations(Inodes)
=============================================================================
