---------------------------- MODULE MCAppendPath ----------------------------
(* Values for the constants of AppendPath: two data blocks and two parity  *)
(* blocks per group pair; the first data block and the global parity of    *)
(* its group are followed.                                                 *)
EXTENDS AppendPath, TLC

CONSTANTS n1, n2, c1

Alike == Permutations(Nodes)
=============================================================================
