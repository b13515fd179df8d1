---------------------------- MODULE MCRepairPath ----------------------------
(* Values for the constants of RepairPath: a stripe of blocks 0 and 1 in   *)
(* cluster 0 and 2 in cluster 1; n4 is a node of cluster 0 without the     *)
(* stripe.                                                                 *)
EXTENDS RepairPath, TLC

CONSTANTS n1, n2, n3, n4, c1, c2

MCmap2node == (0 :> n1) @@ (1 :> n2) @@ (2 :> n3)
MCFailed   == (1 :> 0) @@ (2 :> 0) @@ (3 :> 1) @@ (4 :> 1)
MCDest     == [o \in 1 .. 4 |-> 0]
MCSources  == [o \in 1 .. 4 |-> (0 :> {1 - MCFailed[o]}) @@ (1 :> {2})]
MCSpare    == [o \in 1 .. 4 |-> {n4}]
MCClientOf == [o \in 1 .. 3 |-> c1] @@ (4 :> c2)

\* a recovery and a degraded read of two clients; a recovery and a call for two
\* blocks of one
MCTogether == {{1, 4}, {1, 2, 3}}
=============================================================================
