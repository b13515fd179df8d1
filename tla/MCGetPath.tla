----------------------------- MODULE MCGetPath -----------------------------
(* Values for the constants of GetPath: blocks 0 and 1 of one cluster, on  *)
(* a node each; before or after a get of both, a get_blocks of the same    *)
(* client reads block 0, on whose node an append's handler may still wait. *)
EXTENDS GetPath, TLC

CONSTANTS n1, n2, c1

MCClusterOf == [b \in {0, 1} |-> 0]
MCmap2node  == (0 :> n1) @@ (1 :> n2)

MCWanted   == (1 :> {0, 1}) @@ (2 :> {0})
OneRead    == 1 :> {0, 1}
OneReader  == 1 :> c1
SameClient == (1 :> c1) @@ (2 :> c1)
=============================================================================
