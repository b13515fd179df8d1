----------------------------- MODULE MCSetPath -----------------------------
(* Values for the constants of SetPath: small stripes of two groups.       *)
EXTENDS SetPath

CONSTANTS n1, n2, n3, n4, c1, c2

\* two data blocks; block 1 belongs to the second group
MCGroupOf  == [b \in {0, 1} |-> b]
FullStripe == {{0, 1}}
AnySubset  == {{0, 1}, {0}}

\* both uploads by one client, or one by each of two
SameClient == [o \in Ops |-> c1]
OwnClient  == [o \in Ops |-> IF o = 1 THEN c1 ELSE c2]

OneGroup           == [b \in {0} |-> 0]
OneCluster         == [n \in {n1, n2} |-> 0]
OneNodePerCluster  == [n \in {n1, n2} |-> IF n = n1 THEN 0 ELSE 1]
TwoNodesPerCluster == [n \in {n1, n2, n3, n4} |-> IF n \in {n1, n3} THEN 0 ELSE 1]
=============================================================================
