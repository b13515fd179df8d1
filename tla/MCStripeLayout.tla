--------------------------- MODULE MCStripeLayout ---------------------------
EXTENDS StripeLayout

File(code, alpha, k, r, z, nodes, clusters) ==
  [CodeType |-> code, alpha |-> alpha, k |-> k, r |-> r, z |-> z,
   DatanodeNumPerCluster |-> nodes, ClusterNum |-> clusters]

\* the four settings of parameterConfiguration.xml
Shipped ==
  {File("OptimalLRC", 2, 180, 20, 10, 30, 19),
   File("OptimalLRC", 2, 30, 10, 2, 30, 19),
   File("UniformLRC", 2, 30, 6, 6, 30, 19),
   File("AzureLRC", 2, 30, 6, 6, 30, 19)}

\* small files around the thresholds of validateConfig
Small ==
  {File("UniLRC", a, 0, 0, z, nodes, clusters) :
     a \in 1 .. 2, z \in 2 .. 3, nodes \in 3 .. 8, clusters \in 2 .. 4}
  \union
  {File(code, 1, k, r, z, nodes, clusters) :
     code \in {"AzureLRC", "OptimalLRC", "UniformLRC"},
     k \in 1 .. 8, r \in 1 .. 3, z \in 1 .. 3,
     nodes \in 3 .. 5, clusters \in 2 .. 6}

\* the small files the formulas fit, and the shipped ones
CheckedFiles == {f \in Small : Supported(loadConfig(f))} \union Shipped
=============================================================================
