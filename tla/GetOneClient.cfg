SPECIFICATION FairSpec
CONSTANTS
  n1 = n1
  n2 = n2
  c1 = c1
  None = None
  Garbage = Garbage
  Transfers <- GetTransfers
  Gets = {1, 2}
  ClientOf <- SameClient
  Wanted <- MCWanted
  WholeStripe = {1}
  Blocks = {0, 1}
  Nodes = {n1, n2}
  ClusterOf <- MCClusterOf
  map2node <- MCmap2node
  Late = {0}
  Missing = {}
  MayCrash = {n1, n2}
  MaxDown = 1
INVARIANTS
  TypeOK
  OwnBlocks
  AloneIsRight
PROPERTY GetReturns
