SPECIFICATION Spec
CONSTANTS
  n1 = n1
  n2 = n2
  c1 = c1
  None = None
  Garbage = Garbage
  Transfers <- GetTransfers
  Gets = {1}
  ClientOf <- OneReader
  Wanted <- OneRead
  WholeStripe = {}
  Blocks = {0, 1}
  Nodes = {n1, n2}
  ClusterOf <- MCClusterOf
  map2node <- MCmap2node
  Late = {}
  Missing = {}
  MayCrash = {n1, n2}
  MaxDown = 0
INVARIANT BytesAreStored
