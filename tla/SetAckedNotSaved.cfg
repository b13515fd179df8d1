SPECIFICATION Spec
CONSTANTS
  n1 = n1
  n2 = n2
  n3 = n3
  n4 = n4
  c1 = c1
  c2 = c2
  None = None
  Blocks = {0, 1}
  NumGroups = 2
  GroupOf <- MCGroupOf
  ClusterNum = 2
  Ops = {1, 2}
  Clients = {c1, c2}
  Requests <- FullStripe
  ClientOf <- SameClient
  Nodes = {n1, n2}
  ClusterOfNode <- OneNodePerCluster
  MaxDown = 0
INVARIANT AckedIsSaved
