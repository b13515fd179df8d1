SPECIFICATION FairSpec
CONSTANTS
  n1 = n1
  n2 = n2
  n3 = n3
  n4 = n4
  c1 = c1
  c2 = c2
  None = None
  Blocks = {0}
  NumGroups = 1
  GroupOf <- OneGroup
  ClusterNum = 1
  Ops = {1, 2}
  Clients = {c1, c2}
  Requests = {{0}}
  ClientOf <- OwnClient
  Nodes = {n1, n2}
  ClusterOfNode <- OneCluster
  MaxDown = 1
INVARIANTS
  TypeOK
  CommitAfterHandoff
  ConnectionsHaveTakers
PROPERTIES
  SetReturns
  AckedBlocksSettle
