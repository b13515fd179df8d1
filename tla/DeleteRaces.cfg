SPECIFICATION FairSpec
CONSTANTS
  c1 = c1
  c2 = c2
  n1 = n1
  n2 = n2
  obj = obj
  app = app
  None = None
  Clients = {c1, c2}
  Wanted <- MCWanted
  Lists = {c2}
  Stripes = {0, 1}
  Blocks = {1, 2, 3}
  map2stripe <- MCmap2stripe
  map2node <- MCmap2node
  map2key <- MCmap2key
  Keys = {obj, app}
  Committed <- MCCommitted
  Late = {3}
  Nodes = {n1, n2}
  MaxDown = 1
CHECK_DEADLOCK FALSE
INVARIANTS
  TypeOK
  DeletedIsGone
  OthersKept
  TablesAgree
PROPERTY DeleteReturns
