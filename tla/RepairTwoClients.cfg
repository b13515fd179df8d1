SPECIFICATION FairSpec
CONSTANTS
  n1 = n1
  n2 = n2
  n3 = n3
  n4 = n4
  c1 = c1
  c2 = c2
  None = None
  Garbage = Garbage
  Transfers <- RepairTransfers
  Repairs = {1, 2, 3, 4}
  Degraded = {2, 3, 4}
  Batch = {2, 3}
  Together <- MCTogether
  ClientOf <- MCClientOf
  Failed <- MCFailed
  Dest <- MCDest
  Sources <- MCSources
  Spare <- MCSpare
  map2node <- MCmap2node
  Missing = {}
  Blocks = {0, 1, 2}
  Nodes = {n1, n2, n3, n4}
  MayCrash = {n1, n2, n3}
  MaxDown = 1
INVARIANTS
  TypeOK
  OwnParts
  RepairedIsSaved
  DegradedIsOriginal
PROPERTY RepairReturns
