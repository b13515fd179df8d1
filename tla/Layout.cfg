SPECIFICATION Spec
CONSTANTS
  Files <- CheckedFiles
  StripeIds = {0, 4}
  SubsetSizes = {1, 2, 3, 4, 5, 6, 7, 8, 11, 18, 30, 90}
INVARIANTS
  TypeOK
  NodeLeft
  GroupsApart
  CutAgrees
  RepairReadsEquation
  GetReadsData
