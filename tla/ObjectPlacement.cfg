SPECIFICATION Spec
CONSTANTS
  Schemas <- MCSchemas
  ClusterNums <- MCClusterNums
  MaxStripes <- MCMaxStripes
INVARIANTS
  TypeOK
  SurvivesClusterLoss
  MergeGroupShape
