SPECIFICATION Spec
CONSTANTS
  k = 4
  r = 4
  z = 2
  UnitSize = 2
  BlockSize = 4
  n1 = n1
  n2 = n2
  c1 = c1
  None = None
  Clients = {c1}
  Nodes = {n1, n2}
  Watched = {0, 4}
  AppendModes = {"REP_MODE", "UNILRC_MODE"}
  Sizes = {5, 11, 16}
  MaxAppends = 3
  MaxLate = 2
  MaxResets = 1
SYMMETRY Alike
INVARIANTS
  TypeOK
  SlicesAreBytes
  FilesInOrder
  EndsExplained
