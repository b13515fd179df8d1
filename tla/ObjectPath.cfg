SPECIFICATION Spec
CONSTANTS
  c1 = c1
  c2 = c2
  a = a
  ab = ab
  Clients <- MCClients
  Keys = {a, ab}
  Begins <- MCBegins
  Clusters = {1}
  Nodes = {n1, n2}
  k = 1
  g_m = 1
  Scripts <- MCScripts
  MaxSteps = 3
  None = None
  Zero = Zero
  Garbage = Garbage
INVARIANTS
  TypeOK
  GetsTheSetValue
  CallsReturn
