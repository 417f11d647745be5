CONSTANTS
  Node = {a, b, c, d, e}  Poison1 = Poison1  Poison2 = Poison2  None = None
SPECIFICATION Spec
INVARIANTS Rings WalkOnList WalkVisitsAll
PROPERTY CallsKeepPromise
SYMMETRY Renamings
