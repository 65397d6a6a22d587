CONSTANTS
  Devices = {a, b, c}
  Unbound = {}
  Jobs = {j1, j2}
  None = none
SPECIFICATION Spec
SYMMETRY Symmetry
INVARIANT TxOnMarked
