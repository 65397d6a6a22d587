CONSTANTS
  Devices = {a, b, u}
  Unbound = {u}
  Jobs = {j1}
  None = none
SPECIFICATION FairSpec
INVARIANTS TxOnMarked SendsOnOpen
PROPERTY GuiReturns
