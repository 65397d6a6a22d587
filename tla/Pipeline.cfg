CONSTANTS
  x = x
  y = y
  Devices = {a, b}
  Ids = {x}
  OnBus <- Extended
  Described = {x}
  Logs <- OneFrame
  Capacity = 1
  MaxScrollback = 2
  MaxFrames = 3
SPECIFICATION Spec
SYMMETRY Symmetry
INVARIANTS TypeOK RowsIndexed FrozenIsPast CountsAgree ScrollbackFull LiveHasNoLog ReplayFlag NothingLeftOver
