CONSTANTS
  x = x
  y = y
  Devices = {a, b}
  Ids = {x, y}
  OnBus <- Undescribed
  Described = {x}
  Logs <- TwoFrames
  Capacity = 1
  MaxScrollback = 1
  MaxFrames = 2
SPECIFICATION FairSpec
PROPERTIES JoinEnds FramesArePolled
INVARIANTS LogShown
