SPECIFICATION Spec
CONSTANTS
  Null = Null
  MaxSecond = 1
  MaxLines = 3
  MaxExports = 2
  Bare = {2}
INVARIANTS TypeOK ExportComplete MessageHandedOver
CHECK_DEADLOCK FALSE
