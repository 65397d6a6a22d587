SPECIFICATION Spec
CONSTANTS
  Kinds <- MCKinds
  AccumMax = 7
  BatchSize = 2
  MaxSent = 3
  MaxLine = 12
  MaxNoise = 2
PROPERTIES KeepsContract OpenEnds FramesArrive
