CONSTANTS
  Capacity = 3
  Frames = {f1, f2}
  Threads = {io, gui}
  Blank = blank
SPECIFICATION FairSpec
INVARIANTS TypeOK RingInv
PROPERTIES AbstractSpec DrainEnds
