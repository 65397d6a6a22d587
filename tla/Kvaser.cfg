SPECIFICATION Spec
CONSTANTS
  Channels = {c1, c2}
  Handles = {h1, h2}
  Contexts = {x1, x2}
  None = None
  MaxCardChannels = 1
  MaxEntries = 2
  MaxQueue = 2
  MaxPending = 2
  MaxFrames = 2
  MaxAbandoned = 1
INVARIANTS
  TypeOK
  HandlesLive
  Counted
  CtxLive
  AloneLosesNothing
  OpenOnBus
SYMMETRY Symmetry
