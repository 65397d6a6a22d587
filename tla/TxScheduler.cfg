SPECIFICATION Spec
CONSTANTS
  Jobs = {a, b}
  Ms = 2
  Periods = {2, 7}
  Default = 7
  MaxWait = 5
  MaxRound = 2
  Jitter = 1
  Cap = 13
INVARIANTS TypeOK OncePerPeriod
