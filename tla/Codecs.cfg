SPECIFICATION MCSpec
CONSTANTS
  Ids <- MCIds
  Entities <- MCEntities
INVARIANTS RoundTrip TimingExact
CHECK_DEADLOCK FALSE
