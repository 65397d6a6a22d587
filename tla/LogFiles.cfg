SPECIFICATION MCSpec
CONSTANTS
  Ids <- MCIds
  Entities <- MCEntities
INVARIANT LogsReadBack
CHECK_DEADLOCK FALSE
