\* Every kind of request and deletion, a few at a time, and a restart.
CONSTANTS
  Sends = {"s1", "s2"}
  Retries = {"t"}
  Rewinds = {"w"}
  Compactions = {"c"}
  Spawners = {"s1"}
  Wedged = {"t"}
  OwnerDeletes = {"d"}
  AdminPurges = {"p"}
  Sweeps = {"e"}
  Days <- AllDays
  MaxRows = 3
  MaxRestarts = 1
  NoOne = "no-one"
SPECIFICATION FairSpec
INVARIANTS TypeOK ClaimsExclude LogsAnswerVisible StoppedRunLeavesNothing
PROPERTIES RewindTakesAll DeleteStopsTheRun NothingOutlivesErasure
