\* A send, and a compaction that found the conversation idle.
CONSTANTS
  Sends = {"s1", "s2"}
  Retries = {"t"}
  Rewinds = {"w"}
  Compactions = {"c"}
  Spawners = {"s1"}
  Wedged = {"t"}
  OwnerDeletes = {"d"}
  AdminPurges = {"p"}
  Sweeps = {"e"}
  Days <- CompactionDay
  MaxRows = 3
  MaxRestarts = 0
  NoOne = "no-one"
SPECIFICATION Spec
INVARIANT OneHolder
