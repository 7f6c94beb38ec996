\* A thread opened while a run starts in it.
CONSTANTS
  MaxEvents = 2
  Durable = TRUE
  Roles = {"opener"}
  MaxCalls = 3
  MaxDrops = 0
  MaxReconnects = 0
  MaxRestarts = 0
SPECIFICATION FairSpec
PROPERTIES Converges
