\* A turn sent from a thread whose subscribe is still being answered.
CONSTANTS
  MaxEvents = 2
  Durable = TRUE
  Roles = {"replier"}
  MaxCalls = 3
  MaxDrops = 0
  MaxReconnects = 0
  MaxRestarts = 0
SPECIFICATION Spec
INVARIANTS NeverTwoTaps
