\* Every role, a socket replaced or the server restarted at any moment of the
\* run and of its end, and a send dropped.
CONSTANTS
  MaxEvents = 4
  Durable = TRUE
  Roles = {"opener", "replier", "creator"}
  MaxCalls = 3
  MaxDrops = 1
  MaxReconnects = 1
  MaxRestarts = 1
SPECIFICATION FairSpec
INVARIANTS TypeOK ShownIsPrefix EndComesAfterAll OneTap SealedLogIsWhole
PROPERTIES NothingAppliedTwice ConvergesOtherwise GapsHeal
