\* One command and two panels on a machine that holds one shell, a few at a time.
CONSTANTS
  Calls = {"c1"}
  Shells = {"s1", "s2"}
  MaxTerminals = 1
  MaxLinks = 3
  Days <- AllDays
SPECIFICATION FairSpec
INVARIANTS TypeOK NoUnattendedCommand NobodyWaitsOnGone
PROPERTIES StopReachesCommand StaysReachable
