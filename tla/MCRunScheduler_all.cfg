\* Two turns, each yielding once, and a context-stage switch, while the limit
\* changes once: an admin kicks the queue, or a cached probe runs out.
CONSTANTS
  r1 = r1
  r2 = r2
  s1 = s1
  Runs = {r1, r2}
  Switches = {s1}
  MaxLimit = 2
  MaxYields = 1
  MaxChanges = 1
SPECIFICATION FairSpec
INVARIANTS TypeOK Accounting NoLostWakeup NoOvercommit
PROPERTIES NoSlotForStopped NoOvertaking ImplementsLock WaitersLeaveLine
