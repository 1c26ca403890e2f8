\* A pipe of two bytes for three posts and kQuit: writes fail, tasks are
\* taken back, addresses are reused.
CONSTANTS
  Posters = {p1, p2}
  QueueThread = q
  Addrs = {a1, a2}
  PipeCapacity = 2
  MaxPosts = 3
SPECIFICATION FairSpec
INVARIANTS WakeupFindsTask RunInPushOrder DeleteQuiesces
PROPERTIES StartsUnlessWriteFails DeleteCompletes
CHECK_DEADLOCK FALSE
