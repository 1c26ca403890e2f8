\* A pipe of one byte: the byte of one post runs the task of another that failed.
CONSTANTS
  Posters = {p1, p2}
  QueueThread = q
  Addrs = {a1, a2}
  PipeCapacity = 1
  MaxPosts = 3
SPECIFICATION FairSpec
PROPERTIES AcceptedTaskStarts
CHECK_DEADLOCK FALSE
