SPECIFICATION FairSpec
CONSTANTS
  Item = {i1}
  Worker = {w1}
  Conn = {c1}
  MaxTasks = 2
  MaxRetries = 1
  Serves <- ServesAll
CHECK_DEADLOCK FALSE
PROPERTY QueueDrains
