SPECIFICATION Spec
CONSTANTS
  Item = {i1}
  Worker = {w1}
  Conn = {c1, c2}
  MaxTasks = 1
  MaxRetries = 1
  Serves <- ServesAll
CHECK_DEADLOCK FALSE
PROPERTIES SettledFailureIgnored
