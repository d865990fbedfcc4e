SPECIFICATION Spec
CONSTANTS
  Item = {i1}
  Worker = {w1, w2}
  Conn = {c1, c2}
  MaxTasks = 1
  MaxRetries = 1
  Serves <- ServesAll
SYMMETRY Symmetry
CHECK_DEADLOCK FALSE
INVARIANTS TypeOK RowConsistent SecretsNotShared IInv
PROPERTIES ClaimNotStolen ItemNotAbandoned LifecycleSpec
