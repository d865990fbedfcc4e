SPECIFICATION Spec
CONSTANTS
  Run = {r1, r2}
  Conversation = {k1}
  Runner = {b1, b2}
  Reader = {}
  ConversationOf <- SameConversation
  Research = {}
  Cancellable = {r1}
  MaxParts = 0
  MaxFaults = 1
SYMMETRY Symmetry
CHECK_DEADLOCK FALSE
INVARIANTS OneActiveRun
PROPERTIES EndedRunStaysEnded
