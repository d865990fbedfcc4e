SPECIFICATION Spec
CONSTANTS
  Run = {r1}
  Conversation = {k1}
  Runner = {b1, b2}
  Reader = {}
  ConversationOf <- SameConversation
  Research = {r1}
  Cancellable = {r1}
  MaxParts = 0
  MaxFaults = 1
SYMMETRY Symmetry
CHECK_DEADLOCK FALSE
INVARIANTS TypeOK IInv CompletedRunDelivered
