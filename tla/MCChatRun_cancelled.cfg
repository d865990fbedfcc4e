SPECIFICATION Spec
CONSTANTS
  Run = {r1}
  Conversation = {k1}
  Runner = {b1, b2}
  Reader = {}
  ConversationOf <- SameConversation
  Research = {}
  Cancellable = {r1}
  MaxParts = 0
  MaxFaults = 0
CHECK_DEADLOCK FALSE
PROPERTIES CompletesRunning
