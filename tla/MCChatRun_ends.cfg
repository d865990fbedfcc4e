SPECIFICATION FairSpec
CONSTANTS
  Run = {r1}
  Conversation = {k1}
  Runner = {b1}
  Reader = {c1}
  ConversationOf <- SameConversation
  Research = {}
  Cancellable = {r1}
  MaxParts = 1
  MaxFaults = 1
CHECK_DEADLOCK FALSE
INVARIANTS ReaderSawOutcome
PROPERTIES RunEnds StreamEnds
