SPECIFICATION FairSpec
CONSTANTS
  Conversation = {a, b}
  Landing = a
  MaxRuns = 2
  None = None
  Script <- ShortScript
  MaxFaults = 1
  MaxReloads = 1
  MaxMoves = 4
  MaxStops = 1
  MaxProbes = 2
  MaxToggles = 1
  MaxUpsets = 1
CHECK_DEADLOCK FALSE
INVARIANTS TypeOK SpinnerBacked
PROPERTIES CursorStored CompletedAnswerShown LoadingEnds
