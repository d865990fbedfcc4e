SPECIFICATION FairSpec
CONSTANTS
  Event = {e1}
  Direct = {x1}
  Dispatcher = {d1, d2}
  Tab = {t1, t2}
  None = none
  MaxStored = 2
  MaxFaults = 2
  MaxUser = 2
CHECK_DEADLOCK FALSE
INVARIANTS TypeOK ProcessedIsPublished ListedOnce CursorCovered
PROPERTIES EventAnnounced
