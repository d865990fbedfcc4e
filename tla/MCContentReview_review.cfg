CONSTANTS
  letter = letter invoice = invoice ai = ai edited = edited blank = blank none = none asked = asked
  Class <- MCClass Found = letter Corrected = TRUE Ai = ai Edited = edited Blank = blank None = none Asked = asked
  MaxUser = 2 MaxConfig = 2 MaxFaults = 1
SPECIFICATION FairSpec
INVARIANTS TypeOK QuietPageIsCurrent
PROPERTIES DetailsSettle NothingUndone
CHECK_DEADLOCK FALSE
