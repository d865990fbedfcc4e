CONSTANTS
  a = a blank = blank failed = failed dir = dir f1 = f1 f2 = f2 none = none
  Value <- MCValue Blank = blank Status <- MCStatus Folder <- MCFolder File <- MCFile None = none
  MaxConds = 1 MaxUser = 3 MaxFaults = 1
SPECIFICATION FairSpec
INVARIANTS TypeOK AddressAgrees
PROPERTIES FiltersSettle BackReturns DialogSettles
CHECK_DEADLOCK FALSE
