CONSTANTS
  Blank = blank List = list New = new None = none s1 = s1 s2 = s2
  Names <- MCNames Key <- MCKey Initial <- MCInitial
  Slot = {s1, s2}
  MaxUser = 5 MaxEdits = 2 MaxFields = 2 MaxFaults = 1
SPECIFICATION Spec
INVARIANTS TypeOK SentIsStable
PROPERTY SavesOwnClass
CHECK_DEADLOCK FALSE
