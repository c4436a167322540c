SPECIFICATION Spec
CONSTANTS
  PageCount = 3
  EntryCount = 4
  WordEntries = 2
  MinTail = 1
  Slots <- MCSlots
  Vals = {1, 2}
  Whole <- MCWhole
  Rest <- MCRest
  Blankish = {2}
  None = 0
  MaxSets = 4
  MaxFails = 2
  MaxBoth = 5
INVARIANT Acknowledged
PROPERTY PowerFailureSafe
