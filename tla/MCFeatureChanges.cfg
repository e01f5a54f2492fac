\* A wild pointer ends the process, so the specification may deadlock.
CHECK_DEADLOCK FALSE
SPECIFICATION fcSpec
CONSTANTS
  Keys <- WellKeys
  OffsetKeys <- WellOffsets
  Cells <- MCCells
  Words <- MCWords
  Stock <- MCStock
  Data <- MCData
  Code <- MCCode
  Resolve <- WellResolve
  Spelling <- MCSpelling
  AddOffset <- MCAddOffset
  NoAddr = 0
  Features <- WellBehaved
  Handler <- WellHandler
INVARIANTS SwitchesWork
 
