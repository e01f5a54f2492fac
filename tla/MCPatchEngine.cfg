\* The process stops at a wild pointer, so the specification may deadlock.
CHECK_DEADLOCK FALSE
SPECIFICATION Spec
CONSTANTS
  Keys <- MCKeys
  OffsetKeys <- MCOffsetKeys
  Cells <- MCCells
  Words <- MCWords
  Stock <- MCStock
  Data <- MCData
  Code <- MCCode
  Resolve <- MCResolve
  Spelling <- MCSpelling
  AddOffset <- MCAddOffset
  NoAddr = 0
INVARIANTS EngineInv FlagsTellMemory
PROPERTIES ImplementsSwitches
