SPECIFICATION SymbolsSpec
CONSTANTS
  SymtabFiles <- MCSymtabFiles
  Images      <- MCImages
  Names       <- MCNames
  Offsets     <- MCOffsets
  SysvHash    <- MCSysvHash
  GnuHash     <- MCGnuHash
  NumBuckets  = 2
  ClassBits   = 4
  BloomCount  = 2
  BloomShift  = 1
  Null        = Null
  Thumb       = TRUE
INVARIANTS SymtabInv LookupInv
PROPERTIES SymbolCallsReturn
