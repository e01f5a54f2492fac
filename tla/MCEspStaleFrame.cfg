SPECIFICATION OverlaySpec
CONSTANTS Symbols <- MCSymbols MaxTimers = 2
PROPERTIES OffClears
