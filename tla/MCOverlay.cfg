SPECIFICATION OverlaySpec
CONSTANTS Symbols <- MCSymbols MaxTimers = 2
INVARIANTS OverlayInv CallsLegal
PROPERTIES  MenuFollowsGame DeniedExits
