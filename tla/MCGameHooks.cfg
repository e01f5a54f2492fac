SPECIFICATION Spec
CONSTANTS
  Exported = TRUE
  Addresses <- MCAddresses
  Callers   <- MCCallers
  Uses      <- MCUses
 
PROPERTIES  PointerSettled
