CONSTANTS
  Sources <- MCSources
  ReadFails = TRUE
SPECIFICATION Spec
INVARIANTS
  RoundTrip
  AddressesKept
CHECK_DEADLOCK FALSE
