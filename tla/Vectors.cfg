CONSTANTS
  Files <- MCFiles
  ChipOutputs <- MCOutputs
  Faults = TRUE
SPECIFICATION Spec
INVARIANTS
  AppliedAsWritten
  
  
CHECK_DEADLOCK FALSE
