CONSTANTS
  Lines <- MCLines
  Numbers = {"5", "1025"}
  Value <- MCValue
  Refused = {"08"}
  Garbage = {"3F"}
  MaxSymbols = 55
  Faults = 1
  LineCap = 3
SPECIFICATION Spec
INVARIANTS
  
  NeverBroken

  
CHECK_DEADLOCK FALSE
