CONSTANTS
  Registers = {"a", "b"}
  Muxes = {"m"}
  Zeros = {"z", "zw"}
  Sources = {"s"}
  Circuits <- MCCircuits
  Worlds <- MCWorlds
  nCycles = 3
  None = "none"
SPECIFICATION Spec
PROPERTIES
  ImplementsSync
  Completes
CHECK_DEADLOCK FALSE
