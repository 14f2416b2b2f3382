\* Every class and opcode in user mode under kernels that handle its faults in
\* several ways, and pairs of kernel instructions from reset.
SPECIFICATION HSpec
CONSTANTS
  PhysMemSize = 393216
  Images <- MCImages
  dflag = FALSE
  qflag = FALSE
  Sigints = FALSE
  CycMod = 4
INVARIANTS TypeOK UserEnabled AssertsHold IInv PreciseExceptions 
PROPERTY ImplementsProtection
CHECK_DEADLOCK FALSE
