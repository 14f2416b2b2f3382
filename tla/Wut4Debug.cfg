\* The debugger: interrupts from the keyboard at any moment, and every answer to
\* the prompt.
SPECIFICATION HFairSpec
CONSTANTS
  PhysMemSize = 393216
  Images <- DebugImages
  dflag = TRUE
  qflag = FALSE
  Sigints = TRUE
  CycMod = 3
PROPERTIES ImplementsProtection InterruptAnswered
CHECK_DEADLOCK FALSE
