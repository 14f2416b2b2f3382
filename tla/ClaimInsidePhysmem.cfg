\* A page register that names a page beyond the end of physmem.
SPECIFICATION HSpec
CONSTANTS
  PhysMemSize = 393216
  Images <- ClaimImages
  dflag = FALSE
  qflag = FALSE
  Sigints = FALSE
  CycMod = 4
INVARIANT InsidePhysmem
CHECK_DEADLOCK FALSE
