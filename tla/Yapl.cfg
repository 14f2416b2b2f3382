CONSTANTS
  SYMTAB_MAX = 21
  STRTAB_MAX = 20
  SYMLEN_MAX = 1
  AstMaxNode = 4
  Input <- MCInput
  IoErrors = TRUE
SPECIFICATION Spec
INVARIANTS
  Interned
  TokenMeans
  AstSound
PROPERTIES
  EntriesStable
  ParseEnds
CHECK_DEADLOCK FALSE
