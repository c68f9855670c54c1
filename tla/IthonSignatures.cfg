SPECIFICATION Spec
CONSTANTS
  NULL = NULL
  MaxDepth = 3
  MaxLength = 2
  Statements <- FallingThrough
  Programs <- MCPrograms
PROPERTIES CallsMatchSignatures
CHECK_DEADLOCK FALSE
