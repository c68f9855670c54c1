SPECIFICATION Spec
CONSTANTS
  NULL = NULL
  MaxDepth = 3
  MaxLength = 3
  Statements <- SoundStatements
  Programs <- MCPrograms
INVARIANTS ValuesHaveTypes NoTypeError
PROPERTIES CallsMatchSignatures
CHECK_DEADLOCK FALSE
