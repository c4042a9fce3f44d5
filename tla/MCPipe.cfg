CONSTANTS
  Def <- MCDef
  Module = "m"
  Kind <- MCKind
  Kids <- MCKids
  Node <- MCNode
  Contents <- MCContents
  None = None
  v1 = v1
  v2 = v2
SPECIFICATION Spec
INVARIANTS
  TypeOK
  Faithful
  AllOrError
PROPERTIES
  WriterReturns
  ReaderReturns
CHECK_DEADLOCK FALSE
