CONSTANTS
  Def <- NestedDef
  Module = "m"
  Kind <- NestedKind
  Kids <- NestedKids
  Node <- NestedNode
  Contents <- NestedContents
  None = None
  v1 = v1
  v2 = v2
SPECIFICATION Spec
INVARIANT Faithful
CHECK_DEADLOCK FALSE
