SPECIFICATION Spec
CONSTANT
    Projects <- MCProjects
    MaxDepth = 5
INVARIANTS
    TypeOK
    AsWritten
    Judged
    
    TypesResolved
PROPERTIES
    GroupingsKept
    Returns
