SPECIFICATION Spec
CONSTANTS
    Span <- MCSpan
    Numbers <- MCNumbers
    Ordered <- MCOrdered
    Cases <- MCCases
    MaxItems = 3
INVARIANTS
    TypeOK
    ReadsBack
    AsSaid
    EveryRow
PROPERTY KeySpec
