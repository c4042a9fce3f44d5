SPECIFICATION Spec
CONSTANT
    Projects <- MCUsedTwice
    MaxDepth = 5
INVARIANT AsWritten
