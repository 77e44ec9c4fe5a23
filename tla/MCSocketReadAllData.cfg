SPECIFICATION Spec
CONSTANTS
    MaxLines = 5
    LineLength = 3
    MaxRead = 7
INVARIANT AllDataRead
