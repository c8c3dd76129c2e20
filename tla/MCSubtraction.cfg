SPECIFICATION Spec
CONSTANTS
    ByteValues = 8
    Op <- MCOp
    Others = {0, 37}
INVARIANT SubtractionIsExact
CHECK_DEADLOCK FALSE
