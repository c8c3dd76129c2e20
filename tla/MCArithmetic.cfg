SPECIFICATION Spec
CONSTANTS
    ByteValues = 8
    Op <- MCOp
    Others = {0, 37}
INVARIANTS RegistersAgree FlagsAgree ComparisonIsSigned
CHECK_DEADLOCK FALSE
