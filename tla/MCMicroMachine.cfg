SPECIFICATION Spec
CONSTANTS
    ByteValues = 24
    Decode <- MCDecode
    Images <- MCImages
    StartPC = {4, 5}
    StartSP = {60, 71}
    StartRegisters <- MCStartRegisters
    StartStatus <- MCStartStatus
INVARIANTS PrefetchIsRecent OperandPrefetchIsFresh
PROPERTY ImplementsInstructionSet
CHECK_DEADLOCK FALSE
