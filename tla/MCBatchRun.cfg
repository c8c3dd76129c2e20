SPECIFICATION Spec
CONSTANTS
    a = a
    b = b
    NL = NL
    NUL = NUL
    EOT = EOT
    Char = {a, b}
    Inputs <- MCInputs
    MaxSteps = 6
    MaxLines = 2
INVARIANTS
    InputIsReadInOrder
    FileTellsTheRun
    NoCallIntoAStoppedLoop
PROPERTIES
    ShutsDown
CHECK_DEADLOCK FALSE
