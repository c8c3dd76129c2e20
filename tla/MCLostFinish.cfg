SPECIFICATION Spec
CONSTANTS
    a = a
    b = b
    NL = NL
    NUL = NUL
    EOT = EOT
    Char = {a, b}
    Inputs <- MCInputs
    MaxSteps = 6
    MaxLines = 2
PROPERTIES
    RunShutsDown
CHECK_DEADLOCK FALSE
