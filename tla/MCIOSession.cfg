SPECIFICATION Spec
CONSTANTS
    a = a
    b = b
    Char = {a, b}
    NL = NL
    NUL = NUL
    EOT = EOT
    BatchTexts <- MCBatchTexts
    MaxTyped = 5
    MaxReads = 5
INVARIANTS
    TypeOk
    NoCharacterLost
    BufferedNeverWaiting
    TerminalAgreesWithChip
    NothingOutlivesSession
    EotOnlyAtEnd
    FailureMeansStopped
PROPERTIES
    UnblockedReadReturns
    ImplementsStream
