SPECIFICATION Spec
CONSTANTS
    MaxFrames = 2
    MinDepth <- MCMinDepth
    MaxDepth = 1
INVARIANTS
    TypeOk
    AtRest
    ViewsLiveAtRest
    NoInterruptOutlivesSession
    NoSteppingWhileWaiting
PROPERTIES
    FinishedRunUnwinds
    InterruptTakesEffect
