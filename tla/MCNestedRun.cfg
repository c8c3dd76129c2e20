SPECIFICATION Spec
CONSTANTS
    MaxFrames = 2
    MinDepth <- MCMinDepth
    MaxDepth = 1
INVARIANT
    OneRunAtATime
