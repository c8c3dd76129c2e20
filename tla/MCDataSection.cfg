SPECIFICATION Spec
CONSTANTS
    x = x
    y = y
    NoValue = NoValue
    Byte = {x, y}
    Zero = x
    Buses <- MCBuses
INVARIANTS
    AccessesHaveWaited
    RequestsAreServed
