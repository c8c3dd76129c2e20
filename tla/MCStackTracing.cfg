SPECIFICATION Spec
CONSTANTS
    TagLists <- MCTagLists
    Operands = {1, 2, 3}
    MaxBytes = 10
    MaxGroups = 6
INVARIANTS
    DisciplinedIsIntact
    DisciplinedTraceMatches
