SPECIFICATION Spec
CONSTANTS
    ByteBase = 4
    Symbols = {"charIn", "charOut"}
    Imports = {"charIn", "charOut"}
    NoSymbol = ""
    OsSources <- MCOsSources
    DefaultOs <- MCDefaultOs
    ProgramSources <- MCProgramSources
    Touched = {0, 7, 8, 11, 12, 15}
    Values = {2}
INVARIANTS
    TypeOk
    PortsAnswer
    VectorsAgree
    OsSurvivesPrograms
PROPERTY ImplementsAddressSpace
