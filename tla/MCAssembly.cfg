SPECIFICATION AssemblySpec
CONSTANTS
    ByteBase = 4
    Symbols = {"charIn", "a"}
    Imports = {"charIn"}
    NoSymbol = ""
    Sources <- MCSources
    Imported <- MCImported
    MaxLines = 6
INVARIANTS
    LinesAbut
    SymbolsNameTheirLines
    AlignmentsHold
    BytesLandOnTheirLines
    InstructionsFoundByAddress
CHECK_DEADLOCK FALSE
