CONSTANTS
    Pixels = 3
    MAX = 7
    MaxWords = 4
    Samples = {0, 1}
SPECIFICATION OrderSpec
INVARIANT SymbolsArrive
