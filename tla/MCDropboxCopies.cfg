SPECIFICATION Spec
CONSTANTS
    w1 = w1
    w2 = w2
    w3 = w3
    Workers <- MCWorkers
    Pieces <- MCPieces
    MaxVerifications <- MCMaxVerifications
SYMMETRY Symmetry
INVARIANTS
    TypeOK
    AlarmNeedsRemoval
    NothingLeftBehind
