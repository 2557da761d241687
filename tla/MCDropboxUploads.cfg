SPECIFICATION Spec
CONSTANTS
    Pieces <- MCPieces
    MaxUploads <- MCMaxUploads
INVARIANTS
    TypeOK
    OnlyWritersSpoil
    MissingNeedsOverlap
    TempFilesRemoved
    ListCurrent
