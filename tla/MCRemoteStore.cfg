SPECIFICATION Spec
CONSTANTS
    Data <- MCData
    MaxUploads <- MCMaxUploads
    EmptyUploads <- MCEmptyUploads
    Chunks <- MCChunks
INVARIANTS
    TypeOK
    StoredWhenOver
    NothingOfEarlierUploads

    
CONSTRAINT
    EmptyOneAlone
