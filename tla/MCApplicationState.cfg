SPECIFICATION Spec
CONSTANTS
    u1 = u1
    u2 = u2
    a = a
    b = b
    c = c
    Workers <- MCWorkers
    Files <- MCFiles
    MaxRecent <- MCMaxRecent
    MaxUploads <- MCMaxUploads
SYMMETRY Symmetry
INVARIANTS
    TypeOK
    UnreadableNeedsRewriting
    ListIsSound
    RecentIsLatest
    TokenRemembered
