SPECIFICATION VerificationSpec
CONSTANTS
    Percents <- MCPercents
    IntWidth <- MCIntWidth
    BlockCounts <- MCBlockCounts
    Base <- MCBase
    Prime <- MCPrime
    SectorSize <- MCSectorSize
    NumSectors <- MCNumSectors
    Batches <- MCBatches
    Alterations <- MCAlterations
    Extensions <- MCExtensions
    AlphaValues <- MCAlphaValues
    PrfValues <- MCPrfValues
    WeightValues <- MCWeightValues
INVARIANTS
    ChallengeTypeOK
    IndexesIncrease
    EnoughBlocks
    OnlyTailOutOfReach
    KilledOnlyWithoutBlocks
    TypeOK
    SingleChangeDetected
    VerdictExact
\* A call ends, and the last verdict is the end of a batch.
CHECK_DEADLOCK FALSE
