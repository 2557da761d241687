SPECIFICATION ChallengeSpec
CONSTANTS
    Percents <- MCPercents
    IntWidth <- MCIntWidth
    BlockCounts <- MCBlockCounts
INVARIANTS
    WholeFileReached
\* A call ends.
CHECK_DEADLOCK FALSE
