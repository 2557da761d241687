SPECIFICATION UploadSpec
CONSTANTS
    FileSizes <- MCFileSizes
    SectorSizes <- MCSectorSizes
    SectorCounts <- MCSectorCounts
    BufferFloor <- MCBufferFloor
    TagSizes <- MCTagSizes
    FlushLimit <- MCFlushLimit
    MaxTags <- MCMaxTags
    ChunkSize <- MCChunkSize
    FileTagSize <- MCFileTagSize
    EntrySize <- MCEntrySize
INVARIANTS
    UploadTypeOK
    BufferIsWindow
    TagsMatchFile
    StoredUnlessExactFill
    StoredBlocksMatchTags
    BarFullWhenReturned
PROPERTY
    UploadReturns
\* An upload returns.
CHECK_DEADLOCK FALSE
