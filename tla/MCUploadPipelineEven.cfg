SPECIFICATION UploadSpec
CONSTANTS
    FileSizes <- MCFileSizes
    SectorSizes <- EvenSectors
    SectorCounts <- MCSectorCounts
    BufferFloor <- MCBufferFloor
    TagSizes <- MCTagSizes
    FlushLimit <- MCFlushLimit
    MaxTags <- MCMaxTags
    ChunkSize <- MCChunkSize
    FileTagSize <- MCFileTagSize
    EntrySize <- MCEntrySize
INVARIANT
    StoredFileComplete
CHECK_DEADLOCK FALSE
