SPECIFICATION Spec
CONSTANTS
    TagSizes <- MCTagSizes
    FlushLimit <- MCFlushLimit
    MaxTags <- MCMaxTags
INVARIANTS
    TypeOK
    TagsLocated
    FoundAfterDone
\* The serializer is done once Done() has been called.
CHECK_DEADLOCK FALSE
