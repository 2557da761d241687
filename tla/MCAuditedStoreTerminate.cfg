SPECIFICATION Spec
CONSTANTS
    Contents <- MCContents
    EmptyContents <- MCEmptyContents
    MaxUploads <- MCMaxUploads
    MaxItems <- MCMaxItems
INVARIANT
    StoringFailureReported
