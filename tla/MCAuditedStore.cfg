SPECIFICATION Spec
CONSTANTS
    Contents <- MCContents
    EmptyContents <- MCEmptyContents
    MaxUploads <- MCMaxUploads
    MaxItems <- MCMaxItems
INVARIANTS
    TypeOK
    SuccessMeansStored
    ErrorMeansUntouched
    CalmVerifyIntact
PROPERTY
    IsRegister
