SPECIFICATION FairSpec
CONSTANTS
    MaxAttempts = 3
INVARIANT TypeOK
INVARIANT SuccessHonest
INVARIANT OneWriteAfterAbort
PROPERTY PolicyKept
PROPERTY Returns
