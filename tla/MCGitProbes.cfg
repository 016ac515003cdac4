SPECIFICATION Spec
CONSTANTS
    Kinds <- MCKinds
    UserFacts <- MCUserFacts
    MaxDenied = 2
INVARIANTS
    TypeOK
    UserBranchIsUntouched
    LeftoversAreExplained
    AllowedIsUndone
    NotApplicableIsExplained
