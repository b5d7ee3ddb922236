SPECIFICATION Spec
CONSTANTS
    Table <- Rows
    Failing <- Checking
    Pinning <- Files
    Basis <- BasisOf
    Optional <- Optionals
    Marks <- Assigned
INVARIANTS
    DriverTypeOK
    NothingLeaks
    NoOtherBadRelease
    OrderedRelease
    OtherHandlersAreBacked
