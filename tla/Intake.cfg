SPECIFICATION Spec
CONSTANTS
    MaxItems = 3
    ByteLimit = 3
    Submissions <- SmallSubmissions
INVARIANTS
    AdmittedIsValid
    CollectionBounded
    RejectionJustified
