SPECIFICATION Spec
CONSTANTS
    Handles = {p, q}
    Votes = {a, b, c}
    None = None
    FileSyncCoversName = TRUE
INVARIANTS
    AckedSurvive
PROPERTY
    ImplementsLog
