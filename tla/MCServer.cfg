CONSTANTS
    a = a
    b = b
    Hash = {a, b}
    Slots = 2
    MaxUploads = 2
    MaxStarts = 2
    MaxErrors = 1
SPECIFICATION FairSpec
CHECK_DEADLOCK FALSE
INVARIANTS
    TypeOK
    NothingForgotten
    ShutdownCutsNoUpload
PROPERTIES
    ScannedIsFinished
    DeliveryKept
