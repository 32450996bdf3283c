\* Two jobs that offer the same filename.
SPECIFICATION Spec
CONSTANTS
    a = a
    b = b
    None = None
    Jobs = {A, B}
    Blocks = {a, b}
    Contents <- SameLength
    MaxSendAttempts = 2
    Window = 2
    MaxFaults = 2
    MaxEdits = 0
SYMMETRY JobSymmetry
INVARIANTS
    FinalHasReceipt
    SuccessIsDelivered
    MetadataNamesWriter
    Inv
PROPERTIES
    WrittenOnce
    Delivers
