\* Another job with the filename of an interrupted commit.
SPECIFICATION Spec
CONSTANTS
    a = a
    b = b
    None = None
    Jobs = {A, B}
    Blocks = {a, b}
    Contents <- SameLength
    MaxSendAttempts = 2
    Window = 2
    MaxFaults = 1
    MaxEdits = 0
SYMMETRY JobSymmetry
INVARIANTS
    CompletePartKept
