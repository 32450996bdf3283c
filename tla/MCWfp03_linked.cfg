\* Two jobs with one filename, hard links kept: no failure is needed.
SPECIFICATION Spec
CONSTANTS
    a = a
    z = z
    None = None
    Zero = z
    Jobs = {A, B}
    Blocks = {a, z}
    Contents <- SameSize
    ChunkSize = 1
    MaxBatch = 1
    Unlinks = FALSE
    MaxSendAttempts = 1
    Window = 3
    MaxFaults = 0
    MaxEdits = 0
SYMMETRY JobSymmetry
INVARIANTS
    FinalHasReceipt
