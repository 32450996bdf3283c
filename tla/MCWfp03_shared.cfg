\* Two jobs with one filename, hard links unlinked, only connections are lost.
SPECIFICATION LossySpec
CONSTANTS
    a = a
    z = z
    None = None
    Zero = z
    Jobs = {A, B}
    Blocks = {a, z}
    Contents <- OneBlockChunks
    ChunkSize = 1
    MaxBatch = 1
    Unlinks = TRUE
    MaxSendAttempts = 2
    Window = 3
    MaxFaults = 2
    MaxEdits = 0
INVARIANTS
    TypeOK
    SuccessIsDelivered
PROPERTIES
    Delivers
