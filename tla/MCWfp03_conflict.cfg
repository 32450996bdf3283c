\* One job whose VERIFIED is lost and whose source then changes its size.
SPECIFICATION FairSpec
CONSTANTS
    a = a
    z = z
    None = None
    Zero = z
    Jobs = {A}
    Blocks = {a, z}
    Contents <- OneBlockChunks
    ChunkSize = 1
    MaxBatch = 1
    Unlinks = FALSE
    MaxSendAttempts = 3
    Window = 3
    MaxFaults = 1
    MaxEdits = 1
INVARIANTS
    ConflictsArePermanent
