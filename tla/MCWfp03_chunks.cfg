\* One job, chunks of two blocks, a source that may be edited, hard links kept.
SPECIFICATION FairSpec
CONSTANTS
    a = a
    z = z
    None = None
    Zero = z
    Jobs = {A}
    Blocks = {a, z}
    Contents <- MCContents
    ChunkSize = 2
    MaxBatch = 1
    Unlinks = FALSE
    MaxSendAttempts = 3
    Window = 4
    MaxFaults = 2
    MaxEdits = 1
INVARIANTS
    FramesAdmissible
    AssemblyAgreement
    KnownChunksHeld
    AssembledIsAttested
    VerifiedIsTrue
PROPERTIES
    JobsEnd
    LossIsSurvived
