\* Two jobs, fair programs, an unreliable rest.
SPECIFICATION FairSpec
CONSTANTS
    a = a
    b = b
    None = None
    Jobs = {A, B}
    Blocks = {a, b}
    Contents <- TwoBlocks
    MaxSendAttempts = 2
    Window = 2
    MaxFaults = 1
    MaxEdits = 0
PROPERTIES
    JobsEnd
