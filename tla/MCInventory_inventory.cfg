\* Inventories of up to three chunks, and any other message.
SPECIFICATION Spec
CONSTANTS
    Radix = 25
    HexRadix = 5
    FirstLetter = 3
    ShortLength = 1
    CountLength = 2
    LongLength = 2
    IdLength = 1
    HashLength = 8
    MaxPayload = 31
    MaxData = 6
    NotUtf8 = {24}
    RejectCodes = {1, 2, 3}
    Junk = Junk
    None = None
    Versions <- MCVersions
    FileSizes <- MCFileSizes
    ChunkSizes <- MCChunkSizes
    Hashes <- MCHashes
    MaxIndex = 2
    Messages <- MCMessages
INVARIANTS
    MessagesArriveWhole
    InventoryArrives
    RangesPartition
    SavedReadsBack
CHECK_DEADLOCK FALSE
