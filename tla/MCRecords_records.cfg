\* Both platforms, all three records, two processes for the receipt.
SPECIFICATION Spec
CONSTANTS
    Platforms = {"linux", "windows"}
    r1 = r1
    r2 = r2
    Writers <- MCWriters
    Procs = {r1, r2}
    Values = {v, w}
    Torn = Torn
    Absent = Absent
    Foreign = Foreign
    Folder = Folder
    MaxFiles = 5
SYMMETRY ValueSymmetry
INVARIANTS
    TypeOK
    VisibleIsWhole
    HandlesExclude
    AcknowledgedStays
PROPERTIES
    ReceiptWrittenOnce
    OldKeptForNew
    ForeignKept
