\* One job whose source may be edited.
SPECIFICATION FairSpec
CONSTANTS
    a = a
    b = b
    None = None
    Jobs = {A}
    Blocks = {a, b}
    Contents <- MCContents
    MaxSendAttempts = 3
    Window = 2
    MaxFaults = 2
    MaxEdits = 1
INVARIANTS
    TypeOK
    ReceiptAttested
    StreamAgreement
    NoRetransmission
    CompletePartKept
PROPERTIES
    LossIsSurvived
