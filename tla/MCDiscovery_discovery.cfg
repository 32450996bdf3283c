\* The searching host, two that can be found, one of them in two ways, and a 0.3 receiver.
SPECIFICATION Spec
CONSTANTS
    self = self
    h1 = h1
    h2 = h2
    h3 = h3
    edbook = edbook
    Edbook = Edbook
    DefaultName = warpfile_device
    NoName = NoName
    Blank = Blank
    None = None
    Bits = {0, 1, 2, 3, 4}
    Hosts = {self, h1, h2, h3}
    Self = self
    Serves <- MCServes
    AddressesOf <- MCAddressesOf
    Environment <- MCEnvironment
    Folded <- MCFolded
    Interfaces <- MCInterfaces
    Statuses <- MCStatuses
    Lines <- MCLines
    V02 = V02
    V03 = V03
    Dashes = Dashes
    Reporting = {h1}
    Failing = {h1}
    Strays <- MCStrays
    Window = 2
INVARIANTS
    TypeOK
    UndisturbedFindsAll
    NoSilentChoice
    LineReadsAlike
PROPERTIES
    EndsOnReportOnly
    SearchEnds
CHECK_DEADLOCK FALSE
