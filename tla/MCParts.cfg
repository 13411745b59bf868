\* Every part at the bounds its module needs; the parts come to an end.
SPECIFICATION PartsSpec
CHECK_DEADLOCK FALSE
CONSTANTS
    Parts = {"version", "calls", "samples", "trace", "names", "editor", "codec", "pairing", "history"}
    Proc = {g1, g2, g3}
    MaxCalls = 1
    Caller = {c1, c2}
    NoCaller = NoCaller
    Face = {1, 2}
    Buffer = 1
    MaxSamples = 3
    InnerBuffer = 2
    MaxNotifications = 4
    Tracker = {t1, t2}
    NoTracker = NoTracker
    Tracing = FALSE
    MaxNames = 2
    Char = {a}
    Space = Space
    MaxHistory = 2
    MaxLength = 2
    MaxLines = 3
    Byte = {0, 1, 2, 23, 63, 66, 127, 128, 255}
    Number <- SparseNumber
    Minor <- Minors
    Default = zeros
    Password = {zeros, p1, p2}
    NoPassword = NoPassword
    Malformed = Malformed
    MaxWorkflows = 3
    b1 = b1
    b2 = b2
    Block = {b1, b2}
    Lead <- Leads
    PackageBlocks = 2
    MaxPackets = 5
    MaxLog = 3
    MaxReads = 2
INVARIANTS
    PartsTypeOK
    VersionIsSound
    CompoundCallsHold
    TracingIsHarmless
    NamesAreRight
    LinesAreKept
    MessagesAreUnderstood
    SessionReleased
    ResultIsTrue
    HistoryIsTrue
PROPERTIES
    VersionIsStable
    CarriesSamples
    CarriesNotifications
    StreamsEndAndGoOn
