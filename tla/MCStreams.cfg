\* Two event streams into a channel of one event; a demo user who waits for a stopped stream to end.
SPECIFICATION StreamsSpec
CHECK_DEADLOCK FALSE
CONSTANTS
    Streams = 2
    Buffer = 1
    StreamBuffer = 1
    MaxNotifications = 2
    Device = {d1, d2}
    Session = {n1, n2, n3}
    DemoStream = {t1, t2}
    NoDevice = NoDevice
    NoSession = NoSession
    NoStream = NoStream
    Patient = TRUE
INVARIANTS
    StreamsTypeOK
    WorkersAreJoined
    InOrderToTheEnd
    OnlyActiveSessionOpen
    AuthorizedIsOfActiveSession
    StreamIsCancellable
    StreamsStopWithSession
PROPERTIES
    EndsTakeEffect
    ExitEndsStreams
