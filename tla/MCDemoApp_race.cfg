\* stop, then stream before the first stream's goroutine has ended.
SPECIFICATION DemoSpec
CHECK_DEADLOCK FALSE
CONSTANTS
    d1 = d1
    s1 = s1
    t1 = t1
    t2 = t2
    Device = {d1}
    Session = {s1}
    DemoStream = {t1, t2}
    NoDevice = NoDevice
    NoSession = NoSession
    NoStream = NoStream
    Patient = FALSE
INVARIANTS
    StreamIsCancellable
