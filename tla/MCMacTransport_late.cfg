\* A context that ends before the goroutine of the scan has started.
SPECIFICATION TransportSpec
CHECK_DEADLOCK FALSE
CONSTANTS
    c1 = c1
    d1 = d1
    d2 = d2
    Call = {c1}
    NoCall = NoCall
    Device = {d1, d2}
    NoDevice = NoDevice
INVARIANTS
    NoScanAfterReturn
