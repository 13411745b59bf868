\* Subscribing, cancelling, closing; scanning, looking up, connecting: the system stops when every call has been made.
SPECIFICATION MacSpec
CHECK_DEADLOCK FALSE
CONSTANTS
    Char = {facets, battery}
    Sub = {s1, s2}
    NoSub = NoSub
    NoChar = NoChar
    Free = Free
    Failures = TRUE
    Call = {c1, c2}
    NoCall = NoCall
    Device = {d1, d2}
    NoDevice = NoDevice
INVARIANTS
    MacTypeOK
    MapIsExact
    OpenIsHeard
    ScanFlagMatches
    NothingLeftBehind
PROPERTIES
    CloseEndsSubscriptions
    ClosedForReasonOrByPredecessor
    CallsReturn
