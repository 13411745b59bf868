\* The watcher of a replaced subscription.
SPECIFICATION Spec
CHECK_DEADLOCK FALSE
CONSTANTS
    s1 = s1
    s2 = s2
    facets = facets
    Char = {facets}
    Sub = {s1, s2}
    NoSub = NoSub
    NoChar = NoChar
    Free = Free
    Failures = FALSE
PROPERTIES
    ClosedOnlyForReason
