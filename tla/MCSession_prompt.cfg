\* A prompt transport and device, and Authorize kept apart: every call gets its own answer.
SPECIFICATION ApartSpec
CONSTANTS
    p1 = p1
    p2 = p2
    Proc = {p1, p2}
    NoProc = NoProc
    setLock = setLock
    readTask = readTask
    readTap = readTap
    readStatus = readStatus
    readHistory = readHistory
    Code = {setLock, readTask, readTap, readStatus, readHistory}
    NoCode = NoCode
    Calls <- PromptCalls
    Reply <- MCReply
    Accept <- MCAccept
    Refusals = {"rejected"}
    Prompt = TRUE
    MaxCalls = 2
    StatusPolls = 2
    OutputPolls = 2
    VerdictPolls = 2
    PackageReads = 2
SYMMETRY
    Goroutines
INVARIANTS
    OwnAnswer
PROPERTIES
    ImplementsService
