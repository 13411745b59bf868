\* Authorize polls the shared result characteristic without opMu.
SPECIFICATION Spec
CONSTANTS
    p1 = p1
    p2 = p2
    Proc = {p1, p2}
    NoProc = NoProc
    setLock = setLock
    readTask = readTask
    readTap = readTap
    readStatus = readStatus
    readHistory = readHistory
    Code = {setLock, readTask, readTap, readStatus, readHistory}
    NoCode = NoCode
    Calls <- ReadAndAuthorize
    Reply <- MCReply
    Accept <- MCAccept
    Refusals = {"rejected"}
    Prompt = TRUE
    MaxCalls = 1
    StatusPolls = 2
    OutputPolls = 2
    VerdictPolls = 2
    PackageReads = 2
INVARIANTS
    OwnAnswer
