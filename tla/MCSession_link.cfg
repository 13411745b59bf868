\* A radio link: late writes, lost writes, answers late or never; calls of every kind wait for each other.
SPECIFICATION FairSpec
CONSTANTS
    p1 = p1
    p2 = p2
    Proc = {p1, p2}
    NoProc = NoProc
    setLock = setLock
    readTask = readTask
    readTap = readTap
    readStatus = readStatus
    readHistory = readHistory
    Code = {setLock, readTask, readTap, readStatus, readHistory}
    NoCode = NoCode
    Calls <- MixedCalls
    Reply <- MCReply
    Accept <- MCAccept
    Refusals = {"rejected", "malformed"}
    Prompt = FALSE
    MaxCalls = 1
    StatusPolls = 2
    OutputPolls = 2
    VerdictPolls = 2
    PackageReads = 2
INVARIANTS
    TypeOK
    CommandsSerialized
    AnswersCarryOwnCode
PROPERTIES
    CallsComeNearer
    EveryCallReturns
