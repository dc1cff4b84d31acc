SPECIFICATION Spec
CONSTANTS
    r2 = r2
    c1 = c1
    c2 = c2
    Requests <- MCRequests
    Thread = {t1, t2}
    NoThread = NoThread
    Conn = {i1, i2}
    Null = Null
    Absent = Absent
    BadFd = BadFd
    Faults = {"acceptErr"}
    Client = {c1, c2}
    NoClient = NoClient
    Nonce1 = {i1, i2, "r1"}
    Nonce2 = {r2}
    Junk = junk
    NoKey = NoKey
    Addr = {a1, a2}
    NoAddr = NoAddr
    MaxNode = 2
    Tab0 <- MCTab0
    NoResult = NoResult
    NoQuery = NoQuery
    Rows0 = {c1}
INVARIANTS IndInv OwnSocket CrashExplained WriteIsAtomic LoadedSlotKept OwnRows KnownInBoth StopAfterOne
CONSTRAINT OneMishap
SYMMETRY MCSymmetry
CHECK_DEADLOCK FALSE
