SPECIFICATION Spec
CONSTANTS
    c1 = c1
    c2 = c2
    i1 = i1
    i2 = i2
    m1 = m1
    m2 = m2
    n1 = n1
    n2 = n2
    NoClient = NoClient
    Junk = Junk
    NoKey = NoKey
    NoConn = NoConn
    NoReq = NoReq
    NoRsp = NoRsp
    Client <- OneClient
    Registered <- OneClient
    Nonce1 <- Two_r1
    Nonce2 <- Two_r2
    Conn <- TwoConns
    MaxNode = 1
    MaxWorkers = 1
    MaxKeyId = 2
    Garbage <- AnyGarbage
    Faults = {"crash", "timeout", "alter"}
SYMMETRY Symmetry
INVARIANTS IndInv StoresAgree EndsAgree AnswerFits RevokedStaysRevoked ClientIdIsRowId
PROPERTIES PairSpec
