SPECIFICATION Spec
CONSTANTS
    c1 = c1
    c2 = c2
    i1 = i1
    i2 = i2
    m1 = m1
    m2 = m2
    n1 = n1
    n2 = n2
    NoClient = NoClient
    Junk = Junk
    NoKey = NoKey
    NoConn = NoConn
    NoReq = NoReq
    NoRsp = NoRsp
    Client <- TwoClients
    Registered <- OneClient
    Nonce1 <- One_r1
    Nonce2 <- One_r2
    Conn <- TwoConns
    MaxNode = 2
    MaxWorkers = 2
    MaxKeyId = 2
    Garbage <- PlainGarbage
    Faults = {}
INVARIANTS UnregisteredRefused
