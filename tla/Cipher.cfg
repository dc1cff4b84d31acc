SPECIFICATION Spec
CONSTANTS
    c1 = c1
    m1 = m1
    n1 = n1
    NoClient = NoClient
    Junk = Junk
    NoKey = NoKey
    Client <- MCClient
    Nonce1 <- MCNonce1
    Nonce2 <- MCNonce2
    Slots = 1
    MaxText = 33
    Anything <- MCAnything
INVARIANT TextComesBack
