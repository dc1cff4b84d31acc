SPECIFICATION Spec
CONSTANTS
    MaxConn = 2
    MaxFd = 2
    HeaderLen = 2
    Capacity = 4
    Requests <- MCRequests
    Answers <- MCAnswers
    Agree = 1
    Nothing = Nothing
INVARIANTS IndInv WholeMessages ServerSurvives
PROPERTIES WorkersEnd ClientReturns
CHECK_DEADLOCK FALSE
