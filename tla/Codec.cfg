SPECIFICATION Spec
CONSTANTS
    RequestMsgs <- MCRequestMsgs
    RespondMsgs <- MCRespondMsgs
    Unset = 255
INVARIANTS IndInv RoundTrip InsideItsField OnlyUnsetKills ElementsFill OtherTypesRoundTrip
CHECK_DEADLOCK FALSE
