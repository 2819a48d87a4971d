SPECIFICATION FairTurnsSpec
CONSTANTS
    r1 = r1
    r2 = r2
    c1 = c1
    c2 = c2
    d1 = d1
    d2 = d2
    NoToken = 0
    NoDriver = NoDriver
    NoRequest = NoRequest
    NoConversation = NoConversation
    Requests = {r1}
    Conversations = {c1}
    Drivers = {d1}
    ConvOf <- Together
    FaultKinds = {"crash"}
    MaxFaults = 1
    Tokens = {1, 2}
    MaxEpoch = 2
PROPERTIES
    EveryReceiptSettles
CHECK_DEADLOCK FALSE
