SPECIFICATION FairTurnsSpec
CONSTANTS
    r1 = r1
    r2 = r2
    c1 = c1
    c2 = c2
    d1 = d1
    d2 = d2
    NoToken = 0
    NoDriver = NoDriver
    NoRequest = NoRequest
    NoConversation = NoConversation
    Requests = {r1, r2}
    Conversations = {c1}
    Drivers = {d1}
    ConvOf <- Together
    FaultKinds = {"codex", "forward", "stop", "observer"}
    MaxFaults = 2
    Tokens = {1, 2, 3, 4}
    MaxEpoch = 3
PROPERTIES
    EveryReceiptSettles
CHECK_DEADLOCK FALSE
