SPECIFICATION TurnsSpec
CONSTANTS
    r1 = r1
    r2 = r2
    c1 = c1
    c2 = c2
    d1 = d1
    d2 = d2
    NoToken = 0
    NoDriver = NoDriver
    NoRequest = NoRequest
    NoConversation = NoConversation
    Requests = {r1}
    Conversations = {c1}
    Drivers = {d1, d2}
    ConvOf <- Together
    FaultKinds = {"second", "call", "answer", "forward", "heartbeat"}
    MaxFaults = 2
    Tokens = {1, 2, 3}
    MaxEpoch = 3
INVARIANTS
    ClaimIntegrity
    AttemptsCountClaims
PROPERTIES
    LedgerSpec
    TerminalIsFinal
    ClaimIsRespected
CHECK_DEADLOCK FALSE
