SPECIFICATION TurnsSpec
CONSTANTS
    r1 = r1
    r2 = r2
    c1 = c1
    c2 = c2
    d1 = d1
    d2 = d2
    NoToken = 0
    NoDriver = NoDriver
    NoRequest = NoRequest
    NoConversation = NoConversation
    Requests = {r1, r2}
    Conversations = {c1}
    Drivers = {d1}
    ConvOf <- Together
    FaultKinds = {"answer", "heartbeat", "codex", "crash", "forward"}
    MaxFaults = 2
    Tokens = {1, 2, 3, 4}
    MaxEpoch = 3
SYMMETRY Symmetry
INVARIANTS
    TurnsTypeOK
    CompletedHadTurn
    AtMostOneTurnAlone
    TurnHoldsClaim
    OneTurnPerConversation
CHECK_DEADLOCK FALSE
