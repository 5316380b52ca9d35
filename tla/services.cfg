\* Two requests of the handlers, three of the pool, one stop of the service.
\* Clients may stop, and failures are bounded.
CHECK_DEADLOCK FALSE
SPECIFICATION MCSpec
CONSTANTS
    r1 = r1
    r2 = r2
    r3 = r3
    NoClient = NoClient
    Idle = Idle
    Slot = {1, 2}
    Request <- MCLimited
    Digits = {"12"}
    Limit = 2
    TickLength = 10
    Memory = 2
    MaxCrashes = 1
    Handled <- MCRequests
    MaxBare = 1
    Asker = {r1, r2, r3}
    Peer <- MCPeer
    Org <- MCOrg
    Known = {"org1", "org2"}
    Other = "org3"
    Asked = {"peer1-org1", "peer1-org2"}
    MaxFaults = 2
INVARIANTS
    LimiterInv ApiInv GatewayPoolInv
PROPERTIES
    RefusedIsReadmitted EveryRequestIsAnswered RequestsEnd
