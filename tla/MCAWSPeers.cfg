CONSTANTS
    c1 = c1
    c2 = c2
    e1 = e1
    e2 = e2
    a1 = a1
    a2 = a2
    Nobody = Nobody
    Clusters = {c1}
    Endpoints = {e1, e2}
    Addresses = {a1, a2}
    Subnet <- OneSubnet
    Zone <- ZoneOf
    Disturbances = {"nodes", "fault", "restart", "foreign", "drift", "delete", "failure", "endpoints"}
    MaxPeers = 5
    MaxEvents = 3
SPECIFICATION FairSpec
INVARIANTS
    TypeOK
    OnlyNodesArePeered
    CleanupReleasesPeers
PROPERTIES
    Converges
CHECK_DEADLOCK FALSE
