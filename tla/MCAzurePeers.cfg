CONSTANTS
    v1 = v1
    v2 = v2
    v3 = v3
    a1 = a1
    a2 = a2
    Absent = Absent
    VMs = {v1, v2, v3}
    Address <- AddressOf
    Cut = {}
    Foreign = {"other"}
    ASNs = {64512, 64513}
    Disturbances = {"others", "drift", "nodes", "asn", "delete", "restart", "fault"}
    MaxEvents = 4
SPECIFICATION FairSpec
INVARIANTS
    TypeOK
    PeeredNodesForward
PROPERTIES
    OthersSurvive
    ImplementsPlatform
    Converges
CHECK_DEADLOCK FALSE
