CONSTANTS
    v1 = v1
    v2 = v2
    v3 = v3
    a1 = a1
    a2 = a2
    Absent = Absent
    NameOrder <- Order
    Address <- AddressOf
    Interfaces = {"i1", "i2"}
    AtFirst <- UpToRenaming
    Foreign = {"other"}
    NCCMaxInstancesPerSpoke = 1
    NestedVirt = TRUE
    Disturbances = {"others", "interfaces", "nodes", "site", "delete", "restart", "fault"}
    MaxEvents = 3
SPECIFICATION FairSpec
INVARIANTS
    TypeOK
    NodesAreInOneSpoke
    CleanupReleasesSpokes
PROPERTIES
    OthersSurvive
    ImplementsPlatform
    Converges
CHECK_DEADLOCK FALSE
