CONSTANTS
    c1 = c1
    c2 = c2
    e1 = e1
    e2 = e2
    a1 = a1
    a2 = a2
    Nobody = Nobody
    Clusters = {c1, c2}
    Endpoints = {e1}
    Addresses = {a1, a2}
    Subnet <- OneSubnet
    Zone <- OneZone
    Disturbances = {"nodes"}
    MaxPeers = 3
    MaxEvents = 2
SPECIFICATION Spec
PROPERTIES
    NoInterference
CHECK_DEADLOCK FALSE
