CONSTANTS
    r1 = r1
    r2 = r2
    blue = blue
    green = green
    s1 = s1
    s2 = s2
    Nobody = Nobody
    Routings = {r1, r2}
    Nets = {blue}
    Names <- SharedNames
    Subnets = {s1, s2}
    InvalidSubnets = {s2}
    Disturbances = {"edit", "config", "drift", "namespace"}
    MaxEvents = 3
    MaxLag = 2
SPECIFICATION FairSpec
INVARIANTS
    ReadyIsRevisited
PROPERTIES
    Converges
CHECK_DEADLOCK FALSE
