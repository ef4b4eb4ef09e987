CONSTANTS
    r1 = r1
    r2 = r2
    blue = blue
    green = green
    s1 = s1
    s2 = s2
    Nobody = Nobody
    Routings = {r1, r2}
    Nets = {blue}
    Names <- SharedNames
    Subnets = {s1}
    InvalidSubnets = {}
    Disturbances = {}
    MaxEvents = 4
    MaxLag = 3
SPECIFICATION Spec
INVARIANTS
    ReadyHasNetwork
CHECK_DEADLOCK FALSE
