CONSTANTS
    n1 = n1
    n2 = n2
    g1 = g1
    g2 = g2
    Nodes = {n1}
    Groups = {g1, g2}
    Covers = {}
    Specs <- CloudSpec
    Plans <- OnePlan
    MaxGroups = 1
    Disturbances = {"nodes", "credentials", "discovery", "drift", "routings", "misname", "frr", "restart", "fault"}
    MaxEvents = 3
    MaxLag = 2
SPECIFICATION FairSpec
INVARIANTS
    TypeOK
    CloudConditionsAgree
PROPERTIES
    Converges
CHECK_DEADLOCK FALSE
