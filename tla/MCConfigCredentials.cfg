CONSTANTS
    n1 = n1
    n2 = n2
    g1 = g1
    g2 = g2
    Nodes = {n1}
    Groups = {g1, g2}
    Covers = {}
    Specs <- CloudSpec
    Plans <- OnePlan
    MaxGroups = 1
    Disturbances = {"credentials"}
    MaxEvents = 3
    MaxLag = 2
SPECIFICATION FairSpec
PROPERTIES
    CredentialFailureClears
CHECK_DEADLOCK FALSE
