CONSTANTS
    n1 = n1
    n2 = n2
    g1 = g1
    g2 = g2
    Nodes = {n1}
    Groups = {g1, g2}
    Covers <- LooseCovers
    Specs <- AllSpecs
    Plans <- TwoPlans
    MaxGroups = 2
    Disturbances = {"edit", "fault", "restart"}
    MaxEvents = 4
    MaxLag = 2
SPECIFICATION Spec
INVARIANTS
    FRRIsOwned
    ReadyIsApplied
    ReadyHasNoFailure
CHECK_DEADLOCK FALSE
