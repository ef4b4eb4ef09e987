CONSTANTS
    r1 = r1
    r2 = r2
    k1 = k1
    NoRole = NoRole
    None = None
    Keyless = Keyless
    Ambient = Ambient
    Pending = Pending
    Error = Error
    Rejected = Rejected
    Modes = {"mint", "manual"}
    Roles = {r1, r2}
    Keys = {k1}
    Disturbances = {"edit", "secret", "pod", "restart", "fault"}
    MaxEvents = 4
SPECIFICATION FairSpec
INVARIANTS
    TypeOK
    FileIsWhole
    TemporariesAreRemoved
PROPERTIES
    EditsSurvive
    Converges
