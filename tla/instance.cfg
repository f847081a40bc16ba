CONSTANTS
    a1 = a1
    a2 = a2
    x1 = x1
    x2 = x2
    m1 = m1
    m2 = m2
    k1 = k1
    k2 = k2
    k3 = k3
    Users = {a1, a2}
    Confs = {x1, x2}
    Images = {m1, m2}
    Keys = {k1, k2, k3}
    UserKey = UserKey
    None = None
    Specs <- EditedSpecs
    Lagging = {"instance", "apiKey"}
    Lingering = {"apiKey", "statefulSet"}
    MaxFaults = 1
    MaxEdits = 3
SPECIFICATION FairSpec
CHECK_DEADLOCK FALSE
INVARIANTS
    TypeOK
    InstanceHeld
    InitializedEarned
    OneAdmin
PROPERTIES
    KeysKept
    RollsOut
    Settles
    NothingLeft
