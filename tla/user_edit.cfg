CONSTANTS
    u1 = u1
    n1 = n1
    x1 = x1
    x2 = x2
    g1 = g1
    p1 = p1
    p2 = p2
    i1 = i1
    i2 = i2
    Users = {u1}
    Names = {n1}
    Profiles = {x1, x2}
    Groups = {}
    GroupIds = {}
    Ids = {i1, i2}
    None = None
    Specs <- EditedSpecs
    Existing <- NoExisting
    PreCreated = {}
    PageSize = 2
    MaxFaults = 0
    MaxEdits = 2
SPECIFICATION FairSpec
CHECK_DEADLOCK FALSE
PROPERTIES
    ProfileSettles
