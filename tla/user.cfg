CONSTANTS
    u1 = u1
    n1 = n1
    x1 = x1
    x2 = x2
    g1 = g1
    p1 = p1
    p2 = p2
    i1 = i1
    i2 = i2
    Users = {u1}
    Names = {n1}
    Profiles = {x1}
    Groups = {g1}
    GroupIds = {p1}
    Ids = {i1, i2}
    None = None
    Specs <- MemberSpecs
    Existing <- NoExisting
    PreCreated = {u1}
    PageSize = 2
    MaxFaults = 1
    MaxEdits = 4
SPECIFICATION FairSpec
CHECK_DEADLOCK FALSE
INVARIANTS
    TypeOK
    OneUserPerName
    LinkOfRecorded
    MembershipsAsRead
PROPERTIES
    MembershipsSettle
    OnboardingSettles
    DeletionCompletes
    Implements
