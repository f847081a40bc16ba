CONSTANTS
    c1 = c1
    c2 = c2
    n1 = n1
    n2 = n2
    n3 = n3
    x1 = x1
    x2 = x2
    g1 = g1
    p1 = p1
    p2 = p2
    i1 = i1
    i2 = i2
    i3 = i3
    k1 = k1
    k2 = k2
    Clients = {c1}
    Names = {n1}
    Confs = {x1, x2}
    Groups = {g1}
    GroupIds = {p1}
    Ids = {i1, i2}
    Keys = {k1, k2}
    None = None
    Specs <- PlainSpecs
    Existing <- NoExisting
    PreCreated = {}
    Lagging = {"client"}
    PageSize = 3
    MaxFaults = 1
    MaxEdits = 4
SPECIFICATION FairSpec
CHECK_DEADLOCK FALSE
PROPERTIES
    Converges
    DeletionCompletes
    CredentialsSettle
