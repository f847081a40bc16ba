CONSTANTS
    c1 = c1
    n1 = n1
    x1 = x1
    x2 = x2
    i1 = i1
    i2 = i2
    i3 = i3
    k1 = k1
    k2 = k2
    here = here
    there = there
    trusted = trusted
    Clients = {c1}
    Names = {n1}
    Confs = {x1, x2}
    Groups = {}
    GroupIds = {}
    Ids = {i1, i2, i3}
    Keys = {k1, k2}
    None = None
    Specs <- HandMade
    Existing <- NoExisting
    PreCreated = {}
    Lagging = {"client"}
    PageSize = 2
    MaxFaults = 1
    MaxEdits = 2
    Namespaces = {here, there}
    Labels = {trusted}
    Unset = Unset
    Target = c1
    TargetName = n1
    RouteNamespace = here
    Asks <- SomeAsks
    Instances <- SomeInstances
SPECIFICATION RouteFairSpec
CHECK_DEADLOCK FALSE
INVARIANTS
    RouteTypeOK
    FinalizerHeld
PROPERTIES
    Settled
