CONSTANTS
    g1 = g1
    g2 = g2
    n1 = n1
    n2 = n2
    l1 = l1
    l2 = l2
    i1 = i1
    i2 = i2
    i3 = i3
    Groups = {g1, g2}
    Names = {n1, n2}
    Labels = {l1, l2}
    Ids = {i1, i2, i3}
    None = None
    Specs <- LabelledSpecs
    Existing <- HandMade
    PageSize = 3
    MaxFaults = 1
    MaxEdits = 3
SPECIFICATION FairSpec
CHECK_DEADLOCK FALSE
INVARIANTS
    TypeOK
    RecordedLive
    OneGroupPerName
PROPERTIES
    IdStable
    ReadyIsEarned
    Implements
    Converges
    DeletionCompletes
