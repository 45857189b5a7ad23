SPECIFICATION Spec
CONSTANTS
    r1 = r1
    b1 = b1
    u1 = u1
    n1 = n1
    m1 = m1
    None = None
    Runs = {r1}
    BaseCases = {b1}
    Designed = {u1}
    Added = {n1}
    Handwritten = {m1}
    Keys = {"smoke"}
    Contents <- MCContents
    RunOf <- MCRunOf
    SourceOf <- MCSourceOf
    BaseContent <- MCBaseContent
    MaxWrites = 2
CHECK_DEADLOCK FALSE
INVARIANTS PublishedWasAccepted ReviewIsEnough
PROPERTIES EverythingLiveIsPublished PublishedStaysPublished
