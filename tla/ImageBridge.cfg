\* Three events in five lines, or fewer with one split, noise and missing empty lines.
CONSTANTS
    i1 = i1
    i2 = i2
    u = u
    v = v
    Images = {i1, i2}
    Usages = {u, v}
    None = None
    Null = Null
    Missing = Missing
    Events <- MCEvents
    Split <- MCSplit
    MaxLines = 5
SPECIFICATION FairSpec
INVARIANTS
    CollectedAnswer
    StreamedAnswer
PROPERTY EventuallyAnswered
CHECK_DEADLOCK FALSE
