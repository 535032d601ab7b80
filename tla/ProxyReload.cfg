\* Two requests and the watcher, an edit, valid and invalid settings, every failure.
CONSTANTS
    r1 = r1
    r2 = r2
    Requests = {r1, r2}
    watcher = watcher
    None = None
    AuthFailure = AuthFailure
    OtherFailure = OtherFailure
    Proxies = {p1, bad}
    Invalid = {bad}
    Bootstrap = p1
    FromCPA = TRUE
    MaxVersion = 2
    pollInterval = 1
    authInterval = 2
    maxInterval = 2
    maxRoutes = 1
SPECIFICATION FairSpec
INVARIANTS
    NotOlderThanCheck
PROPERTIES
    RouteAdvances
    QuietAfterFailure
    EventuallyAnswered
    EventuallyCurrent
