\* Two requests and no edit, no invalid setting.
CONSTANTS
    r1 = r1
    r2 = r2
    Requests = {r1, r2}
    watcher = watcher
    None = None
    AuthFailure = AuthFailure
    OtherFailure = OtherFailure
    Proxies = {p1, p2}
    Invalid = {}
    Bootstrap = p1
    FromCPA = TRUE
    MaxVersion = 1
    pollInterval = 1
    authInterval = 2
    maxInterval = 3
    maxRoutes = 1
SPECIFICATION Spec
PROPERTY OutagePreservesRoute
