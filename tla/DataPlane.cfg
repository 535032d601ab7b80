\* Two requests and a transaction on two files, one of which may have no proxy.
CONSTANTS
    r1 = r1
    r2 = r2
    ProxyRequests = {r1}
    QuotaRequests = {r2}
    Names = {1, 2}
    LegacyName = 1
    Proxies = {direct, p1}
    Direct = direct
    Absent = Absent
    Foreign = Foreign
    None = None
    Transaction = Transaction
    PersonalAccessToken = TRUE
SPECIFICATION FairSpec
INVARIANTS
    ForwardedIsForeign
PROPERTIES
    RouteAgreed
    EventuallyAnswered
