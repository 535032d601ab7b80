\* Two requests over two sessions, an Agent Identity and a personal access token.
CONSTANTS
    Requests = {r1, r2}
    Identities = {jwt, pat}
    Pats = {pat}
    Sessions = {s1, s2}
    None = None
SPECIFICATION FairSpec
CHECK_DEADLOCK FALSE
INVARIANTS
    SingleFlight
    NoStaleTask
    OwnTask
    AtMostOneRetry
    ExpiredNotSent
    RegistrationsBounded
PROPERTIES
    EventuallyAnswered
    ImplementsFairSlots
