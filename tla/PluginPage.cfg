\* Every kind of configuration, two keys and two places CPA may run in.
CONSTANTS
    Configs <- SomeConfigs
    Hosts <- SomeHosts
    right = right
    wrong = wrong
    Keys = {right, wrong}
    Accepted = right
    None = None
    Invalid = Invalid
    MaxCalls = 1
    MaxMessages = 1
SPECIFICATION FairSpec
INVARIANT
    CandidatesFramable
PROPERTIES
    EventuallySettled
    EventuallyReplaced
    ChildSettles
    KeyReachesChild
