SPECIFICATION Spec
CONSTANTS
    Tokens = {t1}
    Accounts = {a1, a2}
    Keys = {k1, k2}
    NoAccount = NoAccount
    NoKey = NoKey
    NoToken = NoToken
    None = None
SYMMETRY Symmetry
INVARIANTS
    IndexCoherent
    AckedIsDurable
    Reopenable
    EncryptedAtRest
