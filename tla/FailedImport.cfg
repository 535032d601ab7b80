SPECIFICATION Spec
CONSTANTS
    Tokens = {t1}
    Accounts = {a1}
    Keys = {k1, k2}
    NoAccount = NoAccount
    NoKey = NoKey
    NoToken = NoToken
    None = None
PROPERTY FailedImportRevokesItsKey
