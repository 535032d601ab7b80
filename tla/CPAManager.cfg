\* Four names, two canonical ones between two historical ones; or two names with
\* every field of a file.
CONSTANTS
    m1 = m1
    m2 = m2
    m3 = m3
    k1 = k1
    u1 = u1
    Names = {1, 2, 3, 4}
    Metas = {m1, m2, m3}
    CanonicalName <- SomeNames
    Historical = {1, 4}
    LegacyName = 1
    Keys = {k1, k2}
    Users = {u1, u2}
    DefaultUser = u1
    Blank = Blank
    Absent = Absent
    Foreign = Foreign
SPECIFICATION Spec
CONSTRAINT NamesOrFields
INVARIANTS
    FailureRestores
    UpsertComplete
    RemoveComplete
    RestoreComplete
    DisableComplete
    MakeBeforeBreak
    ForeignUntouched
