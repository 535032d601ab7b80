\* One historical name, two plans.
CONSTANTS
    m1 = m1
    m2 = m2
    m3 = m3
    k1 = k1
    u1 = u1
    Names = {1, 2, 3}
    Metas = {m1, m2}
    CanonicalName <- ApartNames
    Historical = {1}
    LegacyName = 1
    Keys = {k1}
    Users = {u1}
    DefaultUser = u1
    Blank = Blank
    Absent = Absent
    Foreign = Foreign
SPECIFICATION Spec
INVARIANT RefreshKeepsDisabled
