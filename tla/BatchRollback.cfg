\* What an atomic batch reports of its rollback.
CONSTANTS
    Ids = {1, 2}
    m1 = m1
    m2 = m2
    Metas = {m1, m2}
    Reported <- OneChanges
    Legacy <- FirstIsLegacy
    Workspace <- SecondInM1
    Keys = {k1, k2}
    None = None
SYMMETRY Symmetry
SPECIFICATION Spec
INVARIANT
    RolledBackLeavesNothing
