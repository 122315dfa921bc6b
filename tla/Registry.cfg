SPECIFICATION Spec
CONSTANTS
    Guards = {g1, g2}
    Calls = {s1, s2}
    MaxGen = 4
    Surplus = TRUE
    Named = {TRUE, FALSE}
SYMMETRY Symmetry
INVARIANTS
    GuardKeepsAlive
    NoOrphan
    TerminalOnce
    ProjectionsAgree
    PendingIsTimed
