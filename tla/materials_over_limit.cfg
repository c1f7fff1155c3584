\* One client at a time: a complete case of two kinds, and replacements.
CONSTANTS
    N = 2
    MaxActive = 2
    Ids = {d1, d2, d3, d4}
    Keys = {k1, k2, k3, k4}
    Sessions = {s1}
SPECIFICATION Spec
SYMMETRY IntakeSymmetry
INVARIANTS MaterialLimit
\* Identifiers and keys run out.
CHECK_DEADLOCK FALSE
