\* Two requests in flight on one case: uploads, replacements, Runs and demo
\* scenarios race, die and are repeated.
CONSTANTS
    N = 2
    MaxActive = 3
    Ids = {d1, d2, d3}
    Keys = {k1, k2}
    Sessions = {s1, s2}
SPECIFICATION Spec
SYMMETRY IntakeSymmetry
INVARIANTS IntakeTypeOK DocumentHistory StoredMaterials OneResourcePerKey
    LatestVersionIsActive RunsHaveTheirMaterials VersionCountsMaterials
PROPERTIES ReplacedForGood
\* Identifiers and keys run out.
CHECK_DEADLOCK FALSE
