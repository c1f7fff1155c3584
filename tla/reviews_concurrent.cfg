\* Two requests in flight on one Run and three keys: submissions to the two
\* gates race, are repeated, and follow one another.  Two workers claim its
\* task; what both have been at is not followed through reviews.
CONSTANTS
    Runs = {r1}
    Workers = {w1, w2}
    Clients = {c1, c2}
    Keys = {k1, k2, k3}
    MaterialOutcomes <- AllOutcomes
    MaxFailures = 0
SPECIFICATION Spec
CONSTRAINT ReviewsOfOneWorkersRuns
SYMMETRY ReviewSymmetry
INVARIANTS TypeOK SnapshotHistory OneEffectPerKey ReviewTrail
    EveryVersionIsAccountedFor RulesRunOnSettledFacts SomeAnswerIsAccepted
\* A Run that is over, or that no reviewer answers, stops.
CHECK_DEADLOCK FALSE
