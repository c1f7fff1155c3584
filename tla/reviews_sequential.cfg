\* Two Runs, one worker that may fail once, and one request in flight at a
\* time: what a deployment with one reviewer at a time relies on.
CONSTANTS
    Runs = {r1, r2}
    Workers = {w1}
    Clients = {c1}
    Keys = {k1, k2}
    MaterialOutcomes <- GateOutcomes
    MaxFailures = 1
SPECIFICATION Spec
SYMMETRY RunSymmetry
INVARIANTS LatestReportMatchesRun TaskFollowsRun
PROPERTIES RunsFollowLifecycle
\* A Run that is over, or that no reviewer answers, stops.
CHECK_DEADLOCK FALSE
