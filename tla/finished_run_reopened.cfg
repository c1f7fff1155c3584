\* Two requests in flight on one Run.
CONSTANTS
    Runs = {r1}
    Workers = {w1}
    Clients = {c1, c2}
    Keys = {k1, k2, k3}
    MaterialOutcomes <- TwoOutcomes
    MaxFailures = 0
SPECIFICATION Spec
PROPERTIES FinishedRunsStay
\* A Run that is over, or that no reviewer answers, stops.
CHECK_DEADLOCK FALSE
