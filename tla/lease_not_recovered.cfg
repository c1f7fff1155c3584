\* The worker dies once in the middle of a Run; time passes and the operator
\* restarts it.
CONSTANTS
    Runs = {r1}
    Workers = {w1}
    Clients = {}
    Keys = {k1}
    MaterialOutcomes <- TwoOutcomes
    MaxFailures = 1
SPECIFICATION FairSpec
PROPERTIES ExpiredLeaseIsRecovered
\* A Run that is over, or that no reviewer answers, stops.
CHECK_DEADLOCK FALSE
