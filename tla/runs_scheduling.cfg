\* Three queued Runs, one worker that may die twice and is restarted, no
\* reviewer: the order and the progress of the queue.  No symmetry: liveness.
CONSTANTS
    Runs = {r1, r2, r3}
    Workers = {w1}
    Clients = {}
    Keys = {k1}
    MaterialOutcomes <- TwoOutcomes
    MaxFailures = 2
SPECIFICATION FairSpec
PROPERTIES RunsStartInOrder QueuedRunsStart
    QueuedRunsReachAGate
\* A Run that is over, or that no reviewer answers, stops.
CHECK_DEADLOCK FALSE
