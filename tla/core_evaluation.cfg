\* The first evaluations of a deployment: two workers on one task and a
\* request, over two policy files that are changed once meanwhile.
CONSTANTS
    r1 = r1
    r2 = r2
    w1 = w1
    w2 = w2
    q1 = q1
    f1 = f1
    f2 = f2
    c1 = c1
    c2 = c2
    Runs = {r1, r2}
    Tasks = {w1, w2}
    Requests = {q1}
    RunOf <- WhoseRun
    Files = {f1, f2}
    Contents = {c1, c2, c3}
    Shipped <- TwoPolicies
    Absent = absent
    MaxEdits = 1
SPECIFICATION FairSpec
INVARIANTS CoreTypeOK CitedPoliciesAreStored PoliciesComeWithReports
    CheckpointNamesTheReport
PROPERTIES LockIsReleased
\* Evaluations end.
CHECK_DEADLOCK FALSE
