---------------------------- MODULE MCReviewRuns ----------------------------
(* Instances of ReviewRuns for TLC.                                         *)
EXTENDS ReviewRuns, TLC

(* Every combination the worker and the fact gate tell apart: nothing to    *)
(* settle, each issue alone, and a conflict beside every other issue.       *)
AllOutcomes ==
    {{}, {"material"}, {"minor"}, {"missing"}, {"unusable"}, {"document"},
     {"material", "minor"}, {"material", "missing"}, {"material", "unusable"},
     {"minor", "document"}}

(* One of each kind for the fact gate: nothing, something to settle, two    *)
(* conflicts, a missing field, an unusable one beside a conflict, and an    *)
(* unreadable document.                                                     *)
GateOutcomes ==
    {{}, {"material"}, {"material", "minor"}, {"missing"},
     {"material", "unusable"}, {"document"}}

(* Both ways through the worker: a stop at the fact gate, and a pass to the *)
(* report gate, with an issue the worker lets through.                      *)
TwoOutcomes == {{"minor"}, {"material"}}

(* Bound: a Run two workers have been at is not followed through reviews,   *)
(* and has one of two outcomes.  Only a second worker selects what is not queued, reads the materials     *)
(* again, or raises.                                                        *)
OneWorkerAtWork ==
    /\ \A v, w \in Workers : v # w => Idle \in {worker[v], worker[w]}
    /\ \A w \in Workers : /\ worker[w].pc # "down"
                           /\ worker[w].pc = "selected" => run[worker[w].run].status = "QUEUED"
    /\ \A r \in Runs : Versions(snaps, r, "PARSE") \subseteq {1}
NotReviewed == idem = {} /\ decisions = {} /\ \A c \in Clients : client[c] = Free
ReviewsOfOneWorkersRuns ==
    \/ OneWorkerAtWork
    \/ NotReviewed /\ \A f \in snaps : f.kind = "FACT" => f.body.issues \in TwoOutcomes

(* Permutations a run may be taken up to.                                   *)
RunSymmetry == Permutations(Runs) \cup Permutations(Keys)
ReviewSymmetry == Permutations(Clients) \cup Permutations(Keys) \cup Permutations(Workers)
=============================================================================
