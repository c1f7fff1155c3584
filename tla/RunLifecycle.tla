---------------------------- MODULE RunLifecycle ----------------------------
(***************************************************************************)
(* What a review Run promises to the people around it, whatever tables,    *)
(* workers and requests stand behind it: the states a Run goes through     *)
(* (models.RunStatus, the state diagram of docs/architecture.md) and the   *)
(* report that exists in each of them.  A report is drafted before a       *)
(* reviewer is asked about it, the reviewer's answer decides the Run and   *)
(* the report in one step, and a Run that is over changes no more.         *)
(***************************************************************************)
CONSTANT Runs

VARIABLES
    status,  \* the state of each Run
    report   \* the status of its latest report, "NONE" before the first

vars == <<status, report>>

Init ==
    /\ status = [r \in Runs |-> "NOT_CREATED"]
    /\ report = [r \in Runs |-> "NONE"]

Move(r, from, to) == status[r] \in from /\ status' = [status EXCEPT ![r] = to]

Submit(r) == Move(r, {"NOT_CREATED"}, "QUEUED") /\ UNCHANGED report

Start(r) == Move(r, {"QUEUED"}, "RUNNING") /\ UNCHANGED report

AskForFacts(r) == /\ Move(r, {"RUNNING"}, "WAITING_FACT_REVIEW")
                  /\ UNCHANGED report

(* From the worker when the facts need no reviewer, from the reviewer's     *)
(* ruling when they do.                                                     *)
Draft(r) ==
    /\ Move(r, {"RUNNING", "WAITING_FACT_REVIEW"}, "WAITING_REPORT_REVIEW")
    /\ report' = [report EXCEPT ![r] = "AWAITING_REVIEW"]

Resubmit(r) == Move(r, {"WAITING_FACT_REVIEW"}, "RETURNED") /\ UNCHANGED report

Confirm(r) ==
    /\ report[r] = "AWAITING_REVIEW"
    /\ Move(r, {"WAITING_REPORT_REVIEW"}, "COMPLETED")
    /\ report' = [report EXCEPT ![r] = "CONFIRMED"]

Return(r) ==
    /\ report[r] = "AWAITING_REVIEW"
    /\ Move(r, {"WAITING_REPORT_REVIEW"}, "RETURNED")
    /\ report' = [report EXCEPT ![r] = "RETURNED"]

Next == \E r \in Runs :
    \/ Submit(r) \/ Start(r) \/ AskForFacts(r) \/ Draft(r)
    \/ Resubmit(r) \/ Confirm(r) \/ Return(r)

Spec == Init /\ [][Next]_vars
=============================================================================
