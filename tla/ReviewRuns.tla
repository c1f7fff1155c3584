----------------------------- MODULE ReviewRuns -----------------------------
(***************************************************************************)
(* The life of the review Runs of one case: the worker that claims and     *)
(* processes them (worker.py, service.claim_job, fact_service,             *)
(* review_service) and the reviewers that answer the two human gates       *)
(* (fact_service.submit_fact_review, report_service.submit_report_review), *)
(* all of them sharing one SQLite business database.                       *)
(*                                                                         *)
(* What is one step.  A session reads in autocommit mode: every SELECT     *)
(* sees the last committed state, and another session may commit between   *)
(* two of them.  The first flush opens the transaction and takes the write *)
(* lock, which excludes every other writer until the commit.  So a handler *)
(* is a few reading steps, which only change what its session remembers,   *)
(* and then one step for all it does from its first flush to its commit.   *)
(* A handler that raises, or whose process dies, in between leaves the     *)
(* tables as they were.                                                    *)
(***************************************************************************)
EXTENDS Integers, FiniteSets, FiniteSetsExt

CONSTANTS
    Runs,             \* the Runs over one set of four document versions
    Workers,          \* worker processes (the deployment starts one)
    Clients,          \* requests the API may have in flight at once
    Keys,             \* values of the Idempotency-Key header
    MaterialOutcomes, \* what reading the four documents may find
    MaxFailures       \* bound: how often a worker may fail

(***************************************************************************)
(* What can be wrong with the facts read from the materials:               *)
(*   material   a field with a conflict above the thresholds               *)
(*   minor      a field whose distinct amounts are within the thresholds   *)
(*   missing    a field without any candidate                              *)
(*   unusable   a field with candidates, no conflict and no selected value *)
(*              (one that cannot be normalised, alone or beside another)   *)
(*   document   a document that is absent, rejected or not readable        *)
(***************************************************************************)
Conflicts == {"material", "minor"}
Issues == Conflicts \cup {"missing", "unusable", "document"}

ASSUME RunsAssumption == IsFiniteSet(Runs)
ASSUME OutcomesAssumption == MaterialOutcomes \subseteq SUBSET Issues
ASSUME FailuresAssumption == MaxFailures \in Nat

-----------------------------------------------------------------------------
(* Rows of the tables and what the sessions remember.                      *)

RunStatus == {"NOT_CREATED", "QUEUED", "RUNNING", "WAITING_FACT_REVIEW",
              "WAITING_REPORT_REVIEW", "COMPLETED", "RETURNED"}
Gates == {"FACT_REVIEW", "REPORT_REVIEW"}
RunRow == [status : RunStatus, gate : Gates \cup {"NONE"}]

JobStatus == {"NONE", "PENDING", "LEASED", "SUCCEEDED"}
TaskRow == [status : JobStatus, lease : {"none", "held", "expired"}]

(* summary_outcome and unsupported_claims of a report, as far as the        *)
(* report gate tells them apart.                                            *)
Outcomes == {"CLEAR", "REVIEW_BLOCKED", "UNSUPPORTED"}
ReportStatus == {"AWAITING_REVIEW", "CONFIRMED", "RETURNED"}

MaterialKinds == {"PARSE", "FACT", "CONFLICT"}
CoreKinds == {"RETRIEVAL", "TOOL", "RULE", "RISK"}
SnapshotKinds == MaterialKinds \cup CoreKinds \cup {"REPORT"}

(* A settled conflict stays on the list, and can be decided again.          *)
FactBody == [issues : SUBSET Issues, settled : SUBSET Conflicts, review : BOOLEAN]
CoreBody == [facts : Nat, outcome : Outcomes]
ReportBody == [facts : Nat, outcome : Outcomes, status : ReportStatus]
Snapshots ==
    [run : Runs, kind : MaterialKinds, version : Nat, body : FactBody]
      \cup [run : Runs, kind : CoreKinds, version : Nat, body : CoreBody]
      \cup [run : Runs, kind : {"REPORT"}, version : Nat, body : ReportBody]

(* Requests to the two review endpoints, with expected versions from V.     *)
RequestsOn(V) ==
    [run : Runs, gate : {"FACT_REVIEW"}, key : Keys, expected : V,
     action : {"RESOLVE", "REQUEST_RESUBMISSION"},
     decided : (SUBSET Conflicts) \ {{}}]
      \cup [run : Runs, gate : {"REPORT_REVIEW"}, key : Keys, expected : V,
            action : {"CONFIRM_DRAFT", "RETURN_FOR_RERUN"}, decided : {{}}]
Requests == RequestsOn(Nat)

Decisions == [run : Runs, gate : Gates, key : Keys, before : Nat, after : Nat,
              action : {"RESOLVE", "REQUEST_RESUBMISSION",
                        "CONFIRM_DRAFT", "RETURN_FOR_RERUN"}]
IdempotencyRecords == [run : Runs, gate : Gates, key : Keys]

VARIABLES
    run,        \* review_runs
    task,       \* task_jobs, one row per Run
    created,    \* order in which the tasks were created; 0 for none
    materials,  \* status of the case's four documents, together
    snaps,      \* snapshots
    decisions,  \* human_decisions, those of one request together
    idem,       \* idempotency_records of the two review endpoints
    worker,     \* what each worker is doing
    client,     \* what each request in flight is doing
    failures    \* failures of workers so far

tables == <<run, task, created, materials, snaps, decisions, idem>>
vars == <<run, task, created, materials, snaps, decisions, idem,
          worker, client, failures>>

WorkerPC == {"down", "idle", "selected", "claimed", "parsed", "disputed",
             "filed", "evaluating", "drafting"}
NoRun == "none"
WorkerStates == [pc : WorkerPC, run : Runs \cup {NoRun},
                 version : Nat, facts : Nat]
Idle == [pc |-> "idle", run |-> NoRun, version |-> 0, facts |-> 0]
Down == [Idle EXCEPT !.pc = "down"]

ClientPC == {"free", "loaded", "checked", "picked"}
NoRequest == [run |-> NoRun]
NoSnapshot == [run |-> NoRun]
ClientStates == [pc : ClientPC, req : Requests \cup {NoRequest},
                 current : Snapshots \cup {NoSnapshot}, version : Nat]
Free == [pc |-> "free", req |-> NoRequest, current |-> NoSnapshot, version |-> 0]

TypeOK ==
    /\ run \in [Runs -> RunRow]
    /\ task \in [Runs -> TaskRow]
    /\ created \in [Runs -> Nat]
    /\ materials \in {"UPLOADED", "PARSED", "NEEDS_REVIEW"}
    /\ snaps \subseteq Snapshots
    /\ decisions \subseteq Decisions
    /\ idem \subseteq IdempotencyRecords
    /\ worker \in [Workers -> WorkerStates]
    /\ client \in [Clients -> ClientStates]
    /\ failures \in 0..MaxFailures

Init ==
    /\ run = [r \in Runs |-> [status |-> "NOT_CREATED", gate |-> "NONE"]]
    /\ task = [r \in Runs |-> [status |-> "NONE", lease |-> "none"]]
    /\ created = [r \in Runs |-> 0]
    /\ materials = "UPLOADED"
    /\ snaps = {}
    /\ decisions = {}
    /\ idem = {}
    /\ worker = [w \in Workers |-> Idle]
    /\ client = [c \in Clients |-> Free]
    /\ failures = 0

-----------------------------------------------------------------------------
(* Snapshots.  A session reads the version it will write before it writes  *)
(* it; the unique constraint on (run, kind, version) settles the race.     *)

Versions(S, r, k) == {s.version : s \in {t \in S : t.run = r /\ t.kind = k}}

LastVersion(S, r, k) ==
    IF Versions(S, r, k) = {} THEN 0 ELSE Max(Versions(S, r, k))
NextVersion(S, r, k) == LastVersion(S, r, k) + 1

IsLatest(s, r, k) ==
    /\ s.run = r /\ s.kind = k
    /\ \A t \in snaps : t.run = r /\ t.kind = k => t.version <= s.version

Row(r, k, v, b) == [run |-> r, kind |-> k, version |-> v, body |-> b]

(* Mutated: snapshots without the unique constraint.                        *)
VersionFreeUnconstrained(r, k, v) == TRUE

(* uq_snapshot_version: a row may only be inserted at a version of its own. *)
VersionFree(r, k, v) == v \notin Versions(snaps, r, k)

(* The three rows of the material stage; v is the PARSE version.            *)
MaterialRows(S, r, v, body) ==
    {Row(r, "PARSE", v, body)}
      \cup {Row(r, k, NextVersion(S, r, k), body) : k \in {"FACT", "CONFLICT"}}

(* The five rows of evaluate_review_core; v is the RETRIEVAL version.       *)
CoreRows(S, r, v, facts, outcome) ==
    LET core == [facts |-> facts, outcome |-> outcome]
        report == [facts |-> facts, outcome |-> outcome,
                   status |-> "AWAITING_REVIEW"]
    IN  {Row(r, "RETRIEVAL", v, core)}
          \cup {Row(r, k, NextVersion(S, r, k), core) :
                    k \in CoreKinds \ {"RETRIEVAL"}}
          \cup {Row(r, "REPORT", NextVersion(S, r, "REPORT"), report)}

(* process_materials_and_facts: what sends a Run to the fact gate.          *)
NeedsReview(issues) == issues \cap {"material", "missing", "document"} # {}

-----------------------------------------------------------------------------
(* create_run, for a case whose document versions and case version match    *)
(* the request.  A document that some Run found unreadable refuses it.      *)
CreateRun(r) ==
    /\ run[r].status = "NOT_CREATED"
    /\ materials # "NEEDS_REVIEW"
    /\ run' = [run EXCEPT ![r] = [status |-> "QUEUED", gate |-> "NONE"]]
    /\ task' = [task EXCEPT ![r] = [status |-> "PENDING", lease |-> "none"]]
    /\ created' = [created EXCEPT
                     ![r] = Cardinality({s \in Runs : created[s] # 0}) + 1]
    /\ UNCHANGED <<materials, snaps, decisions, idem, worker, client, failures>>

-----------------------------------------------------------------------------
(* The worker.                                                             *)

(* Mutated: lease_until <= now alone, which NULL does not satisfy.          *)
ClaimableUnlessNull(r) == task[r].status = "PENDING" /\ task[r].lease = "expired"

Claimable(r) == task[r].status = "PENDING" /\ task[r].lease # "held"

(* Mutated: without the ORDER BY.                                           *)
SelectUnordered(w) ==
    /\ worker[w].pc = "idle"
    /\ \E r \in Runs :
         /\ Claimable(r)
         /\ worker' = [worker EXCEPT ![w] = [Idle EXCEPT !.pc = "selected",
                                                         !.run = r]]
    /\ UNCHANGED <<tables, client, failures>>

(* claim_job reads the oldest claimable task ...                            *)
Select(w) ==
    /\ worker[w].pc = "idle"
    /\ \E r \in Runs :
         /\ Claimable(r)
         /\ \A s \in Runs : Claimable(s) => created[r] <= created[s]
         /\ worker' = [worker EXCEPT ![w] = [Idle EXCEPT !.pc = "selected",
                                                         !.run = r]]
    /\ UNCHANGED <<tables, client, failures>>

(* ... and updates that row by its primary key, whatever it holds by then.  *)
Claim(w) ==
    /\ worker[w].pc = "selected"
    /\ LET r == worker[w].run
       IN  /\ task' = [task EXCEPT ![r] = [status |-> "LEASED", lease |-> "held"]]
           /\ run' = [run EXCEPT ![r].status = "RUNNING"]
    /\ worker' = [worker EXCEPT ![w].pc = "claimed"]
    /\ UNCHANGED <<created, materials, snaps, decisions, idem, client, failures>>

(* process_materials_and_facts parses the files and reads the next version. *)
ReadMaterials(w) ==
    /\ worker[w].pc = "claimed"
    /\ worker' = [worker EXCEPT
                    ![w].pc = "parsed",
                    ![w].version = NextVersion(snaps, worker[w].run, "PARSE")]
    /\ UNCHANGED <<tables, client, failures>>

(* Its transaction: the document status and three snapshots.                *)
FileFacts(w) ==
    /\ worker[w].pc = "parsed"
    /\ VersionFree(worker[w].run, "PARSE", worker[w].version)
    /\ \E issues \in MaterialOutcomes :
         LET r == worker[w].run
             body == [issues |-> issues, settled |-> {},
                      review |-> NeedsReview(issues)]
         IN  /\ snaps' = snaps \cup MaterialRows(snaps, r, worker[w].version, body)
             /\ materials' = IF "document" \in issues
                             THEN "NEEDS_REVIEW" ELSE "PARSED"
             /\ worker' = [worker EXCEPT
                             ![w].pc = IF NeedsReview(issues)
                                       THEN "disputed" ELSE "filed",
                             ![w].version = 0]
    /\ UNCHANGED <<run, task, created, decisions, idem, client, failures>>

(* Mutated: the task is left leased.                                        *)
OpenFactGateTaskKept(w) ==
    /\ worker[w].pc = "disputed"
    /\ run' = [run EXCEPT ![worker[w].run] = [status |-> "WAITING_FACT_REVIEW",
                                              gate |-> "FACT_REVIEW"]]
    /\ worker' = [worker EXCEPT ![w] = Idle]
    /\ UNCHANGED <<task, created, materials, snaps, decisions, idem, client, failures>>

(* The branch of run_once that opens the fact gate: a second transaction.   *)
OpenFactGate(w) ==
    /\ worker[w].pc = "disputed"
    /\ LET r == worker[w].run
       IN  /\ run' = [run EXCEPT ![r].status = "WAITING_FACT_REVIEW",
                                 ![r].gate = "FACT_REVIEW"]
           /\ task' = [task EXCEPT ![r].status = "SUCCEEDED"]
    /\ worker' = [worker EXCEPT ![w] = Idle]
    /\ UNCHANGED <<created, materials, snaps, decisions, idem, client, failures>>

(* Mutated: the facts must be without any issue.                            *)
StartCoreFlawless(w) ==
    /\ worker[w].pc = "filed"
    /\ \E facts \in snaps :
         /\ IsLatest(facts, worker[w].run, "FACT")
         /\ facts.body.issues = {}
         /\ worker' = [worker EXCEPT ![w].pc = "evaluating",
                                     ![w].facts = facts.version]
    /\ UNCHANGED <<tables, client, failures>>

(* evaluate_review_core reads the latest facts, and raises on unsettled     *)
(* ones; it then evaluates the rules and reads the next version.            *)
StartCore(w) ==
    /\ worker[w].pc = "filed"
    /\ \E facts \in snaps :
         /\ IsLatest(facts, worker[w].run, "FACT")
         /\ ~facts.body.review
         /\ worker' = [worker EXCEPT ![w].pc = "evaluating",
                                     ![w].facts = facts.version]
    /\ UNCHANGED <<tables, client, failures>>

PickCore(w) ==
    /\ worker[w].pc = "evaluating"
    /\ worker' = [worker EXCEPT
                    ![w].pc = "drafting",
                    ![w].version = NextVersion(snaps, worker[w].run, "RETRIEVAL")]
    /\ UNCHANGED <<tables, client, failures>>

(* The transaction that files the draft report and opens the report gate.   *)
OpenReportGate(w) ==
    /\ worker[w].pc = "drafting"
    /\ VersionFree(worker[w].run, "RETRIEVAL", worker[w].version)
    /\ \E outcome \in Outcomes :
         LET r == worker[w].run
         IN  /\ snaps' = snaps \cup CoreRows(snaps, r, worker[w].version,
                                             worker[w].facts, outcome)
             /\ run' = [run EXCEPT ![r].status = "WAITING_REPORT_REVIEW",
                                   ![r].gate = "REPORT_REVIEW"]
             /\ task' = [task EXCEPT ![r].status = "SUCCEEDED"]
    /\ worker' = [worker EXCEPT ![w] = Idle]
    /\ UNCHANGED <<created, materials, decisions, idem, client, failures>>

(* A taken version or facts that became unsettled: the exception leaves     *)
(* run_once, nothing catches it in run_forever and the process ends.        *)
WorkerRaises(w) ==
    /\ \/ /\ worker[w].pc = "parsed"
          /\ ~VersionFree(worker[w].run, "PARSE", worker[w].version)
       \/ /\ worker[w].pc = "drafting"
          /\ ~VersionFree(worker[w].run, "RETRIEVAL", worker[w].version)
       \/ /\ worker[w].pc = "filed"
          /\ \E facts \in snaps : /\ IsLatest(facts, worker[w].run, "FACT")
                                  /\ facts.body.review
    /\ worker' = [worker EXCEPT ![w] = Down]
    /\ UNCHANGED <<tables, client, failures>>

(* A crash, a full disk, a locked database, an unreadable rule pack: the    *)
(* open transaction is rolled back and the process ends.                    *)
WorkerFails(w) ==
    /\ worker[w].pc \notin {"down", "idle"}
    /\ failures < MaxFailures
    /\ worker' = [worker EXCEPT ![w] = Down]
    /\ failures' = failures + 1
    /\ UNCHANGED <<tables, client>>

(* The operator starts the worker again.                                    *)
WorkerRestarts(w) ==
    /\ worker[w].pc = "down"
    /\ worker' = [worker EXCEPT ![w] = Idle]
    /\ UNCHANGED <<tables, client, failures>>

(* Sixty seconds pass; no code renews a lease.                              *)
LeaseExpires(r) ==
    /\ task[r].lease = "held"
    /\ task' = [task EXCEPT ![r].lease = "expired"]
    /\ UNCHANGED <<run, created, materials, snaps, decisions, idem,
                   worker, client, failures>>

-----------------------------------------------------------------------------
(* The reviewers.                                                          *)

GateStatus(gate) == IF gate = "FACT_REVIEW" THEN "WAITING_FACT_REVIEW"
                                            ELSE "WAITING_REPORT_REVIEW"
ReviewedKind(gate) == IF gate = "FACT_REVIEW" THEN "FACT" ELSE "REPORT"

Recorded(q) == \E i \in idem : i.run = q.run /\ i.gate = q.gate /\ i.key = q.key

(* Mutated: the status of the Run is not looked at.                         *)
ArriveUnchecked(c) ==
    /\ client[c].pc = "free"
    /\ \E q \in RequestsOn({s.version : s \in snaps}) :
         /\ q.expected \in Versions(snaps, q.run, ReviewedKind(q.gate))
         /\ client' = [client EXCEPT ![c] = [Free EXCEPT !.pc = "loaded",
                                                         !.req = q]]
    /\ UNCHANGED <<tables, worker, failures>>

(* The endpoint reads the Run row.  A request that finds the Run in another *)
(* status is answered without a write (with the Run if its key is on        *)
(* record, with 409 otherwise) and is no step of this module.  The expected *)
(* version is one the client has seen, maybe long ago.                      *)
Arrive(c) ==
    /\ client[c].pc = "free"
    /\ \E q \in RequestsOn({s.version : s \in snaps}) :
         /\ q.expected \in Versions(snaps, q.run, ReviewedKind(q.gate))
         /\ run[q.run].status = GateStatus(q.gate)
         /\ client' = [client EXCEPT ![c] = [Free EXCEPT !.pc = "loaded",
                                                         !.req = q]]
    /\ UNCHANGED <<tables, worker, failures>>

(* The checks of submit_fact_review before its first write: every decision  *)
(* names a conflict of the snapshot, and unless something is to be          *)
(* resubmitted every material conflict has a decision.                      *)
FactRequestAdmissible(q, body) ==
    /\ q.decided \subseteq body.issues \cap Conflicts
    /\ q.action = "RESOLVE" /\ "material" \in body.issues
         => "material" \in q.decided

(* Mutated: a draft with a blocked rule can be confirmed.                   *)
ReportRequestAwaiting(q, body) == body.status = "AWAITING_REVIEW"

(* Those of submit_report_review.                                           *)
ReportRequestAdmissible(q, body) ==
    /\ body.status = "AWAITING_REVIEW"
    /\ q.action = "CONFIRM_DRAFT" => body.outcome = "CLEAR"

Check(c) ==
    LET q == client[c].req
    IN  /\ client[c].pc = "loaded"
        /\ ~Recorded(q)
        /\ \E current \in snaps :
             /\ IsLatest(current, q.run, ReviewedKind(q.gate))
             /\ q.expected = current.version
             /\ \/ /\ q.gate = "FACT_REVIEW"
                   /\ FactRequestAdmissible(q, current.body)
                \/ /\ q.gate = "REPORT_REVIEW"
                   /\ ReportRequestAdmissible(q, current.body)
             /\ client' = [client EXCEPT ![c].pc = "checked",
                                         ![c].current = current]
        /\ UNCHANGED <<tables, worker, failures>>

(* _save_snapshot reads the version before it flushes the row.              *)
Pick(c) ==
    LET q == client[c].req
    IN  /\ client[c].pc = "checked"
        /\ q.action # "REQUEST_RESUBMISSION"
        /\ client' = [client EXCEPT
                        ![c].pc = "picked",
                        ![c].version = NextVersion(snaps, q.run,
                                                   ReviewedKind(q.gate))]
        /\ UNCHANGED <<tables, worker, failures>>

(* Mutated: without the unique constraints and the look at the record.      *)
RecordUnchecked(q, after) ==
    /\ idem' = idem \cup {[run |-> q.run, gate |-> q.gate, key |-> q.key]}
    /\ decisions' = decisions \cup
         {[run |-> q.run, gate |-> q.gate, key |-> q.key, action |-> q.action,
           before |-> q.expected, after |-> after]}

(* What every committing review writes: one idempotency record and the      *)
(* decisions, both unique per Run, gate and key.                            *)
Record(q, after) ==
    /\ ~Recorded(q)
    /\ ~\E d \in decisions : d.run = q.run /\ d.gate = q.gate /\ d.key = q.key
    /\ idem' = idem \cup {[run |-> q.run, gate |-> q.gate, key |-> q.key]}
    /\ decisions' = decisions \cup
         {[run |-> q.run, gate |-> q.gate, key |-> q.key, action |-> q.action,
           before |-> q.expected, after |-> after]}

(* Mutated: the documents are looked at again as well.                      *)
LeftOpenOfAll(q, body) == body.issues \ (body.settled \cup q.decided)

(* What the decisions leave open.  The fields are looked at again, the      *)
(* documents are not; anything left is FACT_REVIEW_INCOMPLETE.              *)
LeftOpen(q, body) == body.issues \ (body.settled \cup q.decided \cup {"document"})

(* The facts with the values the decisions give them.                       *)
Settled(q, body) == [body EXCEPT !.settled = @ \cup q.decided, !.review = FALSE]

(* Mutated: the rules are evaluated before the new facts are flushed.       *)
CommitFactsLate(c) ==
    LET q == client[c].req
        r == q.run
        v == client[c].version
        body == Settled(q, client[c].current.body)
        facts == {Row(r, "FACT", v, body),
                  Row(r, "CONFLICT", NextVersion(snaps, r, "CONFLICT"), body)}
    IN  /\ client[c].pc = "picked" /\ q.gate = "FACT_REVIEW"
        /\ VersionFree(r, "FACT", v)
        /\ LeftOpen(q, client[c].current.body) = {}
        /\ \E outcome \in Outcomes :
             /\ materials = "NEEDS_REVIEW" => outcome # "CLEAR"
             /\ snaps' = snaps \cup facts
                  \cup CoreRows(snaps, r, NextVersion(snaps, r, "RETRIEVAL"),
                                q.expected, outcome)
        /\ Record(q, 0)
        /\ run' = [run EXCEPT ![r] = [status |-> "WAITING_REPORT_REVIEW",
                                      gate |-> "REPORT_REVIEW"]]
        /\ task' = [task EXCEPT ![r].status = "SUCCEEDED"]
        /\ client' = [client EXCEPT ![c] = Free]
        /\ UNCHANGED <<created, materials, worker, failures>>

CommitFacts(c) ==
    LET q == client[c].req
        r == q.run
        v == client[c].version
        body == Settled(q, client[c].current.body)
        facts == {Row(r, "FACT", v, body),
                  Row(r, "CONFLICT", NextVersion(snaps, r, "CONFLICT"), body)}
    IN  /\ client[c].pc = "picked" /\ q.gate = "FACT_REVIEW"
        /\ VersionFree(r, "FACT", v)
        /\ LeftOpen(q, client[c].current.body) = {}
        /\ \E outcome \in Outcomes :
             /\ materials = "NEEDS_REVIEW" => outcome # "CLEAR"
             /\ snaps' = snaps \cup facts
                  \cup CoreRows(snaps, r, NextVersion(snaps, r, "RETRIEVAL"),
                                v, outcome)
        /\ Record(q, 0)
        /\ run' = [run EXCEPT ![r] = [status |-> "WAITING_REPORT_REVIEW",
                                      gate |-> "REPORT_REVIEW"]]
        /\ task' = [task EXCEPT ![r].status = "SUCCEEDED"]
        /\ client' = [client EXCEPT ![c] = Free]
        /\ UNCHANGED <<created, materials, worker, failures>>

(* Mutated: the action is stored where the status belongs.                  *)
CommitResubmissionAsAction(c) ==
    LET q == client[c].req
    IN  /\ client[c].pc = "checked"
        /\ q.action = "REQUEST_RESUBMISSION"
        /\ Record(q, 0)
        /\ run' = [run EXCEPT ![q.run].status = q.action, ![q.run].gate = "NONE"]
        /\ task' = [task EXCEPT ![q.run].status = "SUCCEEDED"]
        /\ client' = [client EXCEPT ![c] = Free]
        /\ UNCHANGED <<created, materials, snaps, worker, failures>>

CommitResubmission(c) ==
    LET q == client[c].req
    IN  /\ client[c].pc = "checked"
        /\ q.action = "REQUEST_RESUBMISSION"
        /\ Record(q, 0)
        /\ run' = [run EXCEPT ![q.run].status = "RETURNED",
                              ![q.run].gate = "NONE"]
        /\ task' = [task EXCEPT ![q.run].status = "SUCCEEDED"]
        /\ client' = [client EXCEPT ![c] = Free]
        /\ UNCHANGED <<created, materials, snaps, worker, failures>>

(* Mutated: the draft is filed again as it was.                             *)
ReviewedStatusKept(action) == "AWAITING_REVIEW"

(* What the reviewer's action makes of the draft.                           *)
ReviewedStatus(action) ==
    IF action = "CONFIRM_DRAFT" THEN "CONFIRMED" ELSE "RETURNED"

CommitReport(c) ==
    LET q == client[c].req
        r == q.run
        v == client[c].version
        body == [client[c].current.body EXCEPT !.status = ReviewedStatus(q.action)]
    IN  /\ client[c].pc = "picked" /\ q.gate = "REPORT_REVIEW"
        /\ VersionFree(r, "REPORT", v)
        /\ snaps' = snaps \cup {Row(r, "REPORT", v, body)}
        /\ Record(q, v)
        /\ run' = [run EXCEPT ![r] =
                     [status |-> IF q.action = "CONFIRM_DRAFT"
                                 THEN "COMPLETED" ELSE "RETURNED",
                      gate |-> "NONE"]]
        /\ task' = [task EXCEPT ![r].status = "SUCCEEDED"]
        /\ client' = [client EXCEPT ![c] = Free]
        /\ UNCHANGED <<created, materials, worker, failures>>

(* A request ends without a commit: refused by a check, answered from the   *)
(* record of its key, stopped by a unique constraint or by an exception of  *)
(* evaluate_review_core, timed out on the write lock, or its process died.  *)
Abandon(c) ==
    /\ client[c].pc # "free"
    /\ client' = [client EXCEPT ![c] = Free]
    /\ UNCHANGED <<tables, worker, failures>>

-----------------------------------------------------------------------------
WorkerStep(w) ==
    \/ Select(w) \/ Claim(w) \/ ReadMaterials(w) \/ FileFacts(w)
    \/ OpenFactGate(w) \/ StartCore(w) \/ PickCore(w) \/ OpenReportGate(w)
    \/ WorkerRaises(w)

ClientStep(c) ==
    \/ Arrive(c) \/ Check(c) \/ Pick(c) \/ CommitFacts(c)
    \/ CommitResubmission(c) \/ CommitReport(c) \/ Abandon(c)

Next ==
    \/ \E r \in Runs : CreateRun(r) \/ LeaseExpires(r)
    \/ \E w \in Workers : WorkerStep(w) \/ WorkerFails(w) \/ WorkerRestarts(w)
    \/ \E c \in Clients : ClientStep(c)

Spec == Init /\ [][Next]_vars

(* run_forever polls as long as its process lives, time passes, and the     *)
(* operator restarts a dead worker.  Nothing is assumed of reviewers.       *)
FairSpec ==
    /\ Spec
    /\ \A w \in Workers : WF_vars(WorkerStep(w)) /\ WF_vars(WorkerRestarts(w))
    /\ \A r \in Runs : WF_vars(LeaseExpires(r))
-----------------------------------------------------------------------------
(* Properties.                                                             *)

(* The versions of a Run's snapshots of one kind are 1, 2, ..., n, each on  *)
(* one row, whoever races whom for the next one (_next_snapshot_version and *)
(* uq_snapshot_version).                                                    *)
SnapshotHistory ==
    /\ \A r \in Runs, k \in SnapshotKinds :
         Versions(snaps, r, k) = 1..LastVersion(snaps, r, k)
    /\ \A s, t \in snaps :
         s.run = t.run /\ s.kind = t.kind /\ s.version = t.version => s = t

(* A key takes effect at most once per Run and gate, and a record of it is  *)
(* kept exactly when it did: a request sent twice, one after the other or   *)
(* at the same time, leaves one set of decisions.                           *)
OneEffectPerKey ==
    /\ idem = {[run |-> d.run, gate |-> d.gate, key |-> d.key] : d \in decisions}
    /\ \A d, e \in decisions :
         d.run = e.run /\ d.gate = e.gate /\ d.key = e.key => d = e

(* Every reviewed report is the work of exactly one reviewer decision, has  *)
(* the status that decision asked for, and says what the draft the reviewer *)
(* looked at says; a confirmed one came from a confirmable draft.           *)
ReviewTrail ==
    \A s \in snaps : s.kind = "REPORT" /\ s.body.status # "AWAITING_REVIEW" =>
      \E d \in decisions :
        /\ d.run = s.run /\ d.gate = "REPORT_REVIEW" /\ d.after = s.version
        /\ \A e \in decisions : e.run = d.run /\ e.gate = d.gate
                                  /\ e.after = d.after => e = d
        /\ (d.action = "CONFIRM_DRAFT") = (s.body.status = "CONFIRMED")
        /\ s.body.status = "CONFIRMED" => s.body.outcome = "CLEAR"
        /\ \E t \in snaps :
             /\ t.run = s.run /\ t.kind = "REPORT" /\ t.version = d.before
             /\ t.version < s.version
             /\ t.body = [s.body EXCEPT !.status = "AWAITING_REVIEW"]

(* Nobody rewrites the facts or the report behind the record: each version  *)
(* of the facts is the worker's reading of the materials or the effect of   *)
(* one reviewer ruling, and each version of the report is one evaluation of *)
(* the core or the effect of one reviewer decision, even when submissions   *)
(* race or are repeated.                                                    *)
Submissions(r, gate, action) ==
    Cardinality({d \in decisions : d.run = r /\ d.gate = gate /\ d.action \in action})

EveryVersionIsAccountedFor ==
    \A r \in Runs :
      /\ LastVersion(snaps, r, "FACT")
           = LastVersion(snaps, r, "PARSE")
               + Submissions(r, "FACT_REVIEW", {"RESOLVE"})
      /\ LastVersion(snaps, r, "REPORT")
           = LastVersion(snaps, r, "RETRIEVAL")
               + Submissions(r, "REPORT_REVIEW",
                             {"CONFIRM_DRAFT", "RETURN_FOR_RERUN"})

(* Rules, risks and report are never derived from facts whose review is     *)
(* still due (evaluate_review_core raises).                                 *)
RulesRunOnSettledFacts ==
    \A s \in snaps : s.kind \in CoreKinds \cup {"REPORT"} =>
      \E f \in snaps : /\ f.run = s.run /\ f.kind = "FACT"
                       /\ f.version = s.body.facts
                       /\ ~f.body.review

(* What stops a Run at the fact gate and what the endpoint accepts there    *)
(* are computed apart.  Where a conflict is among the issues they agree: a  *)
(* request for more material passes the checks, and if nothing is missing   *)
(* or unusable one that settles the conflicts leaves nothing open.          *)
SomeAnswerIsAccepted ==
    \A f \in snaps :
      /\ run[f.run].status = "WAITING_FACT_REVIEW"
      /\ IsLatest(f, f.run, "FACT") /\ f.body.issues \cap Conflicts # {}
      => \E ask, settle \in RequestsOn({f.version}) :
           /\ ask.run = f.run /\ ask.action = "REQUEST_RESUBMISSION"
           /\ FactRequestAdmissible(ask, f.body)
           /\ f.body.issues \cap {"missing", "unusable"} = {} =>
                /\ settle.run = f.run /\ settle.action = "RESOLVE"
                /\ FactRequestAdmissible(settle, f.body)
                /\ LeftOpen(settle, f.body) = {}

(* The report a reviewer finds at the gate, and the one a completed Run     *)
(* ends with, is derived from the Run's latest facts, and its status is the *)
(* Run's.                                                                   *)
LatestReportMatchesRun ==
    \A r \in Runs : run[r].status \in {"WAITING_REPORT_REVIEW", "COMPLETED"} =>
      \E s, f \in snaps :
        /\ IsLatest(s, r, "REPORT") /\ IsLatest(f, r, "FACT")
        /\ s.body.facts = f.version
        /\ s.body.status = IF run[r].status = "COMPLETED"
                           THEN "CONFIRMED" ELSE "AWAITING_REVIEW"

(* The task table follows the Run table: what waits for a worker is         *)
(* pending, what runs is leased, what waits for a human or is over can be   *)
(* claimed by nobody.  The waiting gate is the one the status names.        *)
TaskFollowsRun ==
    \A r \in Runs :
      /\ (task[r].status = "PENDING") = (run[r].status = "QUEUED")
      /\ (task[r].status = "LEASED") = (run[r].status = "RUNNING")
      /\ \A g \in Gates : (run[r].gate = g) = (run[r].status = GateStatus(g))

(* A Run is not started while an older one is still queued, even when the   *)
(* worker dies between reading a task and claiming it.                      *)
RunsStartInOrder ==
    [][\A r, s \in Runs :
         /\ run[r].status = "QUEUED" /\ run'[r].status = "RUNNING"
         /\ run[s].status = "QUEUED" /\ created[s] < created[r]
         => FALSE]_vars

(* Every queued Run is taken up, though the worker may die on the way and   *)
(* on the Runs before it.                                                   *)
QueuedRunsStart ==
    \A r \in Runs : run[r].status = "QUEUED" ~> run[r].status # "QUEUED"

(* ... and reaches a human gate, unless the worker fails before.            *)
QueuedRunsReachAGate ==
    \A r \in Runs : run[r].status = "QUEUED" ~>
      \/ run[r].status \in {"WAITING_FACT_REVIEW", "WAITING_REPORT_REVIEW"}
      \/ failures > 0

(* With one request in flight at a time, the Runs keep the promise of       *)
(* RunLifecycle: the status a Run shows and the report it offers move       *)
(* together, along the edges of the state diagram only, while tasks,        *)
(* leases, snapshots and failures of the worker stay behind the scenes.     *)
ShownReport(r) ==
    IF Versions(snaps, r, "REPORT") = {} THEN "NONE"
    ELSE (CHOOSE s \in snaps : IsLatest(s, r, "REPORT")).body.status

Lifecycle == INSTANCE RunLifecycle WITH
    status <- [r \in Runs |-> run[r].status],
    report <- [r \in Runs |-> ShownReport(r)]

RunsFollowLifecycle == Lifecycle!Spec

(* What the documents promise and the code does not keep.                  *)

(* docs/architecture.md: after its lease expired a Run can be recovered.    *)
ExpiredLeaseIsRecovered ==
    \A r \in Runs : (run[r].status = "RUNNING" /\ task[r].lease = "expired")
                      ~> run[r].status # "RUNNING"

(* docs/architecture.md draws no transition out of COMPLETED or RETURNED.   *)
FinishedRunsStay ==
    [][\A r \in Runs : run[r].status \in {"COMPLETED", "RETURNED"} =>
                         run'[r].status = run[r].status]_vars
=============================================================================
