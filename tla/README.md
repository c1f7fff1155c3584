# CreditGuard AI: formal models

TLA+ models of the backend of CreditGuard AI (`src/backend/app`): what its tables go through when a worker,
reviewers and account managers work on them at the same time, what stays true of them, and what does not.

- [The system](#the-system): components, state, interactions, hard behaviours
- [Modules](#modules): what each models and how it corresponds to the code
- [Runs](#runs): what TLC checks, with which bounds and fairness
- [Proofs](#proofs): what TLAPS proves, and along which argument
- [Disagreements](#disagreements-between-the-documents-and-the-code) and [what is not modelled](#not-modelled)
- [Plan](#plan)

## The system

A credit *case* collects four kinds of material. A *review Run* takes one version of each, extracts facts from them,
detects contradictions, evaluates ten rules against a policy pack and drafts a report. Two human gates interrupt it:
HITL-1 (`FACT_REVIEW`), only if something about the facts has to be settled, and HITL-2 (`REPORT_REVIEW`), always.

| Component | Code | State | Operations |
|---|---|---|---|
| Cases and documents | `service.py` 111-282 | `credit_cases` (version), `documents` (version, active, status), files on disk, `idempotency_records` | `create_case`, `save_document`, pages of cases and documents |
| Runs and the task queue | `service.py` 335-470 | `review_runs` (status, gate), `task_jobs` (status, lease) | `create_run`, `retry_run`, `claim_job` |
| Worker | `worker.py` | what the process has read and not yet written | `run_once` (two transactions, then the graph), `run_forever` |
| Materials and facts | `fact_service.py`, `facts.py` | snapshots PARSE, FACT, CONFLICT; `human_decisions` | `process_materials_and_facts`, `submit_fact_review` |
| Review core and rules | `review_service.py`, `rules.py` | snapshots RETRIEVAL, TOOL, RULE, RISK | `evaluate_review_core` |
| Reports | `report_service.py` | snapshots REPORT; `human_decisions` | `build_report_payload`, `submit_report_review`, `get_report_view` |
| Workflow graph | `workflow.py`, `adapters.py` | a LangGraph checkpoint per Run in a database of its own | nine nodes the worker runs through; what they interrupt or resume is never used |
| Policy retrieval | `retrieval.py` | `policy_documents`, `policy_chunks`; the policy files | `load_policy_sources`, chunking, hybrid search, `persist_policy_index` |
| Parsing | `parsing.py` | none | `parse_document` per format, a provider of scans (MinerU) behind it |
| Tools | `tools.py` | none | pure functions of a fixture file |
| Demo scenarios | `demo.py` | none of its own | `create_demo_scenario`: case, four documents and Run, each in a transaction of its own |
| API, roles, settings | `main.py`, `security.py`, `config.py` | none | routing, role checks, a session per request |
| Web workbench, scripts, evaluation data | `web/`, `scripts/`, `evals/`, `fixtures/` | - | clients and tooling |

**How they interact.** There are no messages: the API process and the worker process share one SQLite file, and the
task row of a Run is what one leaves for the other. A Run is created by a request, claimed by the worker, left at a
gate by the worker, and moved on from there by the request of a reviewer, which evaluates the rules itself after
HITL-1. Snapshots are only ever added, with a version per Run and kind; the highest one counts.

**What is hard.**

- *Interleaving.* Handlers read (Run, idempotency record, latest snapshot, next version) before they write, in
  separate statements; another request or the worker can commit in between. What protects them is the unique
  constraints on snapshots, decisions and idempotency records - or nothing, where a row is updated by its primary key.
- *Crashes.* The worker commits the facts and opens the gate in two transactions; whatever leaves `run_once` as an
  exception ends the process, with the task leased.
- *Repetition.* Clients repeat requests after a timeout, with the same `Idempotency-Key`.
- *Two databases.* The worker writes the checkpoints of its graph to a database of their own while its business
  transaction is open and holds the write lock; either can be left without the other.
- *Files that change.* Materials are read again by every Run of a case, with a provider of scans that may be down;
  policy files are read twice in one evaluation.
- *Gates.* What a reviewer may answer depends on what the snapshot holds; a gate nobody can answer is a Run that is
  stuck.

**What makes each component correct.**

- *Queue and worker:* Runs start in the order of their creation, every Run is taken up, none is forgotten.
- *Snapshots:* versions of a kind are 1..n without a gap or a double.
- *Facts:* nothing is derived from facts whose review is due; facts change only by a reading or a ruling.
- *Reports:* a reviewed report is the work of one decision on a draft it was allowed on; the report shown is derived
  from the latest facts.
- *Requests:* a key takes effect once.
- *Runs:* the status follows the state diagram and agrees with the task and the report.
- *Intake:* document versions and active sets stay consistent, a Run is made of one active version of each kind, the
  case version changes whenever the materials do.
- *Materials:* a value nobody ruled on is what every material that was read says; what was not read is reviewed.
- *Policies:* no text is lost or misfiled in chunks, what a report cites is stored, and stored once.
- *Graph:* the checkpoint of a Run is that of its latest report.
- *Rules:* every rule gives the verdict its text asks for, at the boundaries too.

`PROJECT.json` lists the hazards at their lines, with the properties that cover them.

## Modules

| Module | What it is |
|---|---|
| `RunLifecycle` | abstract specification: the state diagram of a Run and the status of its report |
| `ReviewRuns` | the Runs of one case, the workers, the reviewers, on the shared tables |
| `MCReviewRuns` | finite instances of `ReviewRuns` for TLC |
| `CaseIntake`, `MCCaseIntake` | the documents and the Runs of one case as requests create them; its instances |
| `ReviewRules` | operators only: the ten rules, the summary, the evidence a report may cite |
| `Materials` | operators only: what a parser makes of a file, and how labelled values are found and normalised |
| `FactReview`, `MCFactReview` | the values of one Run from the files to the reviewed report; extends `Materials`, which extends `ReviewRules`; its instances |
| `CoreEvaluation`, `MCCoreEvaluation` | evaluations of the review core side by side: policy tables, write lock, graph and checkpoints; its instance |
| `PolicySearch`, `MCPolicySearch` | a policy text becoming chunks, and a search over them; its instances |
| `ReviewRunsProofs` | type correctness and gapless versions of `ReviewRuns`, proved |
| `ReviewRunsSafety` | the safety theorems about `ReviewRuns`, proved |
| `ReviewRunsLifecycle` | what `ReviewRuns` keeps with one worker and one request at a time, the refinement of `RunLifecycle` included, proved |
| `CaseIntakeProofs`, `CoreEvaluationProofs`, `FactReviewProofs`, `PolicySearchProofs` | the theorems about `CaseIntake`, `CoreEvaluation`, `FactReview`, `PolicySearch`, proved |
| `FoldLemmas` | what a fold over a sequence comes to, proved by induction up to a bound |

### `ReviewRuns`

*State.* `run`, `task` and `snaps`, `decisions`, `idem` are the tables `review_runs`, `task_jobs`, `snapshots`,
`human_decisions` and `idempotency_records`; `created` is the order of `task_jobs.created_at`; `materials` is the
status of the four documents the Runs share; `worker` and `client` hold what each process or request has read and not
yet written; `failures` counts worker deaths. A snapshot's body is cut down to what the code decides on: facts to their
open issues and `requires_review`, rules and report to the facts they are derived from, the outcome and, for a report,
its status.

*Issues.* `detect_conflicts` and `build_fact_payload` are abstracted to the five kinds of issue named at the top of the
module. An input of the worker is a set of issues (`MaterialOutcomes`).

*Steps.* Sessions have `autoflush=False` and the driver opens a transaction at the first INSERT or UPDATE only. So each
SELECT of a handler sees the last committed state, and what lies between the first flush and the commit is one atomic
step under SQLite's single write lock. The steps of each handler follow from that:

| Handler | Steps |
|---|---|
| `create_run` | `CreateRun` (the checks on the case are assumed to hold) |
| `claim_job` | `Select`, `Claim` |
| `process_materials_and_facts` | `ReadMaterials`, `FileFacts` |
| `run_once`, the rest | `OpenFactGate`; or `StartCore`, `PickCore`, `OpenReportGate` |
| an exception, a death, the operator | `WorkerRaises`, `WorkerFails`, `WorkerRestarts` |
| `submit_fact_review` | `Arrive`, `Check`, `Pick`, `CommitFacts`; or `CommitResubmission` |
| `submit_report_review` | `Arrive`, `Check`, `Pick`, `CommitReport` |
| a refusal, a replay, an IntegrityError, a lost process | `Abandon` |

On the very first evaluation `persist_policy_index` flushes before the remaining reads and so takes the write lock
earlier; `ReviewRuns` keeps the later lock, which allows more interleavings, never fewer. `CoreEvaluation` has the lock.

*Abstracted.* Task owner and attempt, the Run's stage, progress and `retryable`, the rule and policy versions, the audit
events: nothing reads them to decide anything. The decisions of one request are kept as one record. Requests that find
the Run at another gate are answered without a write and are not steps.

*Not reachable in the code, so not in the model.* `retry_run`, `PAUSED_RETRYABLE`, `RETRYABLE` and `FAILED_FINAL`: no
code sets the status they start from.

### `RunLifecycle`

`status` and `report` are what an outsider sees of a Run. `ReviewRuns` implements it under the refinement mapping
`Lifecycle` (status of the Run, status of its latest report), as long as requests do not overlap: run
`reviews_sequential`. With two requests in flight it does not: run `finished_run_reopened`.

### `CaseIntake`

*State.* `version` is the version of the case, 0 before it exists; `docs`, `active`, `runs`, `idem` are the rows of
`documents`, `documents.active`, `review_runs`, `idempotency_records`; `files` is the storage directory; `session` holds
what each request in flight has read. A document and its file share one identifier (both are fresh UUIDs), a kind of
material is a number in `1..N`, the content of a file and the body of a request do not appear.

*Steps.* The same reading of sessions and transactions as above gives

| Handler | Steps |
|---|---|
| `create_case` | `PostCase` |
| `save_document` | `PostDocument` (its reads), `Store` (the version and the file), `CommitDocument` |
| `create_run` | `PostRun`, `ListDocuments`, `CommitRun` |
| `create_demo_scenario` | `PostDemo`, `DemoCase`, `RefreshCase`, then `Admit`, `Store`, `CommitDocument` per document, then the steps of `create_run` |
| a refusal, a replay, an IntegrityError, a lost process | `Abandon` |

`post_document` is the one `async def` handler: once the body has arrived it runs to its end on the event loop, so two
uploads of one API process do not overlap (the scripts start one process). The other handlers run in the thread pool. A
demo scenario uploads from such a thread, so its documents race with the endpoint's and with those of another scenario.
A demo scenario keeps one session, so the case row it has loaded is the one it increments and writes back.

*Abstracted.* What `PostDocument` refuses by the key or by the kind stays refused, so its reads are one step. A client
asking for a Run names the version the case has at that moment; one that names another is refused. Documents' status is
what `ReviewRuns` is about; a Run refused for it is an `Abandon`. A demo key is a key and the part it plays in the
scenario (`key-case`, `key-document-i`, `key-run`). The bytes of demo files differ from call to call, so a repeated
scenario stops with a conflict at the first document it finds on record.

### `ReviewRules`, `Materials` and `FactReview`

`ReviewRuns` knows of facts only which issues they have. `FactReview` has the facts themselves, for one Run whose
handlers are disturbed only in the status of its materials, and so says what the rules are given and what they make of
it.

*State.* `input` is what the Run finds and never changes: the four files, the order the request named them in, the
provider of scans, the customer's profile, the rules with a policy hit, the date. `documents` is the status of the
materials, which is not the Run's own. `status` is the Run's; `facts` and `results` are the latest FACT and RULE
snapshots; `rulings` are the decisions of the fact gate, in their order. `judged` is a history variable: the status of
the materials as the rules last found it. Other Runs change `documents` at any time, also after the evaluation, and what
a report says is held against what its rules were given.

| Handler | Step | Operators |
|---|---|---|
| `process_materials_and_facts` | `ProcessMaterials` | `ParseDocument`, `ExtractCandidates`, `NormalizeValue`, `Distinct`, `Material` (`detect_conflicts`), `Payload` (`build_fact_payload`), `NeedsReview` |
| the same, for another Run of the case, at any time | `AnotherRunParses` | `ParseDocument` |
| `evaluate_review_core` in `run_once` | `EvaluateCore` | `Context`, `Evaluate`, `Call` |
| `submit_fact_review` | `SubmitFactReview`, `RequestResubmission` | `Accepted`, `Complete`, `Apply` |
| `submit_report_review` | `ConfirmDraft`, `ReturnForRerun` | `Summary`, `ValidEvidence`, `UnsupportedClaims` |

A request is one step: it is one transaction in the code, and a request that is refused leaves nothing behind, so it is
no step. The order within a request is kept: decisions are validated and applied one after the other, and a request for
material ends the loop where it stands.

A file is what its parser can make of it (format, fault, pages and characters of a PDF, text, what a scan would yield);
a text gives for each field the labelled values in the order the code finds them. `Materials` follows them through
`parse_document`, `extract_candidates` and `normalize_value`: an exception of a reader is an empty document, a PDF with
too few characters per page goes to the provider of scans, two cells of a workbook's row are a label and a value, a value
ends at a comma, an unknown unit multiplies by one, a date has to exist, a term in half units has to be whole.

*Abstracted.* A raw value is a number and a unit, a date, or a name; blanks, quotes and the search for labels are left
out. A candidate is a value, `None` if it could not be normalised, and the block it comes from. A field has at most one
conflict, so decisions name the field. Evidence is a pair of its sort and its name. Amounts are integers; the quotients
of R09 and R10 are compared by multiplying out, which differs from the code's `Decimal` only beyond 28 digits.
Industries and purposes are the class the rule looks them up in. What a reviewer may enter is a raw value, normalised as
the code does.

*What the built program supplies.* Its tool registry is made without profiles and answers for every customer with the
default one, and its policies give every rule a hit. Other profiles and missing hits reach the same code through the
tests' constructors; they are among the inputs because the rules handle them.

### `CoreEvaluation`

`ReviewRuns` has the evaluation of the rules as reads and one commit. `CoreEvaluation` has what happens in between: the
policy tables it fills, the graph a worker runs before it commits, and who holds SQLite's write lock meanwhile.

*State.* `files` is the policy directory; `documents`, `chunks`, `reports` are the committed rows, each with the
evaluation that wrote it (`policy_documents`, `policy_chunks`, and the five snapshots of an evaluation as one); `gate`
the Runs that wait for HITL-2; `lock` the holder of the write lock; `eval` what each session has read and flushed;
`checkpoint` the last state the graph saved for a Run (`thread_id` is the Run). A policy text stands for the chunks it
is cut into, since their identifiers are hashes of it.

| Code | Steps |
|---|---|
| `submit_fact_review`, its flush before it evaluates; a worker's session | `Start` |
| `build_policy_index` | `BuildIndex` |
| `persist_policy_index` | `LookUpDocuments`, `FlushDocuments`, `LookUpChunks`, `FlushChunks` |
| `evaluate_review_core`, its snapshots | `FlushSnapshots` |
| `graph.invoke` in `run_once` | `InvokeGraph`, `RunNode` for each of the nine nodes, or `GraphRaises` |
| the commit of `run_once` or of the request | `Commit` |
| an exception, the end of a process | `Raises`, `Dies`: the session is rolled back; a worker ends, a request may be sent again |
| an edit of a policy file | `EditPolicies` |

The first flush with something to write takes the lock, and it is kept until the end of the session: through the whole
graph in a worker's case. A flush that finds the lock taken waits for as long as the driver's timeout and then raises;
the model lets it wait or raise. Nodes read and replace references (`setdefault`, and one constant in place of the
fact's), and whatever the graph raises is taken for its interrupt.

*Abstracted.* Which Run is evaluated with which facts is what `ReviewRuns` is about. The rule pack is not edited here.
The policy files are read one after the other in the code and in one step here, which is the same as long as no two
edits fall within one reading (`MaxEdits` is 1 in the run). The versions of an evaluation's snapshots are one number;
the further versions of the report that its reviews add are in `ReviewRuns`.

### `PolicySearch`

*State.* `text`, the policy; `at`, the next line; `path`, the headings above; `buffer`, the lines read and not yet in a
chunk; `chunks`; `found`, the result of a search. `Heading`, `Blank`, `TextLine` and `EndOfText` are the branches of
`chunk_policy`, with `Flush` and `SplitLongText` its helpers; `Search` is `PolicyIndex.search`: two ranked lists, their
reciprocal rank fusion with its ties, the cut before the reranker, the selection.

*Abstracted.* A sentence is its length, and a line of text ends one: `_split_long_text` only cuts after a full stop or
its like, so a line without one would be joined with the next, which no line of the repository's policies is. The scores of BM25, of the embeddings and of the reranker are arbitrary: each
retriever may rank the chunks in any order, and the reranker selects any of those it is given.

## Runs

| Run | Instance | Shows |
|---|---|---|
| `reviews_concurrent` | 1 Run, 2 workers, 2 requests in flight, 3 keys, every combination of issues | versions, keys, the trail of reviewed reports and the account of every version survive racing and repeated submissions; a task claimed twice neither doubles a version nor lets rules run on facts whose review is due; a gate with a conflict has an answer that is accepted |
| `reviews_sequential` | 2 Runs, 1 worker that may die once, 1 request at a time, 2 keys | the state diagram is implemented; task, Run and report agree |
| `runs_scheduling` | 3 Runs, 1 worker that may die twice, no reviewer | order of starting, no Run is left in the queue, each reaches a gate unless the worker fails |
| `lease_not_recovered`, `finished_run_reopened` | 1 Run | two of the disagreements below |
| `intake` | 1 case of 2 kinds, at most 3 active documents, 3 identifiers, 2 keys, 2 requests in flight | document versions, active sets, files, keys and Runs stay consistent while uploads, replacements, Runs and demo scenarios race, die and are repeated |
| `materials_over_limit` | the same, smaller | one of the disagreements below |
| `facts_to_report` | cases with no flaw, one or two; requests of at most 2 decisions | no value is chosen silently among contradictory or unreadable candidates or against what a material says, verdicts follow the policy texts at their boundaries, conclusions cite evidence of the Run, a confirmed report lacks nothing |
| `company_age`, `unread_material` | cases with at most one flaw, 1 decision | two of the disagreements below |
| `core_evaluation` | 2 workers on one task and 1 request for another Run, 2 policy files, 3 texts, 1 edit | what reports cite is stored, policies come with reports and once, the checkpoint of a Run is that of its latest report, the write lock is given back |
| `policy_search` | every text of at most 4 lines of 10 kinds, real limits; every search over 4 chunks with lists of 3 | no sentence is lost, doubled or misfiled, chunks are bounded, what both retrievers list comes first |

*Bounds and why they are enough.* Nothing in the code relates one Run to another but the order of the queue and the
documents' status, so one Run shows the races on it, two show that reviews do not mix, three show the order with one
Run in front and one behind. Two requests in flight give every race of two; a key more than requests lets a request
follow both of them. `Keys` also bounds the length of a behaviour: each commit uses a key of its gate up, so versions
need no bound of their own. `MaxFailures` bounds the deaths of workers. `TwoOutcomes` and `GateOutcomes` are subsets of
the combinations in `AllOutcomes` with at least one per way through the gate.

In `intake`, two kinds are enough for one to be completed while the other is replaced, three documents for a
replacement after both kinds are there and for a replacement of a replacement; `Ids` bounds the behaviours.

In `core_evaluation`, two evaluations of one Run are the case of a task that two workers claimed, and the third stands for
everybody else who writes; two files are enough for one to be edited, doubled or missing while the other is not, and one
edit (`MaxEdits`) for it to fall between any two reads. The edit may put in a third text, the other file's, or none.

In `policy_search` the lengths are those of the program (`MaxChars` 600, `Overlap` 80); the kinds of lines fit, fill the
buffer exactly or to one short of it with the line break, have to be split once or more, or hold a sentence longer than a
chunk. Four lines are enough for a buffer that is flushed, refilled and flushed again under another heading. Lists of 30
out of all chunks are scaled down to lists of 3 out of 4. `RrfK` is scaled with them, to 2 for 60: what a chunk of both
lists has over one of a single list rests on `Depth < RrfK + 2`, which 3 < 4 and 30 < 62 both meet.

In `facts_to_report` a case differs from the flawless one `Clean` in one thing, taken from a list that has every way a
entry, a file, a second source, a tool, a policy or the date can matter to a rule (`Varied`), or also in a second one taken from
`FirstFlaws`: something to rule on, a bar to a verdict, a failed rule, a warning. `Clean` lies on the boundary of R07 to
R10, so one step off it is on either side. Two decisions are the fewest that can follow one another on one field, or
come before a request for material; every other interplay of decisions is between fields, which do not depend on each
other.

*Symmetry* is used in the runs without liveness only: `Runs`, `Workers`, `Clients` and `Keys` are interchangeable there, and `Ids`,
`Keys` and `Sessions` in `intake`.

*Deadlock* is not checked: a Run that is over, or that no reviewer answers, stops, and so does a case without keys or
identifiers left.

*Fairness* (`FairSpec`): `run_forever` polls as long as its process lives (`WF` of `WorkerStep`), the operator restarts
a dead worker (`WF` of `WorkerRestarts`; a process supervisor's job, an assumption on the deployment), and time passes
(`WF` of `LeaseExpires`). Nothing is assumed of reviewers or of creating Runs. In `CoreEvaluation` an evaluation that
has begun goes on until it commits or raises (`WF` of `Evaluates`): it is straight-line code, whose only wait, for the
lock, ends with the driver's timeout. Nothing is assumed of beginning one.

*Two workers on one task* are in `core_evaluation` and in `reviews_concurrent`. There, `ReviewsOfOneWorkersRuns` bounds
what follows: a Run both workers have been at is not followed through reviews, and has one of two outcomes. With
reviewers as well, the ORM's habit of writing changed columns only would matter to what a late `claim_job` does to the
task row, and the model writes whole rows. The theorems have no such bound.

## Proofs

All by TLAPS, for every value of the constants: every finite set of Runs, every set of workers, clients and keys, of
outcomes and every bound of failures; every number of kinds, documents and requests of a case; every evaluation, policy
file and text; every material, value, correction and number of rulings; every policy text, however long, and every limit of a chunk.
Every safety invariant and action property that a passing run checks is a theorem, and so is the refinement.

| Module | Theorem | Property |
|---|---|---|
| `ReviewRunsProofs` | `TypeCorrectness` | `TypeOK` |
| `ReviewRunsSafety` | `SnapshotHistoryHolds` | `SnapshotHistory` |
| | `KeysTakeEffectOnce` | `OneEffectPerKey` |
| | `RulesRunOnSettledFactsHolds` | `RulesRunOnSettledFacts` |
| | `ReviewTrailHolds` | `ReviewTrail` |
| | `OldestStartsFirst` | `RunsStartInOrder` (an action property) |
| | `VersionsAreAccountedFor` | `EveryVersionIsAccountedFor` |
| | `FactGateHasAnAnswer` | `SomeAnswerIsAccepted` |
| `ReviewRunsLifecycle` | `TasksFollowRuns` | `TaskFollowsRun` |
| | `LatestReportsMatch` | `LatestReportMatchesRun` |
| | `RunsImplementLifecycle` | `RunsFollowLifecycle` (the refinement) |
| `CaseIntakeProofs` | `IntakeTypeCorrect` | `IntakeTypeOK` |
| | `DocumentsAreVersioned` | `DocumentHistory` |
| | `DocumentsAreStored` | `StoredMaterials` |
| | `LatestIsActive` | `LatestVersionIsActive` |
| | `ReplacementsAreFinal` | `ReplacedForGood` (an action property) |
| | `RepeatsCreateNothing` | `OneResourcePerKey` |
| | `RunsAreComplete` | `RunsHaveTheirMaterials` |
| | `UploadsAreCounted` | `VersionCountsMaterials` |
| `CoreEvaluationProofs` | `CoreTypeCorrectness` | `CoreTypeOK` |
| | `CitedPoliciesAreStoredHolds` | `CitedPoliciesAreStored` |
| | `PoliciesComeWithReportsHolds` | `PoliciesComeWithReports` |
| | `CheckpointNamesTheReportHolds` | `CheckpointNamesTheReport` |
| `FactReviewProofs` | `FactsAreTyped` | `FactTypeOK` |
| | `NothingIsChosenSilently` | `ValuesAreAgreedOrRuled` |
| | `ValuesHaveEvidence` | `ValuesAreEvidenced` |
| | `RisksAreSupported` | `ConclusionsAreSupported` |
| | `ConfirmedReportsRestOnAll` | `ConfirmedReportsAreComplete` |
| | `RulesFollowTheTexts` | `VerdictsFollowTheTexts` |
| | `ReadingsAgree` | `NothingReadContradicts` |
| `PolicySearchProofs` | `PolicyTypes` | `PolicyTypeOK` |
| | `PolicyTextIsChunked` | `NoPolicyTextIsLost` |
| | `PolicyChunksAreBounded` | `ChunksAreBounded` |
| | `FusionPrefersAgreement` | `AgreementWins` |
| | `FusionKeepsRankings` | `FusionFollowsRankings` |

*Assumptions.* The named assumptions on the constants, which every run meets since TLC evaluates them, and three
hypotheses of theorems. Of the former, `IdsAssumption` says that identifiers are finitely many (a bound of the model) and
that none of them stands for an absent one. `NoneAssumption`, `ValuesAssumption` and `InputsAssumption` of `FactReview`
say what the code's types say: that a missing value is no number and no classification a rule knows, that an amount or a
term is a number with one of the units the code tells apart, that a Run has one material of each type, and that a tool
that does not fail has an answer. `TextsAssumption` of `PolicySearch` says what its lines are: headings with a level,
blank lines, and lines with at least one sentence, none of them empty. The hypotheses:

- `Keys # {}` in `FactGateHasAnAnswer`: who answers a gate needs a key to send.
- `OneAtATime` in `ReviewRunsLifecycle`: at most one worker and one request in flight. It is the deployment of the
  scripts, as long as reviewers do not answer at the same time, and it is needed: `finished_run_reopened` shows what a
  second request does, and two workers on one task break all three properties, the task's included (`Claim` of the
  later one sets the Run back to RUNNING and leaves its gate).
- `Depth < RrfK + 2` in `FusionPrefersAgreement`: the lists have 30 chunks at most and the constant is 60
  (`retrieval.py`). Two shares of the lowest rank, 2 / (`RrfK` + `Depth`), have to exceed one of the highest, 1 / (`RrfK` + 1).

*Argument for `ReviewRuns`.* `TypeInv` is inductive: `TypeOK` and four parts. `Gapless` says the versions of a kind are 1..n; it is needed
because a `Max` over a set of versions is only known to be one of them when the set is finite. `WorkersHaveRuns` and
`RequestsHaveSnapshots` say what a process in the middle of a handler remembers. `PicksInReach` says that a version read
and not yet used is at most one past the last: only the last one can have moved on, so if it is still free it is the
next, and the row that takes it leaves no gap. `SnapshotHistory` follows with `UniqueVersions`, which the constraint
`VersionFree` preserves.

The other proofs add one inductive invariant each. `WorkersReadSettledFacts`: what a worker past `StartCore` holds
is a FACT version that exists and is settled; snapshots are never removed, so it stays so, whatever other workers file
since. `DecisionsNameReports`: a decision on a report names an existing earlier draft and the version it made, which
gives `ReviewTrail` its uniqueness, since a new version is past all of those. The row lemmas (`FileFactsRows`,
`OpenReportGateRows`, `CommitFactsRows`, `CommitReportRows`) say which rows a step adds and are shared by all.
`QueueInv`: queued Runs have pending tasks, creation numbers them, and what a worker has selected was the oldest; a Run
is not queued again, so it is still the oldest of those that are when it is claimed. `AccountInv`: `PicksToResolve`
says a request that has picked a FACT version will resolve, so that each commit adds one decision and one version.

*Argument with one at a time.* `StatusInv` adds to `TaskFollowsRun` that the one process in the middle of a handler finds
its Run as it left it: queued until claimed, running while worked on, at the gate while a reviewer's request is at it.
`ReportInv` adds that what it has read of the latest versions is up to date. Both are what the missing second process
would break. The refinement then follows action by action from `LifecycleInv`, with one lemma for each handler saying
which transition of `RunLifecycle` it is.

*Argument for `CaseIntake`.* `IntakeInv`: types, `Gapless` versions, unique identifiers, and `SessionsHold`, what a
request has read: the version it read is at most one past the last, the file it has stored is no document's, in a demo
scenario it has a document for every part it is past. `RecordsInv`: keys and resources of a scope correspond one to
one; a commit adds one of each. `MaterialsOfRuns`: the documents of a Run are chosen among rows that are never removed.
`CountInv`: at most one upload of the endpoint is in flight (its handler runs on the event loop), and if no demo
scenario has filed anything, the case version it has read is the current one.

*Argument for `CoreEvaluation`.* `CoreTypeOK` with the shape of the session records is inductive; it says that an
evaluation past its last flush holds the lock, so at most one is. `Covered` says that what an evaluation past the look-up
of the chunks will cite is stored or about to be; chunks are never removed, so it stays so, whatever is edited, and at
the commit it is `CitedPoliciesAreStored` of the new report. `Pending` says that who has policies to add holds the lock
since their flush and that they were not stored then; nobody else can commit any before, so the commit stores each once.
`GraphInv` says that a graph which runs is that of the holder of the lock and that the checkpoint is as far as its node;
what it names is then that of the report the same session commits.

*Argument for `FactReview`.* `FactReviewInv` has a part for each stage. `EarlyInv`: before any ruling every value is
agreed (`Agreed`), which is what `Payload` makes of candidates. `FactsInv`: every value is backed by a candidate, and
once there are facts they are those of all materials (`AllRead`). `VerdictInv`: past the fact gate the results are
those of the current facts, and each field is as its last ruling left it (`RuledRight`). `ReportInv`: a confirmed report
was neither blocked nor unsupported. Candidates, distinct values and the decisions of a request are folds over
sequences. What a fold comes to for every sequence is an induction over its length, which no prover here can do with the
library's induction theorems, since those take an operator as parameter. `FoldLemmas` does it with sets instead: a set
of numbers with 0 in it that contains the successor of each of its members below `N` contains 0..`N` (`UpTo`, from the
well-foundedness of the natural numbers). From it `FoldPrefixes` gives the sequence of intermediate results of a fold as
a function, whose values every other lemma relates step by step: `PayloadIsTable`, `RulingSettles`, `RequestSettles`.

*Argument for `PolicySearch`.* `SearchInv` says that what was found comes from two rankings without repetition, cut
by `FusedRank`. That rank counts the candidates before a chunk, so it is enough that `FusedBefore` is transitive and
never holds of a chunk and itself, which needs the order of fractions by multiplying out to be one (`Scaled`,
`NotLower`), and that the chunk ahead is `FusedBefore` the other: `TwoSharesAreMore` and `ShareAhead`. `ChunkInv` is the
invariant of reading. `PathOK`: the path ends with the last heading read, and in a text that skips no level it has one
heading of each level, those that the next line is under (`HeadingRead`). `BufferOK` and `GoodChunks`: each sentence in
the buffer or in a chunk is one of the text, under the headings of its path, and a chunk has its bound. `ReadOK`: the
chunks and the buffer, put end to end, are the lines read so far. `SplitStepCuts` is the step of `_split_long_text` that
keeps both over a split: every part is within its bound, and end to end they gain the sentence that was added.
`AllSentences`, `Flat`, sizes and splits are folds, so each has its table of intermediate results from `FoldLemmas`.

*Only model-checked:* the liveness properties `QueuedRunsStart`, `QueuedRunsReachAGate` and `LockIsReleased`, which are
out of the prover's reach, and the properties of the runs that expect a violation, which do not hold.

*Two forms the prover asks for.* A `UNION` next to `\cup` stands in parentheses, because tlapm and SANY read it
differently without. Strings have no blanks in them, because the encoding for the SMT solver does not take them.

## Disagreements between the documents and the code

- `lease_not_recovered`: `docs/architecture.md:44` says work can be recovered after a lease expired; `claim_job` never
  selects a LEASED task. A Run whose worker died shows RUNNING for ever.
- `company_age`: R02 looks at the anniversary of the foundation in the year of the review, whatever the year of the
  foundation: a company founded on 2020-06-15 fails on 2025-02-28, one founded this March passes in April.
- `unread_material`: the table of parsers sends what cannot be read of a DOCX to a reviewer; a DOCX or XLSX whose reader
  raises becomes an empty document that counts as parsed. Only a PDF is reviewed.
- `finished_run_reopened`: the state diagram has no edge out of COMPLETED and RETURNED; of two reviewers answering at the
  same time the second can take one.
- `materials_over_limit`: a case can get more active materials than the limit. The limit is passed over for a request that
  names a document it replaces, also when that document is no longer active: repeated replacements of the same old
  document each add one.

More is modelled without a run of its own, because no document rules it out, or none as clearly:

- An upload can replace a document between the look of `create_run` at the active ones and its commit, and the Run is then
  made of a document that is no longer active. `RunsHaveTheirMaterials` states what holds all the same; no property
  covers the hazard itself, because a Run names the versions it is made of and no document asks that they be the newest.
- A Run stopped at HITL-1 by a missing field or an unreadable document alone has no conflict a request could name, so no
  answer is accepted, not even the request for the material. `SomeAnswerIsAccepted` states what holds: with a conflict
  there is one. The case that is stuck is outside its precondition, so no property covers it; `docs/architecture.md:33`
  and `docs/demo-guide.md:37` speak of asking for material there.
- The status of a material is that of the Run that parsed it last, and R01 reads it. A Run whose own reading needed a
  review can so be confirmed once another Run has read the same file. `ConfirmedReportsAreComplete` is about the status
  the rules found, whoever wrote it; `ConclusionsAreSupported` and `ValuesAreEvidenced` say that nothing but R01 rests
  on it.
- The texts of the rules leave open what a negative exposure (R08) or negative current assets (R10) come to: they send a
  denominator that is missing or not positive to a review (`config/policies/synthetic-v1/04-financial-metrics.md:21`).
  `Breaks` has the conditions of the code there, and of R01.
- A worker that evaluates facts which a second worker replaces meanwhile stores rules of the older ones.
  `RulesRunOnSettledFacts` states that they were settled, and no property that they are the latest.
- A field with an immaterial conflict, or with a candidate that cannot be normalised, has no value and passes HITL-1; a
  third amount far off the first two is not compared and has the same effect. `ValuesAreAgreedOrRuled` states that none
  of the candidates is taken for it, `ConfirmedReportsAreComplete` that the report cannot be confirmed without it where
  a rule reads it.
- An amount with separators ends at the first, 50 with the word for ten thousand alone is 50, one year and six months is
  one month. `NothingReadContradicts` is about the plain forms only.
- An edit of a policy file between its two reads leaves chunks without the row of their document: the foreign key is
  declared (`models.py:246`), and SQLite does not enforce it.
- The checkpoint of a Run names a constant in place of its facts. A worker that dies between its graph and its commit
  leaves a checkpoint that names snapshots which do not exist, and a Run settled by a request has no checkpoint at all.

## Not modelled

- *Text and numbers:* the search for labels and sentences, tokenisation, BM25 and embedding scores, the locators and
  identifiers of blocks, the wording and export of reports. What they yield is arbitrary in the models, or of the few
  forms the code tells apart.
- *Reads:* pages of cases and documents, `get_review_results` and the views of the API. They change nothing; their
  several SELECTs may see different commits, which no later write depends on.
- *The parts of `workflow.py` nothing reaches:* the interrupt of the first gate and what follows a resume. The worker
  tells the graph that no fact review is needed, and nobody resumes it.
- *`main.py`, `security.py`, `config.py`:* roles are checked before the handlers modelled here and change no state.
- *The HTTP exchange with MinerU and DashScope:* by its outcome only. The hash check of the rule pack: it is read once.
- *`web/`, `scripts/`, `evals/`, migrations:* clients and tooling.

## Plan

Done, in this order, the behaviour that most depends on interleavings first:

1. `RunLifecycle`, `ReviewRuns` (composed by the refinement mapping) and their proofs.
2. `CaseIntake`.
3. `ReviewRules`.
4. `FactReview` over `ReviewRules`, then `Materials` under it.
5. `PolicySearch`.
6. `CoreEvaluation` and its proofs.
7. `ReviewRunsLifecycle`, `CaseIntakeProofs`, `FoldLemmas` and `FactReviewProofs`.
8. `PolicySearchProofs`.

To come:

9. That the issues of `ReviewRuns` are what `FactReview` computes: which gates a Run passes, as a common abstraction.
