-------------------------- MODULE ReviewRunsSafety --------------------------
(***************************************************************************)
(* The safety properties of ReviewRuns as theorems, for any number of      *)
(* Runs, workers, requests in flight and keys.  Each is shown inductive    *)
(* relative to TypeInv, with what it needs to know of the sessions.  The   *)
(* second half is about the order in which queued Runs start, how every    *)
(* version of facts and report came about, and that the fact gate has an   *)
(* answer it accepts.                                                      *)
(***************************************************************************)
EXTENDS ReviewRunsProofs

-----------------------------------------------------------------------------
(* What the four transactions that file snapshots add to the table.        *)

Kinds(T) == {s.kind : s \in T}

(* The material stage files one row of each of its kinds, and so does the   *)
(* core.                                                                    *)
LEMMA KindsOfMaterialRows ==
    ASSUME NEW S, NEW r, NEW v, NEW body
    PROVE  Kinds(MaterialRows(S, r, v, body)) = MaterialKinds
<1>1. \A k, n, b : Row(r, k, n, b).kind = k
  BY DEF Row
<1>2. Kinds(MaterialRows(S, r, v, body)) = {"PARSE"} \cup {"FACT", "CONFLICT"}
  BY <1>1 DEF Kinds, MaterialRows
<1>3. QED
  BY <1>2 DEF MaterialKinds

(* An evaluation files one row of each kind of the core and a report.       *)
LEMMA KindsOfCoreRows ==
    ASSUME NEW S, NEW r, NEW v, NEW facts, NEW outcome
    PROVE  Kinds(CoreRows(S, r, v, facts, outcome)) = CoreKinds \cup {"REPORT"}
<1>1. \A k, n, b : Row(r, k, n, b).kind = k
  BY DEF Row
<1>2. Kinds(CoreRows(S, r, v, facts, outcome))
        = {"RETRIEVAL"} \cup (CoreKinds \ {"RETRIEVAL"}) \cup {"REPORT"}
  BY <1>1 DEF Kinds, CoreRows
<1>3. QED
  BY <1>2 DEF CoreKinds

(* The material stage: rows of the material kinds at their next versions,   *)
(* of the Run the worker is at.                                             *)
LEMMA FileFactsRows ==
    ASSUME TypeInv, NEW w \in Workers, FileFacts(w)
    PROVE  \E r \in Runs : \E T :
             /\ r = worker[w].run
             /\ snaps' = snaps \cup T /\ FreshRows(T, r)
             /\ Kinds(T) = MaterialKinds
             /\ \A s \in T : s.kind \in MaterialKinds
<1> DEFINE r == worker[w].run
           v == worker[w].version
<1>1. PICK issues \in MaterialOutcomes :
        snaps' = snaps \cup
          MaterialRows(snaps, r, v, [issues |-> issues, settled |-> {},
                                     review |-> NeedsReview(issues)])
  BY DEF FileFacts
<1> DEFINE body == [issues |-> issues, settled |-> {},
                    review |-> NeedsReview(issues)]
           T == MaterialRows(snaps, r, v, body)
<1>2. r \in Runs /\ Gapless
  BY DEF FileFacts, TypeInv, WorkersHaveRuns
<1>3. v = NextVersion(snaps, r, "PARSE")
  BY <1>2, FreePickIsNext
     DEF FileFacts, VersionFree, TypeInv, PicksInReach, SnapshotKinds, MaterialKinds
<1>4. body \in FactBody
  BY OutcomesAssumption DEF FactBody, NeedsReview
<1>5. FreshRows(T, r)
  BY <1>2, <1>3, <1>4, MaterialRowsFresh
<1>6. Kinds(T) = MaterialKinds /\ \A s \in T : s.kind \in MaterialKinds
  <2>1. Kinds(T) = MaterialKinds
    BY KindsOfMaterialRows
  <2>2. QED
    BY <2>1 DEF Kinds
<1>7. QED
  BY <1>1, <1>2, <1>5, <1>6

(* The core, run by a worker: a draft report and what it rests on, naming   *)
(* the facts the worker read.                                               *)
LEMMA OpenReportGateRows ==
    ASSUME TypeInv, NEW w \in Workers, OpenReportGate(w)
    PROVE  \E T :
             /\ worker[w].run \in Runs
             /\ snaps' = snaps \cup T /\ FreshRows(T, worker[w].run)
             /\ Kinds(T) = CoreKinds \cup {"REPORT"}
             /\ \A s \in T :
                  /\ s.kind \in CoreKinds \cup {"REPORT"}
                  /\ s.body.facts = worker[w].facts
                  /\ s.kind = "REPORT" => s.body.status = "AWAITING_REVIEW"
<1> DEFINE r == worker[w].run
           v == worker[w].version
           f == worker[w].facts
<1>1. PICK outcome \in Outcomes : snaps' = snaps \cup CoreRows(snaps, r, v, f, outcome)
  BY DEF OpenReportGate
<1>2. r \in Runs /\ f \in Nat /\ Gapless
  BY DEF OpenReportGate, TypeInv, TypeOK, WorkersHaveRuns, WorkerStates
<1>3. v = NextVersion(snaps, r, "RETRIEVAL")
  BY <1>2, FreePickIsNext
     DEF OpenReportGate, VersionFree, TypeInv, PicksInReach, SnapshotKinds, CoreKinds
<1>4. Kinds(CoreRows(snaps, r, v, f, outcome)) = CoreKinds \cup {"REPORT"}
  BY KindsOfCoreRows
<1>5. QED
  BY <1>1, <1>2, <1>3, <1>4, CoreRowsFresh

(* The ruling on the facts: settled facts, and a draft report that names    *)
(* them.                                                                    *)
LEMMA CommitFactsRows ==
    ASSUME TypeInv, NEW c \in Clients, CommitFacts(c)
    PROVE  \E r \in Runs : \E T :
             /\ r = client[c].req.run
             /\ snaps' = snaps \cup T /\ FreshRows(T, r)
             /\ Kinds(T) = {"FACT", "CONFLICT"} \cup CoreKinds \cup {"REPORT"}
             /\ \E f \in T :
                  /\ f.run = r /\ f.kind = "FACT" /\ ~f.body.review
                  /\ \A s \in T : s.kind \in CoreKinds \cup {"REPORT"} =>
                                    s.body.facts = f.version
             /\ \A s \in T : s.kind = "REPORT" => s.body.status = "AWAITING_REVIEW"
<1> DEFINE q == client[c].req
           r == q.run
           v == client[c].version
           body == Settled(q, client[c].current.body)
           fact == Row(r, "FACT", v, body)
           conflict == Row(r, "CONFLICT", NextVersion(snaps, r, "CONFLICT"), body)
           core(o) == CoreRows(snaps, r, NextVersion(snaps, r, "RETRIEVAL"), v, o)
<1>1. /\ client[c].pc = "picked" /\ q.gate = "FACT_REVIEW"
      /\ v \notin Versions(snaps, r, "FACT")
  BY DEF CommitFacts, VersionFree
<1>2. PICK o \in Outcomes : snaps' = snaps \cup {fact, conflict} \cup core(o)
  BY DEF CommitFacts
<1>3. Gapless /\ q \in Requests /\ v \in Nat
      /\ v \in 1..NextVersion(snaps, r, "FACT")
  BY <1>1 DEF TypeInv, TypeOK, ClientStates, RequestsHaveSnapshots, PicksInReach,
              ReviewedKind
<1>4. r \in Runs
  BY <1>3 DEF Requests, RequestsOn
<1>5. v = NextVersion(snaps, r, "FACT")
  BY <1>1, <1>3, <1>4, FreePickIsNext DEF SnapshotKinds, MaterialKinds
<1>6. /\ FreshRows(core(o), r)
      /\ \A s \in core(o) :
           /\ s.kind \in CoreKinds \cup {"REPORT"} /\ s.body.facts = v
           /\ s.kind = "REPORT" => s.body.status = "AWAITING_REVIEW"
      /\ Kinds(core(o)) = CoreKinds \cup {"REPORT"}
  <2>1. Kinds(core(o)) = CoreKinds \cup {"REPORT"}
    BY KindsOfCoreRows
  <2>2. QED
    BY <1>3, <1>4, <2>1, CoreRowsFresh
<1>7. /\ fact.run = r /\ fact.kind = "FACT" /\ fact.version = v
      /\ ~fact.body.review
      /\ conflict.run = r /\ conflict.kind = "CONFLICT"
      /\ conflict.version = NextVersion(snaps, r, "CONFLICT")
  <2>1. client[c].current \in snaps /\ client[c].current.kind = "FACT"
    BY <1>1 DEF TypeInv, RequestsHaveSnapshots, ReviewedKind
  <2>2. client[c].current.body \in FactBody
    BY <2>1 DEF TypeInv, TypeOK, Snapshots, MaterialKinds, CoreKinds
  <2>3. ~body.review
    BY <2>2 DEF Settled, FactBody
  <2> HIDE DEF body
  <2>4. QED
    BY <2>3 DEF Row
<1> DEFINE T == {fact, conflict} \cup core(o)
<1> HIDE DEF fact, conflict, core, v, r, q
<1>8. FreshRows(T, r)
  BY <1>5, <1>6, <1>7 DEF FreshRows, SnapshotKinds, MaterialKinds, CoreKinds
<1>9. \A s \in T : s.kind \in CoreKinds \cup {"REPORT"} => s \in core(o)
  BY <1>7 DEF CoreKinds
<1>10. snaps' = snaps \cup T /\ fact \in T
  BY <1>2
<1>11. Kinds(T) = {"FACT", "CONFLICT"} \cup CoreKinds \cup {"REPORT"}
  BY <1>6, <1>7 DEF Kinds
<1> HIDE DEF T
<1>12. r = client[c].req.run
  BY DEF r, q
<1>13. QED
  BY <1>4, <1>6, <1>7, <1>8, <1>9, <1>10, <1>11, <1>12

(* The decision on the report: one more version of the draft it was         *)
(* checked against.                                                         *)
LEMMA CommitReportRows ==
    ASSUME TypeInv, NEW c \in Clients, CommitReport(c)
    PROVE  LET q == client[c].req
               draft == client[c].current
               body == [draft.body EXCEPT !.status = ReviewedStatus(q.action)]
           IN  /\ q.run \in Runs /\ draft \in snaps
               /\ draft.run = q.run /\ draft.kind = "REPORT"
               /\ draft.version = q.expected
               /\ draft.body \in ReportBody
               /\ ReportRequestAdmissible(q, draft.body)
               /\ client[c].version = NextVersion(snaps, q.run, "REPORT")
               /\ snaps' = snaps \cup {Row(q.run, "REPORT", client[c].version, body)}
<1> DEFINE q == client[c].req
           r == q.run
           v == client[c].version
           draft == client[c].current
<1>1. /\ client[c].pc = "picked" /\ q.gate = "REPORT_REVIEW"
      /\ v \notin Versions(snaps, r, "REPORT")
      /\ snaps' = snaps \cup
           {Row(r, "REPORT", v, [draft.body EXCEPT !.status = ReviewedStatus(q.action)])}
  BY DEF CommitReport, VersionFree
<1>2. /\ Gapless /\ q \in Requests
      /\ v \in 1..NextVersion(snaps, r, "REPORT")
      /\ draft \in snaps /\ draft.run = r /\ draft.kind = "REPORT"
      /\ draft.version = q.expected
      /\ ReportRequestAdmissible(q, draft.body)
  BY <1>1 DEF TypeInv, RequestsHaveSnapshots, PicksInReach, ReviewedKind
<1>3. r \in Runs
  BY <1>2 DEF Requests, RequestsOn
<1>4. v = NextVersion(snaps, r, "REPORT")
  BY <1>1, <1>2, <1>3, FreePickIsNext DEF SnapshotKinds
<1>5. draft.body \in ReportBody
  BY <1>2 DEF TypeInv, TypeOK, Snapshots, MaterialKinds, CoreKinds
<1>6. QED
  BY <1>1, <1>2, <1>3, <1>4, <1>5

(* No other step touches the snapshot table.                                *)
LEMMA SnapshotSteps ==
    ASSUME [Next]_vars
    PROVE  \/ snaps' = snaps
           \/ \E w \in Workers : FileFacts(w) \/ OpenReportGate(w)
           \/ \E c \in Clients : CommitFacts(c) \/ CommitReport(c)
<1>1. CASE UNCHANGED vars
  BY <1>1 DEF vars
<1>2. ASSUME NEW r \in Runs, CreateRun(r) \/ LeaseExpires(r)
      PROVE  snaps' = snaps
  BY <1>2 DEF CreateRun, LeaseExpires
<1>3. ASSUME NEW w \in Workers, WorkerStep(w) \/ WorkerFails(w) \/ WorkerRestarts(w)
      PROVE  snaps' = snaps \/ FileFacts(w) \/ OpenReportGate(w)
  BY <1>3 DEF WorkerStep, WorkerFails, WorkerRestarts, Select, Claim, ReadMaterials,
              OpenFactGate, StartCore, PickCore, WorkerRaises, tables
<1>4. ASSUME NEW c \in Clients, ClientStep(c)
      PROVE  snaps' = snaps \/ CommitFacts(c) \/ CommitReport(c)
  BY <1>4 DEF ClientStep, Arrive, Check, Pick, CommitResubmission, Abandon, tables
<1>5. QED
  BY <1>1, <1>2, <1>3, <1>4 DEF Next

(* Every step adds rows of one Run at their next versions, or none.         *)
LEMMA NewRowsAreFresh ==
    ASSUME TypeInv, [Next]_vars
    PROVE  \/ snaps' = snaps
           \/ \E r \in Runs : \E T : snaps' = snaps \cup T /\ FreshRows(T, r)
<1>1. ASSUME NEW c \in Clients, CommitReport(c)
      PROVE  \E r \in Runs : \E T : snaps' = snaps \cup T /\ FreshRows(T, r)
  <2> DEFINE r == client[c].req.run
             body == [client[c].current.body EXCEPT
                        !.status = ReviewedStatus(client[c].req.action)]
             s == Row(r, "REPORT", client[c].version, body)
  <2>1. /\ r \in Runs /\ snaps' = snaps \cup {s}
        /\ client[c].version = NextVersion(snaps, r, "REPORT")
    BY <1>1, CommitReportRows
  <2> HIDE DEF body
  <2>2. FreshRows({s}, r)
    BY <2>1 DEF FreshRows, Row, SnapshotKinds
  <2>3. QED
    BY <2>1, <2>2
<1>2. QED
  BY <1>1, SnapshotSteps, FileFactsRows, OpenReportGateRows, CommitFactsRows

-----------------------------------------------------------------------------
(* Snapshot history.                                                       *)

(* The second half of SnapshotHistory: no version is on two rows.           *)
UniqueVersions ==
    \A s, t \in snaps :
      s.run = t.run /\ s.kind = t.kind /\ s.version = t.version => s = t

(* Rows at next versions collide with no row of the table.                  *)
LEMMA UniqueVersionsKept ==
    ASSUME TypeInv, UniqueVersions, [Next]_vars
    PROVE  UniqueVersions'
<1>1. CASE snaps' = snaps
  BY <1>1 DEF UniqueVersions
<1>2. ASSUME NEW r \in Runs, NEW T, snaps' = snaps \cup T, FreshRows(T, r)
      PROVE  UniqueVersions'
  <2>1. ASSUME NEW s \in snaps, NEW t \in T,
               s.run = t.run, s.kind = t.kind, s.version = t.version
        PROVE  FALSE
    <3>1. t.run = r /\ t.kind \in SnapshotKinds
          /\ t.version = NextVersion(snaps, r, t.kind)
      BY <1>2 DEF FreshRows
    <3>2. t.version \in Versions(snaps, r, t.kind)
      BY <2>1, <3>1 DEF Versions
    <3>3. QED
      BY <3>1, <3>2, NextVersionIsFree DEF TypeInv
  <2>2. \A s, t \in T :
          s.run = t.run /\ s.kind = t.kind /\ s.version = t.version => s = t
    BY <1>2 DEF FreshRows
  <2>3. QED
    BY <1>2, <2>1, <2>2 DEF UniqueVersions
<1>3. QED
  BY <1>1, <1>2, NewRowsAreFresh

(* The versions of a Run's snapshots of one kind are 1, 2, ..., n, each on  *)
(* one row, however many workers and reviewers race for the next one.       *)
THEOREM SnapshotHistoryHolds == Spec => []SnapshotHistory
<1>1. Init => TypeInv /\ UniqueVersions
  BY InitTypeInv DEF Init, UniqueVersions
<1>2. TypeInv /\ UniqueVersions /\ [Next]_vars => (TypeInv /\ UniqueVersions)'
  BY NextTypeInv, UniqueVersionsKept
<1>3. TypeInv /\ UniqueVersions => SnapshotHistory
  <2> SUFFICES ASSUME TypeInv, UniqueVersions,
                      NEW r \in Runs, NEW k \in SnapshotKinds
               PROVE  Versions(snaps, r, k) = 1..LastVersion(snaps, r, k)
    BY DEF SnapshotHistory, UniqueVersions
  <2>1. PICK n \in Nat : Versions(snaps, r, k) = 1..n
    BY DEF TypeInv, Gapless
  <2>2. QED
    BY <2>1, VersionArithmetic
<1>4. QED
  BY <1>1, <1>2, <1>3, PTL DEF Spec

-----------------------------------------------------------------------------
(* Idempotency.                                                            *)

(* Every step leaves decisions and idempotency records alone or records one *)
(* request: a ruling on the facts, after which no report version is named,  *)
(* or a decision on the report.                                             *)
LEMMA DecisionSteps ==
    ASSUME [Next]_vars
    PROVE  \/ UNCHANGED <<decisions, idem>>
           \/ \E c \in Clients :
                /\ client[c].pc \in {"checked", "picked"}
                /\ \/ (CommitFacts(c) \/ CommitResubmission(c))
                        /\ Record(client[c].req, 0)
                   \/ CommitReport(c) /\ Record(client[c].req, client[c].version)
<1>1. CASE UNCHANGED vars
  BY <1>1 DEF vars
<1>2. ASSUME NEW r \in Runs, CreateRun(r) \/ LeaseExpires(r)
      PROVE  UNCHANGED <<decisions, idem>>
  BY <1>2 DEF CreateRun, LeaseExpires
<1>3. ASSUME NEW w \in Workers, WorkerStep(w) \/ WorkerFails(w) \/ WorkerRestarts(w)
      PROVE  UNCHANGED <<decisions, idem>>
  BY <1>3 DEF WorkerStep, WorkerFails, WorkerRestarts, Select, Claim, ReadMaterials,
              FileFacts, OpenFactGate, StartCore, PickCore, OpenReportGate,
              WorkerRaises, tables
<1>4. ASSUME NEW c \in Clients, ClientStep(c)
      PROVE  \/ UNCHANGED <<decisions, idem>>
             \/ CommitFacts(c) \/ CommitResubmission(c) \/ CommitReport(c)
  BY <1>4 DEF ClientStep, Arrive, Check, Pick, Abandon, tables
<1>5. ASSUME NEW c \in Clients, CommitFacts(c) \/ CommitResubmission(c)
      PROVE  client[c].pc \in {"checked", "picked"} /\ Record(client[c].req, 0)
  BY <1>5 DEF CommitFacts, CommitResubmission
<1>6. ASSUME NEW c \in Clients, CommitReport(c)
      PROVE  /\ client[c].pc \in {"checked", "picked"}
             /\ Record(client[c].req, client[c].version)
  BY <1>6 DEF CommitReport
<1>7. QED
  BY <1>1, <1>2, <1>3, <1>4, <1>5, <1>6 DEF Next

(* A key takes effect at most once per Run and gate, and a record of it is  *)
(* kept exactly when it did, whoever repeats or races the request.          *)
THEOREM KeysTakeEffectOnce == Spec => []OneEffectPerKey
<1>1. Init => OneEffectPerKey
  BY DEF Init, OneEffectPerKey
<1>2. OneEffectPerKey /\ [Next]_vars => OneEffectPerKey'
  <2> SUFFICES ASSUME OneEffectPerKey, [Next]_vars PROVE OneEffectPerKey'
    OBVIOUS
  <2>1. CASE UNCHANGED <<decisions, idem>>
    BY <2>1 DEF OneEffectPerKey
  <2>2. ASSUME NEW q, NEW after, Record(q, after) PROVE OneEffectPerKey'
    <3> DEFINE d == [run |-> q.run, gate |-> q.gate, key |-> q.key,
                     action |-> q.action, before |-> q.expected, after |-> after]
               i == [run |-> q.run, gate |-> q.gate, key |-> q.key]
    <3>1. decisions' = decisions \cup {d} /\ idem' = idem \cup {i}
      BY <2>2 DEF Record
    <3>2. \A e \in decisions : ~(e.run = d.run /\ e.gate = d.gate /\ e.key = d.key)
      BY <2>2 DEF Record
    <3>3. i = [run |-> d.run, gate |-> d.gate, key |-> d.key]
      OBVIOUS
    <3> HIDE DEF d, i
    <3>4. QED
      BY <3>1, <3>2, <3>3 DEF OneEffectPerKey
  <2>3. QED
    BY <2>1, <2>2, DecisionSteps
<1>3. QED
  BY <1>1, <1>2, PTL DEF Spec

-----------------------------------------------------------------------------
(* Settled facts.                                                          *)

(* The facts of a Run at a version need no reviewer, or no more.            *)
SettledFacts(S, r, v) ==
    \E f \in S : f.run = r /\ f.kind = "FACT" /\ f.version = v /\ ~f.body.review

(* A worker that evaluates the rules remembers settled facts.               *)
WorkersReadSettledFacts ==
    \A w \in Workers : worker[w].pc \in {"evaluating", "drafting"} =>
                         SettledFacts(snaps, worker[w].run, worker[w].facts)

(* Every step keeps what a worker remembers, has it read settled facts, or  *)
(* takes it out of the core.                                                *)
LEMMA WorkersReadSettledFactsKept ==
    ASSUME TypeInv, WorkersReadSettledFacts, [Next]_vars
    PROVE  WorkersReadSettledFacts'
<1>1. worker \in [Workers -> WorkerStates]
  BY DEF TypeInv, TypeOK
<1>2. \A r, v : SettledFacts(snaps, r, v) => SettledFacts(snaps', r, v)
  <2>1. snaps \subseteq snaps'
    BY NewRowsAreFresh
  <2>2. QED
    BY <2>1 DEF SettledFacts
<1>3. \A w \in Workers :
         \/ worker'[w] = worker[w]
         \/ worker'[w].pc \notin {"evaluating", "drafting"}
         \/ SettledFacts(snaps, worker'[w].run, worker'[w].facts)
         \/ /\ worker[w].pc = "evaluating"
            /\ worker'[w].run = worker[w].run /\ worker'[w].facts = worker[w].facts
  <2>1. CASE worker' = worker
    BY <2>1
  <2>2. ASSUME NEW x \in Workers,
               \/ Select(x) \/ Claim(x) \/ ReadMaterials(x) \/ FileFacts(x)
               \/ OpenFactGate(x) \/ OpenReportGate(x) \/ WorkerRaises(x)
               \/ WorkerFails(x) \/ WorkerRestarts(x)
        PROVE  \A w \in Workers : \/ worker'[w] = worker[w]
                                  \/ worker'[w].pc \notin {"evaluating", "drafting"}
    <3>1. /\ worker'[x].pc \notin {"evaluating", "drafting"}
          /\ \A w \in Workers : w = x \/ worker'[w] = worker[w]
      <4>1. CASE Select(x)
        BY <4>1, <1>1 DEF Select, Idle
      <4>2. CASE Claim(x) \/ ReadMaterials(x)
        BY <4>2, <1>1 DEF Claim, ReadMaterials, WorkerStates
      <4>3. CASE FileFacts(x)
        <5>1. PICK pc \in {"disputed", "filed"} :
                worker' = [worker EXCEPT ![x].pc = pc, ![x].version = 0]
          BY <4>3 DEF FileFacts
        <5>2. QED
          BY <5>1, <1>1 DEF WorkerStates
      <4>4. CASE OpenFactGate(x) \/ OpenReportGate(x) \/ WorkerRestarts(x)
        BY <4>4, <1>1 DEF OpenFactGate, OpenReportGate, WorkerRestarts, Idle
      <4>5. CASE WorkerRaises(x) \/ WorkerFails(x)
        BY <4>5, <1>1 DEF WorkerRaises, WorkerFails, Down, Idle
      <4>6. QED
        BY <2>2, <4>1, <4>2, <4>3, <4>4, <4>5
    <3>2. QED
      BY <3>1
  <2>3. ASSUME NEW x \in Workers, StartCore(x)
        PROVE  \A w \in Workers :
                 \/ worker'[w] = worker[w]
                 \/ SettledFacts(snaps, worker'[w].run, worker'[w].facts)
    <3>1. PICK f \in snaps :
            /\ IsLatest(f, worker[x].run, "FACT") /\ ~f.body.review
            /\ worker' = [worker EXCEPT ![x].pc = "evaluating",
                                        ![x].facts = f.version]
      BY <2>3 DEF StartCore
    <3>2. worker'[x].run = worker[x].run /\ worker'[x].facts = f.version
      BY <3>1, <1>1 DEF WorkerStates
    <3>3. SettledFacts(snaps, worker[x].run, f.version)
      BY <3>1 DEF SettledFacts, IsLatest
    <3>4. QED
      BY <3>1, <3>2, <3>3, <1>1
  <2>4. ASSUME NEW x \in Workers, PickCore(x)
        PROVE  \A w \in Workers :
                 \/ worker'[w] = worker[w]
                 \/ /\ worker[w].pc = "evaluating"
                    /\ worker'[w].run = worker[w].run
                    /\ worker'[w].facts = worker[w].facts
    BY <2>4, <1>1 DEF PickCore, WorkerStates
  <2>5. QED
    <3>1. ASSUME NEW r \in Runs, CreateRun(r) \/ LeaseExpires(r)
          PROVE  worker' = worker
      BY <3>1 DEF CreateRun, LeaseExpires
    <3>2. ASSUME NEW c \in Clients, ClientStep(c) PROVE worker' = worker
      BY <3>2 DEF ClientStep, Arrive, Check, Pick, CommitFacts,
                  CommitResubmission, CommitReport, Abandon
    <3>3. CASE UNCHANGED vars
      BY <2>1, <3>3 DEF vars
    <3>4. CASE Next
      BY <2>1, <2>2, <2>3, <2>4, <3>1, <3>2, <3>4 DEF Next, WorkerStep
    <3>5. QED
      BY <3>3, <3>4
<1>4. QED
  BY <1>2, <1>3 DEF WorkersReadSettledFacts

(* A worker or a reviewer's ruling only adds rules, risks and reports on    *)
(* settled facts, and facts stay in the table.                              *)
LEMMA RulesRunOnSettledFactsKept ==
    ASSUME TypeInv, WorkersReadSettledFacts, RulesRunOnSettledFacts, [Next]_vars
    PROVE  RulesRunOnSettledFacts'
<1>1. \A s \in snaps : s.kind \in CoreKinds \cup {"REPORT"} =>
                         SettledFacts(snaps, s.run, s.body.facts)
  BY DEF RulesRunOnSettledFacts, SettledFacts
<1>2. ASSUME NEW T, snaps' = snaps \cup T,
             \A s \in T : s.kind \in CoreKinds \cup {"REPORT"} =>
                            SettledFacts(snaps', s.run, s.body.facts)
      PROVE  RulesRunOnSettledFacts'
  BY <1>1, <1>2 DEF RulesRunOnSettledFacts, SettledFacts
<1>3. CASE snaps' = snaps
  BY <1>3 DEF RulesRunOnSettledFacts
<1>4. ASSUME NEW w \in Workers, FileFacts(w) PROVE RulesRunOnSettledFacts'
  <2>1. PICK T : snaps' = snaps \cup T /\ \A s \in T : s.kind \in MaterialKinds
    BY <1>4, FileFactsRows
  <2>2. QED
    BY <1>2, <2>1 DEF MaterialKinds, CoreKinds
<1>5. ASSUME NEW w \in Workers, OpenReportGate(w) PROVE RulesRunOnSettledFacts'
  <2>1. PICK T : /\ snaps' = snaps \cup T /\ FreshRows(T, worker[w].run)
                 /\ \A s \in T : s.body.facts = worker[w].facts
    BY <1>5, OpenReportGateRows
  <2>2. SettledFacts(snaps', worker[w].run, worker[w].facts)
    BY <1>5, <2>1 DEF OpenReportGate, WorkersReadSettledFacts, SettledFacts
  <2>3. \A s \in T : SettledFacts(snaps', s.run, s.body.facts)
    BY <2>1, <2>2 DEF FreshRows
  <2>4. QED
    BY <1>2, <2>1, <2>3
<1>6. ASSUME NEW c \in Clients, CommitFacts(c) PROVE RulesRunOnSettledFacts'
  <2>0. PICK r \in Runs : \E T :
          /\ snaps' = snaps \cup T /\ FreshRows(T, r)
          /\ \E f \in T :
               /\ f.run = r /\ f.kind = "FACT" /\ ~f.body.review
               /\ \A s \in T : s.kind \in CoreKinds \cup {"REPORT"} =>
                                 s.body.facts = f.version
    BY <1>6, CommitFactsRows
  <2>1. PICK T :
          /\ snaps' = snaps \cup T /\ FreshRows(T, r)
          /\ \E f \in T :
               /\ f.run = r /\ f.kind = "FACT" /\ ~f.body.review
               /\ \A s \in T : s.kind \in CoreKinds \cup {"REPORT"} =>
                                 s.body.facts = f.version
    BY <2>0
  <2>2. \A s \in T : s.kind \in CoreKinds \cup {"REPORT"} =>
                       SettledFacts(snaps', s.run, s.body.facts)
    BY <2>1 DEF FreshRows, SettledFacts
  <2>3. QED
    BY <1>2, <2>1, <2>2
<1>7. ASSUME NEW c \in Clients, CommitReport(c) PROVE RulesRunOnSettledFacts'
  <2> DEFINE q == client[c].req
             draft == client[c].current
             body == [draft.body EXCEPT !.status = ReviewedStatus(q.action)]
  <2>1. /\ draft \in snaps /\ draft.run = q.run /\ draft.kind = "REPORT"
        /\ draft.body \in ReportBody
        /\ snaps' = snaps \cup {Row(q.run, "REPORT", client[c].version, body)}
    BY <1>7, CommitReportRows
  <2>2. PICK T : T = {Row(q.run, "REPORT", client[c].version, body)}
    OBVIOUS
  <2>3. \A s \in T : s.run = draft.run /\ s.body.facts = draft.body.facts
    BY <2>1, <2>2 DEF Row, ReportBody
  <2>4. SettledFacts(snaps', draft.run, draft.body.facts)
    BY <1>1, <2>1 DEF SettledFacts
  <2> HIDE DEF draft, q, body
  <2>5. QED
    BY <1>2, <2>1, <2>2, <2>3, <2>4
<1>8. QED
  BY <1>3, <1>4, <1>5, <1>6, <1>7, SnapshotSteps

(* Rules, risks and report are never derived from facts whose review is     *)
(* still due, though other sessions file facts while a worker evaluates.    *)
THEOREM RulesRunOnSettledFactsHolds == Spec => []RulesRunOnSettledFacts
<1> DEFINE Inv == TypeInv /\ WorkersReadSettledFacts /\ RulesRunOnSettledFacts
<1>1. Init => Inv
  BY InitTypeInv DEF Init, Idle, WorkersReadSettledFacts, RulesRunOnSettledFacts
<1>2. Inv /\ [Next]_vars => Inv'
  BY NextTypeInv, WorkersReadSettledFactsKept, RulesRunOnSettledFactsKept
<1>3. QED
  BY <1>1, <1>2, PTL DEF Spec

-----------------------------------------------------------------------------
(* The trail of reviewed reports.                                          *)

(* A decision on a report names a version that is in the table.             *)
DecisionsNameReports ==
    \A d \in decisions : d.gate = "REPORT_REVIEW" =>
                           d.after \in Versions(snaps, d.run, "REPORT")

(* What ReviewTrail says of one reviewed report s.                          *)
Trail(s, D, S) ==
    \E d \in D :
      /\ d.run = s.run /\ d.gate = "REPORT_REVIEW" /\ d.after = s.version
      /\ \A e \in D : e.run = d.run /\ e.gate = d.gate /\ e.after = d.after => e = d
      /\ (d.action = "CONFIRM_DRAFT") = (s.body.status = "CONFIRMED")
      /\ s.body.status = "CONFIRMED" => s.body.outcome = "CLEAR"
      /\ \E t \in S :
           /\ t.run = s.run /\ t.kind = "REPORT" /\ t.version = d.before
           /\ t.version < s.version
           /\ t.body = [s.body EXCEPT !.status = "AWAITING_REVIEW"]

Reviewed(s) == s.kind = "REPORT" /\ s.body.status # "AWAITING_REVIEW"

(* A report that has its trail keeps it as long as no new decision names    *)
(* its version.                                                             *)
LEMMA TrailKept ==
    ASSUME NEW s, NEW D, NEW E, NEW S, NEW U, Trail(s, D, S),
           D \subseteq E, S \subseteq U,
           \A e \in E \ D : ~(e.run = s.run /\ e.gate = "REPORT_REVIEW"
                                /\ e.after = s.version)
    PROVE  Trail(s, E, U)
BY DEF Trail

(* The step that files a reviewed report leaves the trail of it and of all  *)
(* others; any other step files none and decides on none.                   *)
LEMMA ReviewTrailKept ==
    ASSUME TypeInv, ReviewTrail, DecisionsNameReports, [Next]_vars
    PROVE  ReviewTrail' /\ DecisionsNameReports'
<1>1. /\ snaps \subseteq snaps' /\ Gapless /\ snaps \subseteq Snapshots
      /\ decisions \subseteq decisions'
  BY NewRowsAreFresh, DecisionSteps DEF TypeInv, TypeOK, Record
<1>2. \A s \in snaps : Reviewed(s) => Trail(s, decisions, snaps)
  BY DEF ReviewTrail, Reviewed, Trail
<1>3. ASSUME \A s \in snaps' : Reviewed(s) => Trail(s, decisions', snaps')
      PROVE  ReviewTrail'
  BY <1>3 DEF ReviewTrail, Reviewed, Trail
<1>4. \A r : Versions(snaps, r, "REPORT") \subseteq Versions(snaps', r, "REPORT")
  BY <1>1 DEF Versions
<1>5. ASSUME ~\E c \in Clients : CommitReport(c)
      PROVE  ReviewTrail' /\ DecisionsNameReports'
  <2>1. \A s \in snaps' \ snaps : ~Reviewed(s)
    BY <1>5, SnapshotSteps, FileFactsRows, OpenReportGateRows, CommitFactsRows
       DEF Reviewed, MaterialKinds
  <2>2. \A d \in decisions' \ decisions : d.gate # "REPORT_REVIEW"
    <3>1. CASE UNCHANGED <<decisions, idem>>
      BY <3>1
    <3>2. ASSUME NEW c \in Clients, client[c].pc \in {"checked", "picked"},
                 CommitFacts(c) \/ CommitResubmission(c), Record(client[c].req, 0)
          PROVE  \A d \in decisions' \ decisions : d.gate # "REPORT_REVIEW"
      <4>1. client[c].req \in Requests
        BY <3>2 DEF TypeInv, RequestsHaveSnapshots
      <4>2. client[c].req.gate = "FACT_REVIEW"
        BY <3>2, <4>1 DEF CommitFacts, CommitResubmission, Requests, RequestsOn
      <4>3. QED
        BY <3>2, <4>2 DEF Record
    <3>3. QED
      BY <1>5, <3>1, <3>2, DecisionSteps
  <2>3. \A s \in snaps' : Reviewed(s) => Trail(s, decisions', snaps')
    BY <1>1, <1>2, <2>1, <2>2, TrailKept
  <2>4. DecisionsNameReports'
    BY <1>4, <2>2 DEF DecisionsNameReports
  <2>5. QED
    BY <1>3, <2>3, <2>4
<1>6. ASSUME NEW c \in Clients, CommitReport(c)
      PROVE  ReviewTrail' /\ DecisionsNameReports'
  <2>1. PICK q, v, draft, body, d, row :
          /\ q = client[c].req /\ v = client[c].version
          /\ draft = client[c].current
          /\ body = [draft.body EXCEPT !.status = ReviewedStatus(q.action)]
          /\ d = [run |-> q.run, gate |-> q.gate, key |-> q.key,
                  action |-> q.action, before |-> q.expected, after |-> v]
          /\ row = Row(q.run, "REPORT", v, body)
    OBVIOUS
  <2>2. /\ q.run \in Runs /\ draft \in snaps
        /\ draft.run = q.run /\ draft.kind = "REPORT" /\ draft.version = q.expected
        /\ draft.body \in ReportBody
        /\ ReportRequestAdmissible(q, draft.body)
        /\ v = NextVersion(snaps, q.run, "REPORT")
        /\ snaps' = snaps \cup {row}
    BY <1>6, <2>1, CommitReportRows
  <2>3. q.gate = "REPORT_REVIEW" /\ decisions' = decisions \cup {d}
    BY <1>6, <2>1 DEF CommitReport, Record
  <2>4. /\ d.run = q.run /\ d.gate = "REPORT_REVIEW" /\ d.after = v
        /\ d.before = draft.version /\ d.action = q.action
    BY <2>1, <2>2, <2>3
  <2>5. row.run = q.run /\ row.kind = "REPORT" /\ row.version = v /\ row.body = body
    BY <2>1 DEF Row
  <2>6. v \notin Versions(snaps, q.run, "REPORT")
    BY <1>1, <2>2, NextVersionIsFree DEF SnapshotKinds
  <2>7. draft.version < v
    <3>1. PICK n \in Nat : Versions(snaps, q.run, "REPORT") = 1..n
      BY <1>1, <2>2 DEF Gapless, SnapshotKinds
    <3>2. v = n + 1
      BY <2>2, <3>1, VersionArithmetic
    <3>3. draft.version \in Versions(snaps, q.run, "REPORT")
      BY <2>2 DEF Versions
    <3>4. QED
      BY <3>1, <3>2, <3>3
  <2>8. /\ draft.body.status = "AWAITING_REVIEW"
        /\ body.status = ReviewedStatus(q.action)
        /\ body.outcome = draft.body.outcome
        /\ [body EXCEPT !.status = "AWAITING_REVIEW"] = draft.body
    BY <2>1, <2>2 DEF ReportRequestAdmissible, ReportBody
  <2>9. Trail(row, decisions', snaps')
    <3>1. \A e \in decisions' :
            e.run = d.run /\ e.gate = d.gate /\ e.after = d.after => e = d
      BY <2>3, <2>4, <2>6 DEF DecisionsNameReports
    <3>2. /\ (d.action = "CONFIRM_DRAFT") = (row.body.status = "CONFIRMED")
          /\ row.body.status = "CONFIRMED" => row.body.outcome = "CLEAR"
      BY <2>2, <2>4, <2>5, <2>8 DEF ReviewedStatus, ReportRequestAdmissible
    <3>3. draft \in snaps' /\ d \in decisions'
      BY <2>2, <2>3
    <3>4. QED
      BY <2>2, <2>4, <2>5, <2>7, <2>8, <3>1, <3>2, <3>3 DEF Trail
  <2>10. \A s \in snaps : Reviewed(s) => Trail(s, decisions', snaps')
    <3>1. ASSUME NEW s \in snaps, Reviewed(s)
          PROVE  ~(d.run = s.run /\ d.gate = "REPORT_REVIEW" /\ d.after = s.version)
      BY <2>4, <2>6, <3>1 DEF Versions, Reviewed
    <3>2. QED
      BY <1>1, <1>2, <2>3, <3>1, TrailKept
  <2>11. DecisionsNameReports'
    <3>1. v \in Versions(snaps', q.run, "REPORT")
      BY <2>2, <2>5 DEF Versions
    <3>2. QED
      BY <1>4, <2>3, <2>4, <3>1 DEF DecisionsNameReports
  <2>12. QED
    BY <1>3, <2>2, <2>9, <2>10, <2>11
<1>7. QED
  BY <1>5, <1>6

(* Every reviewed report is the work of exactly one reviewer decision, has  *)
(* the status that decision asked for and says what the draft the reviewer  *)
(* was shown says; a confirmed one came from a confirmable draft.           *)
THEOREM ReviewTrailHolds == Spec => []ReviewTrail
<1>1. Init => TypeInv /\ ReviewTrail /\ DecisionsNameReports
  BY InitTypeInv DEF Init, ReviewTrail, DecisionsNameReports
<1>2. TypeInv /\ ReviewTrail /\ DecisionsNameReports /\ [Next]_vars
        => (TypeInv /\ ReviewTrail /\ DecisionsNameReports)'
  BY NextTypeInv, ReviewTrailKept
<1>3. QED
  BY <1>1, <1>2, PTL DEF Spec


-----------------------------------------------------------------------------
(* The queue.                                                              *)

Created == {s \in Runs : created[s] # 0}

(* A Run is queued once, right after it is created, and its task is pending *)
(* and was never leased as long as it is.                                   *)
QueuedIsPending ==
    \A r \in Runs :
      /\ run[r].status = "QUEUED" => task[r] = [status |-> "PENDING", lease |-> "none"]
      /\ run[r].status = "NOT_CREATED" <=> created[r] = 0
      /\ run[r].status = "NOT_CREATED" => task[r].status = "NONE"

(* Tasks are numbered in the order of their creation, none above their      *)
(* number.                                                                  *)
NumberedInOrder == \A r \in Runs : created[r] <= Cardinality(Created)

(* A session works on a Run that exists.                                    *)
SessionsOnRuns ==
    /\ \A w \in Workers : worker[w].pc \notin {"idle", "down"} =>
                            created[worker[w].run] # 0
    /\ \A c \in Clients : client[c].pc # "free" => created[client[c].req.run] # 0

(* No task older than the one a worker has selected is waiting: those that  *)
(* were waiting then were younger, and those created since are too.         *)
SelectedIsOldest ==
    \A w \in Workers : worker[w].pc = "selected" =>
      \A s \in Runs : run[s].status = "QUEUED" => created[worker[w].run] <= created[s]

QueueInv == QueuedIsPending /\ NumberedInOrder /\ SessionsOnRuns /\ SelectedIsOldest

(* QueueInv holds initially.                                                *)
LEMMA InitQueue == Init => QueueInv
<1> SUFFICES ASSUME Init PROVE QueueInv
  OBVIOUS
<1>1. Created = {} /\ \A r \in Runs : created[r] = 0
  BY DEF Init, Created
<1>2. Cardinality(Created) = 0
  BY <1>1, FS_EmptySet
<1>3. QED
  BY <1>1, <1>2 DEF Init, Idle, Free, QueueInv, QueuedIsPending, NumberedInOrder,
                    SessionsOnRuns, SelectedIsOldest

(* A step that leaves the numbers, queues nothing, moves what it moves of   *)
(* the Runs and tasks away from the queue, and takes on no new Run.         *)
LEMMA QueueFrame ==
    ASSUME QueueInv, created' = created,
           \A r \in Runs :
             \/ run'[r] = run[r] /\ task'[r] = task[r]
             \/ /\ created[r] # 0
                /\ run'[r].status \notin {"QUEUED", "NOT_CREATED"}
             \/ run'[r] = run[r] /\ task[r].status # "NONE" /\ task[r].lease # "none",
           \A w \in Workers :
             \/ worker'[w].pc \in {"idle", "down"}
             \/ /\ worker'[w].run = worker[w].run
                /\ worker[w].pc \notin {"idle", "down"}
                /\ worker'[w].pc = "selected" => worker[w].pc = "selected",
           \A c \in Clients :
             \/ client'[c].pc = "free"
             \/ client'[c].req = client[c].req /\ client[c].pc # "free"
    PROVE  QueueInv'
<1>1. QueuedIsPending'
  BY DEF QueueInv, QueuedIsPending
<1>2. NumberedInOrder'
  BY DEF QueueInv, NumberedInOrder, Created
<1>3. SessionsOnRuns'
  BY DEF QueueInv, SessionsOnRuns
<1>4. \A r \in Runs : run'[r].status = "QUEUED" => run[r].status = "QUEUED"
  OBVIOUS
<1>5. SelectedIsOldest'
  BY <1>4 DEF QueueInv, SelectedIsOldest
<1>6. QED
  BY <1>1, <1>2, <1>3, <1>5 DEF QueueInv

(* A new Run is queued last.                                                *)
LEMMA CreateRunKeepsQueue ==
    ASSUME TypeInv, QueueInv, NEW r \in Runs, CreateRun(r)
    PROVE  QueueInv'
<1> DEFINE n == Cardinality(Created)
<1>1. /\ run' = [run EXCEPT ![r] = [status |-> "QUEUED", gate |-> "NONE"]]
      /\ task' = [task EXCEPT ![r] = [status |-> "PENDING", lease |-> "none"]]
      /\ created' = [created EXCEPT ![r] = n + 1]
      /\ UNCHANGED <<worker, client>> /\ run[r].status = "NOT_CREATED"
  BY DEF CreateRun, Created
<1>2. /\ run \in [Runs -> RunRow] /\ task \in [Runs -> TaskRow]
      /\ created \in [Runs -> Nat]
  BY DEF TypeInv, TypeOK
<1>3. created[r] = 0
  BY <1>1 DEF QueueInv, QueuedIsPending
<1>4. IsFiniteSet(Created) /\ r \notin Created
  BY <1>3, RunsAssumption, FS_Subset DEF Created
<1>5. n \in Nat
  BY <1>4, FS_CardinalityType
<1> HIDE DEF n
<1>6. Created' = Created \cup {r}
  BY <1>1, <1>2, <1>5 DEF Created
<1>7. Cardinality(Created') = n + 1
  BY <1>4, <1>6, FS_AddElement DEF n
<1>8. \A s \in Runs : created[s] <= n
  BY DEF QueueInv, NumberedInOrder, n
<1>9. QueuedIsPending'
  BY <1>1, <1>2, <1>5 DEF QueueInv, QueuedIsPending, RunRow, TaskRow
<1>10. NumberedInOrder'
  BY <1>1, <1>2, <1>5, <1>7, <1>8 DEF NumberedInOrder
<1>11. \A s \in Runs : created[s] # 0 => s # r /\ created'[s] = created[s]
  BY <1>1, <1>2, <1>3
<1>12. \A w \in Workers : worker[w].pc \notin {"idle", "down"} => worker[w].run \in Runs
  BY DEF TypeInv, WorkersHaveRuns
<1>13. \A c \in Clients : client[c].pc # "free" => client[c].req.run \in Runs
  BY DEF TypeInv, RequestsHaveSnapshots, Requests, RequestsOn
<1>14. SessionsOnRuns'
  BY <1>1, <1>11, <1>12, <1>13 DEF QueueInv, SessionsOnRuns
<1>15. ASSUME NEW w \in Workers, worker[w].pc = "selected", NEW s \in Runs,
              run'[s].status = "QUEUED"
       PROVE  created'[worker[w].run] <= created'[s]
  <2>1. worker[w].run \in Runs /\ created[worker[w].run] # 0
    BY <1>12, <1>15 DEF QueueInv, SessionsOnRuns
  <2>2. created'[worker[w].run] = created[worker[w].run]
    BY <1>11, <2>1
  <2>3. CASE s = r
    <3>1. created'[s] = n + 1
      BY <1>1, <1>2, <2>3
    <3>2. created[worker[w].run] <= n /\ created[worker[w].run] \in Nat
      BY <1>2, <1>8, <2>1
    <3>3. QED
      BY <1>5, <2>2, <3>1, <3>2
  <2>4. CASE s # r
    BY <1>1, <1>2, <1>15, <2>2, <2>4 DEF QueueInv, SelectedIsOldest
  <2>5. QED
    BY <2>3, <2>4
<1>16. SelectedIsOldest'
  BY <1>1, <1>15 DEF SelectedIsOldest
<1>17. QED
  BY <1>9, <1>10, <1>14, <1>16 DEF QueueInv

(* The oldest of the claimable tasks is as old as every task of a queued    *)
(* Run.                                                                     *)
LEMMA SelectKeepsQueue ==
    ASSUME TypeInv, QueueInv, NEW w \in Workers, Select(w)
    PROVE  QueueInv'
<1>1. PICK r \in Runs :
        /\ Claimable(r) /\ \A s \in Runs : Claimable(s) => created[r] <= created[s]
        /\ worker' = [worker EXCEPT ![w] = [Idle EXCEPT !.pc = "selected", !.run = r]]
  BY DEF Select
<1>2. PICK y : y = [Idle EXCEPT !.pc = "selected", !.run = r]
  OBVIOUS
<1>3. y.run = r
  BY <1>2 DEF Idle
<1>4. worker'[w] = y /\ \A x \in Workers : x # w => worker'[x] = worker[x]
  BY <1>1, <1>2 DEF TypeInv, TypeOK
<1>5. UNCHANGED <<run, task, created, client>>
  BY DEF Select, tables
<1>6. \A s \in Runs : run[s].status = "QUEUED" => Claimable(s)
  BY DEF QueueInv, QueuedIsPending, Claimable
<1>7. created[r] # 0
  BY <1>1 DEF QueueInv, QueuedIsPending, Claimable
<1>8. QueuedIsPending' /\ NumberedInOrder'
  BY <1>5 DEF QueueInv, QueuedIsPending, NumberedInOrder, Created
<1>9. SessionsOnRuns'
  BY <1>3, <1>4, <1>5, <1>7 DEF QueueInv, SessionsOnRuns
<1>10. SelectedIsOldest'
  BY <1>1, <1>3, <1>4, <1>5, <1>6 DEF QueueInv, SelectedIsOldest
<1>11. QED
  BY <1>8, <1>9, <1>10 DEF QueueInv

(* What a step of the worker w makes of it: nothing to do any more, or the  *)
(* next stage of the same Run.                                              *)
LEMMA WorkerGoesOn ==
    ASSUME TypeInv, NEW w \in Workers,
           \/ Claim(w) \/ ReadMaterials(w) \/ FileFacts(w) \/ OpenFactGate(w)
           \/ StartCore(w) \/ PickCore(w) \/ OpenReportGate(w)
           \/ WorkerRaises(w) \/ WorkerFails(w) \/ WorkerRestarts(w)
    PROVE  /\ \/ worker'[w].pc \in {"idle", "down"}
              \/ /\ worker'[w].run = worker[w].run
                 /\ worker[w].pc \notin {"idle", "down"}
                 /\ worker'[w].pc # "selected"
           /\ \A x \in Workers : x # w => worker'[x] = worker[x]
<1>1. worker \in [Workers -> WorkerStates]
  BY DEF TypeInv, TypeOK
<1>2. CASE Claim(w) \/ ReadMaterials(w) \/ PickCore(w)
  BY <1>1, <1>2 DEF Claim, ReadMaterials, PickCore, WorkerStates
<1>3. CASE FileFacts(w)
  <2>1. PICK pc \in {"disputed", "filed"} :
          worker' = [worker EXCEPT ![w].pc = pc, ![w].version = 0]
    BY <1>3 DEF FileFacts
  <2>2. worker[w].pc = "parsed"
    BY <1>3 DEF FileFacts
  <2>3. QED
    BY <1>1, <2>1, <2>2 DEF WorkerStates
<1>4. CASE StartCore(w)
  <2>1. PICK v : worker' = [worker EXCEPT ![w].pc = "evaluating", ![w].facts = v]
    BY <1>4 DEF StartCore
  <2>2. worker[w].pc = "filed"
    BY <1>4 DEF StartCore
  <2>3. QED
    BY <1>1, <2>1, <2>2 DEF WorkerStates
<1>5. CASE OpenFactGate(w) \/ OpenReportGate(w) \/ WorkerRestarts(w)
  BY <1>1, <1>5 DEF OpenFactGate, OpenReportGate, WorkerRestarts, Idle
<1>6. CASE WorkerRaises(w) \/ WorkerFails(w)
  BY <1>1, <1>6 DEF WorkerRaises, WorkerFails, Down, Idle
<1>7. QED
  BY <1>2, <1>3, <1>4, <1>5, <1>6

(* What a worker's step makes of the Runs and tasks: nothing, or of its own *)
(* Run something that is no more queued.                                    *)
LEMMA WorkerMovesItsRun ==
    ASSUME TypeInv, NEW w \in Workers,
           \/ Claim(w) \/ ReadMaterials(w) \/ FileFacts(w) \/ OpenFactGate(w)
           \/ StartCore(w) \/ PickCore(w) \/ OpenReportGate(w)
           \/ WorkerRaises(w) \/ WorkerFails(w) \/ WorkerRestarts(w)
    PROVE  /\ UNCHANGED <<created, client>>
           /\ \/ UNCHANGED <<run, task>>
              \/ /\ worker[w].pc \notin {"idle", "down"}
                 /\ run'[worker[w].run].status \notin {"QUEUED", "NOT_CREATED"}
                 /\ \A r \in Runs : r # worker[w].run =>
                                      run'[r] = run[r] /\ task'[r] = task[r]
<1>1. /\ run \in [Runs -> RunRow] /\ task \in [Runs -> TaskRow]
      /\ worker[w].pc \notin {"idle", "down"} => worker[w].run \in Runs
  BY DEF TypeInv, TypeOK, WorkersHaveRuns
<1>2. CASE Claim(w)
  BY <1>1, <1>2 DEF Claim, RunRow
<1>3. CASE OpenFactGate(w)
  BY <1>1, <1>3 DEF OpenFactGate, RunRow
<1>4. CASE OpenReportGate(w)
  BY <1>1, <1>4 DEF OpenReportGate, RunRow
<1>5. CASE \/ ReadMaterials(w) \/ FileFacts(w) \/ StartCore(w) \/ PickCore(w)
           \/ WorkerRaises(w) \/ WorkerFails(w) \/ WorkerRestarts(w)
  BY <1>5 DEF ReadMaterials, FileFacts, StartCore, PickCore, WorkerRaises, WorkerFails,
              WorkerRestarts, tables
<1>6. QED
  BY <1>2, <1>3, <1>4, <1>5

(* The same of a request: it ends, or goes on with the Run it is about.     *)
LEMMA ClientMovesItsRun ==
    ASSUME TypeInv, NEW c \in Clients, ClientStep(c)
    PROVE  /\ UNCHANGED <<created, worker>>
           /\ \A d \in Clients : d # c => client'[d] = client[d]
           /\ \/ client'[c].pc = "free"
              \/ client'[c].req = client[c].req /\ client[c].pc # "free"
              \/ Arrive(c)
           /\ \/ UNCHANGED <<run, task>>
              \/ /\ client[c].pc # "free"
                 /\ run'[client[c].req.run].status \notin {"QUEUED", "NOT_CREATED"}
                 /\ \A r \in Runs : r # client[c].req.run =>
                                      run'[r] = run[r] /\ task'[r] = task[r]
<1>1. /\ run \in [Runs -> RunRow] /\ task \in [Runs -> TaskRow] /\ client \in [Clients -> ClientStates]
      /\ client[c].pc # "free" => client[c].req.run \in Runs
  BY DEF TypeInv, TypeOK, RequestsHaveSnapshots, Requests, RequestsOn
<1>2. CASE Arrive(c)
  BY <1>1, <1>2 DEF Arrive, tables
<1>3. CASE Check(c)
  <2>1. PICK v : client' = [client EXCEPT ![c].pc = "checked", ![c].current = v]
    BY <1>3 DEF Check
  <2>2. UNCHANGED <<run, task, created, worker>> /\ client[c].pc = "loaded"
    BY <1>3 DEF Check, tables
  <2>3. QED
    BY <1>1, <2>1, <2>2 DEF ClientStates
<1>4. CASE Pick(c)
  BY <1>1, <1>4 DEF Pick, tables, ClientStates
<1>5. CASE CommitFacts(c)
  <2>1. /\ client[c].pc = "picked" /\ client' = [client EXCEPT ![c] = Free]
        /\ run' = [run EXCEPT ![client[c].req.run] =
                     [status |-> "WAITING_REPORT_REVIEW", gate |-> "REPORT_REVIEW"]]
        /\ task' = [task EXCEPT ![client[c].req.run].status = "SUCCEEDED"]
        /\ UNCHANGED <<created, worker>>
    BY <1>5 DEF CommitFacts
  <2>2. QED
    BY <1>1, <2>1 DEF Free
<1>6. CASE CommitResubmission(c)
  BY <1>1, <1>6 DEF CommitResubmission, Free, RunRow
<1>7. CASE CommitReport(c)
  <2>1. /\ client[c].pc = "picked" /\ client' = [client EXCEPT ![c] = Free]
        /\ task' = [task EXCEPT ![client[c].req.run].status = "SUCCEEDED"]
        /\ UNCHANGED <<created, worker>>
    BY <1>7 DEF CommitReport
  <2>2. PICK v \in {"COMPLETED", "RETURNED"} :
          run' = [run EXCEPT ![client[c].req.run] = [status |-> v, gate |-> "NONE"]]
    BY <1>7 DEF CommitReport
  <2>3. QED
    BY <1>1, <2>1, <2>2 DEF Free
<1>8. CASE Abandon(c)
  BY <1>1, <1>8 DEF Abandon, Free, tables
<1>9. QED
  BY <1>2, <1>3, <1>4, <1>5, <1>6, <1>7, <1>8 DEF ClientStep

(* QueueInv is inductive.                                                   *)
LEMMA NextKeepsQueue == TypeInv /\ QueueInv /\ [Next]_vars => QueueInv'
<1> SUFFICES ASSUME TypeInv, QueueInv, [Next]_vars PROVE QueueInv'
  OBVIOUS
<1>1. ASSUME NEW r \in Runs, CreateRun(r) PROVE QueueInv'
  BY <1>1, CreateRunKeepsQueue
<1>2. ASSUME NEW r \in Runs, LeaseExpires(r) PROVE QueueInv'
  <2>1. /\ UNCHANGED <<run, created, worker, client>> /\ task[r].lease = "held"
        /\ task' = [task EXCEPT ![r].lease = "expired"]
        /\ task \in [Runs -> TaskRow]
    BY <1>2 DEF LeaseExpires, TypeInv, TypeOK
  <2>2. \A s \in Runs : s # r => task'[s] = task[s]
    BY <2>1
  <2>3. task'[r].status = task[r].status
    BY <2>1 DEF TaskRow
  <2>4. QueuedIsPending'
    BY <2>1, <2>2, <2>3 DEF QueueInv, QueuedIsPending
  <2>5. QED
    BY <2>1, <2>4 DEF QueueInv, NumberedInOrder, Created, SessionsOnRuns,
                      SelectedIsOldest
<1>3. ASSUME NEW w \in Workers, Select(w) PROVE QueueInv'
  BY <1>3, SelectKeepsQueue
<1>4. ASSUME NEW w \in Workers,
             \/ Claim(w) \/ ReadMaterials(w) \/ FileFacts(w) \/ OpenFactGate(w)
             \/ StartCore(w) \/ PickCore(w) \/ OpenReportGate(w)
             \/ WorkerRaises(w) \/ WorkerFails(w) \/ WorkerRestarts(w)
      PROVE  QueueInv'
  <2>1. /\ \/ worker'[w].pc \in {"idle", "down"}
           \/ /\ worker'[w].run = worker[w].run
              /\ worker[w].pc \notin {"idle", "down"}
              /\ worker'[w].pc # "selected"
        /\ \A x \in Workers : x # w => worker'[x] = worker[x]
    BY <1>4, WorkerGoesOn
  <2>2. /\ UNCHANGED <<created, client>>
        /\ \/ UNCHANGED <<run, task>>
           \/ /\ worker[w].pc \notin {"idle", "down"}
              /\ run'[worker[w].run].status \notin {"QUEUED", "NOT_CREATED"}
              /\ \A r \in Runs : r # worker[w].run =>
                                   run'[r] = run[r] /\ task'[r] = task[r]
    BY <1>4, WorkerMovesItsRun
  <2>3. \A r \in Runs :
          \/ run'[r] = run[r] /\ task'[r] = task[r]
          \/ created[r] # 0 /\ run'[r].status \notin {"QUEUED", "NOT_CREATED"}
    BY <2>2 DEF QueueInv, SessionsOnRuns
  <2>4. \A x \in Workers :
          \/ worker'[x].pc \in {"idle", "down"}
          \/ /\ worker'[x].run = worker[x].run
             /\ worker[x].pc \notin {"idle", "down"}
             /\ worker'[x].pc = "selected" => worker[x].pc = "selected"
    BY <2>1
  <2>5. QED
    BY <2>2, <2>3, <2>4, QueueFrame
<1>5. ASSUME NEW c \in Clients, ClientStep(c) PROVE QueueInv'
  <2>1. /\ UNCHANGED <<created, worker>>
        /\ \A d \in Clients : d # c => client'[d] = client[d]
        /\ \/ UNCHANGED <<run, task>>
           \/ /\ client[c].pc # "free"
              /\ run'[client[c].req.run].status \notin {"QUEUED", "NOT_CREATED"}
              /\ \A r \in Runs : r # client[c].req.run =>
                                   run'[r] = run[r] /\ task'[r] = task[r]
    BY <1>5, ClientMovesItsRun
  <2>2. \A r \in Runs :
          \/ run'[r] = run[r] /\ task'[r] = task[r]
          \/ created[r] # 0 /\ run'[r].status \notin {"QUEUED", "NOT_CREATED"}
    BY <2>1 DEF QueueInv, SessionsOnRuns
  <2>3. CASE Arrive(c)
    <3>1. PICK q : /\ q \in RequestsOn({s.version : s \in snaps})
                   /\ run[q.run].status = GateStatus(q.gate)
                   /\ client' = [client EXCEPT ![c] = [Free EXCEPT !.pc = "loaded",
                                                                   !.req = q]]
      BY <2>3 DEF Arrive
    <3>2. q.run \in Runs /\ created[q.run] # 0
      BY <3>1 DEF RequestsOn, GateStatus, QueueInv, QueuedIsPending
    <3>3. PICK y : y = [Free EXCEPT !.pc = "loaded", !.req = q]
      OBVIOUS
    <3>4. y.req = q
      BY <3>3 DEF Free
    <3>5. client'[c] = y
      BY <3>1, <3>3 DEF TypeInv, TypeOK
    <3>6. UNCHANGED <<run, task>>
      BY <2>3 DEF Arrive, tables
    <3>7. SessionsOnRuns'
      BY <2>1, <3>2, <3>4, <3>5 DEF QueueInv, SessionsOnRuns
    <3>8. QED
      BY <2>1, <3>6, <3>7 DEF QueueInv, QueuedIsPending, NumberedInOrder, Created,
                              SelectedIsOldest
  <2>4. CASE \/ client'[c].pc = "free"
             \/ client'[c].req = client[c].req /\ client[c].pc # "free"
    <3>1. \A d \in Clients : \/ client'[d].pc = "free"
                             \/ client'[d].req = client[d].req /\ client[d].pc # "free"
      BY <2>1, <2>4
    <3>2. \A x \in Workers :
            \/ worker'[x].pc \in {"idle", "down"}
            \/ /\ worker'[x].run = worker[x].run
               /\ worker[x].pc \notin {"idle", "down"}
               /\ worker'[x].pc = "selected" => worker[x].pc = "selected"
      BY <2>1
    <3>3. QED
      BY <2>1, <2>2, <3>1, <3>2, QueueFrame
  <2>5. QED
    BY <1>5, <2>3, <2>4, ClientMovesItsRun
<1>6. CASE UNCHANGED vars
  BY <1>6 DEF vars, QueueInv, QueuedIsPending, NumberedInOrder, Created, SessionsOnRuns,
              SelectedIsOldest
<1>7. QED
  BY <1>1, <1>2, <1>3, <1>4, <1>5, <1>6 DEF Next, WorkerStep

(* A Run is not started while an older one is still queued, however many    *)
(* workers select and claim, and whatever dies in between (claim_job).      *)
THEOREM OldestStartsFirst == Spec => RunsStartInOrder
<1>1. ASSUME TypeInv, QueueInv, [Next]_vars
      PROVE  [\A r, s \in Runs :
                /\ run[r].status = "QUEUED" /\ run'[r].status = "RUNNING"
                /\ run[s].status = "QUEUED" /\ created[s] < created[r]
                => FALSE]_vars
  <2> SUFFICES ASSUME NEW r \in Runs, NEW s \in Runs,
                      run[r].status = "QUEUED", run'[r].status = "RUNNING",
                      run[s].status = "QUEUED", created[s] < created[r]
               PROVE  FALSE
    OBVIOUS
  <2>1. \E w \in Workers : Claim(w) /\ r = worker[w].run
    <3>1. run \in [Runs -> RunRow]
      BY <1>1 DEF TypeInv, TypeOK
    <3>2. ASSUME NEW q \in Runs, CreateRun(q) \/ LeaseExpires(q) PROVE FALSE
      BY <3>1, <3>2 DEF CreateRun, LeaseExpires
    <3>3. ASSUME NEW w \in Workers,
                 \/ Select(w) \/ ReadMaterials(w) \/ FileFacts(w) \/ StartCore(w)
                 \/ PickCore(w) \/ WorkerRaises(w) \/ WorkerFails(w) \/ WorkerRestarts(w)
          PROVE  FALSE
      BY <3>3 DEF Select, ReadMaterials, FileFacts, StartCore, PickCore, WorkerRaises,
                  WorkerFails, WorkerRestarts, tables
    <3>4. ASSUME NEW w \in Workers, OpenFactGate(w) \/ OpenReportGate(w) PROVE FALSE
      BY <3>1, <3>4 DEF OpenFactGate, OpenReportGate, RunRow
    <3>5. ASSUME NEW c \in Clients, ClientStep(c) PROVE FALSE
      <4>1. CASE Arrive(c) \/ Check(c) \/ Pick(c) \/ Abandon(c)
        BY <4>1 DEF Arrive, Check, Pick, Abandon, tables
      <4>2. CASE CommitFacts(c)
        <5>1. run' = [run EXCEPT ![client[c].req.run] =
                 [status |-> "WAITING_REPORT_REVIEW", gate |-> "REPORT_REVIEW"]]
          BY <4>2 DEF CommitFacts
        <5>2. QED
          BY <3>1, <5>1
      <4>3. CASE CommitResubmission(c)
        BY <3>1, <4>3 DEF CommitResubmission, RunRow
      <4>4. CASE CommitReport(c)
        <5>1. PICK v \in {"COMPLETED", "RETURNED"} :
                run' = [run EXCEPT ![client[c].req.run] = [status |-> v, gate |-> "NONE"]]
          BY <4>4 DEF CommitReport
        <5>2. QED
          BY <3>1, <5>1
      <4>5. QED
        BY <3>5, <4>1, <4>2, <4>3, <4>4 DEF ClientStep
    <3>6. ASSUME NEW w \in Workers, Claim(w) PROVE r = worker[w].run
      BY <3>1, <3>6 DEF Claim
    <3>7. ~UNCHANGED vars
      BY DEF vars
    <3>8. QED
      BY <1>1, <3>2, <3>3, <3>4, <3>5, <3>6, <3>7 DEF Next, WorkerStep
  <2>2. PICK w \in Workers : Claim(w) /\ r = worker[w].run
    BY <2>1
  <2>3. created[r] <= created[s]
    BY <1>1, <2>2 DEF Claim, QueueInv, SelectedIsOldest
  <2>4. created[r] \in Nat /\ created[s] \in Nat
    BY <1>1 DEF TypeInv, TypeOK
  <2>5. QED
    BY <2>3, <2>4
<1>2. Init => TypeInv /\ QueueInv
  BY InitTypeInv, InitQueue
<1>3. TypeInv /\ QueueInv /\ [Next]_vars => (TypeInv /\ QueueInv)'
  BY NextTypeInv, NextKeepsQueue
<1>4. QED
  BY <1>1, <1>2, <1>3, PTL DEF Spec, RunsStartInOrder

-----------------------------------------------------------------------------
(* How every version came about.                                           *)

(* Fresh rows advance the versions of their kinds, of their Run, by one.    *)
LEMMA VersionsAdvance ==
    ASSUME Gapless, NEW T, NEW r \in Runs, FreshRows(T, r), snaps' = snaps \cup T,
           NEW q \in Runs, NEW k \in SnapshotKinds
    PROVE  /\ LastVersion(snaps, q, k) \in Nat
           /\ LastVersion(snaps', q, k)
                = LastVersion(snaps, q, k) + (IF q = r /\ k \in Kinds(T) THEN 1 ELSE 0)
<1>1. PICK n \in Nat : Versions(snaps, q, k) = 1..n
  BY DEF Gapless
<1>2. LastVersion(snaps, q, k) = n /\ NextVersion(snaps, q, k) = n + 1
  BY <1>1, VersionArithmetic
<1>3. Versions(snaps', q, k) = (1..n) \cup Versions(T, q, k)
  BY <1>1 DEF Versions
<1>4. CASE q = r /\ k \in Kinds(T)
  <2>1. Versions(T, q, k) = {n + 1}
    BY <1>2, <1>4 DEF Versions, FreshRows, Kinds
  <2>2. (1..n) \cup {n + 1} = 1..(n + 1) /\ n + 1 \in Nat
    OBVIOUS
  <2>3. LastVersion(snaps', q, k) = n + 1
    BY <1>3, <2>1, <2>2, VersionArithmetic
  <2>4. QED
    BY <1>2, <1>4, <2>3
<1>5. CASE ~(q = r /\ k \in Kinds(T))
  <2>1. Versions(T, q, k) = {}
    BY <1>5 DEF Versions, FreshRows, Kinds
  <2>2. LastVersion(snaps', q, k) = n
    BY <1>3, <2>1, VersionArithmetic
  <2>3. QED
    BY <1>2, <1>5, <2>2
<1>6. QED
  BY <1>4, <1>5

(* A recorded request is one submission more of its Run, gate and action.   *)
LEMMA SubmissionsAdvance ==
    ASSUME IsFiniteSet(decisions), NEW q, NEW after, Record(q, after)
    PROVE  /\ IsFiniteSet(decisions')
           /\ \A r, gate, action :
                /\ Submissions(r, gate, action) \in Nat
                /\ Submissions(r, gate, action)'
                     = Submissions(r, gate, action)
                         + (IF q.run = r /\ q.gate = gate /\ q.action \in action
                            THEN 1 ELSE 0)
<1>1. PICK d : d = [run |-> q.run, gate |-> q.gate, key |-> q.key,
                    action |-> q.action, before |-> q.expected, after |-> after]
  OBVIOUS
<1>2. d.run = q.run /\ d.gate = q.gate /\ d.action = q.action /\ d.key = q.key
  BY <1>1
<1>3. decisions' = decisions \cup {d} /\ d \notin decisions
  BY <1>1, <1>2 DEF Record
<1>4. IsFiniteSet(decisions')
  BY <1>3, FS_AddElement
<1>5. ASSUME NEW r, NEW gate, NEW action
      PROVE  /\ Submissions(r, gate, action) \in Nat
             /\ Submissions(r, gate, action)'
                  = Submissions(r, gate, action)
                      + (IF q.run = r /\ q.gate = gate /\ q.action \in action
                         THEN 1 ELSE 0)
  <2> DEFINE S == {e \in decisions : e.run = r /\ e.gate = gate /\ e.action \in action}
             U == {e \in decisions' : e.run = r /\ e.gate = gate /\ e.action \in action}
  <2>1. IsFiniteSet(S) /\ Cardinality(S) \in Nat /\ d \notin S
    BY <1>3, FS_Subset, FS_CardinalityType
  <2>2. /\ Submissions(r, gate, action) = Cardinality(S)
        /\ Submissions(r, gate, action)' = Cardinality(U)
    BY DEF Submissions
  <2>3. CASE q.run = r /\ q.gate = gate /\ q.action \in action
    <3>1. U = S \cup {d}
      BY <1>2, <1>3, <2>3
    <3> HIDE DEF S, U
    <3>2. Cardinality(U) = Cardinality(S) + 1
      BY <2>1, <3>1, FS_AddElement
    <3>3. QED
      BY <2>1, <2>2, <2>3, <3>2
  <2>4. CASE ~(q.run = r /\ q.gate = gate /\ q.action \in action)
    <3>1. U = S
      BY <1>2, <1>3, <2>4
    <3> HIDE DEF S, U
    <3>2. QED
      BY <2>1, <2>2, <2>4, <3>1
  <2>5. QED
    BY <2>3, <2>4
<1>6. QED
  BY <1>4, <1>5

(* A request at the fact gate that is to file facts rules on conflicts.     *)
PicksToResolve ==
    \A c \in Clients : client[c].pc = "picked" /\ client[c].req.gate = "FACT_REVIEW" =>
                         client[c].req.action = "RESOLVE"

AccountInv == EveryVersionIsAccountedFor /\ IsFiniteSet(decisions) /\ PicksToResolve

(* AccountInv holds initially.                                              *)
LEMMA InitAccount == Init => AccountInv
<1> SUFFICES ASSUME Init PROVE AccountInv
  OBVIOUS
<1>1. snaps = {} /\ decisions = {} /\ \A c \in Clients : client[c] = Free
  BY DEF Init
<1>2. \A r, k : LastVersion(snaps, r, k) = 0
  BY <1>1 DEF LastVersion, Versions
<1>3. \A r, gate, action : Submissions(r, gate, action) = 0
  BY <1>1, FS_EmptySet DEF Submissions
<1>4. EveryVersionIsAccountedFor
  BY <1>2, <1>3 DEF EveryVersionIsAccountedFor
<1>5. PicksToResolve
  BY <1>1 DEF PicksToResolve, Free
<1>6. QED
  BY <1>1, <1>4, <1>5, FS_EmptySet DEF AccountInv

(* A request that has picked a FACT version will resolve.                   *)
LEMMA PicksToResolveKept ==
    ASSUME TypeInv, PicksToResolve, [Next]_vars
    PROVE  PicksToResolve'
<1>1. client \in [Clients -> ClientStates]
  BY DEF TypeInv, TypeOK
<1>2. CASE client' = client
  BY <1>2 DEF PicksToResolve
<1>3. ASSUME NEW c \in Clients, ClientStep(c)
      PROVE  /\ \A d \in Clients : d # c => client'[d] = client[d]
             /\ client'[c].pc = "picked" /\ client'[c].req.gate = "FACT_REVIEW" =>
                  client'[c].req.action = "RESOLVE"
  <2>1. \A d \in Clients : d # c => client'[d] = client[d]
    BY <1>3, ClientMovesItsRun
  <2>2. CASE Pick(c)
    <3>1. /\ client'[c].req = client[c].req
          /\ client[c].req.action # "REQUEST_RESUBMISSION" /\ client[c].pc = "checked"
      BY <1>1, <2>2 DEF Pick, ClientStates
    <3>2. client[c].req \in Requests
      BY <3>1 DEF TypeInv, RequestsHaveSnapshots
    <3>3. client[c].req.gate = "FACT_REVIEW" => client[c].req.action = "RESOLVE"
      BY <3>1, <3>2 DEF Requests, RequestsOn
    <3>4. QED
      BY <2>1, <3>1, <3>3
  <2>3. CASE Arrive(c)
    <3>1. PICK q : client' = [client EXCEPT ![c] = [Free EXCEPT !.pc = "loaded", !.req = q]]
      BY <2>3 DEF Arrive
    <3>2. client'[c].pc # "picked"
      BY <1>1, <3>1 DEF Free
    <3>3. QED
      BY <2>1, <3>2
  <2>4. CASE Check(c)
    <3>1. PICK s : client' = [client EXCEPT ![c].pc = "checked", ![c].current = s]
      BY <2>4 DEF Check
    <3>2. client'[c].pc # "picked"
      BY <1>1, <3>1 DEF ClientStates
    <3>3. QED
      BY <2>1, <3>2
  <2>5. CASE CommitFacts(c) \/ CommitResubmission(c) \/ CommitReport(c) \/ Abandon(c)
    <3>1. client' = [client EXCEPT ![c] = Free]
      BY <2>5 DEF CommitFacts, CommitResubmission, CommitReport, Abandon
    <3>2. client'[c].pc # "picked"
      BY <1>1, <3>1 DEF Free
    <3>3. QED
      BY <2>1, <3>2
  <2>6. QED
    BY <1>3, <2>2, <2>3, <2>4, <2>5 DEF ClientStep
<1>4. CASE \E c \in Clients : ClientStep(c)
  BY <1>3, <1>4 DEF PicksToResolve
<1>5. client' = client \/ \E c \in Clients : ClientStep(c)
  <2>1. ASSUME NEW r \in Runs, CreateRun(r) \/ LeaseExpires(r) PROVE client' = client
    BY <2>1 DEF CreateRun, LeaseExpires
  <2>2. ASSUME NEW w \in Workers, Select(w) PROVE client' = client
    BY <2>2 DEF Select
  <2>3. ASSUME NEW w \in Workers,
               \/ Claim(w) \/ ReadMaterials(w) \/ FileFacts(w) \/ OpenFactGate(w)
               \/ StartCore(w) \/ PickCore(w) \/ OpenReportGate(w)
               \/ WorkerRaises(w) \/ WorkerFails(w) \/ WorkerRestarts(w)
        PROVE  client' = client
    BY <2>3, WorkerMovesItsRun
  <2>4. QED
    BY <2>1, <2>2, <2>3 DEF Next, vars, WorkerStep
<1>6. QED
  BY <1>2, <1>4, <1>5

(* The four transactions that file snapshots keep the accounts, and so does *)
(* a request for more material.                                             *)
LEMMA AccountsKept ==
    ASSUME TypeInv, AccountInv, [Next]_vars
    PROVE  EveryVersionIsAccountedFor' /\ IsFiniteSet(decisions')
<1> DEFINE L(r, k) == LastVersion(snaps, r, k)
           N(r, k) == LastVersion(snaps', r, k)
<1>0. Gapless
  BY DEF TypeInv
<1>1. \A r \in Runs : L(r, "FACT") \in Nat /\ L(r, "PARSE") \in Nat
                        /\ L(r, "REPORT") \in Nat /\ L(r, "RETRIEVAL") \in Nat
  <2>1. \A r \in Runs, k \in SnapshotKinds : LastVersion(snaps, r, k) \in Nat
    BY <1>0, VersionArithmetic DEF Gapless
  <2>2. QED
    BY <2>1 DEF SnapshotKinds, MaterialKinds, CoreKinds
<1>2. /\ {"FACT", "PARSE", "REPORT", "RETRIEVAL"} \subseteq SnapshotKinds
      /\ "RETRIEVAL" \in CoreKinds /\ "PARSE" \in MaterialKinds /\ "FACT" \in MaterialKinds
      /\ "FACT" \notin CoreKinds /\ "PARSE" \notin CoreKinds
      /\ "REPORT" \notin MaterialKinds /\ "RETRIEVAL" \notin MaterialKinds
  BY DEF SnapshotKinds, MaterialKinds, CoreKinds
<1> HIDE DEF L, N
<1>3. ASSUME NEW T, NEW r \in Runs, FreshRows(T, r), snaps' = snaps \cup T
      PROVE  \A q \in Runs : \A k \in SnapshotKinds :
               N(q, k) = L(q, k) + (IF q = r /\ k \in Kinds(T) THEN 1 ELSE 0)
  <2>1. ASSUME NEW q \in Runs, NEW k \in SnapshotKinds
        PROVE  LastVersion(snaps', q, k)
                 = LastVersion(snaps, q, k) + (IF q = r /\ k \in Kinds(T) THEN 1 ELSE 0)
    BY <1>0, <1>3, VersionsAdvance
  <2>2. QED
    BY <2>1 DEF L, N
<1>4. \A r \in Runs :
        /\ L(r, "FACT") = L(r, "PARSE") + Submissions(r, "FACT_REVIEW", {"RESOLVE"})
        /\ L(r, "REPORT") = L(r, "RETRIEVAL")
             + Submissions(r, "REPORT_REVIEW", {"CONFIRM_DRAFT", "RETURN_FOR_RERUN"})
  BY DEF AccountInv, EveryVersionIsAccountedFor, L
<1>5. ASSUME \A r \in Runs :
               /\ N(r, "FACT") = N(r, "PARSE") + Submissions(r, "FACT_REVIEW", {"RESOLVE"})'
               /\ N(r, "REPORT") = N(r, "RETRIEVAL")
                    + Submissions(r, "REPORT_REVIEW", {"CONFIRM_DRAFT", "RETURN_FOR_RERUN"})'
      PROVE  EveryVersionIsAccountedFor'
  BY <1>5 DEF EveryVersionIsAccountedFor, N
<1>6. decisions' = decisions => \A r, g, A : Submissions(r, g, A)' = Submissions(r, g, A)
  BY DEF Submissions
<1>7. \A r, g, A : Submissions(r, g, A) \in Nat
  BY FS_Subset, FS_CardinalityType DEF Submissions, AccountInv
<1>8. CASE UNCHANGED <<snaps, decisions>>
  BY <1>4, <1>5, <1>6, <1>8 DEF L, N, AccountInv
<1>9. ASSUME NEW w \in Workers, FileFacts(w) \/ OpenReportGate(w)
      PROVE  EveryVersionIsAccountedFor' /\ IsFiniteSet(decisions')
  <2>1. decisions' = decisions
    BY <1>9 DEF FileFacts, OpenReportGate
  <2>2. PICK r, T :
          /\ r \in Runs
          /\ snaps' = snaps \cup T /\ FreshRows(T, r)
          /\ "FACT" \in Kinds(T) <=> "PARSE" \in Kinds(T)
          /\ "REPORT" \in Kinds(T) <=> "RETRIEVAL" \in Kinds(T)
    BY <1>2, <1>9, FileFactsRows, OpenReportGateRows
  <2>3. \A q \in Runs :
          /\ N(q, "FACT") = L(q, "FACT") + (IF q = r /\ "FACT" \in Kinds(T) THEN 1 ELSE 0)
          /\ N(q, "PARSE") = L(q, "PARSE") + (IF q = r /\ "PARSE" \in Kinds(T) THEN 1 ELSE 0)
          /\ N(q, "REPORT")
               = L(q, "REPORT") + (IF q = r /\ "REPORT" \in Kinds(T) THEN 1 ELSE 0)
          /\ N(q, "RETRIEVAL")
               = L(q, "RETRIEVAL") + (IF q = r /\ "RETRIEVAL" \in Kinds(T) THEN 1 ELSE 0)
    BY <1>2, <1>3, <2>2
  <2>4. ASSUME NEW q \in Runs
        PROVE  /\ N(q, "FACT") = N(q, "PARSE") + Submissions(q, "FACT_REVIEW", {"RESOLVE"})'
               /\ N(q, "REPORT") = N(q, "RETRIEVAL")
                    + Submissions(q, "REPORT_REVIEW", {"CONFIRM_DRAFT", "RETURN_FOR_RERUN"})'
    BY <1>1, <1>4, <1>6, <1>7, <2>1, <2>2, <2>3
  <2>5. QED
    BY <1>5, <2>1, <2>4 DEF AccountInv
<1>10. ASSUME NEW c \in Clients, CommitFacts(c)
       PROVE  EveryVersionIsAccountedFor' /\ IsFiniteSet(decisions')
  <2>1. PICK r \in Runs : \E T :
          /\ r = client[c].req.run
          /\ snaps' = snaps \cup T /\ FreshRows(T, r)
          /\ Kinds(T) = {"FACT", "CONFLICT"} \cup CoreKinds \cup {"REPORT"}
    BY <1>10, CommitFactsRows
  <2>2. PICK T : /\ snaps' = snaps \cup T /\ FreshRows(T, r)
                 /\ Kinds(T) = {"FACT", "CONFLICT"} \cup CoreKinds \cup {"REPORT"}
    BY <2>1
  <2>3. PICK q : q = client[c].req
    OBVIOUS
  <2>4. q.gate = "FACT_REVIEW" /\ q.action = "RESOLVE" /\ q.run = r /\ Record(q, 0)
    BY <1>10, <2>1, <2>3 DEF CommitFacts, AccountInv, PicksToResolve
  <2>5. \A p \in Runs :
          /\ N(p, "FACT") = L(p, "FACT") + (IF p = r THEN 1 ELSE 0)
          /\ N(p, "PARSE") = L(p, "PARSE")
          /\ N(p, "REPORT") = L(p, "REPORT") + (IF p = r THEN 1 ELSE 0)
          /\ N(p, "RETRIEVAL") = L(p, "RETRIEVAL") + (IF p = r THEN 1 ELSE 0)
    BY <1>1, <1>2, <1>3, <2>2
  <2>6. /\ IsFiniteSet(decisions')
        /\ \A p, g, A : Submissions(p, g, A)' = Submissions(p, g, A)
             + (IF q.run = p /\ q.gate = g /\ q.action \in A THEN 1 ELSE 0)
    BY <2>4, SubmissionsAdvance DEF AccountInv
  <2>7. \A p \in Runs :
          /\ Submissions(p, "FACT_REVIEW", {"RESOLVE"})'
               = Submissions(p, "FACT_REVIEW", {"RESOLVE"}) + (IF p = r THEN 1 ELSE 0)
          /\ Submissions(p, "REPORT_REVIEW", {"CONFIRM_DRAFT", "RETURN_FOR_RERUN"})'
               = Submissions(p, "REPORT_REVIEW", {"CONFIRM_DRAFT", "RETURN_FOR_RERUN"})
    BY <1>7, <2>4, <2>6
  <2>8. ASSUME NEW p \in Runs
        PROVE  /\ N(p, "FACT") = N(p, "PARSE") + Submissions(p, "FACT_REVIEW", {"RESOLVE"})'
               /\ N(p, "REPORT") = N(p, "RETRIEVAL")
                    + Submissions(p, "REPORT_REVIEW", {"CONFIRM_DRAFT", "RETURN_FOR_RERUN"})'
    BY <1>1, <1>4, <1>7, <2>5, <2>7
  <2>9. QED
    BY <1>5, <2>6, <2>8
<1>11. ASSUME NEW c \in Clients, CommitReport(c)
       PROVE  EveryVersionIsAccountedFor' /\ IsFiniteSet(decisions')
  <2>1. PICK q : q = client[c].req
    OBVIOUS
  <2>2. PICK v : v = client[c].version
    OBVIOUS
  <2>3. PICK body : body = [client[c].current.body EXCEPT
                              !.status = ReviewedStatus(q.action)]
    OBVIOUS
  <2>4. PICK T : T = {Row(q.run, "REPORT", v, body)}
    OBVIOUS
  <2>5. /\ q.run \in Runs /\ snaps' = snaps \cup T
        /\ v = NextVersion(snaps, q.run, "REPORT")
    BY <1>11, <2>1, <2>2, <2>3, <2>4, CommitReportRows
  <2>6. FreshRows(T, q.run) /\ Kinds(T) = {"REPORT"}
    BY <1>2, <2>4, <2>5 DEF FreshRows, Row, Kinds
  <2>7. /\ Record(q, v) /\ q.gate = "REPORT_REVIEW"
        /\ q.action \in {"CONFIRM_DRAFT", "RETURN_FOR_RERUN"}
    <3>1. Record(q, v) /\ q.gate = "REPORT_REVIEW" /\ client[c].pc = "picked"
      BY <1>11, <2>1, <2>2 DEF CommitReport
    <3>2. q \in Requests
      BY <2>1, <3>1 DEF TypeInv, RequestsHaveSnapshots
    <3>3. QED
      BY <3>1, <3>2 DEF Requests, RequestsOn
  <2>8. \A p \in Runs :
          /\ N(p, "FACT") = L(p, "FACT") /\ N(p, "PARSE") = L(p, "PARSE")
          /\ N(p, "REPORT") = L(p, "REPORT") + (IF p = q.run THEN 1 ELSE 0)
          /\ N(p, "RETRIEVAL") = L(p, "RETRIEVAL")
    BY <1>1, <1>2, <1>3, <2>5, <2>6
  <2>9. /\ IsFiniteSet(decisions')
        /\ \A p, g, A : Submissions(p, g, A)' = Submissions(p, g, A)
             + (IF q.run = p /\ q.gate = g /\ q.action \in A THEN 1 ELSE 0)
    BY <2>7, SubmissionsAdvance DEF AccountInv
  <2>10. \A p \in Runs :
          /\ Submissions(p, "FACT_REVIEW", {"RESOLVE"})'
               = Submissions(p, "FACT_REVIEW", {"RESOLVE"})
          /\ Submissions(p, "REPORT_REVIEW", {"CONFIRM_DRAFT", "RETURN_FOR_RERUN"})'
               = Submissions(p, "REPORT_REVIEW", {"CONFIRM_DRAFT", "RETURN_FOR_RERUN"})
                   + (IF p = q.run THEN 1 ELSE 0)
    BY <1>7, <2>7, <2>9
  <2>11. ASSUME NEW p \in Runs
        PROVE  /\ N(p, "FACT") = N(p, "PARSE") + Submissions(p, "FACT_REVIEW", {"RESOLVE"})'
               /\ N(p, "REPORT") = N(p, "RETRIEVAL")
                    + Submissions(p, "REPORT_REVIEW", {"CONFIRM_DRAFT", "RETURN_FOR_RERUN"})'
    BY <1>1, <1>4, <1>7, <2>8, <2>10
  <2>12. QED
    BY <1>5, <2>9, <2>11
<1>12. ASSUME NEW c \in Clients, CommitResubmission(c)
       PROVE  EveryVersionIsAccountedFor' /\ IsFiniteSet(decisions')
  <2>1. PICK q : q = client[c].req
    OBVIOUS
  <2>2. Record(q, 0) /\ q.action = "REQUEST_RESUBMISSION" /\ snaps' = snaps
    BY <1>12, <2>1 DEF CommitResubmission
  <2>3. /\ IsFiniteSet(decisions')
        /\ \A p, g, A : Submissions(p, g, A)' = Submissions(p, g, A)
             + (IF q.run = p /\ q.gate = g /\ q.action \in A THEN 1 ELSE 0)
    BY <2>2, SubmissionsAdvance DEF AccountInv
  <2>4. \A p \in Runs :
          /\ Submissions(p, "FACT_REVIEW", {"RESOLVE"})'
               = Submissions(p, "FACT_REVIEW", {"RESOLVE"})
          /\ Submissions(p, "REPORT_REVIEW", {"CONFIRM_DRAFT", "RETURN_FOR_RERUN"})'
               = Submissions(p, "REPORT_REVIEW", {"CONFIRM_DRAFT", "RETURN_FOR_RERUN"})
    BY <1>7, <2>2, <2>3
  <2>5. QED
    BY <1>4, <1>5, <2>2, <2>3, <2>4 DEF L, N
<1>13. QED
  <2>1. CASE snaps' = snaps /\ UNCHANGED <<decisions, idem>>
    BY <1>8, <2>1
  <2>2. CASE snaps' # snaps
    BY <1>9, <1>10, <1>11, <2>2, SnapshotSteps
  <2>3. CASE ~UNCHANGED <<decisions, idem>>
    BY <1>10, <1>11, <1>12, <2>3, DecisionSteps
  <2>4. QED
    BY <2>1, <2>2, <2>3

(* Each version of the facts is a reading of the materials or one ruling,   *)
(* each version of the report one evaluation of the core or one decision,   *)
(* even when workers and submissions race or are repeated.                  *)
THEOREM VersionsAreAccountedFor == Spec => []EveryVersionIsAccountedFor
<1>1. Init => TypeInv /\ AccountInv
  BY InitTypeInv, InitAccount
<1>2. TypeInv /\ AccountInv /\ [Next]_vars => (TypeInv /\ AccountInv)'
  BY NextTypeInv, AccountsKept, PicksToResolveKept DEF AccountInv
<1>3. AccountInv => EveryVersionIsAccountedFor
  BY DEF AccountInv
<1>4. QED
  BY <1>1, <1>2, <1>3, PTL DEF Spec

-----------------------------------------------------------------------------
(* Answers at the fact gate.                                               *)

(* As long as a client can name a key, a Run that stops at the fact gate    *)
(* over a conflict can be answered: whatever else is open, more material    *)
(* can be asked for, and if nothing is missing or unusable a ruling on the  *)
(* conflicts leaves nothing open (submit_fact_review).                      *)
THEOREM FactGateHasAnAnswer ==
    ASSUME Keys # {}
    PROVE  Spec => []SomeAnswerIsAccepted
<1>1. ASSUME TypeInv PROVE SomeAnswerIsAccepted
  <2> SUFFICES ASSUME NEW f \in snaps, IsLatest(f, f.run, "FACT"),
                      f.body.issues \cap Conflicts # {}
               PROVE  \E ask, settle \in RequestsOn({f.version}) :
                        /\ ask.run = f.run /\ ask.action = "REQUEST_RESUBMISSION"
                        /\ FactRequestAdmissible(ask, f.body)
                        /\ f.body.issues \cap {"missing", "unusable"} = {} =>
                             /\ settle.run = f.run /\ settle.action = "RESOLVE"
                             /\ FactRequestAdmissible(settle, f.body)
                             /\ LeftOpen(settle, f.body) = {}
    BY DEF SomeAnswerIsAccepted
  <2>1. f.kind = "FACT" /\ f \in Snapshots
    BY <1>1 DEF IsLatest, TypeInv, TypeOK
  <2>2. f.run \in Runs /\ f.body \in FactBody
    BY <2>1 DEF Snapshots, MaterialKinds, CoreKinds
  <2>3. PICK key : key \in Keys
    OBVIOUS
  <2>4. PICK D : D = f.body.issues \cap Conflicts
    OBVIOUS
  <2>5. D \in (SUBSET Conflicts) \ {{}}
    BY <2>4
  <2> DEFINE Answer(a) == [run |-> f.run, gate |-> "FACT_REVIEW", key |-> key,
                           expected |-> f.version, action |-> a, decided |-> D]
  <2>6. \A a \in {"RESOLVE", "REQUEST_RESUBMISSION"} :
          /\ Answer(a) \in RequestsOn({f.version})
          /\ Answer(a).run = f.run /\ Answer(a).action = a /\ Answer(a).decided = D
    BY <2>2, <2>3, <2>5 DEF RequestsOn
  <2> HIDE DEF Answer
  <2>7. FactRequestAdmissible(Answer("REQUEST_RESUBMISSION"), f.body)
    BY <2>4, <2>6 DEF FactRequestAdmissible
  <2>8. FactRequestAdmissible(Answer("RESOLVE"), f.body)
    BY <2>4, <2>6 DEF FactRequestAdmissible, Conflicts
  <2>9. f.body.issues \cap {"missing", "unusable"} = {} =>
          LeftOpen(Answer("RESOLVE"), f.body) = {}
    BY <2>2, <2>4, <2>6 DEF LeftOpen, FactBody, Issues, Conflicts
  <2>10. QED
    BY <2>6, <2>7, <2>8, <2>9
<1>2. Spec => []TypeInv
  BY InitTypeInv, NextTypeInv, PTL DEF Spec
<1>3. QED
  BY <1>1, <1>2, PTL
=============================================================================
