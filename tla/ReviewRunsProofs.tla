-------------------------- MODULE ReviewRunsProofs --------------------------
(***************************************************************************)
(* Proofs about ReviewRuns, for any number of Runs, workers, requests in   *)
(* flight and keys, and any material outcomes.                             *)
(***************************************************************************)
EXTENDS ReviewRuns, FiniteSetTheorems, TLAPS

(* The versions of each kind are an initial segment of the naturals: the    *)
(* form of SnapshotHistory the induction runs on.                           *)
Gapless == \A r \in Runs, k \in SnapshotKinds :
             \E n \in Nat : Versions(snaps, r, k) = 1..n

(* A worker that is doing something does it for a Run.                      *)
WorkersHaveRuns ==
    \A w \in Workers : worker[w].pc \notin {"idle", "down"} =>
                         worker[w].run \in Runs

(* A request in flight is one, and once checked it remembers the snapshot   *)
(* it was checked against, as it is in the table.                           *)
RequestsHaveSnapshots ==
    \A c \in Clients :
      /\ client[c].pc # "free" => client[c].req \in Requests
      /\ client[c].pc \in {"checked", "picked"} =>
           /\ client[c].current \in snaps
           /\ client[c].current.run = client[c].req.run
           /\ client[c].current.kind = ReviewedKind(client[c].req.gate)
           /\ client[c].current.version = client[c].req.expected
           /\ client[c].req.gate = "REPORT_REVIEW" =>
                ReportRequestAdmissible(client[c].req, client[c].current.body)

(* A version read and not yet used is at most one past the last.            *)
PicksInReach ==
    /\ \A w \in Workers :
         /\ worker[w].pc = "parsed" =>
              worker[w].version \in 1..NextVersion(snaps, worker[w].run, "PARSE")
         /\ worker[w].pc = "drafting" =>
              worker[w].version \in 1..NextVersion(snaps, worker[w].run, "RETRIEVAL")
    /\ \A c \in Clients : client[c].pc = "picked" =>
         client[c].version \in 1..NextVersion(snaps, client[c].req.run,
                                              ReviewedKind(client[c].req.gate))

TypeInv == TypeOK /\ Gapless /\ WorkersHaveRuns /\ RequestsHaveSnapshots
             /\ PicksInReach

-----------------------------------------------------------------------------
(* Versions.                                                               *)

(* What the version helpers return when the versions are 1..n: the last is  *)
(* n, the next n + 1.                                                       *)
LEMMA VersionArithmetic ==
    ASSUME NEW S, NEW r, NEW k, NEW n \in Nat, Versions(S, r, k) = 1..n
    PROVE  LastVersion(S, r, k) = n /\ NextVersion(S, r, k) = n + 1
<1>1. CASE n = 0
  BY <1>1 DEF LastVersion, NextVersion
<1>2. CASE n # 0
  <2>1. n \in 1..n /\ \A m \in 1..n : n >= m
    BY <1>2
  <2>2. Max(1..n) = n
    BY <2>1 DEF Max
  <2>3. 1..n # {}
    BY <2>1
  <2>4. QED
    BY <2>2, <2>3 DEF LastVersion, NextVersion
<1>3. QED
  BY <1>1, <1>2

(* The next version is a positive natural that no row has yet.              *)
LEMMA NextVersionIsFree ==
    ASSUME Gapless, NEW r \in Runs, NEW k \in SnapshotKinds
    PROVE  /\ NextVersion(snaps, r, k) \in Nat \ {0}
           /\ NextVersion(snaps, r, k) \notin Versions(snaps, r, k)
<1>1. PICK n \in Nat : Versions(snaps, r, k) = 1..n
  BY DEF Gapless
<1>2. NextVersion(snaps, r, k) = n + 1
  BY <1>1, VersionArithmetic
<1>3. QED
  BY <1>1, <1>2

(* A version within reach that is not taken is the next one.                *)
LEMMA FreePickIsNext ==
    ASSUME Gapless, NEW r \in Runs, NEW k \in SnapshotKinds, NEW v,
           v \in 1..NextVersion(snaps, r, k), v \notin Versions(snaps, r, k)
    PROVE  v = NextVersion(snaps, r, k)
<1>1. PICK n \in Nat : Versions(snaps, r, k) = 1..n
  BY DEF Gapless
<1>2. NextVersion(snaps, r, k) = n + 1
  BY <1>1, VersionArithmetic
<1>3. QED
  BY <1>1, <1>2

(* Rows at the next versions, at most one of a kind, all of one Run.        *)
FreshRows(T, r) ==
    /\ \A s \in T : /\ s.run = r /\ s.kind \in SnapshotKinds
                    /\ s.version = NextVersion(snaps, r, s.kind)
    /\ \A s, t \in T : s.kind = t.kind => s = t

(* Such rows leave the versions gapless.                                    *)
LEMMA FreshRowsGapless ==
    ASSUME Gapless, NEW T, NEW r \in Runs, FreshRows(T, r), snaps' = snaps \cup T
    PROVE  Gapless'
<1> SUFFICES ASSUME NEW q \in Runs, NEW k \in SnapshotKinds
             PROVE  \E n \in Nat : Versions(snaps', q, k) = 1..n
  BY DEF Gapless
<1>1. PICK n \in Nat : Versions(snaps, q, k) = 1..n
  BY DEF Gapless
<1>2. Versions(snaps', q, k) = (1..n) \cup Versions(T, q, k)
  BY <1>1 DEF Versions
<1>3. NextVersion(snaps, q, k) = n + 1
  BY <1>1, VersionArithmetic
<1>4. CASE Versions(T, q, k) = {}
  BY <1>2, <1>4
<1>5. CASE Versions(T, q, k) # {}
  <2>1. Versions(T, q, k) = {n + 1}
    BY <1>3, <1>5 DEF Versions, FreshRows
  <2>2. (1..n) \cup {n + 1} = 1..(n + 1) /\ n + 1 \in Nat
    OBVIOUS
  <2>3. Versions(snaps', q, k) = 1..(n + 1)
    BY <1>2, <2>1, <2>2
  <2>4. QED
    BY <2>2, <2>3
<1>6. QED
  BY <1>4, <1>5

(* The next version never goes back.                                        *)
LEMMA NextVersionGrows ==
    ASSUME Gapless, Gapless', snaps \subseteq snaps',
           NEW r \in Runs, NEW k \in SnapshotKinds
    PROVE  1..NextVersion(snaps, r, k) \subseteq 1..NextVersion(snaps', r, k)
<1>1. PICK n \in Nat : Versions(snaps, r, k) = 1..n
  BY DEF Gapless
<1>2. PICK m \in Nat : Versions(snaps', r, k) = 1..m
  BY DEF Gapless
<1>3. 1..n \subseteq 1..m
  <2>1. Versions(snaps, r, k) \subseteq Versions(snaps', r, k)
    BY DEF Versions
  <2>2. QED
    BY <1>1, <1>2, <2>1
<1>4. n <= m
  BY <1>3
<1>5. NextVersion(snaps, r, k) = n + 1 /\ NextVersion(snaps', r, k) = m + 1
  BY <1>1, <1>2, VersionArithmetic
<1>6. QED
  BY <1>4, <1>5

-----------------------------------------------------------------------------
(* The rows the transactions write are typed and fresh.                     *)

(* Next versions are naturals.                                              *)
LEMMA NextVersionType ==
    ASSUME Gapless, NEW r \in Runs
    PROVE  \A k \in SnapshotKinds : NextVersion(snaps, r, k) \in Nat
BY NextVersionIsFree

(* The three rows of the material stage fit the table and take the next     *)
(* versions, provided the PARSE version read earlier still is the next.     *)
LEMMA MaterialRowsFresh ==
    ASSUME Gapless, NEW r \in Runs, NEW body \in FactBody,
           NEW v, v = NextVersion(snaps, r, "PARSE")
    PROVE  /\ MaterialRows(snaps, r, v, body) \subseteq Snapshots
           /\ FreshRows(MaterialRows(snaps, r, v, body), r)
<1> DEFINE N(k) == NextVersion(snaps, r, k)
<1>1. MaterialRows(snaps, r, v, body) = {Row(r, k, N(k), body) : k \in MaterialKinds}
  BY DEF MaterialRows, MaterialKinds
<1>2. \A k \in MaterialKinds : k \in SnapshotKinds /\ N(k) \in Nat
  BY NextVersionType DEF SnapshotKinds
<1> HIDE DEF N
<1>3. \A k \in MaterialKinds : Row(r, k, N(k), body) \in Snapshots
  BY <1>2 DEF Row, Snapshots
<1>4. \A k \in MaterialKinds :
         /\ Row(r, k, N(k), body).run = r
         /\ Row(r, k, N(k), body).kind = k
         /\ Row(r, k, N(k), body).version = N(k)
  BY DEF Row
<1>5. QED
  BY <1>1, <1>2, <1>3, <1>4 DEF FreshRows, N

(* So do the rows of evaluate_review_core, which all name the facts they    *)
(* are derived from.                                                        *)
LEMMA CoreRowsFresh ==
    ASSUME Gapless, NEW r \in Runs, NEW facts \in Nat, NEW outcome \in Outcomes,
           NEW v, v = NextVersion(snaps, r, "RETRIEVAL")
    PROVE  /\ CoreRows(snaps, r, v, facts, outcome) \subseteq Snapshots
           /\ FreshRows(CoreRows(snaps, r, v, facts, outcome), r)
           /\ \A s \in CoreRows(snaps, r, v, facts, outcome) :
                /\ s.kind \in CoreKinds \cup {"REPORT"} /\ s.body.facts = facts
                /\ s.kind = "REPORT" => s.body.status = "AWAITING_REVIEW"
<1> DEFINE N(k) == NextVersion(snaps, r, k)
           core == [facts |-> facts, outcome |-> outcome]
           report == [facts |-> facts, outcome |-> outcome,
                      status |-> "AWAITING_REVIEW"]
           B(k) == IF k = "REPORT" THEN report ELSE core
           K == CoreKinds \cup {"REPORT"}
<1>1. CoreRows(snaps, r, v, facts, outcome) = {Row(r, k, N(k), B(k)) : k \in K}
  <2>1. CoreRows(snaps, r, v, facts, outcome)
          = {Row(r, "RETRIEVAL", N("RETRIEVAL"), core)}
              \cup {Row(r, k, N(k), core) : k \in CoreKinds \ {"RETRIEVAL"}}
              \cup {Row(r, "REPORT", N("REPORT"), report)}
    BY DEF CoreRows
  <2> HIDE DEF N, core, report
  <2>2. QED
    BY <2>1 DEF CoreKinds
<1>2. \A k \in K : k \in SnapshotKinds /\ N(k) \in Nat
  BY NextVersionType DEF SnapshotKinds
<1>3. core \in CoreBody /\ report \in ReportBody
  BY DEF CoreBody, ReportBody, ReportStatus
<1>4. /\ core.facts = facts /\ report.facts = facts
      /\ report.status = "AWAITING_REVIEW"
  OBVIOUS
<1> HIDE DEF N, core, report
<1>5. \A k \in K : Row(r, k, N(k), B(k)) \in Snapshots
  BY <1>2, <1>3 DEF Row, Snapshots, CoreKinds
<1>6. \A k \in K : /\ Row(r, k, N(k), B(k)).run = r
                   /\ Row(r, k, N(k), B(k)).kind = k
                   /\ Row(r, k, N(k), B(k)).version = N(k)
                   /\ Row(r, k, N(k), B(k)).body = B(k)
  BY DEF Row
<1> HIDE DEF B, K
<1>7. CoreRows(snaps, r, v, facts, outcome) \subseteq Snapshots
  BY <1>1, <1>5
<1>8. FreshRows(CoreRows(snaps, r, v, facts, outcome), r)
  BY <1>1, <1>2, <1>6 DEF FreshRows, N
<1>9. /\ \A k \in K : B(k).facts = facts
      /\ B("REPORT").status = "AWAITING_REVIEW"
  BY <1>4 DEF B
<1>10. QED
  BY <1>1, <1>6, <1>7, <1>8, <1>9 DEF K

-----------------------------------------------------------------------------
(* Type correctness.                                                       *)

(* Initially nothing exists and nobody remembers anything.                  *)
LEMMA InitTypeInv == Init => TypeInv
<1> SUFFICES ASSUME Init PROVE TypeInv
  OBVIOUS
<1> USE DEF Init
<1>1. TypeOK
  BY FailuresAssumption
     DEF TypeOK, RunRow, RunStatus, TaskRow, JobStatus, WorkerStates, WorkerPC,
         Idle, ClientStates, ClientPC, Free
<1>2. Gapless
  <2>1. \A r \in Runs, k \in SnapshotKinds : Versions(snaps, r, k) = 1..0
    BY DEF Versions
  <2>2. QED
    BY <2>1 DEF Gapless
<1>3. WorkersHaveRuns
  BY DEF WorkersHaveRuns, Idle
<1>4. RequestsHaveSnapshots
  BY DEF RequestsHaveSnapshots, Free
<1>5. PicksInReach
  BY DEF PicksInReach, Idle, Free
<1>6. QED
  BY <1>1, <1>2, <1>3, <1>4, <1>5 DEF TypeInv

(* What remains of the invariant when a step keeps the snapshot table       *)
(* gapless, releases workers and requests or lets a worker remember a next  *)
(* version.                                                                 *)
LEMMA TypeInvFrame ==
    ASSUME TypeInv, TypeOK', Gapless', snaps \subseteq snaps',
           \A w \in Workers :
             \/ worker'[w] = worker[w]
             \/ worker'[w].pc \in {"idle", "down"}
             \/ /\ worker'[w].run \in Runs
                /\ worker'[w].pc \notin {"parsed", "drafting"}
             \/ /\ worker'[w].run \in Runs /\ worker'[w].pc = "parsed"
                /\ worker'[w].version
                     = NextVersion(snaps, worker'[w].run, "PARSE")
             \/ /\ worker'[w].run \in Runs /\ worker'[w].pc = "drafting"
                /\ worker'[w].version
                     = NextVersion(snaps, worker'[w].run, "RETRIEVAL"),
           \A c \in Clients : client'[c] = client[c] \/ client'[c].pc = "free"
    PROVE  TypeInv'
<1>3. \A q \in Runs, k \in SnapshotKinds :
         1..NextVersion(snaps, q, k) \subseteq 1..NextVersion(snaps', q, k)
  BY NextVersionGrows DEF TypeInv
<1>4. WorkersHaveRuns'
  BY DEF TypeInv, WorkersHaveRuns
<1>5. RequestsHaveSnapshots'
  BY DEF TypeInv, RequestsHaveSnapshots
<1>6. PicksInReach'
  <2>1. ASSUME NEW w \in Workers, worker'[w].pc = "parsed"
        PROVE  worker'[w].version
                 \in 1..NextVersion(snaps', worker'[w].run, "PARSE")
    <3>1. worker'[w].run \in Runs
      BY <2>1 DEF TypeInv, WorkersHaveRuns
    <3>2. worker'[w].version \in 1..NextVersion(snaps, worker'[w].run, "PARSE")
      <4>1. CASE worker'[w] = worker[w]
        BY <2>1, <4>1 DEF TypeInv, PicksInReach
      <4>2. CASE worker'[w].version = NextVersion(snaps, worker'[w].run, "PARSE")
        BY <3>1, <4>2, NextVersionIsFree
           DEF TypeInv, SnapshotKinds, MaterialKinds
      <4>3. QED
        BY <2>1, <4>1, <4>2
    <3>3. QED
      BY <3>1, <3>2, <1>3 DEF SnapshotKinds, MaterialKinds
  <2>2. ASSUME NEW w \in Workers, worker'[w].pc = "drafting"
        PROVE  worker'[w].version
                 \in 1..NextVersion(snaps', worker'[w].run, "RETRIEVAL")
    <3>1. worker'[w].run \in Runs
      BY <2>2 DEF TypeInv, WorkersHaveRuns
    <3>2. worker'[w].version \in 1..NextVersion(snaps, worker'[w].run, "RETRIEVAL")
      <4>1. CASE worker'[w] = worker[w]
        BY <2>2, <4>1 DEF TypeInv, PicksInReach
      <4>2. CASE worker'[w].version = NextVersion(snaps, worker'[w].run, "RETRIEVAL")
        BY <3>1, <4>2, NextVersionIsFree
           DEF TypeInv, SnapshotKinds, CoreKinds
      <4>3. QED
        BY <2>2, <4>1, <4>2
    <3>3. QED
      BY <3>1, <3>2, <1>3 DEF SnapshotKinds, CoreKinds
  <2>3. ASSUME NEW c \in Clients, client'[c].pc = "picked"
        PROVE  client'[c].version
                 \in 1..NextVersion(snaps', client'[c].req.run,
                                    ReviewedKind(client'[c].req.gate))
    <3>1. client'[c] = client[c] /\ client[c].req \in Requests
      BY <2>3 DEF TypeInv, RequestsHaveSnapshots
    <3>2. client[c].req.run \in Runs
      BY <3>1 DEF Requests, RequestsOn
    <3>3. ReviewedKind(client[c].req.gate) \in SnapshotKinds
      BY DEF ReviewedKind, SnapshotKinds, MaterialKinds
    <3>4. QED
      BY <2>3, <3>1, <3>2, <3>3, <1>3 DEF TypeInv, PicksInReach
  <2>4. QED
    BY <2>1, <2>2, <2>3 DEF PicksInReach
<1>7. QED
  BY <1>4, <1>5, <1>6 DEF TypeInv

(* The steps of a worker keep the invariant.                                *)
LEMMA WorkerStepTypeInv ==
    ASSUME TypeInv, NEW w \in Workers, WorkerStep(w)
    PROVE  TypeInv'
<1>0. /\ TypeOK /\ Gapless /\ WorkersHaveRuns /\ PicksInReach
      /\ worker \in [Workers -> WorkerStates] /\ run \in [Runs -> RunRow]
      /\ task \in [Runs -> TaskRow] /\ snaps \subseteq Snapshots
  BY DEF TypeInv, TypeOK
<1>00. snaps' = snaps => Gapless' /\ snaps \subseteq snaps'
  BY <1>0 DEF Gapless
<1>1. CASE Select(w)
  <2>1. PICK r \in Runs :
          worker' = [worker EXCEPT ![w] = [Idle EXCEPT !.pc = "selected",
                                                       !.run = r]]
    BY <1>1 DEF Select
  <2>2. UNCHANGED <<tables, client, failures>>
    BY <1>1 DEF Select
  <2>3. [Idle EXCEPT !.pc = "selected", !.run = r] \in WorkerStates
    BY DEF Idle, WorkerStates, WorkerPC
  <2>4. TypeOK'
    BY <1>0, <2>1, <2>2, <2>3 DEF TypeOK, tables
  <2>5. \A x \in Workers : \/ worker'[x] = worker[x]
                           \/ /\ worker'[x].run \in Runs
                              /\ worker'[x].pc \notin {"parsed", "drafting"}
    BY <1>0, <2>1 DEF Idle
  <2>6. QED
    BY <2>2, <2>4, <2>5, <1>00, TypeInvFrame DEF tables
<1>2. CASE Claim(w)
  <2> DEFINE r == worker[w].run
  <2>1. r \in Runs
    BY <1>0, <1>2 DEF Claim, WorkersHaveRuns
  <2>2. TypeOK'
    <3>1. run' \in [Runs -> RunRow]
      BY <1>0, <1>2, <2>1 DEF Claim, RunRow, RunStatus
    <3>2. task' \in [Runs -> TaskRow]
      BY <1>0, <1>2, <2>1 DEF Claim, TaskRow, JobStatus
    <3>3. worker' \in [Workers -> WorkerStates]
      BY <1>0, <1>2 DEF Claim, WorkerStates, WorkerPC
    <3>4. QED
      BY <1>0, <1>2, <3>1, <3>2, <3>3 DEF Claim, TypeOK
  <2>3. \A x \in Workers : \/ worker'[x] = worker[x]
                           \/ /\ worker'[x].run \in Runs
                              /\ worker'[x].pc \notin {"parsed", "drafting"}
    BY <1>0, <1>2, <2>1 DEF Claim, WorkerStates
  <2>4. QED
    BY <1>2, <2>1, <2>2, <2>3, <1>00, TypeInvFrame DEF Claim
<1>3. CASE ReadMaterials(w)
  <2> DEFINE r == worker[w].run
             n == NextVersion(snaps, r, "PARSE")
  <2>1. r \in Runs /\ n \in Nat
    BY <1>0, <1>3, NextVersionType
       DEF ReadMaterials, WorkersHaveRuns, SnapshotKinds, MaterialKinds
  <2>2. worker' = [worker EXCEPT ![w].pc = "parsed", ![w].version = n]
    BY <1>3 DEF ReadMaterials
  <2>3. UNCHANGED <<tables, client, failures>>
    BY <1>3 DEF ReadMaterials
  <2> HIDE DEF n
  <2>4. TypeOK'
    <3>1. worker' \in [Workers -> WorkerStates]
      BY <1>0, <2>1, <2>2 DEF WorkerStates, WorkerPC
    <3>2. QED
      BY <1>0, <2>3, <3>1 DEF TypeOK, tables
  <2>5. \A x \in Workers :
          \/ worker'[x] = worker[x]
          \/ /\ worker'[x].run \in Runs /\ worker'[x].pc = "parsed"
             /\ worker'[x].version = NextVersion(snaps, worker'[x].run, "PARSE")
    BY <1>0, <2>1, <2>2 DEF WorkerStates, n
  <2>6. QED
    BY <2>1, <2>3, <2>4, <2>5, <1>00, TypeInvFrame DEF tables
<1>4. CASE FileFacts(w)
  <2> DEFINE r == worker[w].run
             v == worker[w].version
  <2>1. PICK issues \in MaterialOutcomes :
          LET body == [issues |-> issues, settled |-> {},
                       review |-> NeedsReview(issues)]
          IN  /\ snaps' = snaps \cup MaterialRows(snaps, r, v, body)
              /\ materials' = IF "document" \in issues
                              THEN "NEEDS_REVIEW" ELSE "PARSED"
              /\ worker' = [worker EXCEPT
                              ![w].pc = IF NeedsReview(issues)
                                        THEN "disputed" ELSE "filed",
                              ![w].version = 0]
    BY <1>4 DEF FileFacts
  <2> DEFINE body == [issues |-> issues, settled |-> {},
                      review |-> NeedsReview(issues)]
             T == MaterialRows(snaps, r, v, body)
  <2>2. r \in Runs
    BY <1>0, <1>4 DEF FileFacts, WorkersHaveRuns
  <2>3. v = NextVersion(snaps, r, "PARSE")
    BY <1>0, <1>4, <2>2, FreePickIsNext
       DEF FileFacts, VersionFree, PicksInReach, SnapshotKinds, MaterialKinds
  <2>4. body \in FactBody
    BY OutcomesAssumption DEF FactBody, NeedsReview
  <2>5. T \subseteq Snapshots /\ FreshRows(T, r)
    BY <1>0, <2>2, <2>3, <2>4, MaterialRowsFresh
  <2>6. snaps' = snaps \cup T
    BY <2>1
  <2> HIDE DEF T, body, v
  <2>7. TypeOK'
    <3>1. run' = run
      BY <1>4 DEF FileFacts
    <3>2. worker' \in [Workers -> WorkerStates]
      <4>1. PICK pc \in WorkerPC :
              worker' = [worker EXCEPT ![w].pc = pc, ![w].version = 0]
        BY <2>1 DEF WorkerPC
      <4>2. QED
        BY <1>0, <4>1 DEF WorkerStates
    <3>3. UNCHANGED <<task, created, decisions, idem, client, failures>>
      BY <1>4 DEF FileFacts
    <3>4. QED
      BY <1>0, <2>1, <2>5, <2>6, <3>1, <3>2, <3>3 DEF TypeOK
  <2>8. \A x \in Workers : \/ worker'[x] = worker[x]
                           \/ /\ worker'[x].run \in Runs
                              /\ worker'[x].pc \notin {"parsed", "drafting"}
    BY <1>0, <2>1, <2>2 DEF WorkerStates
  <2>9. UNCHANGED client
    BY <1>4 DEF FileFacts
  <2>10. Gapless' /\ snaps \subseteq snaps'
    BY <1>0, <2>2, <2>5, <2>6, FreshRowsGapless
  <2>11. QED
    BY <2>7, <2>8, <2>9, <2>10, TypeInvFrame
<1>5. CASE OpenFactGate(w)
  <2> DEFINE r == worker[w].run
  <2>1. r \in Runs
    BY <1>0, <1>5 DEF OpenFactGate, WorkersHaveRuns
  <2>2. TypeOK'
    <3>1. run' \in [Runs -> RunRow]
      BY <1>0, <1>5, <2>1 DEF OpenFactGate, RunRow, RunStatus, Gates
    <3>2. task' \in [Runs -> TaskRow]
      BY <1>0, <1>5, <2>1 DEF OpenFactGate, TaskRow, JobStatus
    <3>3. worker' \in [Workers -> WorkerStates]
      BY <1>0, <1>5 DEF OpenFactGate, WorkerStates, WorkerPC, Idle
    <3>4. QED
      BY <1>0, <1>5, <3>1, <3>2, <3>3 DEF OpenFactGate, TypeOK
  <2>3. \A x \in Workers : worker'[x] = worker[x] \/ worker'[x].pc = "idle"
    BY <1>0, <1>5 DEF OpenFactGate, Idle
  <2>4. QED
    BY <1>5, <2>1, <2>2, <2>3, <1>00, TypeInvFrame DEF OpenFactGate
<1>6. CASE StartCore(w)
  <2> DEFINE r == worker[w].run
  <2>1. PICK facts \in snaps :
          worker' = [worker EXCEPT ![w].pc = "evaluating",
                                   ![w].facts = facts.version]
    BY <1>6 DEF StartCore
  <2>2. facts.version \in Nat
    BY <1>0 DEF Snapshots
  <2>3. UNCHANGED <<tables, client, failures>>
    BY <1>6 DEF StartCore
  <2>4. r \in Runs
    BY <1>0, <1>6 DEF StartCore, WorkersHaveRuns
  <2>5. TypeOK'
    <3>1. worker' \in [Workers -> WorkerStates]
      BY <1>0, <2>1, <2>2 DEF WorkerStates, WorkerPC
    <3>2. QED
      BY <1>0, <2>3, <3>1 DEF TypeOK, tables
  <2>6. \A x \in Workers : \/ worker'[x] = worker[x]
                           \/ /\ worker'[x].run \in Runs
                              /\ worker'[x].pc \notin {"parsed", "drafting"}
    BY <1>0, <2>1, <2>4 DEF WorkerStates
  <2>7. QED
    BY <2>3, <2>4, <2>5, <2>6, <1>00, TypeInvFrame DEF tables
<1>7. CASE PickCore(w)
  <2> DEFINE r == worker[w].run
             n == NextVersion(snaps, r, "RETRIEVAL")
  <2>1. r \in Runs /\ n \in Nat
    BY <1>0, <1>7, NextVersionType
       DEF PickCore, WorkersHaveRuns, SnapshotKinds, CoreKinds
  <2>2. worker' = [worker EXCEPT ![w].pc = "drafting", ![w].version = n]
    BY <1>7 DEF PickCore
  <2>3. UNCHANGED <<tables, client, failures>>
    BY <1>7 DEF PickCore
  <2> HIDE DEF n
  <2>4. TypeOK'
    <3>1. worker' \in [Workers -> WorkerStates]
      BY <1>0, <2>1, <2>2 DEF WorkerStates, WorkerPC
    <3>2. QED
      BY <1>0, <2>3, <3>1 DEF TypeOK, tables
  <2>5. \A x \in Workers :
          \/ worker'[x] = worker[x]
          \/ /\ worker'[x].run \in Runs /\ worker'[x].pc = "drafting"
             /\ worker'[x].version
                  = NextVersion(snaps, worker'[x].run, "RETRIEVAL")
    BY <1>0, <2>1, <2>2 DEF WorkerStates, n
  <2>6. QED
    BY <2>1, <2>3, <2>4, <2>5, <1>00, TypeInvFrame DEF tables
<1>8. CASE OpenReportGate(w)
  <2> DEFINE r == worker[w].run
             v == worker[w].version
             f == worker[w].facts
  <2>1. PICK outcome \in Outcomes :
          /\ snaps' = snaps \cup CoreRows(snaps, r, v, f, outcome)
          /\ run' = [run EXCEPT ![r].status = "WAITING_REPORT_REVIEW",
                                ![r].gate = "REPORT_REVIEW"]
          /\ task' = [task EXCEPT ![r].status = "SUCCEEDED"]
    BY <1>8 DEF OpenReportGate
  <2> DEFINE T == CoreRows(snaps, r, v, f, outcome)
  <2>2. r \in Runs /\ f \in Nat
    BY <1>0, <1>8 DEF OpenReportGate, WorkersHaveRuns, WorkerStates
  <2>3. v = NextVersion(snaps, r, "RETRIEVAL")
    BY <1>0, <1>8, <2>2, FreePickIsNext
       DEF OpenReportGate, VersionFree, PicksInReach, SnapshotKinds, CoreKinds
  <2>4. T \subseteq Snapshots /\ FreshRows(T, r)
    BY <1>0, <2>2, <2>3, CoreRowsFresh
  <2>5. snaps' = snaps \cup T
    BY <2>1
  <2> HIDE DEF T, v, f
  <2>6. TypeOK'
    <3>1. run' \in [Runs -> RunRow]
      BY <1>0, <2>1, <2>2 DEF RunRow, RunStatus, Gates
    <3>2. task' \in [Runs -> TaskRow]
      BY <1>0, <2>1, <2>2 DEF TaskRow, JobStatus
    <3>3. worker' \in [Workers -> WorkerStates]
      BY <1>0, <1>8 DEF OpenReportGate, WorkerStates, WorkerPC, Idle
    <3>4. UNCHANGED <<created, materials, decisions, idem, client, failures>>
      BY <1>8 DEF OpenReportGate
    <3>5. QED
      BY <1>0, <2>4, <2>5, <3>1, <3>2, <3>3, <3>4 DEF TypeOK
  <2>7. \A x \in Workers : worker'[x] = worker[x] \/ worker'[x].pc = "idle"
    BY <1>0, <1>8 DEF OpenReportGate, Idle
  <2>8. UNCHANGED client
    BY <1>8 DEF OpenReportGate
  <2>9. Gapless' /\ snaps \subseteq snaps'
    BY <1>0, <2>2, <2>4, <2>5, FreshRowsGapless
  <2>10. QED
    BY <2>6, <2>7, <2>8, <2>9, TypeInvFrame
<1>9. CASE WorkerRaises(w)
  <2>1. worker' = [worker EXCEPT ![w] = Down]
    BY <1>9 DEF WorkerRaises
  <2>2. UNCHANGED <<tables, client, failures>>
    BY <1>9 DEF WorkerRaises
  <2>3. TypeOK'
    BY <1>0, <2>1, <2>2
       DEF TypeOK, tables, Down, Idle, WorkerStates, WorkerPC
  <2>4. \A x \in Workers : worker'[x] = worker[x] \/ worker'[x].pc = "down"
    BY <1>0, <2>1 DEF Down, Idle
  <2>5. worker[w].run \in Runs
    BY <1>0, <1>9 DEF WorkerRaises, WorkersHaveRuns
  <2>6. QED
    BY <2>2, <2>3, <2>4, <2>5, <1>00, TypeInvFrame DEF tables
<1>10. QED
  BY <1>1, <1>2, <1>3, <1>4, <1>5, <1>6, <1>7, <1>8, <1>9 DEF WorkerStep

(* A slot without a request is a client state.                              *)
LEMMA FreeIsAState == Free \in ClientStates
BY DEF Free, ClientStates, ClientPC

(* A step that only changes what one request remembers.                     *)
LEMMA ClientFrame ==
    ASSUME TypeInv, NEW c \in Clients, NEW s \in ClientStates,
           client' = [client EXCEPT ![c] = s],
           UNCHANGED <<tables, worker, failures>>,
           s.pc # "free" => s.req \in Requests,
           s.pc \in {"checked", "picked"} =>
             /\ s.current \in snaps
             /\ s.current.run = s.req.run
             /\ s.current.kind = ReviewedKind(s.req.gate)
             /\ s.current.version = s.req.expected
             /\ s.req.gate = "REPORT_REVIEW" =>
                  ReportRequestAdmissible(s.req, s.current.body),
           s.pc = "picked" =>
             s.version \in 1..NextVersion(snaps, s.req.run, ReviewedKind(s.req.gate))
    PROVE  TypeInv'
<1>1. client \in [Clients -> ClientStates]
  BY DEF TypeInv, TypeOK
<1>2. client' \in [Clients -> ClientStates]
  BY <1>1
<1>3. \A x \in Clients : client'[x] = IF x = c THEN s ELSE client[x]
  BY <1>1
<1>4. TypeOK'
  BY <1>2 DEF TypeInv, TypeOK, tables
<1>5. snaps' = snaps /\ worker' = worker
  BY DEF tables
<1>6. Gapless' /\ WorkersHaveRuns'
  BY <1>5 DEF TypeInv, Gapless, WorkersHaveRuns
<1>7. RequestsHaveSnapshots'
  BY <1>3, <1>5 DEF TypeInv, RequestsHaveSnapshots
<1>8. PicksInReach'
  BY <1>3, <1>5 DEF TypeInv, PicksInReach
<1>9. QED
  BY <1>4, <1>6, <1>7, <1>8 DEF TypeInv

(* The steps of a request keep the invariant.                               *)
LEMMA ClientStepTypeInv ==
    ASSUME TypeInv, NEW c \in Clients, ClientStep(c)
    PROVE  TypeInv'
<1> DEFINE q == client[c].req
           r == q.run
           v == client[c].version
<1>1. /\ TypeOK /\ Gapless /\ RequestsHaveSnapshots /\ PicksInReach
      /\ client \in [Clients -> ClientStates]
      /\ run \in [Runs -> RunRow] /\ task \in [Runs -> TaskRow]
      /\ snaps \subseteq Snapshots /\ decisions \subseteq Decisions
      /\ idem \subseteq IdempotencyRecords
  BY DEF TypeInv, TypeOK
<1>2. client[c] \in ClientStates
  BY <1>1
<1>3. ASSUME client[c].pc # "free"
      PROVE  /\ q \in Requests /\ r \in Runs
             /\ q.gate \in Gates /\ ReviewedKind(q.gate) \in SnapshotKinds
             /\ q.key \in Keys /\ q.expected \in Nat
  <2>1. q \in Requests
    BY <1>1, <1>3 DEF RequestsHaveSnapshots
  <2>2. QED
    BY <2>1 DEF Requests, RequestsOn, Gates, ReviewedKind, SnapshotKinds,
                MaterialKinds
<1>4. CASE Arrive(c)
  <2>1. PICK req \in RequestsOn({s.version : s \in snaps}) :
          client' = [client EXCEPT ![c] = [Free EXCEPT !.pc = "loaded",
                                                       !.req = req]]
    BY <1>4 DEF Arrive
  <2>2. {s.version : s \in snaps} \subseteq Nat
    BY <1>1 DEF Snapshots
  <2>3. req \in Requests
    BY <2>1, <2>2 DEF Requests, RequestsOn
  <2> DEFINE s == [Free EXCEPT !.pc = "loaded", !.req = req]
  <2>4. s \in ClientStates /\ s.pc = "loaded" /\ s.req = req
    BY <2>3 DEF Free, ClientStates, ClientPC
  <2>5. client' = [client EXCEPT ![c] = s]
    BY <2>1
  <2>6. UNCHANGED <<tables, worker, failures>>
    BY <1>4 DEF Arrive
  <2> HIDE DEF s
  <2>7. QED
    BY <2>3, <2>4, <2>5, <2>6, ClientFrame
<1>5. CASE Check(c)
  <2>1. PICK current \in snaps :
          /\ IsLatest(current, r, ReviewedKind(q.gate))
          /\ q.expected = current.version
          /\ \/ /\ q.gate = "FACT_REVIEW"
                /\ FactRequestAdmissible(q, current.body)
             \/ /\ q.gate = "REPORT_REVIEW"
                /\ ReportRequestAdmissible(q, current.body)
          /\ client' = [client EXCEPT ![c].pc = "checked",
                                      ![c].current = current]
    BY <1>5 DEF Check
  <2> DEFINE s == [client[c] EXCEPT !.pc = "checked", !.current = current]
  <2>2. q \in Requests
    BY <1>3, <1>5 DEF Check
  <2>3. /\ s \in ClientStates /\ s.pc = "checked"
        /\ s.req = q /\ s.current = current
    BY <1>1, <1>2, <2>1 DEF ClientStates, ClientPC
  <2>4. client' = [client EXCEPT ![c] = s]
    BY <1>1, <2>1 DEF ClientStates
  <2>5. UNCHANGED <<tables, worker, failures>>
    BY <1>5 DEF Check
  <2>6. q.gate = "REPORT_REVIEW" => ReportRequestAdmissible(q, current.body)
    BY <2>1
  <2>7. /\ current.run = q.run /\ current.kind = ReviewedKind(q.gate)
        /\ current.version = q.expected
    BY <2>1 DEF IsLatest
  <2> HIDE DEF s, q
  <2>8. QED
    BY <2>1, <2>2, <2>3, <2>4, <2>5, <2>6, <2>7, ClientFrame
<1>6. CASE Pick(c)
  <2> DEFINE n == NextVersion(snaps, r, ReviewedKind(q.gate))
             s == [client[c] EXCEPT !.pc = "picked", !.version = n]
  <2>1. /\ client[c].pc = "checked"
        /\ client' = [client EXCEPT ![c].pc = "picked", ![c].version = n]
        /\ UNCHANGED <<tables, worker, failures>>
    BY <1>6 DEF Pick
  <2>2. n \in Nat /\ n \in 1..n
    BY <1>1, <1>3, <2>1, NextVersionIsFree
  <2>3. s \in ClientStates /\ s = [client[c] EXCEPT !.pc = "picked", !.version = n]
    BY <1>2, <2>2 DEF ClientStates, ClientPC
  <2>4. /\ s.pc = "picked" /\ s.req = q /\ s.version = n
        /\ s.current = client[c].current
    BY <1>2 DEF ClientStates
  <2>5. client' = [client EXCEPT ![c] = s]
    BY <1>1, <2>1 DEF ClientStates
  <2>6. /\ q \in Requests
        /\ client[c].current \in snaps
        /\ client[c].current.run = q.run
        /\ client[c].current.kind = ReviewedKind(q.gate)
        /\ client[c].current.version = q.expected
        /\ q.gate = "REPORT_REVIEW" =>
             ReportRequestAdmissible(q, client[c].current.body)
    BY <1>1, <2>1 DEF RequestsHaveSnapshots
  <2>7. n \in 1..NextVersion(snaps, s.req.run, ReviewedKind(s.req.gate))
    BY <2>2, <2>4
  <2>8. /\ s.req \in Requests
        /\ s.current \in snaps
        /\ s.current.run = s.req.run
        /\ s.current.kind = ReviewedKind(s.req.gate)
        /\ s.current.version = s.req.expected
        /\ s.req.gate = "REPORT_REVIEW" =>
             ReportRequestAdmissible(s.req, s.current.body)
        /\ s.version \in 1..NextVersion(snaps, s.req.run, ReviewedKind(s.req.gate))
    BY <2>4, <2>6, <2>7
  <2> HIDE DEF s
  <2>9. s \in ClientStates /\ UNCHANGED <<tables, worker, failures>>
    BY <2>1, <2>3
  <2> QED
    BY ONLY <2>5, <2>8, <2>9, ClientFrame, TypeInv, c \in Clients
<1>7. ASSUME NEW after \in Nat, client[c].pc # "free", Record(q, after)
      PROVE  decisions' \subseteq Decisions /\ idem' \subseteq IdempotencyRecords
  BY <1>1, <1>3, <1>7 DEF Record, Decisions, IdempotencyRecords, Requests, RequestsOn
<1>8. ASSUME client' = [client EXCEPT ![c] = Free]
      PROVE  /\ client' \in [Clients -> ClientStates]
             /\ \A x \in Clients : client'[x] = client[x] \/ client'[x].pc = "free"
  BY <1>1, <1>8, FreeIsAState DEF Free
<1>9. CASE CommitFacts(c)
  <2> DEFINE body == Settled(q, client[c].current.body)
             facts == {Row(r, "FACT", v, body),
                       Row(r, "CONFLICT", NextVersion(snaps, r, "CONFLICT"), body)}
             core(o) == CoreRows(snaps, r, NextVersion(snaps, r, "RETRIEVAL"), v, o)
  <2>1. /\ client[c].pc = "picked" /\ q.gate = "FACT_REVIEW"
        /\ v \notin Versions(snaps, r, "FACT")
        /\ LeftOpen(q, client[c].current.body) = {}
        /\ Record(q, 0)
        /\ run' = [run EXCEPT ![r] = [status |-> "WAITING_REPORT_REVIEW",
                                      gate |-> "REPORT_REVIEW"]]
        /\ client' = [client EXCEPT ![c] = Free]
        /\ task' = [task EXCEPT ![r].status = "SUCCEEDED"]
        /\ UNCHANGED <<created, materials, worker, failures>>
    BY <1>9 DEF CommitFacts, VersionFree
  <2>2. PICK o \in Outcomes : snaps' = snaps \cup facts \cup core(o)
    BY <1>9 DEF CommitFacts, VersionFree
  <2>3. r \in Runs
    BY <1>3, <2>1
  <2>4. v = NextVersion(snaps, r, "FACT") /\ v \in Nat
    <3>1. v \in 1..NextVersion(snaps, r, "FACT")
      BY <1>1, <2>1 DEF PicksInReach, ReviewedKind
    <3>2. QED
      BY <1>1, <1>2, <2>1, <2>3, <3>1, FreePickIsNext
         DEF SnapshotKinds, MaterialKinds, ClientStates
  <2>5. body \in FactBody
    <3>1. client[c].current \in snaps /\ client[c].current.kind = "FACT"
      BY <1>1, <2>1 DEF RequestsHaveSnapshots, ReviewedKind
    <3>2. client[c].current.body \in FactBody
      BY <1>1, <3>1 DEF Snapshots, MaterialKinds, CoreKinds
    <3>3. q.decided \subseteq Conflicts
      BY <1>3, <2>1 DEF Requests, RequestsOn
    <3> HIDE DEF q
    <3>4. QED
      BY <3>2, <3>3 DEF FactBody, Settled
  <2>6. core(o) \subseteq Snapshots /\ FreshRows(core(o), r)
          /\ \A s \in core(o) : s.kind \in CoreKinds \cup {"REPORT"}
    BY <1>1, <2>3, <2>4, CoreRowsFresh
  <2>7. facts \subseteq Snapshots /\ FreshRows(facts, r)
          /\ \A s \in facts : s.kind \in {"FACT", "CONFLICT"}
    <3>1. NextVersion(snaps, r, "CONFLICT") \in Nat
      BY <1>1, <2>3, NextVersionType DEF SnapshotKinds, MaterialKinds
    <3> HIDE DEF body
    <3>2. QED
      BY <2>3, <2>4, <2>5, <3>1
         DEF Row, Snapshots, FreshRows, SnapshotKinds, MaterialKinds
  <2> DEFINE T == facts \cup core(o)
  <2> HIDE DEF facts, core, body
  <2>8. T \subseteq Snapshots /\ FreshRows(T, r)
    BY <2>6, <2>7 DEF FreshRows, CoreKinds
  <2>9. snaps' = snaps \cup T
    BY <2>2
  <2> HIDE DEF T, v
  <2>10. Gapless' /\ snaps \subseteq snaps'
    BY <1>1, <2>3, <2>8, <2>9, FreshRowsGapless
  <2>11. TypeOK'
    <3>1. run' \in [Runs -> RunRow]
      BY <1>1, <2>1, <2>3 DEF RunRow, RunStatus, Gates
    <3>2. snaps' \subseteq Snapshots
      BY <1>1, <2>8, <2>9
    <3>3. decisions' \subseteq Decisions /\ idem' \subseteq IdempotencyRecords
      BY <1>7, <2>1
    <3> HIDE DEF q
    <3>4. task' \in [Runs -> TaskRow]
      BY <1>1, <2>1, <2>3 DEF TaskRow, JobStatus
    <3>5. QED
      BY <1>1, <1>8, <2>1, <3>1, <3>2, <3>3, <3>4 DEF TypeOK
  <2>12. QED
    BY <1>8, <2>1, <2>10, <2>11, TypeInvFrame
<1>10. CASE CommitResubmission(c)
  <2>1. /\ client[c].pc = "checked"
        /\ Record(q, 0)
        /\ run' = [run EXCEPT ![r].status = "RETURNED", ![r].gate = "NONE"]
        /\ client' = [client EXCEPT ![c] = Free]
        /\ task' = [task EXCEPT ![r].status = "SUCCEEDED"]
        /\ UNCHANGED <<created, materials, snaps, worker, failures>>
    BY <1>10 DEF CommitResubmission
  <2>2. r \in Runs
    BY <1>3, <2>1
  <2>3. run' \in [Runs -> RunRow] /\ task' \in [Runs -> TaskRow]
    BY <1>1, <2>1, <2>2 DEF RunRow, RunStatus, TaskRow, JobStatus
  <2>4. decisions' \subseteq Decisions /\ idem' \subseteq IdempotencyRecords
    BY <1>7, <2>1
  <2>5. Gapless'
    BY <1>1, <2>1 DEF Gapless
  <2> HIDE DEF q
  <2>6. TypeOK'
    BY <1>1, <1>8, <2>1, <2>3, <2>4 DEF TypeOK
  <2>7. QED
    BY <1>8, <2>1, <2>5, <2>6, TypeInvFrame
<1>11. CASE CommitReport(c)
  <2> DEFINE st == IF q.action = "CONFIRM_DRAFT" THEN "CONFIRMED" ELSE "RETURNED"
             body == [client[c].current.body EXCEPT !.status = st]
             T == {Row(r, "REPORT", v, body)}
  <2>1. /\ client[c].pc = "picked" /\ q.gate = "REPORT_REVIEW"
        /\ v \notin Versions(snaps, r, "REPORT")
        /\ snaps' = snaps \cup T
        /\ Record(q, v)
        /\ client' = [client EXCEPT ![c] = Free]
        /\ task' = [task EXCEPT ![r].status = "SUCCEEDED"]
        /\ UNCHANGED <<created, materials, worker, failures>>
    BY <1>11 DEF CommitReport, VersionFree, ReviewedStatus
  <2>2. run' \in [Runs -> RunRow]
    <3> DEFINE row ==
          [status |-> IF q.action = "CONFIRM_DRAFT" THEN "COMPLETED" ELSE "RETURNED",
           gate |-> "NONE"]
    <3>1. r \in Runs
      BY <1>3, <2>1
    <3>2. row \in RunRow
      BY <3>1 DEF RunRow, RunStatus
    <3>3. run' = [run EXCEPT ![r] = row]
      BY <1>11 DEF CommitReport, VersionFree, ReviewedStatus
    <3> HIDE DEF row
    <3>4. QED
      BY <1>1, <3>2, <3>3
  <2>3. r \in Runs
    BY <1>3, <2>1
  <2>4. v = NextVersion(snaps, r, "REPORT") /\ v \in Nat
    <3>1. v \in 1..NextVersion(snaps, r, "REPORT")
      BY <1>1, <2>1 DEF PicksInReach, ReviewedKind
    <3>2. QED
      BY <1>1, <1>2, <2>1, <2>3, <3>1, FreePickIsNext
         DEF SnapshotKinds, ClientStates
  <2>5. body \in ReportBody
    <3>1. client[c].current \in snaps /\ client[c].current.kind = "REPORT"
      BY <1>1, <2>1 DEF RequestsHaveSnapshots, ReviewedKind
    <3>2. client[c].current.body \in ReportBody
      BY <1>1, <3>1 DEF Snapshots, MaterialKinds, CoreKinds
    <3>3. st \in ReportStatus
      BY DEF ReportStatus
    <3> HIDE DEF st
    <3>4. QED
      BY <3>2, <3>3 DEF ReportBody
  <2> HIDE DEF body
  <2>6. T \subseteq Snapshots /\ FreshRows(T, r)
    BY <2>3, <2>4, <2>5 DEF Row, Snapshots, FreshRows, SnapshotKinds
  <2> HIDE DEF T
  <2>7. Gapless' /\ snaps \subseteq snaps'
    BY <1>1, <2>1, <2>3, <2>6, FreshRowsGapless
  <2>8. TypeOK'
    <3>1. run' \in [Runs -> RunRow]
      BY <2>2
    <3>2. snaps' \subseteq Snapshots
      BY <1>1, <2>1, <2>6
    <3>3. decisions' \subseteq Decisions /\ idem' \subseteq IdempotencyRecords
      BY <1>7, <2>1, <2>4
    <3>4. task' \in [Runs -> TaskRow]
      BY <1>1, <2>1, <2>3 DEF TaskRow, JobStatus
    <3> HIDE DEF q, v
    <3>5. QED
      BY <1>1, <1>8, <2>1, <3>1, <3>2, <3>3, <3>4 DEF TypeOK
  <2>9. QED
    BY <1>8, <2>1, <2>7, <2>8, TypeInvFrame
<1>12. CASE Abandon(c)
  <2>1. /\ client' = [client EXCEPT ![c] = Free]
        /\ UNCHANGED <<tables, worker, failures>>
    BY <1>12 DEF Abandon
  <2>2. QED
    BY <2>1, FreeIsAState, ClientFrame DEF Free
<1>13. QED
  BY <1>4, <1>5, <1>6, <1>9, <1>10, <1>11, <1>12 DEF ClientStep

(* TypeInv is inductive.                                                    *)
LEMMA NextTypeInv == TypeInv /\ [Next]_vars => TypeInv'
<1> SUFFICES ASSUME TypeInv, [Next]_vars PROVE TypeInv'
  OBVIOUS
<1>1. /\ TypeOK /\ Gapless /\ worker \in [Workers -> WorkerStates]
      /\ run \in [Runs -> RunRow] /\ task \in [Runs -> TaskRow]
      /\ created \in [Runs -> Nat]
  BY DEF TypeInv, TypeOK
<1>2. snaps' = snaps => Gapless' /\ snaps \subseteq snaps'
  BY <1>1 DEF Gapless
<1>3. ASSUME NEW r \in Runs, CreateRun(r) PROVE TypeInv'
  <2>1. run' \in [Runs -> RunRow]
    BY <1>1, <1>3 DEF CreateRun, RunRow, RunStatus
  <2>2. task' \in [Runs -> TaskRow]
    BY <1>1, <1>3 DEF CreateRun, TaskRow, JobStatus
  <2>3. created' \in [Runs -> Nat]
    <3> DEFINE C == {s \in Runs : created[s] # 0}
    <3>1. IsFiniteSet(C)
      BY RunsAssumption, FS_Subset
    <3>2. Cardinality(C) \in Nat
      BY <3>1, FS_CardinalityType
    <3>3. created' = [created EXCEPT ![r] = Cardinality(C) + 1]
      BY <1>3 DEF CreateRun
    <3> HIDE DEF C
    <3>4. QED
      BY <1>1, <3>2, <3>3
  <2>4. UNCHANGED <<materials, snaps, decisions, idem, worker, client, failures>>
    BY <1>3 DEF CreateRun
  <2>5. TypeOK'
    BY <1>1, <2>1, <2>2, <2>3, <2>4 DEF TypeOK
  <2>6. QED
    BY <1>2, <2>4, <2>5, TypeInvFrame
<1>4. ASSUME NEW r \in Runs, LeaseExpires(r) PROVE TypeInv'
  <2>1. task' \in [Runs -> TaskRow]
    BY <1>1, <1>4 DEF LeaseExpires, TaskRow
  <2>2. TypeOK'
    BY <1>1, <1>4, <2>1 DEF LeaseExpires, TypeOK
  <2>3. QED
    BY <1>2, <1>4, <2>2, TypeInvFrame DEF LeaseExpires
<1>5. ASSUME NEW w \in Workers, NEW s \in {Idle, Down},
             worker' = [worker EXCEPT ![w] = s], failures' \in 0..MaxFailures,
             UNCHANGED <<tables, client>>
      PROVE  TypeInv'
  <2>1. s \in WorkerStates /\ s.pc \in {"idle", "down"}
    BY DEF Idle, Down, WorkerStates, WorkerPC
  <2>2. worker' \in [Workers -> WorkerStates]
    BY <1>1, <1>5, <2>1
  <2>3. TypeOK'
    BY <1>1, <1>5, <2>2 DEF TypeOK, tables
  <2>4. \A x \in Workers : \/ worker'[x] = worker[x]
                           \/ worker'[x].pc \in {"idle", "down"}
    BY <1>1, <1>5, <2>1
  <2>5. QED
    BY <1>2, <1>5, <2>3, <2>4, TypeInvFrame DEF tables
<1>6. ASSUME NEW w \in Workers, WorkerFails(w) PROVE TypeInv'
  <2>1. failures' \in 0..MaxFailures
    BY <1>1, <1>6, FailuresAssumption DEF WorkerFails, TypeOK
  <2>2. QED
    BY <1>5, <1>6, <2>1 DEF WorkerFails
<1>7. ASSUME NEW w \in Workers, WorkerRestarts(w) PROVE TypeInv'
  <2>1. failures' \in 0..MaxFailures
    BY <1>1, <1>7 DEF WorkerRestarts, TypeOK
  <2>2. QED
    BY <1>5, <1>7, <2>1 DEF WorkerRestarts
<1>8. CASE UNCHANGED vars
  <2>1. TypeOK'
    BY <1>1, <1>8 DEF TypeOK, vars
  <2>2. QED
    BY <1>2, <1>8, <2>1, TypeInvFrame DEF vars
<1>9. QED
  BY <1>3, <1>4, <1>6, <1>7, <1>8, WorkerStepTypeInv, ClientStepTypeInv DEF Next

(* Every reachable state is well typed: what the sessions remember of rows, *)
(* versions and requests included.                                          *)
THEOREM TypeCorrectness == Spec => []TypeOK
<1>1. Spec => []TypeInv
  BY InitTypeInv, NextTypeInv, PTL DEF Spec
<1>2. TypeInv => TypeOK
  BY DEF TypeInv
<1>3. QED
  BY <1>1, <1>2, PTL
=============================================================================
