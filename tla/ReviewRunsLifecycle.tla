------------------------- MODULE ReviewRunsLifecycle -------------------------
(***************************************************************************)
(* What ReviewRuns keeps when one worker runs and one request is in flight *)
(* at a time, for any number of Runs and keys and any number of failures:  *)
(* tasks follow Runs, the report at the gate matches the facts, and the    *)
(* Runs go through the states of RunLifecycle.  The hypothesis is needed:  *)
(* two workers break all three, and two requests in flight break the last  *)
(* two of them.                                                            *)
(***************************************************************************)
EXTENDS ReviewRunsSafety

OneAtATime == /\ \A v, w \in Workers : v = w
              /\ \A c, d \in Clients : c = d

(* A worker's Run is queued until it is claimed and running from then on; a *)
(* request's Run waits at the gate it is about.                             *)
Working == {"claimed", "parsed", "disputed", "filed", "evaluating", "drafting"}

SessionsFindTheirRuns ==
    /\ \A w \in Workers :
         /\ worker[w].pc = "selected" => run[worker[w].run].status = "QUEUED"
         /\ worker[w].pc \in Working => run[worker[w].run].status = "RUNNING"
    /\ \A c \in Clients : client[c].pc # "free" =>
         run[client[c].req.run].status = GateStatus(client[c].req.gate)

StatusInv == TaskFollowsRun /\ SessionsFindTheirRuns

(* StatusInv holds initially.                                               *)
LEMMA InitStatus == Init => StatusInv
<1> SUFFICES ASSUME Init PROVE StatusInv
  OBVIOUS
<1>1. TaskFollowsRun
  BY DEF Init, TaskFollowsRun, Gates, GateStatus
<1>2. SessionsFindTheirRuns
  BY DEF Init, SessionsFindTheirRuns, Working, Idle, Free
<1>3. QED
  BY <1>1, <1>2 DEF StatusInv

(* What a row of review_runs and one of task_jobs say together.             *)
RowsAgree(row, job) ==
    /\ (job.status = "PENDING") = (row.status = "QUEUED")
    /\ (job.status = "LEASED") = (row.status = "RUNNING")
    /\ \A g \in Gates : (row.gate = g) = (row.status = GateStatus(g))

(* TaskFollowsRun, row by row.                                              *)
LEMMA TaskFollowsRunRows ==
    /\ TaskFollowsRun <=> \A r \in Runs : RowsAgree(run[r], task[r])
    /\ TaskFollowsRun' <=> \A r \in Runs : RowsAgree(run'[r], task'[r])
BY DEF TaskFollowsRun, RowsAgree

(* A Run is created, a lease expires.                                       *)
LEMMA QueueStepsKeepStatus ==
    ASSUME TypeInv, StatusInv, NEW r \in Runs, CreateRun(r) \/ LeaseExpires(r)
    PROVE  StatusInv'
<1>1. /\ run \in [Runs -> RunRow] /\ task \in [Runs -> TaskRow]
      /\ \A s \in Runs : RowsAgree(run[s], task[s])
  BY TaskFollowsRunRows DEF TypeInv, TypeOK, StatusInv
<1>2. UNCHANGED <<worker, client>>
  BY DEF CreateRun, LeaseExpires
<1>3. CASE CreateRun(r)
  <2>1. /\ run[r].status = "NOT_CREATED"
        /\ run'[r] = [status |-> "QUEUED", gate |-> "NONE"]
        /\ task'[r] = [status |-> "PENDING", lease |-> "none"]
        /\ \A s \in Runs \ {r} : run'[s] = run[s] /\ task'[s] = task[s]
    BY <1>1, <1>3 DEF CreateRun
  <2>2. RowsAgree(run'[r], task'[r])
    BY <2>1 DEF RowsAgree, Gates, GateStatus
  <2>3. TaskFollowsRun'
    BY <1>1, <2>1, <2>2, TaskFollowsRunRows
  <2>4. \A s \in Runs : run[s].status # "NOT_CREATED" => run'[s] = run[s]
    BY <2>1
  <2>5. \A w \in Workers : worker[w].pc \in Working \cup {"selected"} =>
                             worker[w].run \in Runs
    BY DEF TypeInv, WorkersHaveRuns, Working
  <2>6. \A c \in Clients : client[c].pc # "free" => client[c].req.run \in Runs
    BY DEF TypeInv, RequestsHaveSnapshots, Requests, RequestsOn
  <2>7. SessionsFindTheirRuns'
    BY <1>2, <2>4, <2>5, <2>6 DEF StatusInv, SessionsFindTheirRuns, GateStatus
  <2>8. QED
    BY <2>3, <2>7 DEF StatusInv
<1>4. CASE LeaseExpires(r)
  <2>1. run' = run /\ task' = [task EXCEPT ![r].lease = "expired"]
    BY <1>4 DEF LeaseExpires
  <2>2. \A s \in Runs : task'[s].status = task[s].status
    BY <1>1, <2>1 DEF TaskRow
  <2>3. TaskFollowsRun'
    BY <2>1, <2>2 DEF TaskFollowsRun, StatusInv
  <2>4. SessionsFindTheirRuns'
    BY <1>2, <2>1 DEF StatusInv, SessionsFindTheirRuns
  <2>5. QED
    BY <2>3, <2>4 DEF StatusInv
<1>5. QED
  BY <1>3, <1>4

(* The one worker moves on, and takes its Run along.                        *)
LEMMA WorkerKeepsStatus ==
    ASSUME TypeInv, StatusInv, OneAtATime, NEW w \in Workers,
           WorkerStep(w) \/ WorkerFails(w) \/ WorkerRestarts(w)
    PROVE  StatusInv'
<1>1. /\ run \in [Runs -> RunRow] /\ task \in [Runs -> TaskRow]
      /\ worker \in [Workers -> WorkerStates]
      /\ \A s \in Runs : RowsAgree(run[s], task[s])
  BY TaskFollowsRunRows DEF TypeInv, TypeOK, StatusInv
<1>2. worker[w].pc \notin {"idle", "down"} => worker[w].run \in Runs
  BY DEF TypeInv, WorkersHaveRuns
<1>3. /\ worker[w].pc = "selected" => run[worker[w].run].status = "QUEUED"
      /\ worker[w].pc \in Working => run[worker[w].run].status = "RUNNING"
  BY DEF StatusInv, SessionsFindTheirRuns
<1>4. client' = client
  BY DEF WorkerStep, WorkerFails, WorkerRestarts, Select, Claim, ReadMaterials, FileFacts,
         OpenFactGate, StartCore, PickCore, OpenReportGate, WorkerRaises
<1>5. \A c \in Clients : client[c].pc # "free" =>
        /\ client[c].req.run \in Runs
        /\ run[client[c].req.run].status \in {"WAITING_FACT_REVIEW", "WAITING_REPORT_REVIEW"}
  BY DEF TypeInv, RequestsHaveSnapshots, Requests, RequestsOn, StatusInv,
         SessionsFindTheirRuns, GateStatus
<1>6. ASSUME \A r \in Runs : RowsAgree(run'[r], task'[r]),
             \A r \in Runs : run[r].status \in {"WAITING_FACT_REVIEW", "WAITING_REPORT_REVIEW"}
                               => run'[r] = run[r],
             worker'[w].pc = "selected" => run'[worker'[w].run].status = "QUEUED",
             worker'[w].pc \in Working => run'[worker'[w].run].status = "RUNNING"
      PROVE  StatusInv'
  <2>1. TaskFollowsRun'
    BY <1>6, TaskFollowsRunRows
  <2>2. \A v \in Workers : v = w
    BY DEF OneAtATime
  <2>3. \A c \in Clients : client'[c].pc # "free" =>
          run'[client'[c].req.run].status = GateStatus(client'[c].req.gate)
    BY <1>4, <1>5, <1>6 DEF StatusInv, SessionsFindTheirRuns
  <2>4. SessionsFindTheirRuns'
    BY <1>6, <2>2, <2>3 DEF SessionsFindTheirRuns
  <2>5. QED
    BY <2>1, <2>4 DEF StatusInv
<1>7. CASE Select(w)
  <2>1. PICK r \in Runs :
          /\ Claimable(r) /\ UNCHANGED <<run, task>>
          /\ worker' = [worker EXCEPT ![w] = [Idle EXCEPT !.pc = "selected", !.run = r]]
    BY <1>7 DEF Select, tables
  <2>2. worker'[w].pc = "selected" /\ worker'[w].run = r
    BY <1>1, <2>1 DEF Idle
  <2>3. run[r].status = "QUEUED"
    BY <1>1, <2>1 DEF Claimable, RowsAgree
  <2>4. QED
    BY <1>1, <1>6, <2>1, <2>2, <2>3 DEF Working
<1>8. CASE Claim(w)
  <2>1. PICK r \in Runs : r = worker[w].run
    BY <1>2, <1>8 DEF Claim
  <2>2. /\ run[r].status = "QUEUED"
        /\ run' = [run EXCEPT ![r].status = "RUNNING"]
        /\ task' = [task EXCEPT ![r] = [status |-> "LEASED", lease |-> "held"]]
        /\ worker' = [worker EXCEPT ![w].pc = "claimed"]
    BY <1>3, <1>8, <2>1 DEF Claim
  <2>3. /\ run'[r].status = "RUNNING" /\ run'[r].gate = run[r].gate
        /\ task'[r].status = "LEASED"
        /\ \A s \in Runs \ {r} : run'[s] = run[s] /\ task'[s] = task[s]
    BY <1>1, <2>2 DEF RunRow
  <2>4. RowsAgree(run'[r], task'[r])
    BY <1>1, <2>2, <2>3 DEF RowsAgree, Gates, GateStatus
  <2>5. worker'[w].pc = "claimed" /\ worker'[w].run = r
    BY <1>1, <2>1, <2>2 DEF WorkerStates
  <2>6. QED
    BY <1>1, <1>6, <2>2, <2>3, <2>4, <2>5 DEF Working
<1>9. CASE OpenFactGate(w) \/ OpenReportGate(w)
  <2>1. PICK r \in Runs : r = worker[w].run
    BY <1>2, <1>9 DEF OpenFactGate, OpenReportGate
  <2>2. PICK g \in Gates :
          /\ run' = [run EXCEPT ![r].status = GateStatus(g), ![r].gate = g]
          /\ task' = [task EXCEPT ![r].status = "SUCCEEDED"]
          /\ worker' = [worker EXCEPT ![w] = Idle]
    BY <1>9, <2>1 DEF OpenFactGate, OpenReportGate, Gates, GateStatus
  <2>3. run[r].status = "RUNNING"
    BY <1>3, <1>9, <2>1 DEF OpenFactGate, OpenReportGate, Working
  <2>4. /\ run'[r].status = GateStatus(g) /\ run'[r].gate = g
        /\ task'[r].status = "SUCCEEDED"
        /\ \A s \in Runs \ {r} : run'[s] = run[s] /\ task'[s] = task[s]
    BY <1>1, <2>2 DEF RunRow, TaskRow
  <2>5. RowsAgree(run'[r], task'[r])
    BY <2>2, <2>4 DEF RowsAgree, Gates, GateStatus
  <2>6. worker'[w].pc = "idle"
    BY <1>1, <2>2 DEF Idle
  <2>7. QED
    BY <1>1, <1>6, <2>3, <2>4, <2>5, <2>6 DEF Working
<1>10. ASSUME UNCHANGED <<run, task>>,
              \/ worker'[w].pc \in {"idle", "down"}
              \/ /\ worker[w].pc \in Working /\ worker'[w].run = worker[w].run
                 /\ worker'[w].pc # "selected"
       PROVE  StatusInv'
  BY <1>1, <1>3, <1>6, <1>10 DEF Working
<1>11. CASE ReadMaterials(w) \/ PickCore(w)
  BY <1>1, <1>10, <1>11 DEF ReadMaterials, PickCore, Working, WorkerStates, tables
<1>12. CASE FileFacts(w)
  <2>1. PICK pc \in {"disputed", "filed"} :
          worker' = [worker EXCEPT ![w].pc = pc, ![w].version = 0]
    BY <1>12 DEF FileFacts
  <2>2. worker[w].pc = "parsed" /\ UNCHANGED <<run, task>>
    BY <1>12 DEF FileFacts
  <2>3. QED
    BY <1>1, <1>10, <2>1, <2>2 DEF Working, WorkerStates
<1>13. CASE StartCore(w)
  <2>1. PICK v : worker' = [worker EXCEPT ![w].pc = "evaluating", ![w].facts = v]
    BY <1>13 DEF StartCore
  <2>2. worker[w].pc = "filed" /\ UNCHANGED <<run, task>>
    BY <1>13 DEF StartCore, tables
  <2>3. QED
    BY <1>1, <1>10, <2>1, <2>2 DEF Working, WorkerStates
<1>14. CASE WorkerRaises(w) \/ WorkerFails(w) \/ WorkerRestarts(w)
  <2>1. worker'[w].pc \in {"idle", "down"} /\ UNCHANGED <<run, task>>
    BY <1>1, <1>14 DEF WorkerRaises, WorkerFails, WorkerRestarts, Down, Idle, tables
  <2>2. QED
    BY <1>10, <2>1
<1>15. QED
  BY <1>7, <1>8, <1>9, <1>11, <1>12, <1>13, <1>14 DEF WorkerStep

(* The one request moves on, and takes its Run along when it commits.       *)
LEMMA ClientKeepsStatus ==
    ASSUME TypeInv, StatusInv, OneAtATime, NEW c \in Clients, ClientStep(c)
    PROVE  StatusInv'
<1>1. /\ run \in [Runs -> RunRow] /\ task \in [Runs -> TaskRow]
      /\ client \in [Clients -> ClientStates]
      /\ \A s \in Runs : RowsAgree(run[s], task[s])
  BY TaskFollowsRunRows DEF TypeInv, TypeOK, StatusInv
<1>2. client[c].pc # "free" =>
        /\ client[c].req.run \in Runs /\ client[c].req.gate \in Gates
        /\ run[client[c].req.run].status = GateStatus(client[c].req.gate)
  BY DEF TypeInv, RequestsHaveSnapshots, Requests, RequestsOn, Gates, StatusInv,
         SessionsFindTheirRuns
<1>3. UNCHANGED worker
  BY DEF ClientStep, Arrive, Check, Pick, CommitFacts, CommitResubmission, CommitReport,
         Abandon, tables
<1>4. \A w \in Workers : worker[w].pc \in Working \cup {"selected"} =>
        /\ worker[w].run \in Runs
        /\ run[worker[w].run].status \in {"QUEUED", "RUNNING"}
  BY DEF TypeInv, WorkersHaveRuns, Working, StatusInv, SessionsFindTheirRuns
<1>5. ASSUME \A r \in Runs : RowsAgree(run'[r], task'[r]),
             \A r \in Runs : run[r].status \in {"QUEUED", "RUNNING"} => run'[r] = run[r],
             client'[c].pc # "free" =>
               run'[client'[c].req.run].status = GateStatus(client'[c].req.gate)
      PROVE  StatusInv'
  <2>1. TaskFollowsRun'
    BY <1>3, <1>5, TaskFollowsRunRows
  <2>2. \A d \in Clients : d = c
    BY DEF OneAtATime
  <2>3. \A w \in Workers :
          /\ worker'[w].pc = "selected" => run'[worker'[w].run].status = "QUEUED"
          /\ worker'[w].pc \in Working => run'[worker'[w].run].status = "RUNNING"
    BY <1>3, <1>4, <1>5 DEF StatusInv, SessionsFindTheirRuns
  <2>4. SessionsFindTheirRuns'
    BY <1>5, <2>2, <2>3 DEF SessionsFindTheirRuns
  <2>5. QED
    BY <2>1, <2>4 DEF StatusInv
<1>6. CASE Arrive(c)
  <2>1. PICK q : /\ run[q.run].status = GateStatus(q.gate) /\ run' = run /\ task' = task
                 /\ client' = [client EXCEPT ![c] = [Free EXCEPT !.pc = "loaded", !.req = q]]
    BY <1>6 DEF Arrive, tables
  <2>2. client'[c].req = q
    BY <1>1, <2>1 DEF Free
  <2>3. QED
    BY <1>1, <1>5, <2>1, <2>2
<1>7. ASSUME run' = run, task' = task,
             \/ client'[c].pc = "free"
             \/ client[c].pc # "free" /\ client'[c].req = client[c].req
      PROVE  StatusInv'
  BY <1>1, <1>2, <1>5, <1>7
<1>8. CASE Check(c)
  <2>1. PICK s : client' = [client EXCEPT ![c].pc = "checked", ![c].current = s]
    BY <1>8 DEF Check
  <2>2. client[c].pc = "loaded" /\ run' = run /\ task' = task
    BY <1>8 DEF Check, tables
  <2>3. QED
    BY <1>1, <1>7, <2>1, <2>2 DEF ClientStates
<1>9. CASE Pick(c)
  BY <1>1, <1>7, <1>9 DEF Pick, ClientStates, tables
<1>10. CASE Abandon(c)
  BY <1>1, <1>7, <1>10 DEF Abandon, Free, tables
<1>11. CASE CommitFacts(c) \/ CommitResubmission(c) \/ CommitReport(c)
  <2>1. client'[c].pc = "free"
    <3>1. client' = [client EXCEPT ![c] = Free]
      BY <1>11 DEF CommitFacts, CommitResubmission, CommitReport
    <3>2. QED
      BY <1>1, <3>1 DEF Free
  <2>2. PICK r \in Runs, g \in Gates :
          r = client[c].req.run /\ run[r].status = GateStatus(g)
    BY <1>2, <1>11 DEF CommitFacts, CommitResubmission, CommitReport
  <2>3. \E row \in [status : {"WAITING_REPORT_REVIEW"}, gate : {"REPORT_REVIEW"}]
                    \cup [status : {"COMPLETED", "RETURNED"}, gate : {"NONE"}] :
          run'[r] = row /\ \A s \in Runs \ {r} : run'[s] = run[s]
    <3>1. CASE CommitFacts(c)
      <4>1. run' = [run EXCEPT ![r] = [status |-> "WAITING_REPORT_REVIEW",
                                       gate |-> "REPORT_REVIEW"]]
        BY <2>2, <3>1 DEF CommitFacts
      <4>2. QED
        BY <1>1, <4>1
    <3>2. CASE CommitResubmission(c)
      <4>1. run' = [run EXCEPT ![r].status = "RETURNED", ![r].gate = "NONE"]
        BY <2>2, <3>2 DEF CommitResubmission
      <4>2. run'[r] \in RunRow /\ run'[r].status = "RETURNED" /\ run'[r].gate = "NONE"
        BY <1>1, <4>1 DEF RunRow, RunStatus
      <4>3. run'[r] = [status |-> "RETURNED", gate |-> "NONE"]
        BY <4>2 DEF RunRow
      <4>4. QED
        BY <1>1, <4>1, <4>3
    <3>3. CASE CommitReport(c)
      <4>1. PICK v \in {"COMPLETED", "RETURNED"} :
              run' = [run EXCEPT ![r] = [status |-> v, gate |-> "NONE"]]
        BY <2>2, <3>3 DEF CommitReport
      <4>2. QED
        BY <1>1, <4>1
    <3>4. QED
      BY <1>11, <3>1, <3>2, <3>3
  <2>4. PICK row \in [status : {"WAITING_REPORT_REVIEW"}, gate : {"REPORT_REVIEW"}]
                       \cup [status : {"COMPLETED", "RETURNED"}, gate : {"NONE"}] :
          run'[r] = row /\ \A s \in Runs \ {r} : run'[s] = run[s]
    BY <2>3
  <2>6. /\ task'[r].status = "SUCCEEDED"
        /\ \A s \in Runs \ {r} : task'[s] = task[s]
    <3>1. task' = [task EXCEPT ![r].status = "SUCCEEDED"]
      BY <2>2, <1>11 DEF CommitFacts, CommitResubmission, CommitReport
    <3>2. QED
      BY <1>1, <3>1 DEF TaskRow
  <2>7. RowsAgree(row, task'[r])
    BY <2>6 DEF RowsAgree, Gates, GateStatus
  <2>8. QED
    BY <1>1, <1>5, <2>1, <2>2, <2>4, <2>6, <2>7 DEF GateStatus
<1>12. QED
  BY <1>6, <1>8, <1>9, <1>10, <1>11 DEF ClientStep

(* StatusInv is kept by every step, with one worker and one request.        *)
LEMMA NextKeepsStatus == TypeInv /\ StatusInv /\ OneAtATime /\ [Next]_vars => StatusInv'
<1> SUFFICES ASSUME TypeInv, StatusInv, OneAtATime, [Next]_vars PROVE StatusInv'
  OBVIOUS
<1>1. CASE UNCHANGED vars
  BY <1>1 DEF vars, StatusInv, TaskFollowsRun, SessionsFindTheirRuns
<1>2. CASE Next
  BY <1>2, QueueStepsKeepStatus, WorkerKeepsStatus, ClientKeepsStatus DEF Next
<1>3. QED
  BY <1>1, <1>2

(* With one worker and one request at a time, what waits for a worker is    *)
(* pending, what runs is leased, what waits for a human or is over can be   *)
(* claimed by nobody, and the waiting gate is the one the status names.     *)
THEOREM TasksFollowRuns ==
    ASSUME OneAtATime
    PROVE  Spec => []TaskFollowsRun
<1>1. Init => TypeInv /\ StatusInv
  BY InitTypeInv, InitStatus
<1>2. TypeInv /\ StatusInv /\ [Next]_vars => (TypeInv /\ StatusInv)'
  BY NextTypeInv, NextKeepsStatus
<1>3. StatusInv => TaskFollowsRun
  BY DEF StatusInv
<1>4. QED
  BY <1>1, <1>2, <1>3, PTL DEF Spec

-----------------------------------------------------------------------------
(* The latest report and the latest facts.                                 *)

(* What a worker read of the facts and what a request was checked against   *)
(* is the latest there is.                                                  *)
LatestIn(S, s, r, k) ==
    /\ s.run = r /\ s.kind = k
    /\ \A t \in S : t.run = r /\ t.kind = k => t.version <= s.version

WorkerUpToDate(S, x) ==
    x.pc \in {"evaluating", "drafting"} =>
      \E f \in S : LatestIn(S, f, x.run, "FACT") /\ f.version = x.facts
RequestUpToDate(S, x) ==
    x.pc \in {"checked", "picked"} =>
      LatestIn(S, x.current, x.req.run, ReviewedKind(x.req.gate))

SessionsAreUpToDate == /\ \A w \in Workers : WorkerUpToDate(snaps, worker[w])
                       /\ \A c \in Clients : RequestUpToDate(snaps, client[c])

ReportInv == UniqueVersions /\ SessionsAreUpToDate /\ LatestReportMatchesRun

(* What is latest depends on the snapshots only.                            *)
LEMMA LatestIsLatestIn ==
    /\ \A s, r, k : IsLatest(s, r, k) <=> LatestIn(snaps, s, r, k)
    /\ \A s, r, k : IsLatest(s, r, k)' <=> LatestIn(snaps', s, r, k)
BY DEF IsLatest, LatestIn

(* Rows at the next versions are the latest of their kinds, and leave the   *)
(* latest of other kinds and of other Runs what they are.                   *)
LEMMA LatestAfter ==
    ASSUME Gapless, NEW T, NEW r \in Runs, FreshRows(T, r), snaps' = snaps \cup T
    PROVE  /\ \A t \in T : IsLatest(t, r, t.kind)'
           /\ \A s, q, k : IsLatest(s, q, k) /\ (q # r \/ k \notin Kinds(T))
                             => IsLatest(s, q, k)'
           /\ \A q, k : q # r \/ k \notin Kinds(T) =>
                          Versions(snaps', q, k) = Versions(snaps, q, k)
<1>1. \A t \in T : /\ t.run = r /\ t.kind \in SnapshotKinds
                   /\ t.version = NextVersion(snaps, r, t.kind)
                   /\ \A u \in T : u.kind = t.kind => u = t
  BY DEF FreshRows
<1>2. ASSUME NEW t \in T PROVE IsLatest(t, r, t.kind)'
  <2>1. PICK n \in Nat : Versions(snaps, r, t.kind) = 1..n
    BY <1>1 DEF Gapless
  <2>2. t.version = n + 1
    BY <1>1, <2>1, VersionArithmetic
  <2>3. \A s \in snaps : s.run = r /\ s.kind = t.kind => s.version \in 1..n
    BY <2>1 DEF Versions
  <2>4. \A s \in snaps' : s.run = r /\ s.kind = t.kind => s.version <= t.version
    BY <1>1, <2>2, <2>3
  <2>5. QED
    BY <1>1, <2>4 DEF IsLatest
<1>3. ASSUME NEW q, NEW k, q # r \/ k \notin Kinds(T)
      PROVE  \A t \in snaps' \ snaps : ~(t.run = q /\ t.kind = k)
  BY <1>1, <1>3 DEF Kinds
<1>4. \A s, q, k : IsLatest(s, q, k) /\ (q # r \/ k \notin Kinds(T)) => IsLatest(s, q, k)'
  BY <1>3 DEF IsLatest
<1>5. \A q, k : q # r \/ k \notin Kinds(T) =>
                  Versions(snaps', q, k) = Versions(snaps, q, k)
  BY <1>3 DEF Versions
<1>6. QED
  BY <1>2, <1>4, <1>5

(* The latest report of a Run has this status, and rests on its latest      *)
(* facts.                                                                   *)
ReportStands(r, status) ==
    \E s, f \in snaps : /\ IsLatest(s, r, "REPORT") /\ IsLatest(f, r, "FACT")
                        /\ s.body.facts = f.version /\ s.body.status = status

(* LatestReportMatchesRun, row by row.                                      *)
LEMMA ReportsStand ==
    /\ LatestReportMatchesRun <=>
         \A r \in Runs :
           /\ run[r].status = "WAITING_REPORT_REVIEW" => ReportStands(r, "AWAITING_REVIEW")
           /\ run[r].status = "COMPLETED" => ReportStands(r, "CONFIRMED")
    /\ LatestReportMatchesRun' <=>
         \A r \in Runs :
           /\ run'[r].status = "WAITING_REPORT_REVIEW" => ReportStands(r, "AWAITING_REVIEW")'
           /\ run'[r].status = "COMPLETED" => ReportStands(r, "CONFIRMED")'
BY DEF LatestReportMatchesRun, ReportStands

(* Rows of a Run leave the reports of all others standing.                  *)
LEMMA OtherReportsStand ==
    ASSUME Gapless, NEW T, NEW r \in Runs, FreshRows(T, r), snaps' = snaps \cup T,
           NEW q, q # r, NEW status, ReportStands(q, status)
    PROVE  ReportStands(q, status)'
<1>1. PICK s \in snaps, f \in snaps :
        /\ IsLatest(s, q, "REPORT") /\ IsLatest(f, q, "FACT")
        /\ s.body.facts = f.version /\ s.body.status = status
  BY DEF ReportStands
<1>2. IsLatest(s, q, "REPORT")' /\ IsLatest(f, q, "FACT")'
  BY <1>1, LatestAfter
<1>3. QED
  BY <1>1, <1>2 DEF ReportStands

(* Steps that file nothing: no Run gets to the report gate or is completed  *)
(* by one.                                                                  *)
LEMMA QuietStepsKeepReports ==
    ASSUME TypeInv, ReportInv, [Next]_vars, snaps' = snaps
    PROVE  LatestReportMatchesRun'
<1>1. run \in [Runs -> RunRow]
  BY DEF TypeInv, TypeOK
<1> DEFINE Stays(r) == run'[r].status \in {"WAITING_REPORT_REVIEW", "COMPLETED"} =>
                         run'[r].status = run[r].status
<1>2. \A r \in Runs : Stays(r)
  <2>1. CASE run' = run
    BY <2>1
  <2>2. ASSUME NEW r \in Runs, CreateRun(r) PROVE \A s \in Runs : Stays(s)
    BY <1>1, <2>2 DEF CreateRun
  <2>3. ASSUME NEW w \in Workers, Claim(w) \/ OpenFactGate(w) PROVE \A s \in Runs : Stays(s)
    BY <1>1, <2>3 DEF Claim, OpenFactGate, RunRow
  <2>4. ASSUME NEW c \in Clients, CommitResubmission(c) PROVE \A s \in Runs : Stays(s)
    BY <1>1, <2>4 DEF CommitResubmission, RunRow
  <2>5. ASSUME NEW w \in Workers, OpenReportGate(w) PROVE FALSE
    <3>1. PICK T : /\ worker[w].run \in Runs /\ snaps' = snaps \cup T
                   /\ FreshRows(T, worker[w].run) /\ Kinds(T) = CoreKinds \cup {"REPORT"}
      BY <2>5, OpenReportGateRows
    <3>2. PICK t \in T : t.kind = "REPORT"
      BY <3>1 DEF Kinds
    <3>3. t.version \notin Versions(snaps, worker[w].run, "REPORT")
      BY <3>1, <3>2, NextVersionIsFree DEF FreshRows, TypeInv
    <3>4. QED
      BY <3>1, <3>2, <3>3 DEF FreshRows, Versions
  <2>6. ASSUME NEW c \in Clients, CommitFacts(c) PROVE FALSE
    <3>1. PICK r, T :
            /\ r \in Runs
            /\ snaps' = snaps \cup T /\ FreshRows(T, r) /\ \E t \in T : t.kind = "FACT"
      BY <2>6, CommitFactsRows
    <3>2. PICK t \in T : t.kind = "FACT"
      BY <3>1
    <3>3. t.version \notin Versions(snaps, r, "FACT")
      BY <3>1, <3>2, NextVersionIsFree DEF FreshRows, TypeInv
    <3>4. QED
      BY <3>1, <3>2, <3>3 DEF FreshRows, Versions
  <2>7. ASSUME NEW c \in Clients, CommitReport(c) PROVE FALSE
    <3>1. PICK r, v, b : /\ r \in Runs /\ v = NextVersion(snaps, r, "REPORT")
                         /\ snaps' = snaps \cup {Row(r, "REPORT", v, b)}
      BY <2>7, CommitReportRows
    <3>2. v \in Versions(snaps', r, "REPORT")
      BY <3>1 DEF Versions, Row
    <3>3. QED
      BY <3>1, <3>2, NextVersionIsFree DEF TypeInv, SnapshotKinds
  <2>8. ASSUME NEW r \in Runs, LeaseExpires(r) PROVE run' = run
    BY <2>8 DEF LeaseExpires
  <2>9. ASSUME NEW w \in Workers,
               \/ Select(w) \/ ReadMaterials(w) \/ FileFacts(w) \/ StartCore(w)
               \/ PickCore(w) \/ WorkerRaises(w) \/ WorkerFails(w) \/ WorkerRestarts(w)
        PROVE  run' = run
    BY <2>9 DEF Select, ReadMaterials, FileFacts, StartCore, PickCore, WorkerRaises,
                WorkerFails, WorkerRestarts, tables
  <2>10. ASSUME NEW c \in Clients, Arrive(c) \/ Check(c) \/ Pick(c) \/ Abandon(c)
         PROVE  run' = run
    BY <2>10 DEF Arrive, Check, Pick, Abandon, tables
  <2>11. CASE UNCHANGED vars
    BY <2>1, <2>11 DEF vars
  <2>12. QED
    BY <2>1, <2>2, <2>3, <2>4, <2>5, <2>6, <2>7, <2>8, <2>9, <2>10, <2>11
       DEF Next, WorkerStep, ClientStep
<1>3. \A r \in Runs : \A st : ReportStands(r, st) => ReportStands(r, st)'
  BY DEF ReportStands, IsLatest
<1>4. QED
  BY <1>2, <1>3, ReportsStand DEF ReportInv

(* Steps that file snapshots: a report at the gate or of a completed Run is *)
(* the new latest one, or it stands as before.                              *)
LEMMA FilingStepsKeepReports ==
    ASSUME TypeInv, StatusInv, ReportInv, [Next]_vars, snaps' # snaps
    PROVE  LatestReportMatchesRun'
<1>1. run \in [Runs -> RunRow] /\ Gapless
  BY DEF TypeInv, TypeOK
<1>2. ASSUME NEW T, NEW r \in Runs, FreshRows(T, r), snaps' = snaps \cup T,
             \A q \in Runs \ {r} : run'[q] = run[q],
             run'[r].status = "WAITING_REPORT_REVIEW" => ReportStands(r, "AWAITING_REVIEW")',
             run'[r].status = "COMPLETED" => ReportStands(r, "CONFIRMED")'
      PROVE  LatestReportMatchesRun'
  <2>1. \A q \in Runs \ {r} : \A st : ReportStands(q, st) => ReportStands(q, st)'
    BY <1>1, <1>2, OtherReportsStand
  <2>2. \A q \in Runs \ {r} :
          /\ run'[q].status = "WAITING_REPORT_REVIEW" => ReportStands(q, "AWAITING_REVIEW")'
          /\ run'[q].status = "COMPLETED" => ReportStands(q, "CONFIRMED")'
    BY <1>2, <2>1, ReportsStand DEF ReportInv
  <2>3. QED
    BY <1>2, <2>2, ReportsStand
<1>3. ASSUME NEW w \in Workers, FileFacts(w) PROVE LatestReportMatchesRun'
  <2>1. PICK r, T : r \in Runs /\ r = worker[w].run /\ FreshRows(T, r) /\ snaps' = snaps \cup T
    BY <1>3, FileFactsRows
  <2>2. run' = run /\ worker[w].pc = "parsed"
    BY <1>3 DEF FileFacts
  <2>3. run[r].status = "RUNNING"
    BY <2>1, <2>2 DEF StatusInv, SessionsFindTheirRuns, Working
  <2>4. QED
    BY <1>2, <2>1, <2>2, <2>3
<1>4. ASSUME NEW w \in Workers, OpenReportGate(w) PROVE LatestReportMatchesRun'
  <2>1. PICK r, T :
          /\ r \in Runs
          /\ r = worker[w].run /\ FreshRows(T, r) /\ snaps' = snaps \cup T
          /\ Kinds(T) = CoreKinds \cup {"REPORT"}
          /\ \A s \in T : /\ s.body.facts = worker[w].facts
                          /\ s.kind = "REPORT" => s.body.status = "AWAITING_REVIEW"
    BY <1>4, OpenReportGateRows
  <2>2. PICK s \in T : s.kind = "REPORT"
    BY <2>1 DEF Kinds
  <2>3. PICK f \in snaps : IsLatest(f, r, "FACT") /\ f.version = worker[w].facts
    BY <1>4, <2>1, LatestIsLatestIn
       DEF OpenReportGate, ReportInv, SessionsAreUpToDate, WorkerUpToDate
  <2>4. IsLatest(s, r, "REPORT")' /\ IsLatest(f, r, "FACT")'
    BY <1>1, <2>1, <2>2, <2>3, LatestAfter DEF CoreKinds
  <2>5. ReportStands(r, "AWAITING_REVIEW")'
    BY <2>1, <2>2, <2>3, <2>4 DEF ReportStands
  <2>6. /\ run'[r].status = "WAITING_REPORT_REVIEW"
        /\ \A q \in Runs \ {r} : run'[q] = run[q]
    BY <1>1, <1>4, <2>1 DEF OpenReportGate, RunRow
  <2>7. QED
    BY <1>2, <2>1, <2>5, <2>6
<1>5. ASSUME NEW c \in Clients, CommitFacts(c) PROVE LatestReportMatchesRun'
  <2>1. PICK r, T :
          /\ r \in Runs
          /\ r = client[c].req.run /\ FreshRows(T, r) /\ snaps' = snaps \cup T
          /\ Kinds(T) = {"FACT", "CONFLICT"} \cup CoreKinds \cup {"REPORT"}
          /\ \E f \in T : /\ f.run = r /\ f.kind = "FACT"
                          /\ \A s \in T : s.kind \in CoreKinds \cup {"REPORT"} =>
                                            s.body.facts = f.version
          /\ \A s \in T : s.kind = "REPORT" => s.body.status = "AWAITING_REVIEW"
    BY <1>5, CommitFactsRows
  <2>2. PICK s \in T : s.kind = "REPORT"
    BY <2>1 DEF Kinds
  <2>3. PICK f \in T : f.kind = "FACT" /\ s.body.facts = f.version
    BY <2>1, <2>2
  <2>4. IsLatest(s, r, "REPORT")' /\ IsLatest(f, r, "FACT")'
    BY <1>1, <2>1, <2>2, <2>3, LatestAfter
  <2>5. ReportStands(r, "AWAITING_REVIEW")'
    BY <2>1, <2>2, <2>3, <2>4 DEF ReportStands
  <2>6. run' = [run EXCEPT ![r] = [status |-> "WAITING_REPORT_REVIEW",
                                   gate |-> "REPORT_REVIEW"]]
    BY <1>5, <2>1 DEF CommitFacts
  <2>7. /\ run'[r].status = "WAITING_REPORT_REVIEW"
        /\ \A q \in Runs \ {r} : run'[q] = run[q]
    BY <1>1, <2>1, <2>6
  <2>8. QED
    BY <1>2, <2>1, <2>5, <2>7
<1>6. ASSUME NEW c \in Clients, CommitReport(c) PROVE LatestReportMatchesRun'
  <2>1. PICK q, r, draft, v, body, row :
          /\ q = client[c].req /\ r = q.run /\ draft = client[c].current
          /\ v = client[c].version
          /\ body = [draft.body EXCEPT !.status = ReviewedStatus(q.action)]
          /\ row = Row(r, "REPORT", v, body)
    OBVIOUS
  <2>2. /\ r \in Runs /\ draft \in snaps /\ draft.body \in ReportBody
        /\ v = NextVersion(snaps, r, "REPORT") /\ snaps' = snaps \cup {row}
    BY <1>6, <2>1, CommitReportRows
  <2>3. row.run = r /\ row.kind = "REPORT" /\ row.version = v /\ row.body = body
    BY <2>1 DEF Row
  <2>4. FreshRows({row}, r) /\ Kinds({row}) = {"REPORT"}
    BY <2>2, <2>3 DEF FreshRows, Kinds, SnapshotKinds
  <2>5. client[c].pc = "picked" /\ q.gate = "REPORT_REVIEW"
    BY <1>6, <2>1 DEF CommitReport
  <2>6. run[r].status = "WAITING_REPORT_REVIEW" /\ IsLatest(draft, r, "REPORT")
    BY <2>1, <2>5, LatestIsLatestIn
       DEF StatusInv, SessionsFindTheirRuns, GateStatus, ReportInv, SessionsAreUpToDate,
           RequestUpToDate, ReviewedKind
  <2>7. PICK s \in snaps, f \in snaps :
          /\ IsLatest(s, r, "REPORT") /\ IsLatest(f, r, "FACT")
          /\ s.body.facts = f.version
    BY <2>2, <2>6, ReportsStand DEF ReportInv, ReportStands
  <2>8. s = draft
    <3>1. s.version <= draft.version /\ draft.version <= s.version
      BY <2>2, <2>6, <2>7 DEF IsLatest
    <3>2. s.version \in Nat /\ draft.version \in Nat
      BY <2>2 DEF TypeInv, TypeOK, Snapshots
    <3>3. QED
      BY <2>2, <2>6, <2>7, <3>1, <3>2 DEF ReportInv, UniqueVersions, IsLatest
  <2>9. IsLatest(row, r, "REPORT")' /\ IsLatest(f, r, "FACT")'
    BY <1>1, <2>2, <2>3, <2>4, <2>7, LatestAfter
  <2>10. row.body.facts = f.version /\ row.body.status = ReviewedStatus(q.action)
    BY <2>1, <2>2, <2>3, <2>7, <2>8 DEF ReportBody
  <2>11. ReportStands(r, ReviewedStatus(q.action))'
    BY <2>2, <2>7, <2>9, <2>10 DEF ReportStands
  <2>12. PICK st : /\ st = IF q.action = "CONFIRM_DRAFT" THEN "COMPLETED" ELSE "RETURNED"
                   /\ run' = [run EXCEPT ![r] = [status |-> st, gate |-> "NONE"]]
    BY <1>6, <2>1 DEF CommitReport
  <2>13. run'[r].status = st /\ \A p \in Runs \ {r} : run'[p] = run[p]
    BY <1>1, <2>2, <2>12
  <2>14. run'[r].status = "COMPLETED" => ReportStands(r, "CONFIRMED")'
    BY <2>11, <2>12, <2>13 DEF ReviewedStatus
  <2>15. QED
    BY <1>2, <2>2, <2>4, <2>12, <2>13, <2>14
<1>7. QED
  BY <1>3, <1>4, <1>5, <1>6, SnapshotSteps

(* Rows of a Run change what is the latest of no other.                     *)
LEMMA OtherSessionsUpToDate ==
    ASSUME Gapless, NEW T, NEW r \in Runs, FreshRows(T, r), snaps' = snaps \cup T
    PROVE  /\ \A x : x.run # r /\ WorkerUpToDate(snaps, x) => WorkerUpToDate(snaps', x)
           /\ \A x : x.req.run # r /\ RequestUpToDate(snaps, x) => RequestUpToDate(snaps', x)
<1>1. \A s, q, k : q # r /\ LatestIn(snaps, s, q, k) => LatestIn(snaps', s, q, k)
  BY LatestAfter, LatestIsLatestIn
<1>2. QED
  BY <1>1 DEF WorkerUpToDate, RequestUpToDate

(* The Run of a worker is not that of a request.                            *)
LEMMA SessionsMeetNot ==
    ASSUME StatusInv, NEW w \in Workers, NEW c \in Clients,
           worker[w].pc \in Working, client[c].pc # "free"
    PROVE  worker[w].run # client[c].req.run
<1>1. run[worker[w].run].status = "RUNNING"
  BY DEF StatusInv, SessionsFindTheirRuns
<1>2. run[client[c].req.run].status # "RUNNING"
  BY DEF StatusInv, SessionsFindTheirRuns, GateStatus
<1>3. QED
  BY <1>1, <1>2

(* What a session knows of the latest snapshots stays true: only its own    *)
(* step could file newer ones of its Run, and ends what it knows.           *)
LEMMA WorkerStaysUpToDate ==
    ASSUME TypeInv, StatusInv, ReportInv, OneAtATime, NEW w \in Workers,
           WorkerStep(w) \/ WorkerFails(w) \/ WorkerRestarts(w)
    PROVE  SessionsAreUpToDate'
<1>1. Gapless /\ worker \in [Workers -> WorkerStates]
  BY DEF TypeInv, TypeOK
<1>2. /\ \A v \in Workers : v = w
      /\ WorkerUpToDate(snaps, worker[w])
      /\ \A c \in Clients : RequestUpToDate(snaps, client[c])
  BY DEF OneAtATime, ReportInv, SessionsAreUpToDate
<1>3. client' = client
  BY DEF WorkerStep, WorkerFails, WorkerRestarts, Select, Claim, ReadMaterials, FileFacts,
         OpenFactGate, StartCore, PickCore, OpenReportGate, WorkerRaises
<1>4. \A c \in Clients : RequestUpToDate(snaps', client[c])
  <2>1. CASE snaps' = snaps
    BY <1>2, <2>1
  <2>2. CASE FileFacts(w) \/ OpenReportGate(w)
    <3>1. PICK r, T : /\ r \in Runs /\ r = worker[w].run
                      /\ FreshRows(T, r) /\ snaps' = snaps \cup T
      BY <2>2, FileFactsRows, OpenReportGateRows
    <3>2. worker[w].pc \in Working
      BY <2>2 DEF FileFacts, OpenReportGate, Working
    <3>3. \A c \in Clients : client[c].pc # "free" => client[c].req.run # r
      BY <3>1, <3>2, SessionsMeetNot
    <3>4. \A x : x.req.run # r /\ RequestUpToDate(snaps, x) => RequestUpToDate(snaps', x)
      BY <1>1, <3>1, OtherSessionsUpToDate
    <3>5. \A c \in Clients : client[c].pc = "free" => RequestUpToDate(snaps', client[c])
      BY DEF RequestUpToDate
    <3>6. QED
      BY <1>2, <3>3, <3>4, <3>5
  <2>3. QED
    BY <2>1, <2>2 DEF WorkerStep, WorkerFails, WorkerRestarts, Select, Claim, ReadMaterials,
                      OpenFactGate, StartCore, PickCore, WorkerRaises, tables
<1>5. WorkerUpToDate(snaps', worker'[w])
  <2>1. CASE StartCore(w)
    <3>1. PICK f \in snaps :
            /\ IsLatest(f, worker[w].run, "FACT") /\ snaps' = snaps
            /\ worker' = [worker EXCEPT ![w].pc = "evaluating", ![w].facts = f.version]
      BY <2>1 DEF StartCore, tables
    <3>2. worker'[w].run = worker[w].run /\ worker'[w].facts = f.version
      BY <1>1, <3>1 DEF WorkerStates
    <3>3. QED
      BY <3>1, <3>2, LatestIsLatestIn DEF WorkerUpToDate
  <2>2. CASE PickCore(w)
    <3>1. /\ worker'[w].run = worker[w].run /\ worker'[w].facts = worker[w].facts
          /\ worker[w].pc = "evaluating" /\ snaps' = snaps
      BY <1>1, <2>2 DEF PickCore, WorkerStates, tables
    <3>2. QED
      BY <1>2, <3>1 DEF WorkerUpToDate
  <2>3. ASSUME ~StartCore(w), ~PickCore(w)
        PROVE  worker'[w].pc \notin {"evaluating", "drafting"}
    <3>1. CASE Select(w) \/ Claim(w) \/ ReadMaterials(w)
      BY <1>1, <3>1 DEF Select, Claim, ReadMaterials, Idle, WorkerStates
    <3>2. CASE FileFacts(w)
      <4>1. PICK pc \in {"disputed", "filed"} :
              worker' = [worker EXCEPT ![w].pc = pc, ![w].version = 0]
        BY <3>2 DEF FileFacts
      <4>2. QED
        BY <1>1, <4>1 DEF WorkerStates
    <3>3. CASE OpenFactGate(w) \/ OpenReportGate(w) \/ WorkerRestarts(w)
      BY <1>1, <3>3 DEF OpenFactGate, OpenReportGate, WorkerRestarts, Idle
    <3>4. CASE WorkerRaises(w) \/ WorkerFails(w)
      BY <1>1, <3>4 DEF WorkerRaises, WorkerFails, Down, Idle
    <3>5. QED
      BY <2>3, <3>1, <3>2, <3>3, <3>4 DEF WorkerStep
  <2>4. QED
    BY <2>1, <2>2, <2>3 DEF WorkerUpToDate
<1>6. QED
  BY <1>2, <1>3, <1>4, <1>5 DEF SessionsAreUpToDate

(* What a request has read is up to date while it is alone.                 *)
LEMMA RequestStaysUpToDate ==
    ASSUME TypeInv, StatusInv, ReportInv, OneAtATime, NEW c \in Clients, ClientStep(c)
    PROVE  SessionsAreUpToDate'
<1>1. Gapless /\ client \in [Clients -> ClientStates]
  BY DEF TypeInv, TypeOK
<1>2. /\ \A d \in Clients : d = c
      /\ RequestUpToDate(snaps, client[c])
      /\ \A w \in Workers : WorkerUpToDate(snaps, worker[w])
  BY DEF OneAtATime, ReportInv, SessionsAreUpToDate
<1>3. worker' = worker
  BY DEF ClientStep, Arrive, Check, Pick, CommitFacts, CommitResubmission, CommitReport,
         Abandon
<1>4. \A w \in Workers : WorkerUpToDate(snaps', worker[w])
  <2>1. CASE snaps' = snaps
    BY <1>2, <2>1
  <2>2. CASE CommitFacts(c) \/ CommitReport(c)
    <3>1. PICK r, T : r \in Runs /\ r = client[c].req.run /\ FreshRows(T, r) /\ snaps' = snaps \cup T
      <4>1. CASE CommitFacts(c)
        BY <4>1, CommitFactsRows
      <4>2. CASE CommitReport(c)
        <5>1. PICK r, v, b : /\ r = client[c].req.run /\ v = client[c].version
                             /\ b = [client[c].current.body EXCEPT
                                       !.status = ReviewedStatus(client[c].req.action)]
          OBVIOUS
        <5>2. /\ r \in Runs /\ v = NextVersion(snaps, r, "REPORT")
              /\ snaps' = snaps \cup {Row(r, "REPORT", v, b)}
          BY <4>2, <5>1, CommitReportRows
        <5>3. FreshRows({Row(r, "REPORT", v, b)}, r)
          BY <5>2 DEF FreshRows, Row, SnapshotKinds
        <5>4. QED
          BY <5>1, <5>2, <5>3
      <4>3. QED
        BY <2>2, <4>1, <4>2
    <3>2. client[c].pc # "free"
      BY <2>2 DEF CommitFacts, CommitReport
    <3>3. \A w \in Workers : worker[w].pc \in Working => worker[w].run # r
      BY <3>1, <3>2, SessionsMeetNot
    <3>4. \A x : x.run # r /\ WorkerUpToDate(snaps, x) => WorkerUpToDate(snaps', x)
      BY <1>1, <3>1, OtherSessionsUpToDate
    <3>5. \A w \in Workers : worker[w].pc \notin Working => WorkerUpToDate(snaps', worker[w])
      BY DEF WorkerUpToDate, Working
    <3>6. QED
      BY <1>2, <3>3, <3>4, <3>5
  <2>3. QED
    BY <2>1, <2>2 DEF ClientStep, Arrive, Check, Pick, CommitResubmission, Abandon, tables
<1>5. RequestUpToDate(snaps', client'[c])
  <2>1. CASE Arrive(c) \/ CommitFacts(c) \/ CommitResubmission(c) \/ CommitReport(c)
               \/ Abandon(c)
    <3>1. CASE Arrive(c)
      <4>1. PICK q : client' = [client EXCEPT ![c] = [Free EXCEPT !.pc = "loaded", !.req = q]]
        BY <3>1 DEF Arrive
      <4>2. client'[c].pc = "loaded"
        BY <1>1, <4>1 DEF Free
      <4>3. QED
        BY <4>2 DEF RequestUpToDate
    <3>2. CASE client' = [client EXCEPT ![c] = Free]
      BY <1>1, <3>2 DEF Free, RequestUpToDate
    <3>3. QED
      BY <2>1, <3>1, <3>2 DEF CommitFacts, CommitResubmission, CommitReport, Abandon
  <2>2. CASE Check(c)
    <3>1. PICK s \in snaps :
            /\ IsLatest(s, client[c].req.run, ReviewedKind(client[c].req.gate))
            /\ client' = [client EXCEPT ![c].pc = "checked", ![c].current = s]
            /\ snaps' = snaps
      BY <2>2 DEF Check, tables
    <3>2. client'[c].current = s /\ client'[c].req = client[c].req
      BY <1>1, <3>1 DEF ClientStates
    <3>3. QED
      BY <3>1, <3>2, LatestIsLatestIn DEF RequestUpToDate
  <2>3. CASE Pick(c)
    <3>1. /\ client'[c].current = client[c].current /\ client'[c].req = client[c].req
          /\ client[c].pc = "checked" /\ snaps' = snaps
      BY <1>1, <2>3 DEF Pick, ClientStates, tables
    <3>2. QED
      BY <1>2, <3>1 DEF RequestUpToDate
  <2>4. QED
    BY <2>1, <2>2, <2>3 DEF ClientStep
<1>6. QED
  BY <1>2, <1>3, <1>4, <1>5 DEF SessionsAreUpToDate

(* So is what any process has read.                                         *)
LEMMA SessionsStayUpToDate ==
    ASSUME TypeInv, StatusInv, ReportInv, OneAtATime, [Next]_vars
    PROVE  SessionsAreUpToDate'
<1>1. ASSUME UNCHANGED <<worker, client, snaps>> PROVE SessionsAreUpToDate'
  BY <1>1 DEF ReportInv, SessionsAreUpToDate
<1>2. ASSUME NEW r \in Runs, CreateRun(r) \/ LeaseExpires(r)
      PROVE  SessionsAreUpToDate'
  BY <1>1, <1>2 DEF CreateRun, LeaseExpires
<1>3. CASE UNCHANGED vars
  BY <1>1, <1>3 DEF vars
<1>4. QED
  BY <1>2, <1>3, WorkerStaysUpToDate, RequestStaysUpToDate DEF Next

(* With one worker and one request at a time, the report a reviewer finds   *)
(* at the gate, and the one a completed Run ends with, is derived from the  *)
(* latest facts of the Run, and its status is the Run's.                    *)
THEOREM LatestReportsMatch ==
    ASSUME OneAtATime
    PROVE  Spec => []LatestReportMatchesRun
<1> DEFINE Inv == TypeInv /\ StatusInv /\ ReportInv
<1>1. Init => Inv
  BY InitTypeInv, InitStatus
     DEF Init, Idle, Free, ReportInv, UniqueVersions, SessionsAreUpToDate,
         WorkerUpToDate, RequestUpToDate, LatestReportMatchesRun
<1>2. Inv /\ [Next]_vars => Inv'
  BY NextTypeInv, NextKeepsStatus, UniqueVersionsKept, SessionsStayUpToDate,
     QuietStepsKeepReports, FilingStepsKeepReports DEF ReportInv
<1>3. Inv => LatestReportMatchesRun
  BY DEF ReportInv
<1>4. QED
  BY <1>1, <1>2, <1>3, PTL DEF Spec

-----------------------------------------------------------------------------
(* The Runs go through the states of RunLifecycle.                         *)

(* The report shown is the latest one, which is unique.                     *)
ShownIn(S, r) ==
    IF Versions(S, r, "REPORT") = {} THEN "NONE"
    ELSE (CHOOSE s \in S : LatestIn(S, s, r, "REPORT")).body.status

(* What report is shown depends on the snapshots only.                      *)
LEMMA ShownIsIn ==
    /\ \A r : ShownReport(r) = ShownIn(snaps, r)
    /\ \A r : ShownReport(r)' = ShownIn(snaps', r)
BY DEF ShownReport, ShownIn, IsLatest, LatestIn

Unique(S) == /\ S \subseteq Snapshots
             /\ \A s, t \in S : s.run = t.run /\ s.kind = t.kind /\ s.version = t.version
                                  => s = t

(* Versions of a kind are unique before and after a step.                   *)
LEMMA SnapshotsAreUnique ==
    /\ TypeInv /\ UniqueVersions => Unique(snaps)
    /\ TypeInv' /\ UniqueVersions' => Unique(snaps')
BY DEF TypeInv, TypeOK, UniqueVersions, Unique

(* The report shown has the status of the latest one.                       *)
LEMMA ShownIsLatest ==
    ASSUME NEW S, Unique(S), NEW r, NEW s \in S, LatestIn(S, s, r, "REPORT")
    PROVE  ShownIn(S, r) = s.body.status
<1>1. \A t \in S : LatestIn(S, t, r, "REPORT") => t = s
  <2> SUFFICES ASSUME NEW t \in S, LatestIn(S, t, r, "REPORT") PROVE t = s
    OBVIOUS
  <2>1. s.version <= t.version /\ t.version <= s.version
    BY DEF LatestIn
  <2>2. s.version \in Nat /\ t.version \in Nat
    BY DEF Unique, Snapshots
  <2>3. QED
    BY <2>1, <2>2 DEF Unique, LatestIn
<1>2. (CHOOSE t \in S : LatestIn(S, t, r, "REPORT")) = s
  BY <1>1
<1>3. s.version \in Versions(S, r, "REPORT")
  BY DEF Versions, LatestIn
<1>4. QED
  BY <1>2, <1>3 DEF ShownIn

(* A Run with a report has a latest one.                                    *)
LEMMA LatestExists ==
    ASSUME TypeInv, NEW r \in Runs, Versions(snaps, r, "REPORT") # {}
    PROVE  \E s \in snaps : IsLatest(s, r, "REPORT")
<1>1. PICK n \in Nat : Versions(snaps, r, "REPORT") = 1..n
  BY DEF TypeInv, Gapless, SnapshotKinds
<1>2. n \in Versions(snaps, r, "REPORT") /\ \A m \in Versions(snaps, r, "REPORT") : m <= n
  BY <1>1
<1>3. PICK s \in snaps : s.run = r /\ s.kind = "REPORT" /\ s.version = n
  BY <1>2 DEF Versions
<1>4. IsLatest(s, r, "REPORT")
  BY <1>2, <1>3 DEF IsLatest, Versions
<1>5. QED
  BY <1>4

(* Rows of other Runs or kinds do not change the report shown.              *)
LEMMA ShownKept ==
    ASSUME TypeInv, TypeInv', UniqueVersions, UniqueVersions',
           NEW T, NEW r \in Runs, FreshRows(T, r), snaps' = snaps \cup T,
           NEW q \in Runs, q # r \/ "REPORT" \notin Kinds(T)
    PROVE  ShownReport(q)' = ShownReport(q)
<1>1. Gapless
  BY DEF TypeInv
<1>2. Versions(snaps', q, "REPORT") = Versions(snaps, q, "REPORT")
  BY <1>1, LatestAfter
<1>3. CASE Versions(snaps, q, "REPORT") = {}
  BY <1>2, <1>3, ShownIsIn DEF ShownIn
<1>4. CASE Versions(snaps, q, "REPORT") # {}
  <2>1. PICK s \in snaps : IsLatest(s, q, "REPORT")
    BY <1>4, LatestExists
  <2>2. s \in snaps' /\ IsLatest(s, q, "REPORT")'
    BY <1>1, <2>1, LatestAfter
  <2>3. ShownIn(snaps, q) = s.body.status
    BY <2>1, ShownIsLatest, SnapshotsAreUnique, LatestIsLatestIn
  <2>4. ShownIn(snaps', q) = s.body.status
    BY <2>2, ShownIsLatest, SnapshotsAreUnique, LatestIsLatestIn
  <2>5. QED
    BY <2>3, <2>4, ShownIsIn
<1>5. QED
  BY <1>3, <1>4
(* The state of RunLifecycle, as ReviewRuns maps to it.                     *)
StatusNow == [r \in Runs |-> run[r].status]
ReportNow == [r \in Runs |-> ShownReport(r)]

(* A step that changes one Run changes its status only, ...                 *)
LEMMA StatusMoves ==
    ASSUME NEW r \in Runs, NEW from, NEW to, run[r].status \in from, run'[r].status = to,
           \A q \in Runs \ {r} : run'[q] = run[q]
    PROVE  /\ StatusNow[r] \in from
           /\ StatusNow' = [StatusNow EXCEPT ![r] = to]
BY DEF StatusNow

(* ... one that files a report that of its Run only, ...                    *)
LEMMA ReportMoves ==
    ASSUME NEW r \in Runs, NEW to, ShownReport(r)' = to,
           \A q \in Runs \ {r} : ShownReport(q)' = ShownReport(q)
    PROVE  ReportNow' = [ReportNow EXCEPT ![r] = to]
BY DEF ReportNow

(* ... and one that changes neither is a stutter.                           *)
LEMMA NothingMoves ==
    /\ run' = run => StatusNow' = StatusNow
    /\ snaps' = snaps => ReportNow' = ReportNow
<1>1. snaps' = snaps => \A r : ShownReport(r)' = ShownReport(r)
  BY ShownIsIn
<1>2. QED
  BY <1>1 DEF StatusNow, ReportNow

(* The steps of the abstract specification in these terms: those that leave *)
(* the report alone, the draft, and the review of it.                       *)
LEMMA StatusEdges ==
    ASSUME NEW r \in Runs, NEW from, NEW to,
           \/ from = {"NOT_CREATED"} /\ to = "QUEUED"
           \/ from = {"QUEUED"} /\ to = "RUNNING"
           \/ from = {"RUNNING"} /\ to = "WAITING_FACT_REVIEW"
           \/ from = {"WAITING_FACT_REVIEW"} /\ to = "RETURNED",
           StatusNow[r] \in from, StatusNow' = [StatusNow EXCEPT ![r] = to],
           ReportNow' = ReportNow
    PROVE  Lifecycle!Next
<1>1. Lifecycle!Submit(r) \/ Lifecycle!Start(r) \/ Lifecycle!AskForFacts(r)
        \/ Lifecycle!Resubmit(r)
  BY DEF StatusNow, ReportNow, Lifecycle!Move, Lifecycle!Submit, Lifecycle!Start,
         Lifecycle!AskForFacts, Lifecycle!Resubmit
<1>2. QED
  BY <1>1 DEF Lifecycle!Next

(* A new draft is a transition of the life cycle, ...                       *)
LEMMA DraftEdge ==
    ASSUME NEW r \in Runs, NEW from, from = {"RUNNING", "WAITING_FACT_REVIEW"},
           StatusNow[r] \in from,
           StatusNow' = [StatusNow EXCEPT ![r] = "WAITING_REPORT_REVIEW"],
           ReportNow' = [ReportNow EXCEPT ![r] = "AWAITING_REVIEW"]
    PROVE  Lifecycle!Next
<1>1. Lifecycle!Draft(r)
  BY DEF StatusNow, ReportNow, Lifecycle!Move, Lifecycle!Draft
<1>2. QED
  BY <1>1 DEF Lifecycle!Next

(* ... and so is the review of one.                                         *)
LEMMA ReviewEdges ==
    ASSUME NEW r \in Runs, NEW from, from = {"WAITING_REPORT_REVIEW"},
           NEW to \in {"COMPLETED", "RETURNED"}, NEW st,
           st = IF to = "COMPLETED" THEN "CONFIRMED" ELSE "RETURNED",
           StatusNow[r] \in from, StatusNow' = [StatusNow EXCEPT ![r] = to],
           ReportNow[r] = "AWAITING_REVIEW", ReportNow' = [ReportNow EXCEPT ![r] = st]
    PROVE  Lifecycle!Next
<1>1. Lifecycle!Confirm(r) \/ Lifecycle!Return(r)
  BY DEF StatusNow, ReportNow, Lifecycle!Move, Lifecycle!Confirm, Lifecycle!Return
<1>2. QED
  BY <1>1 DEF Lifecycle!Next

(* The report shown after rows of a Run were filed: unchanged for all other *)
(* Runs, and the new one, if there is one.                                  *)
LEMMA ReportFiled ==
    ASSUME TypeInv, TypeInv', UniqueVersions, UniqueVersions',
           NEW T, NEW r \in Runs, FreshRows(T, r), snaps' = snaps \cup T,
           NEW status, \A t \in T : t.kind = "REPORT" => t.body.status = status
    PROVE  IF "REPORT" \in Kinds(T) THEN ReportNow' = [ReportNow EXCEPT ![r] = status]
                                    ELSE ReportNow' = ReportNow
<1>1. Gapless
  BY DEF TypeInv
<1>2. \A q \in Runs : q # r \/ "REPORT" \notin Kinds(T) =>
                        ShownReport(q)' = ShownReport(q)
  BY ShownKept
<1>3. CASE "REPORT" \notin Kinds(T)
  BY <1>2, <1>3 DEF ReportNow
<1>4. CASE "REPORT" \in Kinds(T)
  <2>1. PICK t \in T : t.kind = "REPORT"
    BY <1>4 DEF Kinds
  <2>2. IsLatest(t, r, "REPORT")'
    BY <1>1, <2>1, LatestAfter
  <2>3. ShownIn(snaps', r) = status
    BY <2>1, <2>2, ShownIsLatest, SnapshotsAreUnique, LatestIsLatestIn
  <2>4. ShownReport(r)' = status
    BY <2>3, ShownIsIn
  <2>5. QED
    BY <1>2, <1>4, <2>4, ReportMoves
<1>5. QED
  BY <1>3, <1>4

LifecycleInv == TypeInv /\ StatusInv /\ ReportInv

(* A step of the worker is one of RunLifecycle, or changes nothing there.   *)
LEMMA WorkerFollowsLifecycle ==
    ASSUME LifecycleInv, LifecycleInv', NEW w \in Workers,
           WorkerStep(w) \/ WorkerFails(w) \/ WorkerRestarts(w)
    PROVE  Lifecycle!Next \/ UNCHANGED <<StatusNow, ReportNow>>
<1>1. run \in [Runs -> RunRow] /\ TypeInv /\ TypeInv' /\ UniqueVersions /\ UniqueVersions'
  BY DEF LifecycleInv, TypeInv, TypeOK, ReportInv
<1>2. /\ worker[w].pc = "selected" => run[worker[w].run].status = "QUEUED"
      /\ worker[w].pc \in Working => run[worker[w].run].status = "RUNNING"
      /\ worker[w].pc \notin {"idle", "down"} => worker[w].run \in Runs
  BY <1>1 DEF LifecycleInv, StatusInv, SessionsFindTheirRuns, TypeInv, WorkersHaveRuns
<1>3. CASE Select(w) \/ ReadMaterials(w) \/ StartCore(w) \/ PickCore(w) \/ WorkerRaises(w)
             \/ WorkerFails(w) \/ WorkerRestarts(w)
  <2>1. run' = run /\ snaps' = snaps
    BY <1>3 DEF Select, ReadMaterials, StartCore, PickCore, WorkerRaises, WorkerFails,
                WorkerRestarts, tables
  <2>2. QED
    BY <2>1, NothingMoves
<1>4. CASE Claim(w) \/ OpenFactGate(w)
  <2>1. PICK r \in Runs : r = worker[w].run
    BY <1>2, <1>4 DEF Claim, OpenFactGate
  <2>2. PICK from, to :
          /\ \/ from = {"QUEUED"} /\ to = "RUNNING"
             \/ from = {"RUNNING"} /\ to = "WAITING_FACT_REVIEW"
          /\ run[r].status \in from /\ run'[r].status = to
          /\ \A q \in Runs \ {r} : run'[q] = run[q]
    <3>1. CASE Claim(w)
      <4>1. /\ run[r].status \in {"QUEUED"} /\ run'[r].status = "RUNNING"
            /\ \A q \in Runs \ {r} : run'[q] = run[q]
        BY <1>1, <1>2, <2>1, <3>1 DEF Claim, RunRow
      <4>2. QED
        BY <4>1
    <3>2. CASE OpenFactGate(w)
      <4>1. /\ run[r].status \in {"RUNNING"} /\ run'[r].status = "WAITING_FACT_REVIEW"
            /\ \A q \in Runs \ {r} : run'[q] = run[q]
        BY <1>1, <1>2, <2>1, <3>2 DEF OpenFactGate, RunRow, Working
      <4>2. QED
        BY <4>1
    <3>3. QED
      BY <1>4, <3>1, <3>2
  <2>3. ReportNow' = ReportNow
    BY <1>4, NothingMoves DEF Claim, OpenFactGate
  <2>4. StatusNow[r] \in from /\ StatusNow' = [StatusNow EXCEPT ![r] = to]
    BY <2>2, StatusMoves
  <2>5. QED
    BY <2>2, <2>3, <2>4, StatusEdges
<1>5. CASE FileFacts(w)
  <2>1. run' = run
    BY <1>5 DEF FileFacts
  <2>2. PICK r, T :
          r \in Runs /\ FreshRows(T, r) /\ snaps' = snaps \cup T /\ Kinds(T) = MaterialKinds
    BY <1>1, <1>5, FileFactsRows
  <2>3. "REPORT" \notin Kinds(T) /\ \A t \in T : t.kind # "REPORT"
    BY <2>2 DEF MaterialKinds, Kinds
  <2>4. ReportNow' = ReportNow
    BY <1>1, <2>2, <2>3, ReportFiled
  <2>5. QED
    BY <2>1, <2>4, NothingMoves
<1>6. CASE OpenReportGate(w)
  <2>1. PICK r, T :
          /\ r \in Runs
          /\ r = worker[w].run /\ FreshRows(T, r) /\ snaps' = snaps \cup T
          /\ "REPORT" \in Kinds(T)
          /\ \A t \in T : t.kind = "REPORT" => t.body.status = "AWAITING_REVIEW"
    BY <1>1, <1>6, OpenReportGateRows
  <2>2. /\ run[r].status = "RUNNING" /\ run'[r].status = "WAITING_REPORT_REVIEW"
        /\ \A q \in Runs \ {r} : run'[q] = run[q]
    BY <1>1, <1>2, <1>6, <2>1 DEF OpenReportGate, RunRow, Working
  <2>3. ReportNow' = [ReportNow EXCEPT ![r] = "AWAITING_REVIEW"]
    BY <1>1, <2>1, ReportFiled
  <2>4. PICK from : from = {"RUNNING", "WAITING_FACT_REVIEW"}
    OBVIOUS
  <2>5. /\ StatusNow[r] \in from
        /\ StatusNow' = [StatusNow EXCEPT ![r] = "WAITING_REPORT_REVIEW"]
    BY <2>1, <2>2, <2>4, StatusMoves
  <2>6. QED
    BY <2>1, <2>3, <2>4, <2>5, DraftEdge
<1>7. QED
  BY <1>3, <1>4, <1>5, <1>6 DEF WorkerStep

(* So is a step of a request.                                               *)
LEMMA ClientFollowsLifecycle ==
    ASSUME LifecycleInv, LifecycleInv', NEW c \in Clients, ClientStep(c)
    PROVE  Lifecycle!Next \/ UNCHANGED <<StatusNow, ReportNow>>
<1>1. run \in [Runs -> RunRow] /\ TypeInv /\ TypeInv' /\ UniqueVersions /\ UniqueVersions'
  BY DEF LifecycleInv, TypeInv, TypeOK, ReportInv
<1>2. client[c].pc # "free" =>
        /\ client[c].req.run \in Runs /\ client[c].req \in Requests
        /\ run[client[c].req.run].status = GateStatus(client[c].req.gate)
  BY <1>1 DEF TypeInv, RequestsHaveSnapshots, Requests, RequestsOn, LifecycleInv, StatusInv,
              SessionsFindTheirRuns
<1>3. CASE Arrive(c) \/ Check(c) \/ Pick(c) \/ Abandon(c)
  <2>1. run' = run /\ snaps' = snaps
    BY <1>3 DEF Arrive, Check, Pick, Abandon, tables
  <2>2. QED
    BY <2>1, NothingMoves
<1>4. CASE CommitFacts(c)
  <2>1. PICK r, T :
          /\ r \in Runs
          /\ r = client[c].req.run /\ FreshRows(T, r) /\ snaps' = snaps \cup T
          /\ "REPORT" \in Kinds(T)
          /\ \A t \in T : t.kind = "REPORT" => t.body.status = "AWAITING_REVIEW"
    BY <1>1, <1>4, CommitFactsRows
  <2>2. client[c].pc # "free" /\ client[c].req.gate = "FACT_REVIEW"
    BY <1>4 DEF CommitFacts
  <2>3. run' = [run EXCEPT ![r] = [status |-> "WAITING_REPORT_REVIEW",
                                   gate |-> "REPORT_REVIEW"]]
    BY <1>4, <2>1 DEF CommitFacts
  <2>4. /\ run[r].status = "WAITING_FACT_REVIEW" /\ run'[r].status = "WAITING_REPORT_REVIEW"
        /\ \A q \in Runs \ {r} : run'[q] = run[q]
    BY <1>1, <1>2, <2>1, <2>2, <2>3 DEF GateStatus
  <2>5. ReportNow' = [ReportNow EXCEPT ![r] = "AWAITING_REVIEW"]
    BY <1>1, <2>1, ReportFiled
  <2>6. PICK from : from = {"RUNNING", "WAITING_FACT_REVIEW"}
    OBVIOUS
  <2>7. /\ StatusNow[r] \in from
        /\ StatusNow' = [StatusNow EXCEPT ![r] = "WAITING_REPORT_REVIEW"]
    BY <2>1, <2>4, <2>6, StatusMoves
  <2>8. QED
    BY <2>1, <2>5, <2>6, <2>7, DraftEdge
<1>5. CASE CommitResubmission(c)
  <2>1. PICK r \in Runs : r = client[c].req.run
    BY <1>2, <1>5 DEF CommitResubmission
  <2>2. /\ client[c].pc = "checked" /\ client[c].req.action = "REQUEST_RESUBMISSION"
        /\ snaps' = snaps
        /\ run' = [run EXCEPT ![r].status = "RETURNED", ![r].gate = "NONE"]
    BY <1>5, <2>1 DEF CommitResubmission
  <2>3. client[c].req.gate = "FACT_REVIEW"
    BY <1>2, <2>2 DEF Requests, RequestsOn
  <2>4. /\ run[r].status = "WAITING_FACT_REVIEW" /\ run'[r].status = "RETURNED"
        /\ \A q \in Runs \ {r} : run'[q] = run[q]
    BY <1>1, <1>2, <2>1, <2>2, <2>3 DEF GateStatus, RunRow
  <2>5. PICK from : from = {"WAITING_FACT_REVIEW"}
    OBVIOUS
  <2>6. StatusNow[r] \in from /\ StatusNow' = [StatusNow EXCEPT ![r] = "RETURNED"]
    BY <2>4, <2>5, StatusMoves
  <2>7. ReportNow' = ReportNow
    BY <2>2, NothingMoves
  <2>8. QED
    BY <2>1, <2>5, <2>6, <2>7, StatusEdges
<1>6. CASE CommitReport(c)
  <2>1. PICK q, r, v, st, body, row :
          /\ q = client[c].req /\ r = q.run /\ v = client[c].version
          /\ st = ReviewedStatus(q.action)
          /\ body = [client[c].current.body EXCEPT !.status = st]
          /\ row = Row(r, "REPORT", v, body)
    OBVIOUS
  <2>2. /\ r \in Runs /\ client[c].current.body \in ReportBody
        /\ v = NextVersion(snaps, r, "REPORT") /\ snaps' = snaps \cup {row}
    BY <1>1, <1>6, <2>1, CommitReportRows
  <2>3. row.run = r /\ row.kind = "REPORT" /\ row.version = v /\ row.body = body
    BY <2>1 DEF Row
  <2>4. FreshRows({row}, r) /\ "REPORT" \in Kinds({row})
    BY <2>2, <2>3 DEF FreshRows, Kinds, SnapshotKinds
  <2>5. body.status = st
    BY <2>1, <2>2 DEF ReportBody
  <2>6. ReportNow' = [ReportNow EXCEPT ![r] = st]
    BY <1>1, <2>2, <2>3, <2>4, <2>5, ReportFiled
  <2>7. PICK to : /\ to = IF q.action = "CONFIRM_DRAFT" THEN "COMPLETED" ELSE "RETURNED"
                  /\ run' = [run EXCEPT ![r] = [status |-> to, gate |-> "NONE"]]
    BY <1>6, <2>1 DEF CommitReport
  <2>8. run[r].status = "WAITING_REPORT_REVIEW"
    BY <1>2, <1>6, <2>1 DEF CommitReport, GateStatus
  <2>9. run'[r].status = to /\ \A p \in Runs \ {r} : run'[p] = run[p]
    BY <1>1, <2>2, <2>7
  <2>10. PICK s \in snaps : IsLatest(s, r, "REPORT") /\ s.body.status = "AWAITING_REVIEW"
    BY <2>2, <2>8, ReportsStand DEF LifecycleInv, ReportInv, ReportStands
  <2>11. ShownIn(snaps, r) = "AWAITING_REVIEW"
    BY <1>1, <2>10, ShownIsLatest, SnapshotsAreUnique, LatestIsLatestIn
  <2>12. ReportNow[r] = "AWAITING_REVIEW"
    BY <2>2, <2>11, ShownIsIn DEF ReportNow
  <2>13. PICK from : from = {"WAITING_REPORT_REVIEW"}
    OBVIOUS
  <2>14. StatusNow[r] \in from /\ StatusNow' = [StatusNow EXCEPT ![r] = to]
    BY <2>2, <2>8, <2>9, <2>13, StatusMoves
  <2>15. to \in {"COMPLETED", "RETURNED"}
         /\ st = IF to = "COMPLETED" THEN "CONFIRMED" ELSE "RETURNED"
    BY <2>1, <2>7 DEF ReviewedStatus
  <2>16. QED
    BY <2>2, <2>6, <2>12, <2>13, <2>14, <2>15, ReviewEdges
<1>7. QED
  BY <1>3, <1>4, <1>5, <1>6 DEF ClientStep

(* With one worker and one request at a time, ReviewRuns implements         *)
(* RunLifecycle: the status a Run shows and the report it offers move       *)
(* together along the edges of the state diagram only, while tasks, leases, *)
(* snapshots and failures of the worker stay behind the scenes.             *)
THEOREM RunsImplementLifecycle ==
    ASSUME OneAtATime
    PROVE  Spec => RunsFollowLifecycle
<1>1. Init => LifecycleInv
  BY InitTypeInv, InitStatus
     DEF Init, Idle, Free, LifecycleInv, ReportInv, UniqueVersions, SessionsAreUpToDate,
         WorkerUpToDate, RequestUpToDate, LatestReportMatchesRun
<1>2. LifecycleInv /\ [Next]_vars => LifecycleInv'
  BY NextTypeInv, NextKeepsStatus, UniqueVersionsKept, SessionsStayUpToDate,
     QuietStepsKeepReports, FilingStepsKeepReports DEF ReportInv, LifecycleInv
<1>3. Init => Lifecycle!Init
  <2>1. ASSUME Init PROVE \A r : ShownReport(r) = "NONE"
    BY <2>1 DEF Init, ShownReport, Versions
  <2>2. QED
    BY <2>1 DEF Init, Lifecycle!Init
<1>4. LifecycleInv /\ LifecycleInv' /\ [Next]_vars => [Lifecycle!Next]_(Lifecycle!vars)
  <2> SUFFICES ASSUME LifecycleInv, LifecycleInv', [Next]_vars
               PROVE  Lifecycle!Next \/ UNCHANGED <<StatusNow, ReportNow>>
    BY DEF Lifecycle!vars, StatusNow, ReportNow
  <2>1. CASE UNCHANGED vars
    BY <2>1, NothingMoves DEF vars
  <2>2. ASSUME NEW r \in Runs, LeaseExpires(r)
        PROVE  UNCHANGED <<StatusNow, ReportNow>>
    BY <2>2, NothingMoves DEF LeaseExpires
  <2>3. ASSUME NEW r \in Runs, CreateRun(r) PROVE Lifecycle!Next
    <3>1. /\ run[r].status \in {"NOT_CREATED"} /\ run'[r].status = "QUEUED"
          /\ \A q \in Runs \ {r} : run'[q] = run[q]
      BY <2>3 DEF CreateRun, LifecycleInv, TypeInv, TypeOK
    <3>2. ReportNow' = ReportNow
      BY <2>3, NothingMoves DEF CreateRun
    <3>3. PICK from, to : from = {"NOT_CREATED"} /\ to = "QUEUED"
      OBVIOUS
    <3>4. StatusNow[r] \in from /\ StatusNow' = [StatusNow EXCEPT ![r] = to]
      BY <3>1, <3>3, StatusMoves
    <3>5. QED
      BY <3>2, <3>3, <3>4, StatusEdges
  <2>4. QED
    BY <2>1, <2>2, <2>3, WorkerFollowsLifecycle, ClientFollowsLifecycle DEF Next
<1>5. QED
  BY <1>1, <1>2, <1>3, <1>4, PTL DEF Spec, RunsFollowLifecycle, Lifecycle!Spec
=============================================================================
