------------------------ MODULE CoreEvaluationProofs ------------------------
(***************************************************************************)
(* Proofs about CoreEvaluation, for every set of Runs, of evaluations and  *)
(* of policy files and texts, and every number of edits: type correctness, *)
(* what is stored of the policies, and what the checkpoints of the graph   *)
(* say of the reports.                                                     *)
(***************************************************************************)
EXTENDS CoreEvaluation, TLAPS

SessionFields == {"pc", "index", "docs", "adds", "version", "node", "raised"}

(* What each evaluation is doing is a record; of its version nothing is     *)
(* needed.                                                                  *)
Shape ==
    /\ DOMAIN eval = Evaluations
    /\ \A e \in Evaluations : DOMAIN eval[e] = SessionFields

TypeInv == Shape /\ CoreTypeOK

(* What a session that gives up, or commits, leaves has the same shape.     *)
LEMMA EndedShape ==
    ASSUME NEW e, NEW how
    PROVE  /\ DOMAIN Waiting = SessionFields
           /\ DOMAIN Ended(e, how) = SessionFields
           /\ Waiting.pc = "waiting" /\ Ended(e, how).pc = how
           /\ Waiting.node = 0 /\ Ended(e, how).node = 0
BY DEF Waiting, Ended, SessionFields

(* The graph of the workflow has nine nodes.                                *)
LEMMA NineNodes == Len(Nodes) = 9
BY DEF Nodes

(* TypeInv holds initially, ...                                             *)
LEMMA TypeInit == Init => TypeInv
<1> SUFFICES ASSUME Init PROVE TypeInv
  OBVIOUS
<1>1. Shape
  BY EndedShape DEF Init, Shape
<1>2. CoreTypeOK
  BY EndedShape, NineNodes, ContentsAssumption DEF Init, CoreTypeOK, InProgress, At, None
<1> QED BY <1>1, <1>2 DEF TypeInv

(* ... and is kept by every step.                                           *)
LEMMA TypeStep == TypeInv /\ [Next]_vars => TypeInv'
<1> SUFFICES ASSUME TypeInv, [Next]_vars PROVE TypeInv'
  OBVIOUS
<1> USE NineNodes, ContentsAssumption, EvaluationsAssumption
<1>0. CASE UNCHANGED vars
  BY <1>0 DEF vars, tables, TypeInv, Shape, CoreTypeOK, At, InProgress
<1>1. CASE EditPolicies
  BY <1>1 DEF EditPolicies, tables, TypeInv, Shape, CoreTypeOK, At, InProgress
<1>2. ASSUME NEW e \in Evaluations, Start(e) PROVE TypeInv'
  BY <1>2 DEF Start, tables, TypeInv, Shape, CoreTypeOK, At, InProgress, SessionFields
<1>3. ASSUME NEW e \in Evaluations, BuildIndex(e) PROVE TypeInv'
  BY <1>3 DEF BuildIndex, tables, TypeInv, Shape, CoreTypeOK, At, InProgress, SessionFields
<1>4. ASSUME NEW e \in Evaluations, LookUpDocuments(e) PROVE TypeInv'
  BY <1>4 DEF LookUpDocuments, tables, TypeInv, Shape, CoreTypeOK, At, InProgress, SessionFields
<1>5. ASSUME NEW e \in Evaluations, FlushDocuments(e) PROVE TypeInv'
  BY <1>5 DEF FlushDocuments, Flushes, MayWrite, tables, TypeInv, Shape, CoreTypeOK, At, InProgress, SessionFields
<1>6. ASSUME NEW e \in Evaluations, LookUpChunks(e) PROVE TypeInv'
  BY <1>6 DEF LookUpChunks, tables, TypeInv, Shape, CoreTypeOK, At, InProgress, SessionFields
<1>7. ASSUME NEW e \in Evaluations, FlushChunks(e) PROVE TypeInv'
  BY <1>7 DEF FlushChunks, Flushes, MayWrite, tables, TypeInv, Shape, CoreTypeOK, At, InProgress, SessionFields
<1>8. ASSUME NEW e \in Evaluations, FlushSnapshots(e) PROVE TypeInv'
  BY <1>8 DEF FlushSnapshots, MayWrite, tables, TypeInv, Shape, CoreTypeOK, At, InProgress, SessionFields
<1>9. ASSUME NEW e \in Evaluations, InvokeGraph(e) PROVE TypeInv'
  BY <1>9 DEF InvokeGraph, tables, TypeInv, Shape, CoreTypeOK, At, InProgress, SessionFields
<1>10. ASSUME NEW e \in Evaluations, RunNode(e) PROVE TypeInv'
  BY <1>10 DEF RunNode, tables, TypeInv, Shape, CoreTypeOK, At, InProgress, SessionFields
<1>11. ASSUME NEW e \in Evaluations, GraphRaises(e) PROVE TypeInv'
  BY <1>11 DEF GraphRaises, tables, TypeInv, Shape, CoreTypeOK, At, InProgress, SessionFields
<1>12. ASSUME NEW e \in Evaluations, Commit(e) PROVE TypeInv'
  BY <1>12, EndedShape DEF Commit, Evaluated, TypeInv, Shape, CoreTypeOK, At, InProgress
<1>13. ASSUME NEW e \in Evaluations, GiveUp(e) PROVE TypeInv'
  BY <1>13, EndedShape DEF GiveUp, tables, TypeInv, Shape, CoreTypeOK, At, InProgress
<1> QED
  BY <1>0, <1>1, <1>2, <1>3, <1>4, <1>5, <1>6, <1>7, <1>8, <1>9, <1>10, <1>11, <1>12, <1>13
  DEF Next, Evaluates, Raises, Dies

(* The write lock is held by an evaluation at work, and by every one that   *)
(* has something to commit: what reviewers and workers store for one Run    *)
(* after the flush of the snapshots is never stored by two at a time.       *)
THEOREM CoreTypeCorrectness == Spec => []CoreTypeOK
<1>1. TypeInv => CoreTypeOK
  BY DEF TypeInv
<1> QED
  BY TypeInit, TypeStep, <1>1, PTL DEF Spec

-----------------------------------------------------------------------------
(* What the evaluations between the look-up of the chunks and the commit    *)
(* will cite is stored or about to be.                                      *)
Covered ==
    \A e \in Evaluations :
      eval[e].pc \in {"chunks", "drafted", "saved", "graph"} =>
        TextsIn(eval[e].index) \subseteq StoredIn(chunks) \cup TextsIn(eval[e].adds)

(* A commit stores the texts its session has to add.                        *)
LEMMA StoredByCommit ==
    ASSUME NEW e, NEW sources, NEW table
    PROVE  StoredIn(table \cup RowsOf(e, sources)) = StoredIn(table) \cup TextsIn(sources)
<1>1. ASSUME NEW c \in TextsIn(sources)
      PROVE  c \in StoredIn(table \cup RowsOf(e, sources))
  <2>1. /\ [text |-> c, by |-> e] \in table \cup RowsOf(e, sources)
        /\ [text |-> c, by |-> e].text = c
    BY DEF RowsOf
  <2> QED BY <2>1 DEF StoredIn
<1>2. ASSUME NEW row \in RowsOf(e, sources)
      PROVE  row.text \in TextsIn(sources)
  BY DEF RowsOf
<1> QED BY <1>1, <1>2 DEF StoredIn

CiteInv == Covered /\ CitedPoliciesAreStored

(* CiteInv holds initially, ...                                             *)
LEMMA CiteInit == Init => CiteInv
BY EndedShape DEF Init, CiteInv, Covered, CitedPoliciesAreStored

(* ... and is kept by every step.                                           *)
LEMMA CiteStep == TypeInv /\ CiteInv /\ [Next]_vars => CiteInv'
<1> SUFFICES ASSUME TypeInv, CiteInv, [Next]_vars PROVE CiteInv'
  OBVIOUS
<1>0. CASE UNCHANGED vars
  BY <1>0 DEF vars, tables, CiteInv, Covered, CitedPoliciesAreStored
<1>1. CASE EditPolicies
  BY <1>1 DEF EditPolicies, tables, CiteInv, Covered, CitedPoliciesAreStored
<1>2. ASSUME NEW e \in Evaluations, Start(e) PROVE CiteInv'
  BY <1>2 DEF Start, tables, TypeInv, Shape, CiteInv, Covered, CitedPoliciesAreStored, At, SessionFields
<1>3. ASSUME NEW e \in Evaluations, BuildIndex(e) PROVE CiteInv'
  BY <1>3 DEF BuildIndex, tables, TypeInv, Shape, CiteInv, Covered, CitedPoliciesAreStored, At, SessionFields
<1>4. ASSUME NEW e \in Evaluations, LookUpDocuments(e) PROVE CiteInv'
  BY <1>4 DEF LookUpDocuments, tables, TypeInv, Shape, CiteInv, Covered, CitedPoliciesAreStored, At, SessionFields
<1>5. ASSUME NEW e \in Evaluations, FlushDocuments(e) PROVE CiteInv'
  BY <1>5 DEF FlushDocuments, tables, TypeInv, Shape, CiteInv, Covered, CitedPoliciesAreStored, At, SessionFields
<1>6. ASSUME NEW e \in Evaluations, LookUpChunks(e) PROVE CiteInv'
  BY <1>6 DEF LookUpChunks, TextsIn, tables, TypeInv, Shape, CiteInv, Covered, CitedPoliciesAreStored, At, SessionFields
<1>7. ASSUME NEW e \in Evaluations, FlushChunks(e) PROVE CiteInv'
  BY <1>7 DEF FlushChunks, tables, TypeInv, Shape, CiteInv, Covered, CitedPoliciesAreStored, At, SessionFields
<1>8. ASSUME NEW e \in Evaluations, FlushSnapshots(e) PROVE CiteInv'
  BY <1>8 DEF FlushSnapshots, tables, TypeInv, Shape, CiteInv, Covered, CitedPoliciesAreStored, At, SessionFields
<1>9. ASSUME NEW e \in Evaluations, InvokeGraph(e) PROVE CiteInv'
  BY <1>9 DEF InvokeGraph, tables, TypeInv, Shape, CiteInv, Covered, CitedPoliciesAreStored, At, SessionFields
<1>10. ASSUME NEW e \in Evaluations, RunNode(e) PROVE CiteInv'
  BY <1>10 DEF RunNode, tables, TypeInv, Shape, CiteInv, Covered, CitedPoliciesAreStored, At, SessionFields
<1>11. ASSUME NEW e \in Evaluations, GraphRaises(e) PROVE CiteInv'
  BY <1>11 DEF GraphRaises, tables, TypeInv, Shape, CiteInv, Covered, CitedPoliciesAreStored, At, SessionFields
<1>12. ASSUME NEW e \in Evaluations, Commit(e) PROVE CiteInv'
  <2>1. StoredIn(chunks') = StoredIn(chunks) \cup TextsIn(eval[e].adds)
    <3>1. chunks' = chunks \cup RowsOf(e, eval[e].adds)
      BY <1>12 DEF Commit, Writes
    <3> QED BY <3>1, StoredByCommit
  <2>2. TextsIn(eval[e].index) \subseteq StoredIn(chunks')
    BY <1>12, <2>1 DEF Commit, Evaluated, At, CiteInv, Covered
  <2>3. Covered'
    BY <1>12, <2>1, EndedShape DEF Commit, TypeInv, Shape, CiteInv, Covered
  <2>4. ASSUME NEW p \in reports' PROVE p.cites \subseteq StoredIn(chunks')
    <3>1. CASE p \in reports
      BY <2>1, <3>1 DEF CiteInv, CitedPoliciesAreStored
    <3>2. CASE p = ReportOf(e)
      <4>1. p.cites = TextsIn(eval[e].index)
        BY <3>2 DEF ReportOf
      <4> QED BY <2>2, <4>1
    <3> QED BY <1>12, <3>1, <3>2 DEF Commit, Writes
  <2>5. CitedPoliciesAreStored'
    BY <2>4 DEF CitedPoliciesAreStored
  <2> QED BY <2>3, <2>5 DEF CiteInv
<1>13. ASSUME NEW e \in Evaluations, GiveUp(e) PROVE CiteInv'
  BY <1>13, EndedShape DEF GiveUp, tables, TypeInv, Shape, CiteInv, Covered, CitedPoliciesAreStored
<1> QED
  BY <1>0, <1>1, <1>2, <1>3, <1>4, <1>5, <1>6, <1>7, <1>8, <1>9, <1>10, <1>11, <1>12, <1>13
  DEF Next, Evaluates, Raises, Dies

(* Every text a stored report cites is stored: evaluate_review_core builds  *)
(* its index first, and persist_policy_index adds what of it is missing     *)
(* when it looks, which nobody takes away again.                            *)
THEOREM CitedPoliciesAreStoredHolds == Spec => []CitedPoliciesAreStored
<1>1. CiteInv => CitedPoliciesAreStored
  BY DEF CiteInv
<1> QED
  BY TypeInit, TypeStep, CiteInit, CiteStep, <1>1, PTL DEF Spec

-----------------------------------------------------------------------------
(* Who has policies to store holds the write lock from their flush on, and  *)
(* so nobody else has stored them.                                          *)
Pending ==
    \A e \in Evaluations :
      /\ eval[e].pc \in {"flushed", "chunks", "drafted", "saved", "graph"} /\ eval[e].docs # {}
         => lock = e /\ TextsIn(eval[e].docs) \cap StoredIn(documents) = {}
      /\ eval[e].pc \in {"drafted", "saved", "graph"} /\ eval[e].adds # {}
         => lock = e /\ TextsIn(eval[e].adds) \cap StoredIn(chunks) = {}

(* The two halves of PoliciesComeWithReports, of one table.                 *)
Backed(table, by) == \A row \in table : \E p \in by : p.by = row.by
Once(table) == \A row, other \in table : row.text = other.text => row = other

(* New rows are backed by the report that is committed with them.           *)
LEMMA BackedByCommit ==
    ASSUME NEW e, NEW sources, NEW table, NEW old, NEW p, Backed(table, old), p.by = e
    PROVE  Backed(table \cup RowsOf(e, sources), old \cup {p})
BY DEF Backed, RowsOf

(* Texts that were not stored are stored once by a commit.                  *)
LEMMA OnceByCommit ==
    ASSUME NEW e, NEW sources, NEW table, Once(table),
           sources = {} \/ TextsIn(sources) \cap StoredIn(table) = {}
    PROVE  Once(table \cup RowsOf(e, sources))
<1>1. \A x \in RowsOf(e, sources) : x = [text |-> x.text, by |-> e] /\ x.text \in TextsIn(sources)
  BY DEF RowsOf
<1>2. \A x \in table : x.text \in StoredIn(table)
  BY DEF StoredIn
<1>3. sources = {} => RowsOf(e, sources) = {}
  BY DEF RowsOf, TextsIn
<1> QED BY <1>1, <1>2, <1>3 DEF Once

StoreInv == Pending /\ PoliciesComeWithReports

(* StoreInv holds initially, ...                                            *)
LEMMA StoreInit == Init => StoreInv
BY EndedShape DEF Init, StoreInv, Pending, PoliciesComeWithReports

(* ... and is kept by every step.                                           *)
LEMMA StoreStep == TypeInv /\ StoreInv /\ [Next]_vars => StoreInv'
<1> SUFFICES ASSUME TypeInv, StoreInv, [Next]_vars PROVE StoreInv'
  OBVIOUS
<1> USE EvaluationsAssumption
<1>0. CASE UNCHANGED vars
  BY <1>0 DEF vars, tables, StoreInv, Pending, PoliciesComeWithReports
<1>1. CASE EditPolicies
  BY <1>1 DEF EditPolicies, tables, StoreInv, Pending, PoliciesComeWithReports
<1>2. ASSUME NEW e \in Evaluations, Start(e) PROVE StoreInv'
  BY <1>2 DEF Start, tables, TypeInv, Shape, StoreInv, Pending, PoliciesComeWithReports, At, SessionFields
<1>3. ASSUME NEW e \in Evaluations, BuildIndex(e) PROVE StoreInv'
  BY <1>3 DEF BuildIndex, tables, TypeInv, Shape, StoreInv, Pending, PoliciesComeWithReports, At, SessionFields
<1>4. ASSUME NEW e \in Evaluations, LookUpDocuments(e) PROVE StoreInv'
  BY <1>4 DEF LookUpDocuments, tables, TypeInv, Shape, StoreInv, Pending, PoliciesComeWithReports, At, SessionFields
<1>5. ASSUME NEW e \in Evaluations, FlushDocuments(e) PROVE StoreInv'
  BY <1>5 DEF FlushDocuments, Flushes, MayWrite, Insertable, tables, TypeInv, Shape, StoreInv, Pending, PoliciesComeWithReports, At, SessionFields
<1>6. ASSUME NEW e \in Evaluations, LookUpChunks(e) PROVE StoreInv'
  BY <1>6 DEF LookUpChunks, tables, TypeInv, Shape, StoreInv, Pending, PoliciesComeWithReports, At, SessionFields
<1>7. ASSUME NEW e \in Evaluations, FlushChunks(e) PROVE StoreInv'
  BY <1>7 DEF FlushChunks, Flushes, MayWrite, Insertable, tables, TypeInv, Shape, StoreInv, Pending, PoliciesComeWithReports, At, SessionFields
<1>8. ASSUME NEW e \in Evaluations, FlushSnapshots(e) PROVE StoreInv'
  BY <1>8 DEF FlushSnapshots, MayWrite, tables, TypeInv, Shape, StoreInv, Pending, PoliciesComeWithReports, At, SessionFields
<1>9. ASSUME NEW e \in Evaluations, InvokeGraph(e) PROVE StoreInv'
  BY <1>9 DEF InvokeGraph, tables, TypeInv, Shape, StoreInv, Pending, PoliciesComeWithReports, At, SessionFields
<1>10. ASSUME NEW e \in Evaluations, RunNode(e) PROVE StoreInv'
  BY <1>10 DEF RunNode, tables, TypeInv, Shape, StoreInv, Pending, PoliciesComeWithReports, At, SessionFields
<1>11. ASSUME NEW e \in Evaluations, GraphRaises(e) PROVE StoreInv'
  BY <1>11 DEF GraphRaises, tables, TypeInv, Shape, StoreInv, Pending, PoliciesComeWithReports, At, SessionFields
<1>12. ASSUME NEW e \in Evaluations, Commit(e) PROVE StoreInv'
  <2>1. lock = e /\ eval[e].pc \in {"saved", "graph"}
    BY <1>12 DEF Commit, Evaluated, At, TypeInv, CoreTypeOK
  <2>2. Pending'
    BY <1>12, <2>1, EndedShape DEF Commit, TypeInv, Shape, StoreInv, Pending
  <2>3. /\ documents' = documents \cup RowsOf(e, eval[e].docs)
        /\ chunks' = chunks \cup RowsOf(e, eval[e].adds)
        /\ reports' = reports \cup {ReportOf(e)} /\ ReportOf(e).by = e
    BY <1>12 DEF Commit, Writes, ReportOf
  <2>4. /\ Backed(documents, reports) /\ Once(documents)
        /\ Backed(chunks, reports) /\ Once(chunks)
    BY DEF StoreInv, PoliciesComeWithReports, Backed, Once
  <2>5. Backed(documents', reports') /\ Once(documents')
    <3>1. eval[e].docs = {} \/ TextsIn(eval[e].docs) \cap StoredIn(documents) = {}
      BY <2>1 DEF StoreInv, Pending
    <3> QED BY <2>3, <2>4, <3>1, BackedByCommit, OnceByCommit
  <2>6. Backed(chunks', reports') /\ Once(chunks')
    <3>1. eval[e].adds = {} \/ TextsIn(eval[e].adds) \cap StoredIn(chunks) = {}
      BY <2>1 DEF StoreInv, Pending
    <3> QED BY <2>3, <2>4, <3>1, BackedByCommit, OnceByCommit
  <2>7. PoliciesComeWithReports'
    BY <2>5, <2>6 DEF PoliciesComeWithReports, Backed, Once
  <2> QED BY <2>2, <2>7 DEF StoreInv
<1>13. ASSUME NEW e \in Evaluations, GiveUp(e) PROVE StoreInv'
  BY <1>13, EndedShape DEF GiveUp, tables, TypeInv, Shape, StoreInv, Pending, PoliciesComeWithReports
<1> QED
  BY <1>0, <1>1, <1>2, <1>3, <1>4, <1>5, <1>6, <1>7, <1>8, <1>9, <1>10, <1>11, <1>12, <1>13
  DEF Next, Evaluates, Raises, Dies

(* Policies are stored with a report or not at all, and each text once,     *)
(* however many first evaluations look the same texts up before either      *)
(* stores them.                                                             *)
THEOREM PoliciesComeWithReportsHolds == Spec => []PoliciesComeWithReports
<1>1. StoreInv => PoliciesComeWithReports
  BY DEF StoreInv
<1> QED
  BY TypeInit, TypeStep, StoreInit, StoreStep, <1>1, PTL DEF Spec

-----------------------------------------------------------------------------
(* The versions of the reports of a Run, and the last of them.              *)
VersionsIn(S, r) == {0} \cup {p.version : p \in {q \in S : q.run = r}}
Greatest(V, m) == m \in V /\ \A v \in V : v <= m
HasLast(S, r) == VersionsIn(S, r) \subseteq Nat /\ \E m \in Nat : Greatest(VersionsIn(S, r), m)

(* Max gives the greatest version, where there is one.                      *)
LEMMA MaxIsGreatest ==
    ASSUME NEW V \in SUBSET Nat, NEW m \in Nat, Greatest(V, m)
    PROVE  Max(V) = m
<1>1. m \in V /\ \A v \in V : m >= v
  BY DEF Greatest
<1>2. Max(V) \in V /\ \A v \in V : Max(V) >= v
  BY <1>1, Zenon DEF Max
<1>3. m <= Max(V) /\ Max(V) <= m /\ Max(V) \in Nat
  BY <1>1, <1>2
<1> QED BY <1>3

(* The last report of a Run has the greatest version.                       *)
LEMMA LastReportIsLast ==
    ASSUME NEW r, HasLast(reports, r)
    PROVE  /\ LastReport(r) \in Nat
           /\ Greatest(VersionsIn(reports, r), LastReport(r))
<1>1. LastReport(r) = Max(VersionsIn(reports, r))
  BY DEF LastReport, VersionsIn
<1>2. PICK m \in Nat : Greatest(VersionsIn(reports, r), m)
  BY DEF HasLast
<1>3. Max(VersionsIn(reports, r)) = m
  BY <1>2, MaxIsGreatest DEF HasLast
<1> QED BY <1>1, <1>2, <1>3

(* A report that has a version above all others is the last of its Run, and *)
(* no other Run is concerned.                                               *)
LEMMA NewVersionIsLast ==
    ASSUME NEW S, NEW r, NEW p, NEW m \in Nat, Greatest(VersionsIn(S, r), m),
           VersionsIn(S, r) \subseteq Nat,
           p.run = r, p.version \in Nat, p.version > m
    PROVE  /\ VersionsIn(S \cup {p}, r) \subseteq Nat
           /\ Greatest(VersionsIn(S \cup {p}, r), p.version)
<1>1. VersionsIn(S \cup {p}, r) = VersionsIn(S, r) \cup {p.version}
  BY DEF VersionsIn
<1> QED BY <1>1 DEF Greatest

(* A report of one Run is no version of another.                            *)
LEMMA OtherRunsKeepTheirs ==
    ASSUME NEW S, NEW r, NEW p, p.run # r
    PROVE  VersionsIn(S \cup {p}, r) = VersionsIn(S, r)
BY DEF VersionsIn

(* A report is that of an evaluation of its Run which has committed.        *)
ReportsAreCommitted ==
    /\ \A r \in Runs : HasLast(reports, r)
    /\ \A p \in reports :
         /\ p.by \in Evaluations /\ p.run = RunOf[p.by]
         /\ eval[p.by].pc = "committed"
         /\ p.version \in Nat

(* Who holds the lock with its snapshots flushed still has the next version.*)
VersionsAreNew ==
    \A e \in Evaluations :
      /\ eval[e].pc \in {"drafted", "saved", "graph"} => eval[e].version \in Nat
      /\ eval[e].pc \in {"saved", "graph"} => eval[e].version > LastReport(RunOf[e])

VersionInv == ReportsAreCommitted /\ VersionsAreNew

(* VersionInv holds initially.                                              *)
LEMMA VersionInit == Init => VersionInv
<1> SUFFICES ASSUME Init PROVE VersionInv
  OBVIOUS
<1>1. ASSUME NEW r \in Runs PROVE HasLast(reports, r)
  <2>1. VersionsIn(reports, r) = {0}
    BY DEF Init, VersionsIn
  <2> QED BY <2>1 DEF HasLast, Greatest
<1> QED BY <1>1, EndedShape DEF Init, VersionInv, ReportsAreCommitted, VersionsAreNew

(* Without a new report the last ones stay the last.                        *)
LEMMA LastReportStays ==
    ASSUME reports' = reports
    PROVE  /\ \A r : LastReport(r)' = LastReport(r)
           /\ \A r : HasLast(reports, r)' = HasLast(reports, r)
BY DEF LastReport, HasLast, VersionsIn

(* VersionInv is kept by every step.                                        *)
LEMMA VersionStep == TypeInv /\ VersionInv /\ [Next]_vars => VersionInv'
<1> SUFFICES ASSUME TypeInv, VersionInv, [Next]_vars PROVE VersionInv'
  OBVIOUS
<1> USE EvaluationsAssumption DEF VersionInv, ReportsAreCommitted, VersionsAreNew
<1>0. CASE UNCHANGED vars
  BY <1>0, LastReportStays DEF vars, tables
<1>1. CASE EditPolicies
  BY <1>1, LastReportStays DEF EditPolicies, tables
<1>2. ASSUME NEW e \in Evaluations, Start(e) PROVE VersionInv'
  BY <1>2, LastReportStays DEF Start, tables, TypeInv, Shape, At, SessionFields
<1>3. ASSUME NEW e \in Evaluations, BuildIndex(e) PROVE VersionInv'
  BY <1>3, LastReportStays DEF BuildIndex, tables, TypeInv, Shape, At, SessionFields
<1>4. ASSUME NEW e \in Evaluations, LookUpDocuments(e) PROVE VersionInv'
  BY <1>4, LastReportStays DEF LookUpDocuments, tables, TypeInv, Shape, At, SessionFields
<1>5. ASSUME NEW e \in Evaluations, FlushDocuments(e) PROVE VersionInv'
  BY <1>5, LastReportStays DEF FlushDocuments, tables, TypeInv, Shape, At, SessionFields
<1>6. ASSUME NEW e \in Evaluations, LookUpChunks(e) PROVE VersionInv'
  BY <1>6, LastReportStays DEF LookUpChunks, tables, TypeInv, Shape, At, SessionFields
<1>7. ASSUME NEW e \in Evaluations, FlushChunks(e) PROVE VersionInv'
  <2>1. LastReport(RunOf[e]) \in Nat
    BY LastReportIsLast
  <2> QED BY <1>7, <2>1, LastReportStays DEF FlushChunks, tables, TypeInv, Shape, At, SessionFields
<1>8. ASSUME NEW e \in Evaluations, FlushSnapshots(e) PROVE VersionInv'
  BY <1>8, LastReportStays DEF FlushSnapshots, NewVersion, tables, TypeInv, Shape, At, SessionFields
<1>9. ASSUME NEW e \in Evaluations, InvokeGraph(e) PROVE VersionInv'
  BY <1>9, LastReportStays DEF InvokeGraph, tables, TypeInv, Shape, At, SessionFields
<1>10. ASSUME NEW e \in Evaluations, RunNode(e) PROVE VersionInv'
  BY <1>10, LastReportStays DEF RunNode, tables, TypeInv, Shape, At, SessionFields
<1>11. ASSUME NEW e \in Evaluations, GraphRaises(e) PROVE VersionInv'
  BY <1>11, LastReportStays DEF GraphRaises, tables, TypeInv, Shape, At, SessionFields
<1>12. ASSUME NEW e \in Evaluations, Commit(e) PROVE VersionInv'
  <2>1. lock = e /\ eval[e].pc \in {"saved", "graph"}
    BY <1>12 DEF Commit, Evaluated, At, TypeInv, CoreTypeOK
  <2>2. /\ reports' = reports \cup {ReportOf(e)}
        /\ ReportOf(e).by = e /\ ReportOf(e).run = RunOf[e]
        /\ ReportOf(e).version = eval[e].version
    BY <1>12 DEF Commit, Writes, ReportOf
  <2>3. PICK q : q = ReportOf(e)
    OBVIOUS
  <2>4. ASSUME NEW r \in Runs PROVE HasLast(reports', r)
    <3>1. CASE r = RunOf[e]
      BY <2>1, <2>2, <2>3, <3>1, LastReportIsLast, NewVersionIsLast DEF HasLast
    <3>2. CASE r # RunOf[e]
      BY <2>2, <2>3, <3>2, OtherRunsKeepTheirs DEF HasLast
    <3> QED BY <3>1, <3>2
  <2>5. ReportsAreCommitted'
    <3>1. \A d \in Evaluations : d # e => eval'[d] = eval[d]
      BY <1>12 DEF Commit
    <3>2. eval'[e].pc = "committed"
      BY <1>12, EndedShape DEF Commit, TypeInv, Shape
    <3> QED BY <2>1, <2>2, <2>4, <3>1, <3>2
  <2>6. VersionsAreNew'
    <3>1. ASSUME NEW d \in Evaluations, d # e PROVE eval'[d].pc \notin {"saved", "graph"}
      BY <1>12, <2>1, <3>1 DEF Commit, TypeInv, CoreTypeOK, At
    <3>2. \A d \in Evaluations : d # e => eval'[d] = eval[d]
      BY <1>12 DEF Commit
    <3>3. eval'[e].pc = "committed"
      BY <1>12, EndedShape DEF Commit, TypeInv, Shape
    <3> QED BY <3>1, <3>2, <3>3
  <2> QED BY <2>5, <2>6
<1>13. ASSUME NEW e \in Evaluations, GiveUp(e) PROVE VersionInv'
  BY <1>13, EndedShape, LastReportStays DEF GiveUp, InProgress, tables, TypeInv, Shape
<1> QED
  BY <1>0, <1>1, <1>2, <1>3, <1>4, <1>5, <1>6, <1>7, <1>8, <1>9, <1>10, <1>11, <1>12, <1>13
  DEF Next, Evaluates, Raises, Dies

-----------------------------------------------------------------------------
(* The graph that runs is that of the lock holder: the checkpoint of its    *)
(* Run is its own and as far as its node.                                   *)
StageAt(node) == IF node = 1 THEN "claimed" ELSE Nodes[node - 1]
NamesReport(saved, e) ==
    /\ DOMAIN saved = {"by", "stage", "refs"}
    /\ RefKinds \subseteq DOMAIN saved.refs
    /\ \A k \in RefKinds \ {"fact"} : saved.refs[k] = e

GraphsAreTheirs ==
    /\ \A e \in Evaluations :
         eval[e].pc \notin {"graph", "committed", "failed"} => eval[e].raised = FALSE
    /\ \A r \in Runs : checkpoint[r] # NoCheckpoint =>
         /\ checkpoint[r].by \in Tasks /\ RunOf[checkpoint[r].by] = r
         /\ NamesReport(checkpoint[r], checkpoint[r].by)
    /\ \A e \in Evaluations : eval[e].pc = "graph" =>
         /\ e \in Tasks
         /\ eval[e].raised \/ eval[e].node \in 1..10
         /\ eval[e].raised => eval[e].node = 10
         /\ ~eval[e].raised =>
              /\ checkpoint[RunOf[e]] # NoCheckpoint
              /\ checkpoint[RunOf[e]].by = e
              /\ checkpoint[RunOf[e]].stage = StageAt(eval[e].node)

GraphInv ==
    /\ DOMAIN checkpoint = Runs
    /\ GraphsAreTheirs
    /\ CheckpointNamesTheReport

(* No node takes a reference away, or changes another than the fact.        *)
LEMMA NodesKeepReferences ==
    ASSUME NEW node, NEW refs, RefKinds \subseteq DOMAIN refs
    PROVE  /\ RefKinds \subseteq DOMAIN NodeRefs(node, refs)
           /\ \A k \in RefKinds \ {"fact"} : NodeRefs(node, refs)[k] = refs[k]
<1>1. \A k \in RefKinds : \A v : Defaulted(refs, k, v) = refs
  BY DEF Defaulted
<1>2. {"fact", "retrieval", "tool", "rule", "risk", "report"} = RefKinds
  BY DEF RefKinds
<1>3. \/ NodeRefs(node, refs) = refs
      \/ NodeRefs(node, refs) = [refs EXCEPT !["fact"] = "mock-fact-v1"]
  BY <1>1, <1>2 DEF NodeRefs
<1> QED BY <1>3

(* A session that begins has raised nothing.                                *)
LEMMA NothingRaisedYet == Waiting.raised = FALSE
BY DEF Waiting

(* GraphInv holds initially, ...                                            *)
LEMMA GraphInit == Init => GraphInv
BY EndedShape, NothingRaisedYet DEF Init, GraphInv, GraphsAreTheirs, CheckpointNamesTheReport

(* A step of an evaluation at work that commits nothing leaves the reports  *)
(* and what the checkpoints say of them: it saves none but its own.         *)
LEMMA UncommittedStep ==
    ASSUME VersionInv, GraphInv, NEW e \in Evaluations,
           DOMAIN eval' = Evaluations,
           \A d \in Evaluations : d # e => eval'[d] = eval[d],
           eval[e].pc # "committed", eval'[e].pc # "committed",
           reports' = reports, gate' = gate, DOMAIN checkpoint' = Runs,
           \A r \in Runs : \/ checkpoint'[r] = checkpoint[r]
                           \/ checkpoint'[r] # NoCheckpoint /\ checkpoint'[r].by = e
    PROVE  CheckpointNamesTheReport'
<1> USE EvaluationsAssumption
<1>0. \A r : LastReport(r)' = LastReport(r)
  BY LastReportStays
<1>1. SUFFICES
        ASSUME NEW p \in reports,
               p.run \in gate, p.version = LastReport(p.run),
               p.by \in Tasks, ~eval'[p.by].raised
        PROVE  /\ checkpoint'[p.run] # NoCheckpoint
               /\ checkpoint'[p.run].by = p.by \/ eval'[checkpoint'[p.run].by].pc # "committed"
               /\ checkpoint'[p.run].by = p.by =>
                    /\ checkpoint'[p.run].stage = "render_report"
                    /\ \A k \in RefKinds \ {"fact"} : checkpoint'[p.run].refs[k] = p.by
  BY <1>0 DEF CheckpointNamesTheReport, At
<1>2. p.by \in Evaluations /\ p.run \in Runs /\ eval[p.by].pc = "committed"
  BY DEF VersionInv, ReportsAreCommitted
<1>3. p.by # e /\ eval'[p.by] = eval[p.by]
  BY <1>2
<1>4. /\ checkpoint[p.run] # NoCheckpoint
      /\ checkpoint[p.run].by = p.by \/ eval[checkpoint[p.run].by].pc # "committed"
      /\ checkpoint[p.run].by = p.by =>
           /\ checkpoint[p.run].stage = "render_report"
           /\ \A k \in RefKinds \ {"fact"} : checkpoint[p.run].refs[k] = p.by
  BY <1>1, <1>3 DEF GraphInv, CheckpointNamesTheReport, At
<1>5. checkpoint[p.run].by \in Evaluations
  BY <1>2, <1>4 DEF GraphInv, GraphsAreTheirs, Evaluations
<1>6. CASE checkpoint'[p.run] = checkpoint[p.run]
  BY <1>3, <1>4, <1>5, <1>6
<1>7. CASE checkpoint'[p.run] # NoCheckpoint /\ checkpoint'[p.run].by = e
  BY <1>3, <1>7
<1> QED BY <1>2, <1>6, <1>7

(* As long as it does not touch the graph, nothing is to be shown of it.    *)
LEMMA OutsideTheGraph ==
    ASSUME VersionInv, GraphInv, NEW e \in Evaluations,
           DOMAIN eval' = Evaluations,
           \A d \in Evaluations : d # e => eval'[d] = eval[d],
           eval[e].pc # "committed", eval'[e].pc \notin {"committed", "graph"},
           eval'[e].pc = "failed" \/ eval'[e].raised = FALSE,
           reports' = reports, gate' = gate, checkpoint' = checkpoint
    PROVE  GraphInv'
<1>1. CheckpointNamesTheReport'
  BY UncommittedStep DEF GraphInv
<1>2. GraphsAreTheirs'
  BY DEF GraphInv, GraphsAreTheirs
<1> QED BY <1>1, <1>2 DEF GraphInv

(* ... and is kept by every step.                                           *)
LEMMA GraphStep == TypeInv /\ VersionInv /\ GraphInv /\ [Next]_vars => GraphInv'
<1> SUFFICES ASSUME TypeInv, VersionInv, GraphInv, [Next]_vars PROVE GraphInv'
  OBVIOUS
<1> USE EvaluationsAssumption
<1>0. ASSUME NEW e \in Evaluations, eval[e].pc \in {"saved", "graph"}
      PROVE  /\ lock = e
             /\ \A d \in Evaluations : d # e => eval[d].pc \notin {"saved", "graph"}
  BY <1>0 DEF TypeInv, CoreTypeOK, At
<1>14. \A e \in Evaluations :
         eval[e].pc \notin {"graph", "committed", "failed"} => eval[e].raised = FALSE
  BY DEF GraphInv, GraphsAreTheirs
<1>1. CASE UNCHANGED vars
  BY <1>1, LastReportStays DEF vars, tables, GraphInv, GraphsAreTheirs, CheckpointNamesTheReport, At
<1>2. CASE EditPolicies
  BY <1>2, LastReportStays DEF EditPolicies, tables, GraphInv, GraphsAreTheirs, CheckpointNamesTheReport, At
<1>3. ASSUME NEW e \in Evaluations, Start(e) PROVE GraphInv'
  BY <1>3, <1>14, OutsideTheGraph DEF Start, tables, TypeInv, Shape, At, SessionFields
<1>4. ASSUME NEW e \in Evaluations, BuildIndex(e) PROVE GraphInv'
  BY <1>4, <1>14, OutsideTheGraph DEF BuildIndex, tables, TypeInv, Shape, At, SessionFields
<1>5. ASSUME NEW e \in Evaluations, LookUpDocuments(e) PROVE GraphInv'
  BY <1>5, <1>14, OutsideTheGraph DEF LookUpDocuments, tables, TypeInv, Shape, At, SessionFields
<1>6. ASSUME NEW e \in Evaluations, FlushDocuments(e) PROVE GraphInv'
  BY <1>6, <1>14, OutsideTheGraph DEF FlushDocuments, tables, TypeInv, Shape, At, SessionFields
<1>7. ASSUME NEW e \in Evaluations, LookUpChunks(e) PROVE GraphInv'
  BY <1>7, <1>14, OutsideTheGraph DEF LookUpChunks, tables, TypeInv, Shape, At, SessionFields
<1>8. ASSUME NEW e \in Evaluations, FlushChunks(e) PROVE GraphInv'
  BY <1>8, <1>14, OutsideTheGraph DEF FlushChunks, tables, TypeInv, Shape, At, SessionFields
<1>9. ASSUME NEW e \in Evaluations, FlushSnapshots(e) PROVE GraphInv'
  BY <1>9, <1>14, OutsideTheGraph DEF FlushSnapshots, tables, TypeInv, Shape, At, SessionFields
<1>10. ASSUME NEW e \in Evaluations, GiveUp(e) PROVE GraphInv'
  <2>1. /\ eval[e].pc # "committed" /\ DOMAIN eval' = Evaluations
        /\ \A d \in Evaluations : d # e => eval'[d] = eval[d]
        /\ eval'[e] = Waiting \/ eval'[e] = Ended(e, "failed")
        /\ reports' = reports /\ gate' = gate /\ checkpoint' = checkpoint
    BY <1>10 DEF GiveUp, InProgress, tables, TypeInv, Shape
  <2>2. \/ eval'[e].pc = "waiting" /\ eval'[e].raised = FALSE
        \/ eval'[e].pc = "failed"
    BY <2>1, EndedShape, NothingRaisedYet
  <2> QED BY <2>1, <2>2, OutsideTheGraph
<1>11. ASSUME NEW e \in Evaluations, InvokeGraph(e) PROVE GraphInv'
  <2>1. /\ e \in Tasks /\ eval[e].pc = "saved" /\ RunOf[e] \in Runs
        /\ DOMAIN eval' = Evaluations
        /\ eval'[e].pc = "graph" /\ eval'[e].node = 1
        /\ \A d \in Evaluations : d # e => eval'[d] = eval[d]
    BY <1>11 DEF InvokeGraph, At, TypeInv, Shape, SessionFields
  <2>2. PICK saved : saved = [by |-> e, stage |-> "claimed", refs |-> [k \in RefKinds |-> e]]
    OBVIOUS
  <2>3. /\ saved # NoCheckpoint /\ saved.by = e /\ saved.stage = "claimed"
        /\ NamesReport(saved, e)
    BY <2>2 DEF NoCheckpoint, NamesReport
  <2>4. /\ DOMAIN checkpoint' = Runs /\ checkpoint'[RunOf[e]] = saved
        /\ \A r \in Runs : r # RunOf[e] => checkpoint'[r] = checkpoint[r]
        /\ reports' = reports /\ gate' = gate
    BY <1>11, <2>1, <2>2 DEF InvokeGraph, GraphInv, tables
  <2>5. CheckpointNamesTheReport'
    BY <2>1, <2>3, <2>4, UncommittedStep
  <2>6. GraphsAreTheirs'
    <3>2. \A d \in Evaluations : eval'[d].pc = "graph" => d = e
      BY <1>0, <2>1
    <3>3. eval'[e].raised = FALSE
      BY <1>11, <1>14, <2>1 DEF InvokeGraph, TypeInv, Shape, SessionFields
    <3> QED BY <2>1, <2>3, <2>4, <3>2, <3>3 DEF GraphInv, GraphsAreTheirs, StageAt
  <2> QED BY <2>4, <2>5, <2>6 DEF GraphInv
<1>12. ASSUME NEW e \in Evaluations, RunNode(e) PROVE GraphInv'
  <2>1. PICK n : n = eval[e].node
    OBVIOUS
  <2>2. /\ eval[e].pc = "graph" /\ n <= 9 /\ e \in Tasks
        /\ eval[e].raised \/ n \in 1..10
        /\ eval[e].raised => n = 10
    BY <1>12, <2>1, NineNodes DEF RunNode, At, GraphInv, GraphsAreTheirs
  <2>3. n \in 1..9 /\ ~eval[e].raised
    BY <2>2
  <2>4. PICK old : old = checkpoint[RunOf[e]]
    OBVIOUS
  <2>5. old # NoCheckpoint /\ old.by = e /\ NamesReport(old, e)
    BY <2>2, <2>3, <2>4 DEF GraphInv, GraphsAreTheirs
  <2>6. PICK saved : saved = [old EXCEPT !.stage = Nodes[n], !.refs = NodeRefs(Nodes[n], @)]
    OBVIOUS
  <2>7. /\ DOMAIN saved = DOMAIN old /\ saved.by = e /\ saved.stage = Nodes[n]
        /\ saved.refs = NodeRefs(Nodes[n], old.refs)
    BY <2>5, <2>6 DEF NamesReport
  <2>8. NamesReport(saved, e)
    BY <2>5, <2>7, NodesKeepReferences DEF NamesReport
  <2>9. saved # NoCheckpoint
    BY <2>7 DEF NoCheckpoint
  <2>10. RunOf[e] \in Runs
    OBVIOUS
  <2>11. /\ DOMAIN checkpoint' = Runs /\ checkpoint'[RunOf[e]] = saved
         /\ \A r \in Runs : r # RunOf[e] => checkpoint'[r] = checkpoint[r]
         /\ reports' = reports /\ gate' = gate
    BY <1>12, <2>1, <2>4, <2>6, <2>10 DEF RunNode, GraphInv, tables
  <2>12. /\ DOMAIN eval' = Evaluations
         /\ \A d \in Evaluations : d # e => eval'[d] = eval[d]
         /\ eval'[e].pc = "graph" /\ eval'[e].node = n + 1
         /\ eval'[e].raised = eval[e].raised
    BY <1>12, <2>1, <2>2 DEF RunNode, At, TypeInv, Shape, SessionFields
  <2>13. CheckpointNamesTheReport'
    BY <2>2, <2>7, <2>9, <2>11, <2>12, UncommittedStep
  <2>14. GraphsAreTheirs'
    <3>1. \A d \in Evaluations : eval'[d].pc = "graph" => d = e
      BY <1>0, <2>2, <2>12
    <3>2. n + 1 \in 1..10 /\ StageAt(n + 1) = Nodes[n]
      BY <2>3 DEF StageAt
    <3> QED BY <2>2, <2>3, <2>7, <2>8, <2>9, <2>11, <2>12, <3>1, <3>2 DEF GraphInv, GraphsAreTheirs
  <2> QED BY <2>11, <2>13, <2>14 DEF GraphInv
<1>13. ASSUME NEW e \in Evaluations, GraphRaises(e) PROVE GraphInv'
  <2>1. /\ e \in Tasks /\ eval[e].pc \in {"saved", "graph"}
        /\ DOMAIN eval' = Evaluations
        /\ \A d \in Evaluations : d # e => eval'[d] = eval[d]
        /\ eval'[e].pc = "graph" /\ eval'[e].node = 10 /\ eval'[e].raised = TRUE
        /\ reports' = reports /\ gate' = gate /\ checkpoint' = checkpoint
    BY <1>13, NineNodes DEF GraphRaises, At, tables, TypeInv, Shape, SessionFields
  <2>2. CheckpointNamesTheReport'
    BY <2>1, UncommittedStep DEF GraphInv
  <2>3. GraphsAreTheirs'
    BY <2>1 DEF GraphInv, GraphsAreTheirs
  <2> QED BY <2>1, <2>2, <2>3 DEF GraphInv
<1>15. ASSUME NEW e \in Evaluations, Commit(e) PROVE GraphInv'
  <2>1. /\ eval[e].pc \in {"saved", "graph"} /\ RunOf[e] \in Runs
        /\ e \in Tasks /\ ~eval[e].raised => eval[e].pc = "graph" /\ eval[e].node = 10
    BY <1>15, NineNodes DEF Commit, Evaluated, At
  <2>2. PICK q : q = ReportOf(e)
    OBVIOUS
  <2>3. /\ DOMAIN eval' = Evaluations
        /\ \A d \in Evaluations : d # e => eval'[d] = eval[d]
        /\ eval'[e].pc = "committed" /\ eval'[e].raised = eval[e].raised
        /\ reports' = reports \cup {q} /\ gate' = gate \cup {RunOf[e]}
        /\ checkpoint' = checkpoint
        /\ q.by = e /\ q.run = RunOf[e] /\ q.version = eval[e].version
    BY <1>15, <2>2, EndedShape DEF Commit, Writes, Ended, Waiting, ReportOf, TypeInv, Shape
  <2>4. GraphsAreTheirs'
    BY <2>3 DEF GraphInv, GraphsAreTheirs
  <2>5. /\ LastReport(RunOf[e])' = eval[e].version
        /\ eval[e].version > LastReport(RunOf[e])
        /\ LastReport(RunOf[e]) \in Nat
        /\ \A r \in Runs : r # RunOf[e] => LastReport(r)' = LastReport(r)
    <3>1. /\ eval[e].version \in Nat /\ eval[e].version > LastReport(RunOf[e])
          /\ HasLast(reports, RunOf[e]) /\ \A r \in Runs : HasLast(reports, r)
      BY <2>1 DEF VersionInv, ReportsAreCommitted, VersionsAreNew
    <3>2. /\ LastReport(RunOf[e]) \in Nat
          /\ Greatest(VersionsIn(reports, RunOf[e]), LastReport(RunOf[e]))
      BY <3>1, LastReportIsLast
    <3>3. PICK m : m = LastReport(RunOf[e])
      OBVIOUS
    <3>4. /\ VersionsIn(reports \cup {q}, RunOf[e]) \subseteq Nat
          /\ Greatest(VersionsIn(reports \cup {q}, RunOf[e]), q.version)
      BY <2>3, <3>1, <3>2, <3>3, NewVersionIsLast DEF HasLast
    <3>5. \A r : LastReport(r)' = Max(VersionsIn(reports \cup {q}, r))
      BY <2>3 DEF LastReport, VersionsIn
    <3>6. \A r : LastReport(r) = Max(VersionsIn(reports, r))
      BY DEF LastReport, VersionsIn
    <3>7. Max(VersionsIn(reports \cup {q}, RunOf[e])) = q.version
      BY <2>3, <3>1, <3>4, MaxIsGreatest
    <3>8. \A r : r # RunOf[e] => VersionsIn(reports \cup {q}, r) = VersionsIn(reports, r)
      BY <2>3, OtherRunsKeepTheirs
    <3> QED BY <2>3, <3>1, <3>2, <3>5, <3>6, <3>7, <3>8
  <2>6. CheckpointNamesTheReport'
    <3>1. SUFFICES
            ASSUME NEW p \in reports', p.run \in gate', p.version = LastReport(p.run)',
                   p.by \in Tasks, ~eval'[p.by].raised
            PROVE  /\ checkpoint[p.run] # NoCheckpoint
                   /\ checkpoint[p.run].by = p.by \/ eval'[checkpoint[p.run].by].pc # "committed"
                   /\ checkpoint[p.run].by = p.by =>
                        /\ checkpoint[p.run].stage = "render_report"
                        /\ \A k \in RefKinds \ {"fact"} : checkpoint[p.run].refs[k] = p.by
      BY <2>3 DEF CheckpointNamesTheReport, At
    <3>2. CASE p = q
      <4>1. /\ e \in Tasks /\ eval[e].pc = "graph" /\ eval[e].node = 10 /\ ~eval[e].raised
            /\ p.run = RunOf[e] /\ p.by = e
        BY <2>1, <2>3, <3>1, <3>2
      <4>2. /\ checkpoint[RunOf[e]] # NoCheckpoint /\ checkpoint[RunOf[e]].by = e
            /\ checkpoint[RunOf[e]].stage = StageAt(10)
            /\ NamesReport(checkpoint[RunOf[e]], e)
        BY <2>1, <4>1 DEF GraphInv, GraphsAreTheirs
      <4>3. StageAt(10) = "render_report"
        BY DEF StageAt, Nodes
      <4> QED BY <4>1, <4>2, <4>3 DEF NamesReport
    <3>3. CASE p # q
      <4>1. /\ p \in reports /\ p.by \in Evaluations /\ p.run \in Runs /\ p.run = RunOf[p.by]
            /\ eval[p.by].pc = "committed" /\ p.version \in Nat
        BY <2>3, <3>3 DEF VersionInv, ReportsAreCommitted
      <4>2. p.by # e /\ eval'[p.by] = eval[p.by]
        BY <2>1, <2>3, <4>1
      <4>3. p.run # RunOf[e]
        <5>1. p.version \in VersionsIn(reports, p.run)
          BY <4>1 DEF VersionsIn
        <5>2. HasLast(reports, p.run)
          BY <4>1 DEF VersionInv, ReportsAreCommitted
        <5>3. p.version <= LastReport(p.run)
          BY <5>1, <5>2, LastReportIsLast DEF Greatest
        <5>4. SUFFICES ASSUME p.run = RunOf[e] PROVE FALSE
          OBVIOUS
        <5>5. /\ p.version <= LastReport(RunOf[e])
              /\ p.version = LastReport(RunOf[e])'
          BY <3>1, <5>3, <5>4
        <5>6. PICK m : m = LastReport(RunOf[e])
          OBVIOUS
        <5>7. p.version = eval[e].version /\ eval[e].version > m /\ m \in Nat /\ p.version <= m
          BY <2>5, <5>5, <5>6
        <5> QED BY <4>1, <5>7
      <4>4. p.run \in gate /\ p.version = LastReport(p.run)
        BY <2>3, <2>5, <3>1, <4>1, <4>3
      <4>5. /\ checkpoint[p.run] # NoCheckpoint
            /\ checkpoint[p.run].by = p.by \/ eval[checkpoint[p.run].by].pc # "committed"
            /\ checkpoint[p.run].by = p.by =>
                 /\ checkpoint[p.run].stage = "render_report"
                 /\ \A k \in RefKinds \ {"fact"} : checkpoint[p.run].refs[k] = p.by
        BY <3>1, <4>1, <4>2, <4>4 DEF GraphInv, CheckpointNamesTheReport, At
      <4>6. /\ checkpoint[p.run].by \in Evaluations
            /\ RunOf[checkpoint[p.run].by] = p.run
        BY <4>1, <4>5 DEF GraphInv, GraphsAreTheirs, Evaluations
      <4> QED BY <2>3, <4>3, <4>5, <4>6
    <3> QED BY <3>2, <3>3
  <2> QED BY <2>3, <2>4, <2>6 DEF GraphInv
<1> QED
  BY <1>1, <1>2, <1>3, <1>4, <1>5, <1>6, <1>7, <1>8, <1>9, <1>10, <1>11, <1>12, <1>13, <1>15
  DEF Next, Evaluates, Raises, Dies

(* The graph of the latest report of a Run at the gate was the last to save *)
(* a checkpoint for it, and names that report, unless it was cut short or   *)
(* one came after it that was never committed: run_workflow is called       *)
(* between the flush of the snapshots and the commit, and so by the holder  *)
(* of the write lock alone, though its checkpoints are in a database that   *)
(* the lock does not guard.                                                 *)
THEOREM CheckpointNamesTheReportHolds == Spec => []CheckpointNamesTheReport
<1>1. GraphInv => CheckpointNamesTheReport
  BY DEF GraphInv
<1> QED
  BY TypeInit, TypeStep, VersionInit, VersionStep, GraphInit, GraphStep, <1>1, PTL DEF Spec

=============================================================================
