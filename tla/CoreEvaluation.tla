--------------------------- MODULE CoreEvaluation ---------------------------
(***************************************************************************)
(* Evaluations of the review core that run side by side: what              *)
(* evaluate_review_core (review_service.py) and persist_policy_index       *)
(* (retrieval.py) store, and the workflow graph a worker runs over it      *)
(* before it commits (worker.py, workflow.py), which keeps its checkpoints *)
(* in a database of its own.                                               *)
(*                                                                         *)
(* The policy files are read twice, once for the index and once for the    *)
(* policy documents, and may be edited meanwhile.  A session reads what    *)
(* is committed; its first flush with something to write takes the write   *)
(* lock, which it keeps until it commits, through the graph if it is a     *)
(* worker's, or gives up.                                                  *)
(***************************************************************************)
EXTENDS Integers, FiniteSets, FiniteSetsExt, Sequences

CONSTANTS
    Runs,
    Tasks,       \* evaluations by worker processes
    Requests,    \* evaluations by requests that settle a fact review
    RunOf,       \* the Run each one evaluates
    Files,       \* the policy files (five)
    Contents,    \* what may be in one
    Shipped,     \* what is in them at first
    Absent,      \* stands for a file that is not there
    MaxEdits     \* bound: how often a policy file is changed

Evaluations == Tasks \cup Requests
None == "none"

ASSUME EvaluationsAssumption ==
    /\ Tasks \cap Requests = {} /\ None \notin Evaluations
    /\ RunOf \in [Evaluations -> Runs]
ASSUME ContentsAssumption ==
    Absent \notin Contents /\ Shipped \in [Files -> Contents] /\ MaxEdits \in Nat

VARIABLES
    files,      \* the policy directory
    edits,      \* changes of it so far
    documents,  \* policy_documents, with the evaluation that stored each
    chunks,     \* policy_chunks; a text stands for the chunks it gives
    reports,    \* the snapshots of an evaluation, together
    gate,       \* the Runs that wait at the report gate
    lock,       \* the evaluation that holds the write lock
    eval,       \* what each evaluation is doing
    checkpoint  \* the state of the graph last saved for each Run

tables == <<documents, chunks, reports, gate>>
vars == <<files, edits, documents, chunks, reports, gate, lock, eval, checkpoint>>

Nodes == <<"load_run", "parse_documents", "extract_facts", "normalize_validate_facts",
           "detect_conflicts", "retrieve_policies", "tools_metrics_rules",
           "synthesize_validate_risks", "render_report">>
RefKinds == {"fact", "retrieval", "tool", "rule", "risk", "report"}

Waiting == [pc |-> "waiting", index |-> {}, docs |-> {}, adds |-> {}, version |-> 0,
            node |-> 0, raised |-> FALSE]
(* What is left of a session.                                               *)
Ended(e, how) == [Waiting EXCEPT !.pc = how, !.raised = eval[e].raised]
NoCheckpoint == [by |-> None, stage |-> "none", refs |-> <<>>]

Init ==
    /\ files = Shipped
    /\ edits = 0
    /\ documents = {} /\ chunks = {} /\ reports = {}
    /\ gate = {}
    /\ lock = None
    /\ eval = [e \in Evaluations |-> Waiting]
    /\ checkpoint = [r \in Runs |-> NoCheckpoint]

(* An operator replaces a policy file, or takes it away.                    *)
EditPolicies ==
    /\ edits < MaxEdits
    /\ \E f \in Files, c \in Contents \cup {Absent} :
         c # files[f] /\ files' = [files EXCEPT ![f] = c]
    /\ edits' = edits + 1
    /\ UNCHANGED <<tables, lock, eval, checkpoint>>

-----------------------------------------------------------------------------
At(e, pc) == eval[e].pc = pc
InProgress(e) == eval[e].pc \notin {"waiting", "committed", "failed"}

(* load_policy_sources refuses a directory without its five files.          *)
Complete == \A f \in Files : files[f] # Absent
Sources == {<<f, files[f]>> : f \in Files}
TextsIn(sources) == {s[2] : s \in sources}
StoredIn(table) == {row.text : row \in table}

(* The tables have one row per hash: an insert fails that repeats a stored  *)
(* one or another of the same flush.                                        *)
Insertable(sources, table) ==
    /\ TextsIn(sources) \cap StoredIn(table) = {}
    /\ \A s, t \in sources : s[2] = t[2] => s = t

RowsOf(e, sources) == {[text |-> c, by |-> e] : c \in TextsIn(sources)}

MayWrite(e) == lock \in {None, e}

(* Nothing is written that flushes nothing.                                 *)
Flushes(e, sources) ==
    IF sources = {} THEN UNCHANGED lock ELSE MayWrite(e) /\ lock' = e

LastReport(r) == Max({0} \cup {p.version : p \in {q \in reports : q.run = r}})

(* A request has stored the fact snapshot it made before it evaluates.      *)
Start(e) ==
    /\ At(e, "waiting")
    /\ IF e \in Requests
       THEN /\ RunOf[e] \notin gate
            /\ lock = None /\ lock' = e
       ELSE UNCHANGED lock
    /\ eval' = [eval EXCEPT ![e].pc = "begun"]
    /\ UNCHANGED <<files, edits, tables, checkpoint>>

(* The files are read one after the other (retrieval.py:116).  One step     *)
(* yields the same sources as long as no two edits fall within one reading: *)
(* of a single one, a reading gets the text before or the text after.       *)
BuildIndex(e) ==
    /\ At(e, "begun") /\ Complete
    /\ eval' = [eval EXCEPT ![e].pc = "indexed", ![e].index = Sources]
    /\ UNCHANGED <<files, edits, tables, lock, checkpoint>>

(* persist_policy_index reads the files again, likewise in one step, and    *)
(* looks each document up.                                                  *)
LookUpDocuments(e) ==
    /\ At(e, "indexed") /\ Complete
    /\ eval' = [eval EXCEPT ![e].pc = "documents",
                            ![e].docs = {s \in Sources : s[2] \notin StoredIn(documents)}]
    /\ UNCHANGED <<files, edits, tables, lock, checkpoint>>

(* Mutated: the documents are committed at once.                            *)
FlushDocumentsForGood(e) ==
    /\ At(e, "documents") /\ Insertable(eval[e].docs, documents) /\ MayWrite(e)
    /\ documents' = documents \cup RowsOf(e, eval[e].docs)
    /\ eval' = [eval EXCEPT ![e].pc = "flushed"]
    /\ UNCHANGED <<files, edits, chunks, reports, gate, lock, checkpoint>>

FlushDocuments(e) ==
    /\ At(e, "documents") /\ Insertable(eval[e].docs, documents)
    /\ Flushes(e, eval[e].docs)
    /\ eval' = [eval EXCEPT ![e].pc = "flushed"]
    /\ UNCHANGED <<files, edits, tables, checkpoint>>

(* Mutated: only for the documents that were not there.                     *)
LookUpChunksOfNew(e) ==
    /\ At(e, "flushed")
    /\ eval' = [eval EXCEPT ![e].pc = "chunks",
                            ![e].adds = {s \in @ \cup eval[e].index :
                                           s \in eval[e].docs /\ s[2] \notin StoredIn(chunks)}]
    /\ UNCHANGED <<files, edits, tables, lock, checkpoint>>

LookUpChunks(e) ==
    /\ At(e, "flushed")
    /\ eval' = [eval EXCEPT ![e].pc = "chunks",
                            ![e].adds = {s \in eval[e].index : s[2] \notin StoredIn(chunks)}]
    /\ UNCHANGED <<files, edits, tables, lock, checkpoint>>

(* After the chunks the evaluation searches, calls the tools and evaluates  *)
(* the rules, and reads which version its snapshots are.                    *)
FlushChunks(e) ==
    /\ At(e, "chunks") /\ Insertable(eval[e].adds, chunks)
    /\ Flushes(e, eval[e].adds)
    /\ eval' = [eval EXCEPT ![e].pc = "drafted", ![e].version = 1 + LastReport(RunOf[e])]
    /\ UNCHANGED <<files, edits, tables, checkpoint>>

NewVersion(e) == eval[e].version > LastReport(RunOf[e])

ReportOf(e) ==
    [run |-> RunOf[e], version |-> eval[e].version, by |-> e,
     cites |-> TextsIn(eval[e].index)]

(* Mutated: the snapshots are committed before the graph runs.              *)
FlushSnapshotsForGood(e) ==
    /\ At(e, "drafted") /\ NewVersion(e) /\ MayWrite(e)
    /\ reports' = reports \cup {ReportOf(e)}
    /\ lock' = None
    /\ eval' = [eval EXCEPT ![e].pc = "saved"]
    /\ UNCHANGED <<files, edits, documents, chunks, gate, checkpoint>>

FlushSnapshots(e) ==
    /\ At(e, "drafted") /\ NewVersion(e) /\ MayWrite(e)
    /\ lock' = e
    /\ eval' = [eval EXCEPT ![e].pc = "saved"]
    /\ UNCHANGED <<files, edits, tables, checkpoint>>

-----------------------------------------------------------------------------
(* The graph.  A snapshot is known by the evaluation that made it.          *)

(* setdefault                                                               *)
Defaulted(refs, k, v) ==
    IF k \in DOMAIN refs THEN refs ELSE [x \in DOMAIN refs \cup {k} |-> IF x = k THEN v ELSE refs[x]]

(* What a node leaves of the references it is given.                        *)
NodeRefs(node, refs) ==
    CASE node = "extract_facts" -> [Defaulted(refs, "fact", "mock-fact-v1")
                                      EXCEPT !["fact"] = "mock-fact-v1"]
      [] node = "retrieve_policies" -> Defaulted(refs, "retrieval", "pending")
      [] node = "tools_metrics_rules" ->
           Defaulted(Defaulted(refs, "tool", "pending"), "rule", "pending")
      [] node = "synthesize_validate_risks" -> Defaulted(refs, "risk", "pending")
      [] node = "render_report" -> Defaulted(refs, "report", "mock-report-v1")
      [] OTHER -> refs

(* The input is saved as the first checkpoint of the invocation.  LangGraph *)
(* merges it into what it last saved for the Run; the input has a value for *)
(* the stage and all references, so nothing of that is left.  A checkpoint  *)
(* names the evaluation whose snapshots it refers to, not their versions.   *)
InvokeGraph(e) ==
    /\ e \in Tasks /\ At(e, "saved")
    /\ checkpoint' = [checkpoint EXCEPT ![RunOf[e]] =
                        [by |-> e, stage |-> "claimed", refs |-> [k \in RefKinds |-> e]]]
    /\ eval' = [eval EXCEPT ![e].pc = "graph", ![e].node = 1]
    /\ UNCHANGED <<files, edits, tables, lock>>

(* A node reads the state and saves what it makes of it.  No fact review is *)
(* needed here, so the conditional edge leads past the first gate.          *)
RunNode(e) ==
    LET node == Nodes[eval[e].node]
    IN  /\ At(e, "graph") /\ eval[e].node <= Len(Nodes)
        /\ checkpoint' = [checkpoint EXCEPT
                            ![RunOf[e]].stage = node,
                            ![RunOf[e]].refs = NodeRefs(node, @)]
        /\ eval' = [eval EXCEPT ![e].node = @ + 1]
        /\ UNCHANGED <<files, edits, tables, lock>>

(* Whatever is raised in there is taken for the interrupt.                  *)
GraphRaises(e) ==
    /\ e \in Tasks
    /\ At(e, "saved") \/ At(e, "graph")
    /\ eval' = [eval EXCEPT ![e].pc = "graph", ![e].node = Len(Nodes) + 1, ![e].raised = TRUE]
    /\ UNCHANGED <<files, edits, tables, lock, checkpoint>>

-----------------------------------------------------------------------------
Evaluated(e) ==
    \/ e \in Requests /\ At(e, "saved")
    \/ At(e, "graph") /\ eval[e].node = Len(Nodes) + 1

Writes(e) ==
    /\ documents' = documents \cup RowsOf(e, eval[e].docs)
    /\ chunks' = chunks \cup RowsOf(e, eval[e].adds)
    /\ reports' = reports \cup {ReportOf(e)}
    /\ gate' = gate \cup {RunOf[e]}

(* Mutated: the lock stays.                                                 *)
CommitLocked(e) ==
    /\ Evaluated(e)
    /\ Writes(e)
    /\ eval' = [eval EXCEPT ![e] = Ended(e, "committed")]
    /\ UNCHANGED <<files, edits, lock, checkpoint>>

Commit(e) ==
    /\ Evaluated(e)
    /\ Writes(e)
    /\ lock' = None
    /\ eval' = [eval EXCEPT ![e] = Ended(e, "committed")]
    /\ UNCHANGED <<files, edits, checkpoint>>

(* Mutated: a session that fails is not closed.                             *)
GiveUpOpen(e) ==
    /\ InProgress(e)
    /\ eval' = [eval EXCEPT ![e] = IF e \in Requests THEN Waiting ELSE Ended(e, "failed")]
    /\ UNCHANGED <<files, edits, tables, lock, checkpoint>>

(* A session that ends without a commit is rolled back.  A request may be   *)
(* sent again; the worker ends, and the task stays leased to it.            *)
GiveUp(e) ==
    /\ InProgress(e)
    /\ lock' = IF lock = e THEN None ELSE lock
    /\ eval' = [eval EXCEPT ![e] = IF e \in Requests THEN Waiting ELSE Ended(e, "failed")]
    /\ UNCHANGED <<files, edits, tables, checkpoint>>

(* A policy file is missing, an insert repeats a row, or the lock is not    *)
(* given up in time.                                                        *)
Raises(e) ==
    /\ \/ At(e, "begun") /\ ~Complete
       \/ At(e, "indexed") /\ ~Complete
       \/ At(e, "documents") /\ ~(/\ Insertable(eval[e].docs, documents)
                                  /\ MayWrite(e))
       \/ At(e, "chunks") /\ ~(Insertable(eval[e].adds, chunks) /\ MayWrite(e))
       \/ At(e, "drafted") /\ ~(NewVersion(e) /\ MayWrite(e))
    /\ GiveUp(e)

(* The process ends.                                                        *)
Dies(e) == GiveUp(e)

Evaluates(e) ==
    \/ BuildIndex(e) \/ LookUpDocuments(e) \/ FlushDocuments(e)
    \/ LookUpChunks(e) \/ FlushChunks(e) \/ FlushSnapshots(e)
    \/ InvokeGraph(e) \/ RunNode(e) \/ GraphRaises(e) \/ Commit(e) \/ Raises(e)

Next ==
    \/ \E e \in Evaluations : Start(e) \/ Evaluates(e) \/ Dies(e)
    \/ EditPolicies

Spec == Init /\ [][Next]_vars

(* An evaluation that has begun is not interrupted by anything of its own.  *)
FairSpec == Spec /\ \A e \in Evaluations : WF_vars(Evaluates(e))

-----------------------------------------------------------------------------
(* Properties.                                                             *)

(* The write lock is held by an evaluation that is at work, and by every    *)
(* one that has something to commit.                                        *)
CoreTypeOK ==
    /\ files \in [Files -> Contents \cup {Absent}] /\ edits \in 0..MaxEdits
    /\ lock \in Evaluations \cup {None}
    /\ lock # None => InProgress(lock)
    /\ \A e \in Evaluations :
         /\ eval[e].node \in 0..(Len(Nodes) + 1)
         /\ At(e, "saved") \/ At(e, "graph") => lock = e

(* Every text a stored report cites is stored, by whichever evaluation came *)
(* first, whatever became of the files between the two times one was read.  *)
CitedPoliciesAreStored ==
    \A p \in reports : p.cites \subseteq StoredIn(chunks)

(* Policies are stored with a report or not at all, and once, also when two *)
(* first evaluations look the same texts up before either stores them.      *)
PoliciesComeWithReports ==
    \A table \in {documents, chunks} :
      /\ \A row \in table : \E p \in reports : p.by = row.by
      /\ \A row, other \in table : row.text = other.text => row = other

(* The graph of the latest report of a Run at the gate was the last to save *)
(* a checkpoint for it, unless it was cut short or one that was never       *)
(* committed came after it: two workers on one task take turns.  But for    *)
(* the fact, which the graph replaces, the references are those of that     *)
(* report.                                                                  *)
CheckpointNamesTheReport ==
    \A p \in reports :
      LET saved == checkpoint[p.run]
      IN  /\ p.run \in gate /\ p.version = LastReport(p.run)
          /\ p.by \in Tasks /\ ~eval[p.by].raised
          => /\ saved # NoCheckpoint
             /\ saved.by = p.by \/ ~At(saved.by, "committed")
             /\ saved.by = p.by =>
                  /\ saved.stage = "render_report"
                  /\ \A k \in RefKinds \ {"fact"} : saved.refs[k] = p.by

(* No evaluation keeps the others from writing for ever.                    *)
LockIsReleased == \A e \in Evaluations : lock = e ~> lock # e
=============================================================================
