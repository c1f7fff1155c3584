----------------------------- MODULE CaseIntake -----------------------------
(***************************************************************************)
(* How the materials of one case come together and Runs are made of them:  *)
(* create_case, save_document and create_run of service.py, and            *)
(* demo.create_demo_scenario, which chains them in one session.            *)
(*                                                                         *)
(* As in ReviewRuns, a SELECT sees the last committed state and the work   *)
(* from the first flush to the commit is one step.  The upload endpoint is *)
(* a coroutine that awaits only the request body: on the single event loop *)
(* of the API process one upload runs at a time.  The other endpoints, the *)
(* demo scenario's uploads among them, run in threads beside it.           *)
(***************************************************************************)
EXTENDS Integers, FiniteSets, FiniteSetsExt

CONSTANTS
    N,          \* kinds of required material (four)
    MaxActive,  \* active materials a case may have (ten)
    Ids,        \* identifiers drawn for documents and files: a bound
    Keys,       \* values of the Idempotency-Key header
    Sessions    \* requests the API may have in flight at once

ASSUME NAssumption == N \in Nat \ {0}
ASSUME MaxActiveAssumption == MaxActive \in Nat
Types == 1..N
None == "none"

ASSUME IdsAssumption == IsFiniteSet(Ids) /\ None \notin Ids

-----------------------------------------------------------------------------
(* The part a key plays: 0 as the client sends it, and in a demo scenario   *)
(* 1 for the case, i for the i-th document, N + 1 for the Run.              *)
Parts == 0..N + 1

Documents == [id : Ids, type : Types, version : Nat]
RunRows == [number : Nat, docs : SUBSET Ids]
IntakeRecords ==
    [scope : {"cases"}, key : Keys, part : Parts, resource : {"case"}]
      \cup [scope : {"documents"}, key : Keys, part : Parts, resource : Ids]
      \cup [scope : {"runs"}, key : Keys, part : Parts, resource : Nat]

VARIABLES
    version,  \* credit_cases.version of the case, 0 before it exists
    docs,     \* documents
    active,   \* those that are active
    files,    \* files in the storage directory
    runs,     \* review_runs, numbered as they were committed
    idem,     \* idempotency_records
    session   \* what each request in flight has read

tables == <<version, docs, active, runs, idem>>
vars == <<version, docs, active, files, runs, idem, session>>

UploadPCs == {"admitted", "stored"}
PCs == UploadPCs \cup {"free", "demo", "created", "loaded", "comparing", "listed"}
SessionStates ==
    [pc : PCs, part : Parts, key : Keys \cup {None}, case : Nat,
     type : Types \cup {0}, replaces : Ids \cup {None},
     id : Ids \cup {None}, version : Nat, docs : SUBSET Ids]
Free == [pc |-> "free", part |-> 0, key |-> None, case |-> 0, type |-> 0,
         replaces |-> None, id |-> None, version |-> 0, docs |-> {}]

IntakeTypeOK ==
    /\ version \in Nat
    /\ docs \subseteq Documents
    /\ active \subseteq Ids
    /\ files \subseteq Ids
    /\ runs \subseteq RunRows
    /\ idem \subseteq IntakeRecords
    /\ session \in [Sessions -> SessionStates]

Init ==
    /\ version = 0
    /\ docs = {} /\ active = {} /\ files = {}
    /\ runs = {} /\ idem = {}
    /\ session = [s \in Sessions |-> Free]

-----------------------------------------------------------------------------
DocIds == {d.id : d \in docs}
TypesOf(D) == {d.type : d \in {e \in docs : e.id \in D}}

VersionsOf(t) == {d.version : d \in {e \in docs : e.type = t}}
LatestVersion(t) == IF VersionsOf(t) = {} THEN 0 ELSE Max(VersionsOf(t))

(* Mutated: neither the look at the record nor its unique key.              *)
OnRecordNever(scope, key, part) == FALSE

(* _idempotent_resource: a key on record is answered with its resource, or  *)
(* with 409 when the request differs; neither writes anything.              *)
OnRecord(scope, key, part) ==
    \E i \in idem : i.scope = scope /\ i.key = key /\ i.part = part

Saved(scope, key, part, resource) ==
    {[scope |-> scope, key |-> key, part |-> part, resource |-> resource]}

-----------------------------------------------------------------------------
(* create_case.  Its reads decide nothing that the unique case number and   *)
(* the unique key do not decide again at the commit.                        *)
PostCase ==
    /\ version = 0
    /\ \E k \in Keys : idem' = idem \cup Saved("cases", k, 0, "case")
    /\ version' = 1
    /\ UNCHANGED <<docs, active, files, runs, session>>

(* save_document looks at the key, then at the limit, which a replacement   *)
(* passes.                                                                  *)
Admissible(x) ==
    /\ ~OnRecord("documents", x.key, x.part)
    /\ x.replaces = None => Cardinality(active) < MaxActive

(* Mutated: a plain handler, run in a thread like the others.               *)
PostDocumentInThread(s) ==
    /\ session[s].pc = "free" /\ version > 0
    /\ \E k \in Keys, t \in Types :
         LET x == [Free EXCEPT !.pc = "admitted", !.key = k, !.case = version,
                               !.type = t]
         IN  Admissible(x) /\ session' = [session EXCEPT ![s] = x]
    /\ UNCHANGED <<tables, files>>

(* Mutated: a document may replace one of another kind.                     *)
PostDocumentAnyKind(s) ==
    /\ session[s].pc = "free" /\ version > 0
    /\ \A t \in Sessions : session[t].part = 0 => session[t].pc \notin UploadPCs
    /\ \E k \in Keys, t \in Types, old \in DocIds \cup {None} :
         LET x == [Free EXCEPT !.pc = "admitted", !.key = k, !.case = version,
                               !.type = t, !.replaces = old]
         IN  Admissible(x) /\ session' = [session EXCEPT ![s] = x]
    /\ UNCHANGED <<tables, files>>

(* An upload reaches the service: it is alone on the event loop, reads the  *)
(* case, and is admitted.  A document it replaces is one of the case and of *)
(* its kind.  (What is refused stays refused, so the reads can be one step.)*)
PostDocument(s) ==
    /\ session[s].pc = "free" /\ version > 0
    /\ \A t \in Sessions : session[t].part = 0 => session[t].pc \notin UploadPCs
    /\ \E k \in Keys, t \in Types, old \in DocIds \cup {None} :
         LET x == [Free EXCEPT !.pc = "admitted", !.key = k, !.case = version,
                               !.type = t, !.replaces = old]
         IN  /\ old # None => TypesOf({old}) = {t}
             /\ Admissible(x)
             /\ session' = [session EXCEPT ![s] = x]
    /\ UNCHANGED <<tables, files>>

(* A document of a demo scenario, in the middle of its session.             *)
Admit(s) ==
    /\ session[s].pc = "loaded"
    /\ Admissible(session[s])
    /\ session' = [session EXCEPT ![s].pc = "admitted"]
    /\ UNCHANGED <<tables, files>>

(* Mutated: the version is looked up over all kinds.                        *)
StoreOverKinds(s) ==
    /\ session[s].pc = "admitted"
    /\ \E id \in Ids \ files :
         /\ files' = files \cup {id}
         /\ session' = [session EXCEPT
                          ![s].pc = "stored", ![s].id = id,
                          ![s].version = Cardinality(docs) + 1]
    /\ UNCHANGED tables

(* Mutated: the file is left to be written after the commit.                *)
StoreLater(s) ==
    /\ session[s].pc = "admitted"
    /\ \E id \in Ids \ files :
         session' = [session EXCEPT
                       ![s].pc = "stored", ![s].id = id,
                       ![s].version = LatestVersion(session[s].type) + 1]
    /\ UNCHANGED <<tables, files>>

(* It reads the latest version and writes the file under a fresh name.      *)
Store(s) ==
    /\ session[s].pc = "admitted"
    /\ \E id \in Ids \ files :
         /\ files' = files \cup {id}
         /\ session' = [session EXCEPT
                          ![s].pc = "stored", ![s].id = id,
                          ![s].version = LatestVersion(session[s].type) + 1]
    /\ UNCHANGED tables

(* Mutated: one document too many.                                          *)
AfterOneMore(s) ==
    LET x == session[s]
    IN  IF x.part = 0 THEN Free
        ELSE [Free EXCEPT !.part = x.part + 1, !.key = x.key, !.case = x.case + 1,
                          !.docs = x.docs \cup {x.id}, !.type = x.part + 1,
                          !.pc = IF x.part <= N THEN "loaded" ELSE "comparing"]

(* What a demo scenario goes on with: the next document, or the Run.        *)
After(s) ==
    LET x == session[s]
        done == x.docs \cup {x.id}
        next == [Free EXCEPT !.part = x.part + 1, !.key = x.key,
                             !.case = x.case + 1, !.docs = done]
    IN  IF x.part = 0 THEN Free
        ELSE IF x.part < N THEN [next EXCEPT !.pc = "loaded", !.type = x.part + 1]
        ELSE [next EXCEPT !.pc = "comparing"]

(* Mutated: a replacement is active only once something approves of it.     *)
CommitDocumentInactive(s) ==
    LET x == session[s]
    IN  /\ x.pc = "stored"
        /\ x.version \notin VersionsOf(x.type)
        /\ ~OnRecord("documents", x.key, x.part)
        /\ docs' = docs \cup {[id |-> x.id, type |-> x.type, version |-> x.version]}
        /\ active' = IF x.replaces = None THEN active \cup {x.id} ELSE active
        /\ version' = x.case + 1
        /\ idem' = idem \cup Saved("documents", x.key, x.part, x.id)
        /\ session' = [session EXCEPT ![s] = After(s)]
        /\ UNCHANGED <<files, runs>>

(* The transaction of save_document.  The case row is written as loaded,    *)
(* plus one.                                                                *)
CommitDocument(s) ==
    LET x == session[s]
    IN  /\ x.pc = "stored"
        /\ x.version \notin VersionsOf(x.type)
        /\ ~OnRecord("documents", x.key, x.part)
        /\ docs' = docs \cup {[id |-> x.id, type |-> x.type, version |-> x.version]}
        /\ active' = (active \ {x.replaces}) \cup {x.id}
        /\ version' = x.case + 1
        /\ idem' = idem \cup Saved("documents", x.key, x.part, x.id)
        /\ session' = [session EXCEPT ![s] = After(s)]
        /\ UNCHANGED <<files, runs>>

-----------------------------------------------------------------------------
(* create_run reads the case: the request names its current version, and    *)
(* four documents the client has seen.                                      *)
PostRun(s) ==
    /\ session[s].pc = "free" /\ version > 0
    /\ \E k \in Keys, D \in SUBSET DocIds :
         /\ Cardinality(D) = N
         /\ session' = [session EXCEPT ![s] =
                          [Free EXCEPT !.pc = "comparing", !.key = k,
                                       !.case = version, !.docs = D]]
    /\ UNCHANGED <<tables, files>>

(* Mutated: four active documents of whatever kind.                         *)
ListDocumentsOfAnyKind(s) ==
    /\ session[s].pc = "comparing"
    /\ session[s].docs \subseteq active
    /\ ~OnRecord("runs", session[s].key, session[s].part)
    /\ session' = [session EXCEPT ![s].pc = "listed"]
    /\ UNCHANGED <<tables, files>>

(* It reads the documents: four active ones, one of each kind.  Their       *)
(* status, which workers set at any time (see ReviewRuns), may refuse the   *)
(* Run as well; Abandon stands for that.                                    *)
ListDocuments(s) ==
    /\ session[s].pc = "comparing"
    /\ session[s].docs \subseteq active
    /\ TypesOf(session[s].docs) = Types
    /\ ~OnRecord("runs", session[s].key, session[s].part)
    /\ session' = [session EXCEPT ![s].pc = "listed"]
    /\ UNCHANGED <<tables, files>>

CommitRun(s) ==
    LET x == session[s]
        number == Cardinality(runs) + 1
    IN  /\ x.pc = "listed"
        /\ ~OnRecord("runs", x.key, x.part)
        /\ runs' = runs \cup {[number |-> number, docs |-> x.docs]}
        /\ idem' = idem \cup Saved("runs", x.key, x.part, number)
        /\ session' = [session EXCEPT ![s] = Free]
        /\ UNCHANGED <<version, docs, active, files>>

-----------------------------------------------------------------------------
(* create_demo_scenario starts unless the case already has a Run.  Whatever *)
(* it reads of the case it keeps: beside the refresh of a case it has       *)
(* created itself, the session loads no row twice.                          *)
PostDemo(s) ==
    /\ session[s].pc = "free"
    /\ runs = {}
    /\ \E k \in Keys :
         session' = [session EXCEPT ![s] = [Free EXCEPT !.pc = "demo", !.part = 1,
                                                        !.key = k, !.case = version]]
    /\ UNCHANGED <<tables, files>>

(* Its create_case: a new case, or the one an earlier call with the same    *)
(* key has left.  The bytes of a demo material are new in every call (file  *)
(* identifiers, time stamps), so a document on record is never answered     *)
(* with: Admit stops the call there.                                        *)
DemoCase(s) ==
    LET x == session[s]
        known == OnRecord("cases", x.key, 1)
        loaded == [x EXCEPT !.pc = "loaded", !.type = 1]
    IN  /\ x.pc = "demo"
        /\ \/ /\ known
              /\ session' = [session EXCEPT
                               ![s] = [loaded EXCEPT
                                         !.case = IF x.case = 0 THEN version ELSE x.case]]
              /\ UNCHANGED <<version, idem>>
           \/ /\ ~known /\ version = 0
              /\ version' = 1
              /\ idem' = idem \cup Saved("cases", x.key, 1, "case")
              /\ session' = [session EXCEPT ![s].pc = "created"]
        /\ UNCHANGED <<docs, active, files, runs>>

(* After its commit create_case reads the new case once more: uploads may   *)
(* have come in between.                                                    *)
RefreshCase(s) ==
    /\ session[s].pc = "created"
    /\ session' = [session EXCEPT ![s].pc = "loaded", ![s].type = 1,
                                  ![s].case = version]
    /\ UNCHANGED <<tables, files>>

(* A request ends without a commit: refused, answered from the record,      *)
(* stopped by a constraint, by the lock or with its process.  A file it has *)
(* written stays.                                                           *)
Abandon(s) ==
    /\ session[s].pc # "free"
    /\ session' = [session EXCEPT ![s] = Free]
    /\ UNCHANGED <<tables, files>>

Next ==
    \/ PostCase
    \/ \E s \in Sessions :
         \/ PostDocument(s) \/ Admit(s) \/ Store(s) \/ CommitDocument(s)
         \/ PostRun(s) \/ ListDocuments(s) \/ CommitRun(s)
         \/ PostDemo(s) \/ DemoCase(s) \/ RefreshCase(s) \/ Abandon(s)

Spec == Init /\ [][Next]_vars
-----------------------------------------------------------------------------
(* Properties.                                                             *)

(* The documents of a kind are versions 1, 2, ..., n, whoever uploads at    *)
(* the same time (max + 1 and uq_document_version).                         *)
DocumentHistory ==
    /\ \A t \in Types : VersionsOf(t) = 1..LatestVersion(t)
    /\ \A d, e \in docs : d.type = e.type /\ d.version = e.version => d = e

(* Every document on record has its file, and a file of its own: neither a  *)
(* crash nor a lost race leaves a row without one (the worker would call    *)
(* the document unreadable).                                                *)
StoredMaterials ==
    /\ DocIds \subseteq files
    /\ \A d, e \in docs : d.id = e.id => d = e

(* Every document and every Run is the effect of one key, and every record  *)
(* names what its key created: a repeated request creates nothing twice.    *)
OneResourcePerKey ==
    /\ \A i, j \in idem : i.scope = j.scope =>
         (i = j <=> (i.key = j.key /\ i.part = j.part))
                /\ (i = j <=> i.resource = j.resource)
    /\ DocIds = {i.resource : i \in {j \in idem : j.scope = "documents"}}
    /\ {r.number : r \in runs} = {i.resource : i \in {j \in idem : j.scope = "runs"}}

(* The latest version of every kind is active, whatever is replaced: a case *)
(* once complete stays complete.                                            *)
LatestVersionIsActive ==
    \A d \in docs : d.version = LatestVersion(d.type) => d.id \in active

(* A Run is made of one document of every required kind, all of them listed *)
(* and stored, and Runs are numbered without a gap.                         *)
RunsHaveTheirMaterials ==
    /\ \A r \in runs :
         /\ r.docs \subseteq DocIds \cap files
         /\ \A t \in Types : Cardinality({d \in docs : d.id \in r.docs /\ d.type = t}) = 1
    /\ {r.number : r \in runs} = 1..Cardinality(runs)

(* A document leaves the active set only in the step that files a newer one *)
(* of its kind, and never returns.                                          *)
ReplacedForGood ==
    [][/\ \A d \in docs : d.id \in active \ active' =>
            \E e \in docs' \ docs : e.type = d.type /\ e.version > d.version
       /\ \A d \in docs : d.id \notin active => d.id \notin active']_vars

(* As long as its documents come through the upload endpoint alone, the     *)
(* case version counts them: no upload goes unnoticed by a client that      *)
(* names the version it has seen.                                           *)
VersionCountsMaterials ==
    version > 0 /\ (\A i \in idem : i.scope = "documents" => i.part = 0)
      => version = 1 + Cardinality(docs)

(* service.py: "A case cannot have more than 10 active materials."          *)
MaterialLimit == Cardinality(active) <= MaxActive
=============================================================================
