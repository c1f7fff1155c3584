-------------------------- MODULE CaseIntakeProofs --------------------------
(***************************************************************************)
(* Proofs about CaseIntake, for every number of kinds and every limit of   *)
(* active materials, every finite set of identifiers and all sets of keys  *)
(* and requests in flight.                                                 *)
(***************************************************************************)
EXTENDS CaseIntake, FiniteSetTheorems, TLAPS

(* The versions of a kind are an initial segment of the naturals, and no    *)
(* two documents share a file: the form of DocumentHistory and              *)
(* StoredMaterials the induction runs on.                                   *)
Gapless == \A t \in Types : \E n \in Nat : VersionsOf(t) = 1..n

UniqueDocuments ==
    /\ IsFiniteSet(docs) /\ IsFiniteSet(runs)
    /\ \A d, e \in docs : d.id = e.id \/ (d.type = e.type /\ d.version = e.version) => d = e
    /\ DocIds \subseteq files

(* What a request in flight carries with it: its key, the kind of document  *)
(* it uploads, and in a demo scenario a document for every part it is past. *)
WellFormed(x) ==
    /\ x.pc # "free" => x.key \in Keys
    /\ x.pc \in UploadPCs \cup {"loaded"} => x.type \in Types /\ x.part \in 0..N
    /\ x.pc \in {"demo", "created", "loaded"} => x.part \in 1..N
    /\ x.pc = "stored" => x.id \in Ids
    /\ x.pc \in {"comparing", "listed"} => Cardinality(x.docs) = N
    /\ x.part # 0 => Cardinality(x.docs) = x.part - 1 /\ x.replaces = None

(* What it has read is still so: documents are never removed, the latest    *)
(* version only grows, and the file it has written is nobody else's.        *)
ReadsHold(x) ==
    /\ x.docs \subseteq DocIds
    /\ x.pc = "listed" => TypesOf(x.docs) = Types
    /\ x.replaces # None => \E d \in docs : d.id = x.replaces /\ d.type = x.type
    /\ x.pc = "stored" => /\ x.id \in files \ DocIds
                          /\ x.version \in 1..(LatestVersion(x.type) + 1)

SessionsHold ==
    /\ \A s \in Sessions : WellFormed(session[s]) /\ ReadsHold(session[s])
    /\ \A s, t \in Sessions : session[s].pc = "stored" /\ session[t].pc = "stored"
                                /\ session[s].id = session[t].id => s = t

(* Before there is a case nothing is known of it.                           *)
NothingBeforeTheCase ==
    version = 0 => /\ docs = {} /\ \A i \in idem : i.scope # "cases"
                   /\ \A s \in Sessions : session[s].pc \in {"free", "demo"}

IntakeInv ==
    /\ IntakeTypeOK /\ Gapless /\ UniqueDocuments /\ SessionsHold /\ NothingBeforeTheCase

(* As long as no demo scenario has filed a document, the upload in flight   *)
(* is the only one and has read the case version as it is.                  *)
NoDemoDocuments == \A i \in idem : i.scope = "documents" => i.part = 0
Uploads == {s \in Sessions : session[s].part = 0 /\ session[s].pc \in UploadPCs}
UploadsSeeTheCase ==
    /\ \A s, t \in Uploads : s = t
    /\ NoDemoDocuments => \A s \in Uploads : session[s].case = version

-----------------------------------------------------------------------------
(* Versions.                                                               *)

(* The last of the versions 1..n is n, 0 when there is none.                *)
LatestOf(V) == IF V = {} THEN 0 ELSE Max(V)

(* The latest of the versions 1..n is n.                                    *)
LEMMA LatestOfSegment ==
    ASSUME NEW n \in Nat
    PROVE  LatestOf(1..n) = n
<1>1. CASE n = 0
  BY <1>1 DEF LatestOf
<1>2. CASE n # 0
  <2>1. n \in 1..n /\ \A m \in 1..n : n >= m
    BY <1>2
  <2>2. Max(1..n) = n
    BY <2>1 DEF Max
  <2>3. QED
    BY <2>1, <2>2 DEF LatestOf
<1>3. QED
  BY <1>1, <1>2

(* The latest version is a natural, and the versions are those up to it.    *)
LEMMA VersionsToLatest ==
    ASSUME Gapless, NEW t \in Types
    PROVE  LatestVersion(t) \in Nat /\ VersionsOf(t) = 1..LatestVersion(t)
<1>1. PICK n \in Nat : VersionsOf(t) = 1..n
  BY DEF Gapless
<1>2. LatestVersion(t) = n
  BY <1>1, LatestOfSegment DEF LatestVersion, LatestOf
<1>3. QED
  BY <1>1, <1>2

(* Documents that are only added leave a later version of every kind.       *)
LEMMA LatestGrows ==
    ASSUME Gapless, Gapless', docs \subseteq docs', NEW t \in Types
    PROVE  /\ LatestVersion(t)' \in Nat
           /\ VersionsOf(t)' = 1..LatestVersion(t)'
           /\ LatestVersion(t) <= LatestVersion(t)'
<1>1. PICK m \in Nat : VersionsOf(t)' = 1..m
  BY DEF Gapless
<1>2. LatestVersion(t)' = m
  BY <1>1, LatestOfSegment DEF LatestVersion, LatestOf
<1>3. LatestVersion(t) \in Nat /\ VersionsOf(t) = 1..LatestVersion(t)
  BY VersionsToLatest
<1>4. VersionsOf(t) \subseteq VersionsOf(t)'
  BY DEF VersionsOf
<1>5. 1..LatestVersion(t) \subseteq 1..m
  BY <1>1, <1>3, <1>4
<1>6. LatestVersion(t) <= m
  BY <1>3, <1>5
<1>7. QED
  BY <1>1, <1>2, <1>6

(* So does one document more under a version within reach that is free; it  *)
(* is the latest of its kind then.                                          *)
LEMMA NextDocument ==
    ASSUME Gapless, NEW d, d.type \in Types, docs' = docs \cup {d},
           d.version \in 1..(LatestVersion(d.type) + 1),
           d.version \notin VersionsOf(d.type)
    PROVE  /\ Gapless'
           /\ d.version = LatestVersion(d.type) + 1
<1> DEFINE n == LatestVersion(d.type)
<1>1. n \in Nat /\ VersionsOf(d.type) = 1..n
  BY VersionsToLatest
<1> HIDE DEF n
<1>2. d.version = n + 1
  BY <1>1 DEF n
<1>3. ASSUME NEW t \in Types
      PROVE  \E m \in Nat : VersionsOf(t)' = 1..m
  <2>1. CASE t = d.type
    <3>1. VersionsOf(t)' = VersionsOf(t) \cup {d.version}
      BY <2>1 DEF VersionsOf
    <3>2. (1..n) \cup {n + 1} = 1..(n + 1) /\ n + 1 \in Nat
      BY <1>1
    <3>3. QED
      BY <1>1, <1>2, <2>1, <3>1, <3>2
  <2>2. CASE t # d.type
    <3>1. VersionsOf(t)' = VersionsOf(t)
      BY <2>2 DEF VersionsOf
    <3>2. QED
      BY <3>1 DEF Gapless
  <2>3. QED
    BY <2>1, <2>2
<1>4. QED
  BY <1>2, <1>3 DEF Gapless, n

-----------------------------------------------------------------------------
(* What a request has read outlives what the others do.                    *)

(* Documents on record keep their kinds.                                    *)
LEMMA TypesKept ==
    ASSUME UniqueDocuments', docs \subseteq docs', NEW D, D \subseteq DocIds
    PROVE  TypesOf(D)' = TypesOf(D)
<1>1. {e \in docs' : e.id \in D} = {e \in docs : e.id \in D}
  <2>1. ASSUME NEW e \in docs', e.id \in D
        PROVE  e \in docs
    <3>1. PICK d \in docs : d.id = e.id
      BY <2>1 DEF DocIds
    <3>2. d = e
      BY <3>1 DEF UniqueDocuments
    <3>3. QED
      BY <3>2
  <2>2. QED
    BY <2>1
<1>2. QED
  BY <1>1 DEF TypesOf

(* What a request has read stays true while rows and files are only added.  *)
LEMMA ReadsKept ==
    ASSUME Gapless, Gapless', UniqueDocuments', docs \subseteq docs',
           files \subseteq files', NEW x, WellFormed(x), ReadsHold(x),
           x.pc = "stored" => x.id \notin DocIds'
    PROVE  ReadsHold(x)'
<1>1. DocIds \subseteq DocIds'
  BY DEF DocIds
<1>2. TypesOf(x.docs)' = TypesOf(x.docs)
  BY TypesKept DEF ReadsHold
<1>3. x.replaces # None => \E d \in docs' : d.id = x.replaces /\ d.type = x.type
  BY DEF ReadsHold
<1>4. ASSUME x.pc = "stored"
      PROVE  x.id \in files' \ DocIds' /\ x.version \in 1..(LatestVersion(x.type)' + 1)
  <2>1. x.type \in Types
    BY <1>4 DEF WellFormed, UploadPCs
  <2>2. /\ LatestVersion(x.type) \in Nat /\ LatestVersion(x.type)' \in Nat
        /\ LatestVersion(x.type) <= LatestVersion(x.type)'
    BY <2>1, LatestGrows, VersionsToLatest
  <2>3. x.version \in 1..(LatestVersion(x.type) + 1) /\ x.id \in files
    BY <1>4 DEF ReadsHold
  <2>4. x.version \in 1..(LatestVersion(x.type)' + 1)
    BY <2>2, <2>3
  <2>5. QED
    BY <1>4, <2>3, <2>4
<1>5. QED
  BY <1>1, <1>2, <1>3, <1>4 DEF ReadsHold

-----------------------------------------------------------------------------
(* IntakeInv is inductive.                                                 *)

(* A session that serves no request has read nothing.                       *)
LEMMA FreeSession ==
    Free \in SessionStates /\ WellFormed(Free) /\ ReadsHold(Free)
<1>1. 0 \in Parts /\ 0 \in Nat
  BY NAssumption DEF Parts
<1>2. Free \in SessionStates
  BY <1>1 DEF Free, SessionStates, PCs
<1>3. QED
  BY <1>2 DEF Free, WellFormed, ReadsHold, UploadPCs

(* Before the case exists there is nothing to be wrong about.               *)
LEMMA InitIntake == Init => IntakeInv
<1> SUFFICES ASSUME Init PROVE IntakeInv
  OBVIOUS
<1>1. docs = {} /\ DocIds = {} /\ runs = {}
  BY DEF Init, DocIds
<1>2. IntakeTypeOK
  BY FreeSession DEF Init, IntakeTypeOK
<1>3. Gapless
  <2>1. \A t \in Types : VersionsOf(t) = 1..0
    BY <1>1 DEF VersionsOf
  <2>2. QED
    BY <2>1 DEF Gapless
<1>4. UniqueDocuments
  BY <1>1, FS_EmptySet DEF UniqueDocuments
<1>5. SessionsHold
  <2>1. \A s \in Sessions : session[s] = Free
    BY DEF Init
  <2>2. Free.pc = "free"
    BY DEF Free
  <2>3. QED
    BY <2>1, <2>2, FreeSession DEF SessionsHold
<1>6. NothingBeforeTheCase
  BY DEF Init, NothingBeforeTheCase, Free
<1>7. QED
  BY <1>2, <1>3, <1>4, <1>5, <1>6 DEF IntakeInv

(* A step of one request that writes nothing.                              *)
LEMMA ReadingStep ==
    ASSUME IntakeInv, NEW s \in Sessions, NEW y \in SessionStates,
           WellFormed(y), ReadsHold(y), y.pc # "stored",
           version = 0 => y.pc \in {"free", "demo"},
           session' = [session EXCEPT ![s] = y], UNCHANGED <<tables, files>>
    PROVE  IntakeInv'
<1>1. /\ session' \in [Sessions -> SessionStates] /\ session'[s] = y
      /\ \A t \in Sessions \ {s} : session'[t] = session[t]
  BY DEF IntakeInv, IntakeTypeOK
<1>2. IntakeTypeOK'
  BY <1>1 DEF IntakeInv, IntakeTypeOK, tables
<1>3. Gapless' /\ UniqueDocuments'
  BY DEF IntakeInv, Gapless, UniqueDocuments, VersionsOf, DocIds, tables
<1>4. \A x : ReadsHold(x) => ReadsHold(x)'
  BY DEF ReadsHold, DocIds, TypesOf, LatestVersion, VersionsOf, tables
<1>5. SessionsHold'
  BY <1>1, <1>4 DEF IntakeInv, SessionsHold
<1>6. NothingBeforeTheCase'
  BY <1>1 DEF IntakeInv, NothingBeforeTheCase, tables
<1>7. QED
  BY <1>2, <1>3, <1>5, <1>6 DEF IntakeInv

(* A request that is refused or lost leaves its file, if any, and no row.   *)
LEMMA AbandonKeeps ==
    ASSUME IntakeInv, NEW s \in Sessions, Abandon(s)
    PROVE  IntakeInv'
<1>1. Free.pc = "free"
  BY DEF Free
<1>2. QED
  BY <1>1, FreeSession, ReadingStep DEF Abandon

(* An upload reads the latest version of its kind.                          *)
LEMMA PostDocumentKeeps ==
    ASSUME IntakeInv, NEW s \in Sessions, PostDocument(s)
    PROVE  IntakeInv'
<1>1. PICK k \in Keys, t \in Types, old \in DocIds \cup {None} :
        /\ old # None => TypesOf({old}) = {t}
        /\ session' = [session EXCEPT ![s] =
                         [Free EXCEPT !.pc = "admitted", !.key = k, !.case = version,
                                      !.type = t, !.replaces = old]]
  BY DEF PostDocument
<1> DEFINE y == [Free EXCEPT !.pc = "admitted", !.key = k, !.case = version,
                             !.type = t, !.replaces = old]
<1>2. DocIds \subseteq Ids /\ version \in Nat
  BY DEF IntakeInv, IntakeTypeOK, Documents, DocIds
<1>3. y \in SessionStates
  BY <1>2, FreeSession DEF SessionStates, PCs, UploadPCs
<1>4. WellFormed(y)
  BY NAssumption DEF Free, WellFormed, UploadPCs
<1>5. ReadsHold(y)
  <2>1. ASSUME old # None PROVE \E d \in docs : d.id = old /\ d.type = t
    BY <1>1, <2>1 DEF TypesOf
  <2>2. QED
    BY <2>1 DEF Free, ReadsHold
<1>6. y.pc = "admitted" /\ version # 0
  BY DEF Free, PostDocument
<1> HIDE DEF y
<1>7. session' = [session EXCEPT ![s] = y] /\ UNCHANGED <<tables, files>>
  BY <1>1 DEF y, PostDocument
<1>8. QED
  BY <1>3, <1>4, <1>5, <1>6, <1>7, ReadingStep

(* A demo scenario comes to its next document.                              *)
LEMMA AdmitKeeps ==
    ASSUME IntakeInv, NEW s \in Sessions, Admit(s)
    PROVE  IntakeInv'
<1> DEFINE x == session[s]
           y == [x EXCEPT !.pc = "admitted"]
<1>1. x \in SessionStates /\ WellFormed(x) /\ ReadsHold(x) /\ x.pc = "loaded"
  BY DEF IntakeInv, IntakeTypeOK, SessionsHold, Admit
<1>2. session' = [session EXCEPT ![s] = y] /\ UNCHANGED <<tables, files>>
  BY DEF IntakeInv, IntakeTypeOK, Admit
<1>3. version # 0
  BY <1>1 DEF IntakeInv, NothingBeforeTheCase
<1> HIDE DEF x
<1>4. y \in SessionStates /\ y.pc = "admitted"
  BY <1>1 DEF SessionStates, PCs, UploadPCs
<1>5. WellFormed(y)
  BY <1>1 DEF SessionStates, WellFormed, UploadPCs
<1>6. ReadsHold(y)
  BY <1>1 DEF SessionStates, ReadsHold
<1>7. QED
  BY <1>2, <1>3, <1>4, <1>5, <1>6, ReadingStep

(* A request for a Run names the version of the case.                       *)
LEMMA PostRunKeeps ==
    ASSUME IntakeInv, NEW s \in Sessions, PostRun(s)
    PROVE  IntakeInv'
<1>1. PICK k \in Keys, D \in SUBSET DocIds :
        /\ Cardinality(D) = N
        /\ session' = [session EXCEPT ![s] =
                         [Free EXCEPT !.pc = "comparing", !.key = k,
                                      !.case = version, !.docs = D]]
  BY DEF PostRun
<1> DEFINE y == [Free EXCEPT !.pc = "comparing", !.key = k, !.case = version,
                             !.docs = D]
<1>2. DocIds \subseteq Ids /\ version \in Nat
  BY DEF IntakeInv, IntakeTypeOK, Documents, DocIds
<1>3. y \in SessionStates
  BY <1>2, FreeSession DEF SessionStates, PCs
<1>4. WellFormed(y)
  BY <1>1 DEF Free, WellFormed, UploadPCs
<1>5. ReadsHold(y) /\ y.pc = "comparing" /\ version # 0
  BY DEF Free, ReadsHold, PostRun
<1> HIDE DEF y
<1>6. session' = [session EXCEPT ![s] = y] /\ UNCHANGED <<tables, files>>
  BY <1>1 DEF y, PostRun
<1>7. QED
  BY <1>3, <1>4, <1>5, <1>6, ReadingStep

(* It then reads the active documents.                                      *)
LEMMA ListDocumentsKeeps ==
    ASSUME IntakeInv, NEW s \in Sessions, ListDocuments(s)
    PROVE  IntakeInv'
<1> DEFINE x == session[s]
           y == [x EXCEPT !.pc = "listed"]
<1>1. /\ x \in SessionStates /\ WellFormed(x) /\ ReadsHold(x)
      /\ x.pc = "comparing" /\ TypesOf(x.docs) = Types
  BY DEF IntakeInv, IntakeTypeOK, SessionsHold, ListDocuments
<1>2. session' = [session EXCEPT ![s] = y] /\ UNCHANGED <<tables, files>>
  BY DEF IntakeInv, IntakeTypeOK, ListDocuments
<1>3. version # 0
  BY <1>1 DEF IntakeInv, NothingBeforeTheCase
<1> HIDE DEF x
<1>4. y \in SessionStates /\ y.pc = "listed"
  BY <1>1 DEF SessionStates, PCs, UploadPCs
<1>5. WellFormed(y)
  BY <1>1 DEF SessionStates, WellFormed, UploadPCs
<1>6. ReadsHold(y)
  BY <1>1 DEF SessionStates, ReadsHold
<1>7. QED
  BY <1>2, <1>3, <1>4, <1>5, <1>6, ReadingStep

(* A demo scenario begins.                                                  *)
LEMMA PostDemoKeeps ==
    ASSUME IntakeInv, NEW s \in Sessions, PostDemo(s)
    PROVE  IntakeInv'
<1>1. PICK k \in Keys :
        session' = [session EXCEPT ![s] = [Free EXCEPT !.pc = "demo", !.part = 1,
                                                       !.key = k, !.case = version]]
  BY DEF PostDemo
<1> DEFINE y == [Free EXCEPT !.pc = "demo", !.part = 1, !.key = k, !.case = version]
<1>2. version \in Nat /\ 1 \in 1..N /\ 1 \in Parts
  BY NAssumption DEF IntakeInv, IntakeTypeOK, Parts
<1>3. y \in SessionStates
  BY <1>2, FreeSession DEF SessionStates, PCs
<1>4. Cardinality({}) = 0
  BY FS_EmptySet
<1>5. WellFormed(y)
  BY <1>2, <1>4 DEF Free, WellFormed, UploadPCs
<1>6. ReadsHold(y) /\ y.pc = "demo"
  BY DEF Free, ReadsHold
<1> HIDE DEF y
<1>7. session' = [session EXCEPT ![s] = y] /\ UNCHANGED <<tables, files>>
  BY <1>1 DEF y, PostDemo
<1>8. QED
  BY <1>3, <1>5, <1>6, <1>7, ReadingStep

(* A file is stored under an identifier no document has.                    *)
LEMMA StoreKeeps ==
    ASSUME IntakeInv, NEW s \in Sessions, Store(s)
    PROVE  IntakeInv'
<1>1. PICK x : x = session[s]
  OBVIOUS
<1>2. x \in SessionStates /\ WellFormed(x) /\ ReadsHold(x) /\ x.pc = "admitted"
  BY <1>1 DEF IntakeInv, IntakeTypeOK, SessionsHold, Store
<1>3. PICK v : v = LatestVersion(x.type) + 1
  OBVIOUS
<1>4. v \in Nat /\ v \in 1..(LatestVersion(x.type) + 1)
  BY <1>2, <1>3, VersionsToLatest DEF IntakeInv, WellFormed, UploadPCs
<1>5. PICK id \in Ids \ files :
        /\ files' = files \cup {id}
        /\ session' = [session EXCEPT
                         ![s].pc = "stored", ![s].id = id, ![s].version = v]
  BY <1>1, <1>3 DEF Store
<1>6. PICK y : y = [x EXCEPT !.pc = "stored", !.id = id, !.version = v]
  OBVIOUS
<1>7. session' = [session EXCEPT ![s] = y]
  BY <1>1, <1>5, <1>6 DEF IntakeInv, IntakeTypeOK
<1>8. UNCHANGED tables /\ DocIds \subseteq files
  BY DEF Store, IntakeInv, UniqueDocuments
<1>9. /\ y \in SessionStates /\ y.pc = "stored" /\ y.id = id /\ y.version = v
      /\ y.docs = x.docs /\ y.replaces = x.replaces /\ y.type = x.type
      /\ y.part = x.part /\ y.key = x.key
  BY <1>2, <1>4, <1>6 DEF SessionStates, PCs, UploadPCs
<1>10. WellFormed(y)
  BY <1>2, <1>5, <1>9 DEF WellFormed, UploadPCs
<1>11. \A z : LatestVersion(z)' = LatestVersion(z)
  BY <1>8 DEF LatestVersion, VersionsOf, tables
<1>12. DocIds' = DocIds /\ docs' = docs
  BY <1>8 DEF DocIds, tables
<1>13. ReadsHold(y)'
  <2>1. id \in files' \ DocIds'
    BY <1>5, <1>8, <1>12
  <2>2. y.version \in 1..(LatestVersion(y.type)' + 1)
    BY <1>4, <1>9, <1>11
  <2>3. QED
    BY <1>2, <1>9, <1>12, <2>1, <2>2 DEF ReadsHold
<1>14. /\ session' \in [Sessions -> SessionStates] /\ session'[s] = y
       /\ \A t \in Sessions \ {s} : session'[t] = session[t]
  BY <1>7, <1>9 DEF IntakeInv, IntakeTypeOK
<1>15. IntakeTypeOK'
  BY <1>5, <1>8, <1>14 DEF IntakeInv, IntakeTypeOK, tables
<1>16. Gapless' /\ UniqueDocuments'
  BY <1>5, <1>8 DEF IntakeInv, Gapless, UniqueDocuments, VersionsOf, DocIds, tables
<1>17. \A z : ReadsHold(z) => ReadsHold(z)'
  BY <1>5, <1>8 DEF ReadsHold, DocIds, TypesOf, LatestVersion, VersionsOf, tables
<1>18. SessionsHold'
  <2>1. ASSUME NEW t \in Sessions
        PROVE  (WellFormed(session[t]) /\ ReadsHold(session[t]))'
    <3>1. CASE t = s
      BY <1>10, <1>13, <1>14, <3>1 DEF WellFormed, ReadsHold
    <3>2. CASE t # s
      <4>1. session'[t] = session[t] /\ WellFormed(session[t]) /\ ReadsHold(session[t])
        BY <1>14, <3>2 DEF IntakeInv, SessionsHold
      <4>2. QED
        BY <1>17, <4>1 DEF WellFormed
    <3>3. QED
      BY <3>1, <3>2
  <2>2. \A t \in Sessions \ {s} : session[t].pc = "stored" => session[t].id # id
    BY <1>5 DEF IntakeInv, SessionsHold, ReadsHold
  <2>3. \A t, u \in Sessions : session'[t].pc = "stored" /\ session'[u].pc = "stored"
                                /\ session'[t].id = session'[u].id => t = u
    BY <1>9, <1>14, <2>2 DEF IntakeInv, SessionsHold
  <2>4. QED
    BY <2>1, <2>3 DEF SessionsHold
<1>19. NothingBeforeTheCase'
  <2>1. version # 0
    BY <1>1, <1>2 DEF IntakeInv, NothingBeforeTheCase
  <2>2. QED
    BY <1>8, <2>1 DEF NothingBeforeTheCase, tables
<1>20. QED
  BY <1>15, <1>16, <1>18, <1>19 DEF IntakeInv

(* What follows a demo scenario's document is well formed: it has one more. *)
LEMMA AfterDocument ==
    ASSUME IntakeTypeOK, NEW s \in Sessions, WellFormed(session[s]),
           session[s].pc = "stored", session[s].docs \subseteq DocIds,
           session[s].id \notin DocIds, IsFiniteSet(docs)
    PROVE  /\ After(s) \in SessionStates /\ WellFormed(After(s))
           /\ After(s).pc \in {"free", "loaded", "comparing"}
           /\ After(s).docs \subseteq DocIds \cup {session[s].id}
           /\ After(s).replaces = None
<1> DEFINE x == session[s]
           more == x.docs \cup {x.id}
           next == [Free EXCEPT !.part = x.part + 1, !.key = x.key,
                                !.case = x.case + 1, !.docs = more]
<1>1. /\ x \in SessionStates /\ x.key \in Keys /\ x.part \in 0..N /\ x.id \in Ids
      /\ x.part # 0 => Cardinality(x.docs) = x.part - 1
  BY DEF IntakeTypeOK, WellFormed, UploadPCs
<1>2. After(s) = IF x.part = 0 THEN Free
                 ELSE IF x.part < N
                      THEN [next EXCEPT !.pc = "loaded", !.type = x.part + 1]
                      ELSE [next EXCEPT !.pc = "comparing"]
  BY DEF After
<1>3. IsFiniteSet(x.docs)
  <2>1. IsFiniteSet(Ids)
    BY IdsAssumption
  <2>2. x.docs \subseteq Ids
    BY <1>1 DEF SessionStates
  <2>3. QED
    BY <2>1, <2>2, FS_Subset
<1>4. Cardinality(more) = Cardinality(x.docs) + 1
  BY <1>3, FS_AddElement
<1>5. x.docs \subseteq DocIds /\ x.id \in Ids /\ more \subseteq Ids
      /\ more \subseteq DocIds \cup {x.id} /\ x.case + 1 \in Nat
  BY <1>1 DEF SessionStates
<1>6. "loaded" \in PCs /\ "comparing" \in PCs
  BY DEF PCs
<1> HIDE DEF x, more
<1>7. CASE x.part = 0
  BY <1>2, <1>7, FreeSession DEF Free, x
<1>8. CASE x.part # 0 /\ x.part < N
  <2>1. After(s) = [next EXCEPT !.pc = "loaded", !.type = x.part + 1]
    BY <1>2, <1>8
  <2>2. x.part + 1 \in 1..N /\ x.part + 1 \in Types /\ x.part + 1 \in Parts
    BY <1>1, <1>8, NAssumption DEF Types, Parts
  <2>3. Cardinality(more) = x.part
    BY <1>1, <1>4, <1>8, NAssumption
  <2>4. After(s) \in SessionStates
    <3>1. After(s) = [pc |-> "loaded", part |-> x.part + 1, key |-> x.key,
                      case |-> x.case + 1, type |-> x.part + 1, replaces |-> None,
                      id |-> None, version |-> 0, docs |-> more]
      BY <2>1 DEF Free
    <3>2. QED
      BY <1>1, <1>5, <1>6, <2>2, <3>1 DEF SessionStates
  <2>5. WellFormed(After(s))
    BY <1>1, <2>1, <2>2, <2>3, NAssumption DEF Free, WellFormed, UploadPCs
  <2>6. QED
    BY <1>5, <2>1, <2>4, <2>5 DEF Free, x
<1>9. CASE x.part = N
  <2>1. After(s) = [next EXCEPT !.pc = "comparing"]
    BY <1>2, <1>9, NAssumption
  <2>2. x.part + 1 \in Parts /\ x.part # 0 /\ x.part \in Nat
    BY <1>1, <1>9, NAssumption DEF Parts
  <2>3. Cardinality(more) = N
    BY <1>1, <1>4, <1>9, <2>2, NAssumption
  <2>4. After(s) \in SessionStates
    BY <1>1, <1>5, <1>6, <2>1, <2>2, FreeSession DEF Free, SessionStates
  <2>5. WellFormed(After(s))
    BY <1>1, <1>9, <2>1, <2>2, <2>3, NAssumption DEF Free, WellFormed, UploadPCs
  <2>6. QED
    BY <1>5, <2>1, <2>4, <2>5 DEF Free, x
<1>10. QED
  BY <1>1, <1>7, <1>8, <1>9, NAssumption

(* A document takes the version after the last of its kind.                 *)
LEMMA CommitDocumentKeeps ==
    ASSUME IntakeInv, NEW s \in Sessions, CommitDocument(s)
    PROVE  IntakeInv'
<1>1. PICK x : x = session[s]
  OBVIOUS
<1>2. PICK d : d = [id |-> x.id, type |-> x.type, version |-> x.version]
  OBVIOUS
<1>3. PICK y : y = After(s)
  OBVIOUS
<1>4. /\ x.pc = "stored" /\ d.version \notin VersionsOf(d.type)
      /\ docs' = docs \cup {d}
      /\ active' = (active \ {x.replaces}) \cup {x.id}
      /\ version' = x.case + 1
      /\ idem' = idem \cup Saved("documents", x.key, x.part, x.id)
      /\ session' = [session EXCEPT ![s] = y]
      /\ UNCHANGED <<files, runs>>
  BY <1>1, <1>2, <1>3 DEF CommitDocument
<1>5. x \in SessionStates /\ WellFormed(x) /\ ReadsHold(x)
  BY <1>1 DEF IntakeInv, IntakeTypeOK, SessionsHold
<1>6. /\ x.type \in Types /\ x.key \in Keys /\ x.id \in Ids /\ x.part \in Parts
      /\ x.version \in Nat /\ x.case \in Nat
  BY <1>4, <1>5 DEF SessionStates, WellFormed, UploadPCs
<1>7. /\ x.id \in files \ DocIds /\ x.version \in 1..(LatestVersion(x.type) + 1)
      /\ x.docs \subseteq DocIds
  BY <1>4, <1>5 DEF ReadsHold
<1>8. d.id = x.id /\ d.type = x.type /\ d.version = x.version /\ d \in Documents
  BY <1>2, <1>6 DEF Documents
<1>9. Gapless'
  BY <1>4, <1>6, <1>7, <1>8, NextDocument DEF IntakeInv
<1>10. DocIds' = DocIds \cup {x.id} /\ docs \subseteq docs'
  BY <1>4, <1>8 DEF DocIds
<1>11. UniqueDocuments'
  <2>1. IsFiniteSet(docs') /\ IsFiniteSet(runs')
    BY <1>4, FS_AddElement DEF IntakeInv, UniqueDocuments
  <2>2. \A e \in docs : e.id # d.id /\ ~(e.type = d.type /\ e.version = d.version)
    BY <1>4, <1>7, <1>8 DEF DocIds, VersionsOf
  <2>3. \A e, f \in docs' : e.id = f.id \/ (e.type = f.type /\ e.version = f.version)
                              => e = f
    BY <1>4, <2>2 DEF IntakeInv, UniqueDocuments
  <2>4. DocIds' \subseteq files'
    BY <1>4, <1>7, <1>10 DEF IntakeInv, UniqueDocuments
  <2>5. QED
    BY <2>1, <2>3, <2>4 DEF UniqueDocuments
<1>12. /\ y \in SessionStates /\ WellFormed(y) /\ y.replaces = None
       /\ y.pc \in {"free", "loaded", "comparing"}
       /\ y.docs \subseteq DocIds \cup {x.id}
  BY <1>1, <1>3, <1>4, <1>5, <1>7, AfterDocument DEF IntakeInv, UniqueDocuments
<1>13. /\ session' \in [Sessions -> SessionStates] /\ session'[s] = y
       /\ \A t \in Sessions \ {s} : session'[t] = session[t]
  BY <1>4, <1>12 DEF IntakeInv, IntakeTypeOK
<1>14. IntakeTypeOK'
  <2>1. docs' \subseteq Documents /\ active' \subseteq Ids /\ version' \in Nat
    BY <1>4, <1>6, <1>8 DEF IntakeInv, IntakeTypeOK
  <2>2. Saved("documents", x.key, x.part, x.id) \subseteq IntakeRecords
    BY <1>6 DEF Saved, IntakeRecords
  <2>3. QED
    BY <1>4, <1>13, <2>1, <2>2 DEF IntakeInv, IntakeTypeOK
<1>15. SessionsHold'
  <2>1. ASSUME NEW t \in Sessions
        PROVE  (WellFormed(session[t]) /\ ReadsHold(session[t]))'
    <3>1. CASE t = s
      <4>1. ReadsHold(y)'
        BY <1>10, <1>12 DEF ReadsHold
      <4>2. QED
        BY <1>12, <1>13, <3>1, <4>1 DEF WellFormed, ReadsHold
    <3>2. CASE t # s
      <4>1. PICK z : z = session[t]
        OBVIOUS
      <4>2. WellFormed(z) /\ ReadsHold(z)
        BY <4>1 DEF IntakeInv, SessionsHold
      <4>3. z.pc = "stored" => z.id # x.id /\ z.id \notin DocIds
        BY <1>1, <1>4, <3>2, <4>1, <4>2 DEF IntakeInv, SessionsHold, ReadsHold
      <4>4. ReadsHold(z)'
        BY <1>4, <1>9, <1>10, <1>11, <4>2, <4>3, ReadsKept DEF IntakeInv
      <4>5. session'[t] = z
        BY <1>13, <3>2, <4>1
      <4>6. QED
        BY <4>2, <4>4, <4>5 DEF WellFormed, ReadsHold
    <3>3. QED
      BY <3>1, <3>2
  <2>2. \A t, u \in Sessions : session'[t].pc = "stored" /\ session'[u].pc = "stored"
                                /\ session'[t].id = session'[u].id => t = u
    BY <1>12, <1>13 DEF IntakeInv, SessionsHold
  <2>3. QED
    BY <2>1, <2>2 DEF SessionsHold
<1>16. NothingBeforeTheCase'
  BY <1>4, <1>6 DEF NothingBeforeTheCase
<1>17. QED
  BY <1>9, <1>11, <1>14, <1>15, <1>16 DEF IntakeInv

(* A Run is made of documents on record.                                    *)
LEMMA CommitRunKeeps ==
    ASSUME IntakeInv, NEW s \in Sessions, CommitRun(s)
    PROVE  IntakeInv'
<1>1. PICK x : x = session[s]
  OBVIOUS
<1>2. PICK n : n = Cardinality(runs) + 1
  OBVIOUS
<1>3. /\ x.pc = "listed" /\ runs' = runs \cup {[number |-> n, docs |-> x.docs]}
      /\ idem' = idem \cup Saved("runs", x.key, x.part, n)
      /\ session' = [session EXCEPT ![s] = Free]
      /\ UNCHANGED <<version, docs, active, files>>
  BY <1>1, <1>2 DEF CommitRun
<1>4. x \in SessionStates /\ WellFormed(x)
  BY <1>1 DEF IntakeInv, IntakeTypeOK, SessionsHold
<1>5. x.key \in Keys /\ x.part \in Parts /\ x.docs \subseteq Ids /\ n \in Nat
  BY <1>2, <1>3, <1>4, FS_CardinalityType
     DEF SessionStates, WellFormed, IntakeInv, UniqueDocuments
<1>6. Free.pc = "free"
  BY DEF Free
<1>7. /\ session' \in [Sessions -> SessionStates] /\ session'[s] = Free
      /\ \A t \in Sessions \ {s} : session'[t] = session[t]
  BY <1>3, FreeSession DEF IntakeInv, IntakeTypeOK
<1>8. IntakeTypeOK'
  <2>1. runs' \subseteq RunRows
    BY <1>3, <1>5 DEF IntakeInv, IntakeTypeOK, RunRows
  <2>2. Saved("runs", x.key, x.part, n) \subseteq IntakeRecords
    BY <1>5 DEF Saved, IntakeRecords
  <2>3. QED
    BY <1>3, <1>7, <2>1, <2>2 DEF IntakeInv, IntakeTypeOK
<1>9. Gapless'
  BY <1>3 DEF IntakeInv, Gapless, VersionsOf
<1>10. UniqueDocuments'
  BY <1>3, FS_AddElement DEF IntakeInv, UniqueDocuments, DocIds
<1>11. \A z : ReadsHold(z) => ReadsHold(z)'
  BY <1>3 DEF ReadsHold, DocIds, TypesOf, LatestVersion, VersionsOf
<1>12. SessionsHold'
  BY <1>6, <1>7, <1>11, FreeSession DEF IntakeInv, SessionsHold
<1>13. NothingBeforeTheCase'
  BY <1>3, <1>4, <1>1 DEF IntakeInv, NothingBeforeTheCase
<1>14. QED
  BY <1>8, <1>9, <1>10, <1>12, <1>13 DEF IntakeInv

(* The case is created.                                                     *)
LEMMA PostCaseKeeps ==
    ASSUME IntakeInv, PostCase
    PROVE  IntakeInv'
<1>1. PICK k \in Keys : idem' = idem \cup Saved("cases", k, 0, "case")
  BY DEF PostCase
<1>2. version' = 1 /\ UNCHANGED <<docs, active, files, runs, session>>
  BY DEF PostCase
<1>3. Saved("cases", k, 0, "case") \subseteq IntakeRecords
  BY NAssumption DEF Saved, IntakeRecords, Parts
<1>4. IntakeTypeOK'
  BY <1>1, <1>2, <1>3 DEF IntakeInv, IntakeTypeOK
<1>5. Gapless' /\ UniqueDocuments'
  BY <1>2 DEF IntakeInv, Gapless, UniqueDocuments, VersionsOf, DocIds
<1>6. \A z : ReadsHold(z) => ReadsHold(z)'
  BY <1>2 DEF ReadsHold, DocIds, TypesOf, LatestVersion, VersionsOf
<1>7. SessionsHold'
  BY <1>2, <1>6 DEF IntakeInv, SessionsHold
<1>8. NothingBeforeTheCase'
  BY <1>2 DEF NothingBeforeTheCase
<1>9. QED
  BY <1>4, <1>5, <1>7, <1>8 DEF IntakeInv

(* A demo scenario creates its case.                                        *)
LEMMA DemoCaseKeeps ==
    ASSUME IntakeInv, NEW s \in Sessions, DemoCase(s)
    PROVE  IntakeInv'
<1>1. PICK x : x = session[s]
  OBVIOUS
<1>2. x \in SessionStates /\ WellFormed(x) /\ ReadsHold(x) /\ x.pc = "demo"
  BY <1>1 DEF IntakeInv, IntakeTypeOK, SessionsHold, DemoCase
<1>3. PICK y \in SessionStates :
        /\ session' = [session EXCEPT ![s] = y]
        /\ \/ y.pc = "created"
           \/ y.pc = "loaded" /\ y.type = 1
        /\ y.part = x.part /\ y.key = x.key /\ y.docs = x.docs
        /\ y.replaces = x.replaces
        /\ version' # 0
        /\ \/ UNCHANGED <<version, idem>>
           \/ version' = 1 /\ idem' = idem \cup Saved("cases", x.key, 1, "case")
  <2>1. CASE /\ OnRecord("cases", x.key, 1)
             /\ session' = [session EXCEPT ![s] =
                              [[x EXCEPT !.pc = "loaded", !.type = 1] EXCEPT
                                 !.case = IF x.case = 0 THEN version ELSE x.case]]
             /\ UNCHANGED <<version, idem>>
    <3>1. version # 0
      BY <2>1 DEF OnRecord, IntakeInv, NothingBeforeTheCase
    <3>2. PICK c : c = IF x.case = 0 THEN version ELSE x.case
      OBVIOUS
    <3>3. c \in Nat
      BY <1>2, <3>2 DEF IntakeInv, IntakeTypeOK, SessionStates
    <3>4. PICK y : y = [x EXCEPT !.pc = "loaded", !.type = 1, !.case = c]
      OBVIOUS
    <3>5. 1 \in Types
      BY NAssumption DEF Types
    <3>6. /\ y \in SessionStates /\ y.pc = "loaded" /\ y.type = 1 /\ y.part = x.part
          /\ y.key = x.key /\ y.docs = x.docs /\ y.replaces = x.replaces
      BY <1>2, <3>3, <3>4, <3>5 DEF SessionStates, PCs
    <3>7. session' = [session EXCEPT ![s] = y]
      BY <2>1, <3>2, <3>4
    <3>8. QED
      BY <2>1, <3>1, <3>6, <3>7
  <2>2. CASE /\ version' = 1
             /\ idem' = idem \cup Saved("cases", x.key, 1, "case")
             /\ session' = [session EXCEPT ![s].pc = "created"]
    <3>1. PICK y : y = [x EXCEPT !.pc = "created"]
      OBVIOUS
    <3>2. /\ y \in SessionStates /\ y.pc = "created" /\ y.part = x.part
          /\ y.key = x.key /\ y.docs = x.docs /\ y.replaces = x.replaces
      BY <1>2, <3>1 DEF SessionStates, PCs
    <3>3. session' = [session EXCEPT ![s] = y]
      BY <1>1, <2>2, <3>1
    <3>4. version' # 0
      BY <2>2
    <3>5. QED
      BY <2>2, <3>2, <3>3, <3>4
  <2>3. QED
    BY <1>1, <2>1, <2>2 DEF DemoCase
<1>4. s \in DOMAIN session
  BY DEF IntakeInv, IntakeTypeOK
<1>5. UNCHANGED <<docs, active, files, runs>>
  BY DEF DemoCase
<1>6. 1 \in Types
  BY NAssumption DEF Types
<1>7. WellFormed(y)
  BY <1>2, <1>3, <1>6, NAssumption DEF WellFormed, UploadPCs, Types
<1>8. x.key \in Keys /\ 1 \in Parts
  BY <1>2, NAssumption DEF WellFormed, Parts
<1>9. /\ session' \in [Sessions -> SessionStates] /\ session'[s] = y
      /\ \A t \in Sessions \ {s} : session'[t] = session[t]
  BY <1>3, <1>4 DEF IntakeInv, IntakeTypeOK
<1>10. IntakeTypeOK'
  <2>1. Saved("cases", x.key, 1, "case") \subseteq IntakeRecords
    BY <1>8 DEF Saved, IntakeRecords
  <2>2. QED
    BY <1>3, <1>5, <1>9, <2>1 DEF IntakeInv, IntakeTypeOK
<1>11. Gapless' /\ UniqueDocuments'
  BY <1>5 DEF IntakeInv, Gapless, UniqueDocuments, VersionsOf, DocIds
<1>12. \A z : ReadsHold(z) => ReadsHold(z)'
  BY <1>5 DEF ReadsHold, DocIds, TypesOf, LatestVersion, VersionsOf
<1>13. SessionsHold'
  <2>1. y.replaces = None
    BY <1>2, <1>3, NAssumption DEF WellFormed
  <2>2. ReadsHold(y)
    BY <1>2, <1>3, <2>1 DEF ReadsHold
  <2>3. QED
    BY <1>3, <1>7, <1>9, <1>12, <2>2 DEF IntakeInv, SessionsHold
<1>14. NothingBeforeTheCase'
  BY <1>3 DEF NothingBeforeTheCase
<1>15. QED
  BY <1>10, <1>11, <1>13, <1>14 DEF IntakeInv

(* It reads the case it has created.                                        *)
LEMMA RefreshCaseKeeps ==
    ASSUME IntakeInv, NEW s \in Sessions, RefreshCase(s)
    PROVE  IntakeInv'
<1>1. PICK x : x = session[s]
  OBVIOUS
<1>2. x \in SessionStates /\ WellFormed(x) /\ ReadsHold(x) /\ x.pc = "created"
  BY <1>1 DEF IntakeInv, IntakeTypeOK, SessionsHold, RefreshCase
<1>3. PICK y : y = [x EXCEPT !.pc = "loaded", !.type = 1, !.case = version]
  OBVIOUS
<1>4. version \in Nat /\ version # 0
  BY <1>1, <1>2 DEF IntakeInv, IntakeTypeOK, NothingBeforeTheCase
<1>5. /\ y \in SessionStates /\ y.pc = "loaded" /\ y.type = 1 /\ y.part = x.part
      /\ y.key = x.key /\ y.docs = x.docs /\ y.replaces = x.replaces
  <2>1. 1 \in Types
    BY NAssumption DEF Types
  <2>2. QED
    BY <1>2, <1>3, <1>4, <2>1 DEF SessionStates, PCs
<1>6. 1 \in Types
  BY NAssumption DEF Types
<1>7. WellFormed(y)
  BY <1>2, <1>5, <1>6, NAssumption DEF WellFormed, UploadPCs, Types
<1>8. y.replaces = None
  BY <1>2, <1>5, NAssumption DEF WellFormed
<1>9. ReadsHold(y)
  BY <1>2, <1>5, <1>8 DEF ReadsHold
<1>10. session' = [session EXCEPT ![s] = y] /\ UNCHANGED <<tables, files>>
  BY <1>1, <1>3 DEF RefreshCase, IntakeInv, IntakeTypeOK
<1>11. QED
  BY <1>4, <1>5, <1>7, <1>9, <1>10, ReadingStep

(* Every step preserves it.                                                 *)
LEMMA NextKeepsIntake == IntakeInv /\ [Next]_vars => IntakeInv'
<1> SUFFICES ASSUME IntakeInv, [Next]_vars PROVE IntakeInv'
  OBVIOUS
<1>1. CASE PostCase
  BY <1>1, PostCaseKeeps
<1>2. ASSUME NEW s \in Sessions, PostDocument(s) PROVE IntakeInv'
  BY <1>2, PostDocumentKeeps
<1>3. ASSUME NEW s \in Sessions, Admit(s) PROVE IntakeInv'
  BY <1>3, AdmitKeeps
<1>4. ASSUME NEW s \in Sessions, Store(s) PROVE IntakeInv'
  BY <1>4, StoreKeeps
<1>5. ASSUME NEW s \in Sessions, CommitDocument(s) PROVE IntakeInv'
  BY <1>5, CommitDocumentKeeps
<1>6. ASSUME NEW s \in Sessions, PostRun(s) PROVE IntakeInv'
  BY <1>6, PostRunKeeps
<1>7. ASSUME NEW s \in Sessions, ListDocuments(s) PROVE IntakeInv'
  BY <1>7, ListDocumentsKeeps
<1>8. ASSUME NEW s \in Sessions, CommitRun(s) PROVE IntakeInv'
  BY <1>8, CommitRunKeeps
<1>9. ASSUME NEW s \in Sessions, PostDemo(s) PROVE IntakeInv'
  BY <1>9, PostDemoKeeps
<1>10. ASSUME NEW s \in Sessions, DemoCase(s) PROVE IntakeInv'
  BY <1>10, DemoCaseKeeps
<1>11. ASSUME NEW s \in Sessions, RefreshCase(s) PROVE IntakeInv'
  BY <1>11, RefreshCaseKeeps
<1>12. ASSUME NEW s \in Sessions, Abandon(s) PROVE IntakeInv'
  BY <1>12, AbandonKeeps
<1>13. CASE UNCHANGED vars
  <2>1. IntakeTypeOK' /\ NothingBeforeTheCase'
    BY <1>13 DEF vars, IntakeInv, IntakeTypeOK, NothingBeforeTheCase
  <2>2. Gapless' /\ UniqueDocuments'
    BY <1>13 DEF vars, IntakeInv, Gapless, UniqueDocuments, VersionsOf, DocIds
  <2>3. \A z : ReadsHold(z) => ReadsHold(z)'
    BY <1>13 DEF vars, ReadsHold, DocIds, TypesOf, LatestVersion, VersionsOf
  <2>4. SessionsHold'
    BY <1>13, <2>3 DEF vars, IntakeInv, SessionsHold
  <2>5. QED
    BY <2>1, <2>2, <2>4 DEF IntakeInv
<1>14. QED
  BY <1>1, <1>2, <1>3, <1>4, <1>5, <1>6, <1>7, <1>8, <1>9, <1>10, <1>11, <1>12,
     <1>13 DEF Next

(* IntakeInv is an invariant.                                               *)
LEMMA IntakeInvariant == Spec => []IntakeInv
BY InitIntake, NextKeepsIntake, PTL DEF Spec

(* Type correctness of the tables and of what every request in flight has   *)
(* read.                                                                    *)
THEOREM IntakeTypeCorrect == Spec => []IntakeTypeOK
<1>1. IntakeInv => IntakeTypeOK
  BY DEF IntakeInv
<1>2. QED
  BY <1>1, IntakeInvariant, PTL

(* The documents of a kind are versions 1, 2, ..., n without a gap or a     *)
(* double (save_document, uq_document_version).                             *)
THEOREM DocumentsAreVersioned == Spec => []DocumentHistory
<1>1. IntakeInv => DocumentHistory
  BY VersionsToLatest DEF IntakeInv, UniqueDocuments, DocumentHistory
<1>2. QED
  BY <1>1, IntakeInvariant, PTL

(* Every document has a file of its own, whatever dies before its commit or *)
(* loses it (save_document writes the file first).                          *)
THEOREM DocumentsAreStored == Spec => []StoredMaterials
<1>1. IntakeInv => StoredMaterials
  BY DEF IntakeInv, UniqueDocuments, StoredMaterials
<1>2. QED
  BY <1>1, IntakeInvariant, PTL

-----------------------------------------------------------------------------
(* Only the two transactions write documents and Runs.                     *)

(* Documents come from their commits only.                                  *)
LEMMA DocumentsStep ==
    ASSUME [Next]_vars
    PROVE  \/ UNCHANGED <<docs, active>>
           \/ \E s \in Sessions : CommitDocument(s)
BY DEF Next, vars, tables, PostCase, PostDocument, Admit, Store, PostRun,
       ListDocuments, CommitRun, PostDemo, DemoCase, RefreshCase, Abandon

(* So do Runs.                                                              *)
LEMMA RunsStep ==
    ASSUME [Next]_vars
    PROVE  \/ UNCHANGED runs
           \/ \E s \in Sessions : CommitRun(s)
BY DEF Next, vars, tables, PostCase, PostDocument, Admit, Store, CommitDocument,
       PostRun, ListDocuments, PostDemo, DemoCase, RefreshCase, Abandon

(* Files are never removed.                                                 *)
LEMMA FilesStep ==
    ASSUME [Next]_vars
    PROVE  files \subseteq files'
BY DEF Next, vars, tables, PostCase, PostDocument, Admit, Store, CommitDocument,
       PostRun, ListDocuments, CommitRun, PostDemo, DemoCase, RefreshCase, Abandon

(* What the transaction of save_document adds: the next version of a kind,  *)
(* under an identifier that is new, for a document of the same kind.        *)
LEMMA NewDocument ==
    ASSUME IntakeInv, NEW s \in Sessions, CommitDocument(s)
    PROVE  \E d \in Documents, old \in Ids \cup {None} :
             /\ d.id \notin DocIds /\ d.version = LatestVersion(d.type) + 1
             /\ \A e \in docs : e.type = d.type => e.version < d.version
             /\ docs' = docs \cup {d} /\ active' = (active \ {old}) \cup {d.id}
             /\ \A e \in docs : e.id = old => e.type = d.type
             /\ idem' = idem \cup Saved("documents", session[s].key, session[s].part, d.id)
<1> DEFINE x == session[s]
<1>1. PICK d : d = [id |-> x.id, type |-> x.type, version |-> x.version]
  OBVIOUS
<1>2. /\ x.pc = "stored" /\ d.version \notin VersionsOf(d.type)
      /\ docs' = docs \cup {d} /\ active' = (active \ {x.replaces}) \cup {x.id}
      /\ idem' = idem \cup Saved("documents", x.key, x.part, x.id)
  BY <1>1 DEF CommitDocument
<1>3. x \in SessionStates /\ WellFormed(x) /\ ReadsHold(x)
  BY DEF IntakeInv, IntakeTypeOK, SessionsHold
<1> HIDE DEF x
<1>4. d \in Documents /\ d.id = x.id /\ d.type = x.type /\ d.version = x.version
  BY <1>1, <1>2, <1>3 DEF Documents, SessionStates, WellFormed, UploadPCs
<1>5. d.id \notin DocIds /\ d.version \in 1..(LatestVersion(d.type) + 1)
  BY <1>2, <1>3, <1>4 DEF ReadsHold
<1>6. d.type \in Types
  BY <1>4 DEF Documents
<1>7. /\ LatestVersion(d.type) \in Nat
      /\ VersionsOf(d.type) = 1..LatestVersion(d.type)
      /\ d.version = LatestVersion(d.type) + 1
  BY <1>2, <1>5, <1>6, VersionsToLatest, NextDocument DEF IntakeInv
<1>8. ASSUME NEW e \in docs, e.type = d.type
      PROVE  e.version < d.version
  <2>1. e.version \in 1..LatestVersion(d.type)
    BY <1>7, <1>8 DEF VersionsOf
  <2>2. QED
    BY <1>7, <2>1
<1>9. ASSUME NEW e \in docs, e.id = x.replaces
      PROVE  e.type = d.type
  <2>1. e.id \in Ids
    BY DEF IntakeInv, IntakeTypeOK, Documents
  <2>2. x.replaces # None
    BY <1>9, <2>1, IdsAssumption
  <2>3. PICK o \in docs : o.id = x.replaces /\ o.type = x.type
    BY <1>3, <2>2 DEF ReadsHold
  <2>4. QED
    BY <1>4, <1>9, <2>3 DEF IntakeInv, UniqueDocuments
<1>10. x.replaces \in Ids \cup {None}
  BY <1>3 DEF SessionStates
<1>11. QED
  BY <1>2, <1>4, <1>5, <1>7, <1>8, <1>9, <1>10 DEF x

-----------------------------------------------------------------------------
(* Active materials.                                                       *)

(* LatestVersionIsActive is kept: a commit makes its own version active.    *)
LEMMA LatestStaysActive ==
    ASSUME IntakeInv, IntakeInv', LatestVersionIsActive, [Next]_vars
    PROVE  LatestVersionIsActive'
<1>1. CASE UNCHANGED <<docs, active>>
  BY <1>1 DEF LatestVersionIsActive, LatestVersion, VersionsOf
<1>2. ASSUME NEW s \in Sessions, CommitDocument(s)
      PROVE  LatestVersionIsActive'
  <2>1. PICK d \in Documents, old \in Ids \cup {None} :
             /\ d.id \notin DocIds /\ d.version = LatestVersion(d.type) + 1
             /\ docs' = docs \cup {d} /\ active' = (active \ {old}) \cup {d.id}
             /\ \A e \in docs : e.id = old => e.type = d.type
    BY <1>2, NewDocument
  <2> SUFFICES ASSUME NEW e \in docs', e.version = LatestVersion(e.type)'
               PROVE  e.id \in active'
    BY DEF LatestVersionIsActive
  <2>2. CASE e = d
    BY <2>1, <2>2
  <2>3. CASE e \in docs /\ e.type = d.type
    <3>1. d.type \in Types /\ d.version \in VersionsOf(d.type)'
      BY <2>1 DEF Documents, VersionsOf
    <3>2. d.version \in 1..LatestVersion(d.type)' /\ LatestVersion(d.type)' \in Nat
      BY <2>1, <3>1, LatestGrows DEF IntakeInv
    <3>3. e.version \in VersionsOf(d.type)
      BY <2>3 DEF VersionsOf
    <3>4. e.version \in 1..LatestVersion(d.type) /\ LatestVersion(d.type) \in Nat
      BY <3>1, <3>3, VersionsToLatest DEF IntakeInv
    <3>5. QED
      BY <2>1, <2>3, <3>2, <3>4
  <2>4. CASE e \in docs /\ e.type # d.type
    <3>1. VersionsOf(e.type)' = VersionsOf(e.type)
      BY <2>1, <2>4 DEF VersionsOf
    <3>2. LatestVersion(e.type)' = LatestVersion(e.type)
      BY <3>1 DEF LatestVersion
    <3>3. e.id \in active /\ e.id # old
      BY <2>1, <2>4, <3>2 DEF LatestVersionIsActive
    <3>4. QED
      BY <2>1, <3>3
  <2>5. QED
    BY <2>1, <2>2, <2>3, <2>4
<1>3. QED
  BY <1>1, <1>2, DocumentsStep

(* Whatever is replaced, the latest version of every kind is active.        *)
THEOREM LatestIsActive == Spec => []LatestVersionIsActive
<1>1. Init => LatestVersionIsActive
  BY DEF Init, LatestVersionIsActive
<1>2. IntakeInv /\ IntakeInv' /\ LatestVersionIsActive /\ [Next]_vars
        => LatestVersionIsActive'
  BY LatestStaysActive
<1>3. QED
  BY <1>1, <1>2, IntakeInvariant, PTL DEF Spec

(* A document leaves the active set only for a newer one of its kind, and   *)
(* never comes back (save_document sets is_active of the one it replaces).  *)
THEOREM ReplacementsAreFinal == Spec => ReplacedForGood
<1>1. ASSUME IntakeInv, [Next]_vars
      PROVE  [/\ \A d \in docs : d.id \in active \ active' =>
                    \E e \in docs' \ docs : e.type = d.type /\ e.version > d.version
              /\ \A d \in docs : d.id \notin active => d.id \notin active']_vars
  <2>1. CASE UNCHANGED <<docs, active>>
    BY <2>1
  <2>2. ASSUME NEW s \in Sessions, CommitDocument(s)
        PROVE  /\ \A d \in docs : d.id \in active \ active' =>
                    \E e \in docs' \ docs : e.type = d.type /\ e.version > d.version
               /\ \A d \in docs : d.id \notin active => d.id \notin active'
    <3>1. PICK n \in Documents, old \in Ids \cup {None} :
             /\ n.id \notin DocIds
             /\ \A e \in docs : e.type = n.type => e.version < n.version
             /\ docs' = docs \cup {n} /\ active' = (active \ {old}) \cup {n.id}
             /\ \A e \in docs : e.id = old => e.type = n.type
      BY <1>1, <2>2, NewDocument
    <3>2. n \in docs' \ docs
      BY <3>1 DEF DocIds
    <3>3. \A d \in docs : d.version \in Nat /\ n.version \in Nat
      BY <1>1 DEF IntakeInv, IntakeTypeOK, Documents
    <3>4. ASSUME NEW d \in docs, d.id \in active \ active'
          PROVE  n.type = d.type /\ n.version > d.version
      BY <3>1, <3>3, <3>4
    <3>5. \A d \in docs : d.id # n.id
      BY <3>1 DEF DocIds
    <3>6. QED
      BY <3>1, <3>2, <3>4, <3>5
  <2>3. QED
    BY <1>1, <2>1, <2>2, DocumentsStep
<1>2. QED
  BY <1>1, IntakeInvariant, PTL DEF Spec, ReplacedForGood

-----------------------------------------------------------------------------
(* One resource per key.                                                   *)

Records(scope) == {i \in idem : i.scope = scope}
Resources(scope) == {i.resource : i \in Records(scope)}
RunNumbers == {r.number : r \in runs}

(* Within a scope no two records share a key and part, or a resource.       *)
OneEach(I) ==
    \A i, j \in I : i.scope = j.scope =>
      /\ i.key = j.key /\ i.part = j.part => i = j
      /\ i.resource = j.resource => i = j

(* There is one case, so one record of it, and Runs are numbered in order.  *)
RecordsInv ==
    /\ OneEach(idem)
    /\ \A i, j \in Records("cases") : i = j
    /\ DocIds = Resources("documents")
    /\ RunNumbers = Resources("runs")
    /\ RunNumbers = 1..Cardinality(runs)

(* A record of a key or resource that has none leaves one of each.          *)
LEMMA NewRecord ==
    ASSUME OneEach(idem), NEW scope, NEW key, NEW part, NEW resource,
           ~OnRecord(scope, key, part), resource \notin Resources(scope),
           idem' = idem \cup Saved(scope, key, part, resource)
    PROVE  OneEach(idem') /\ Resources(scope)' = Resources(scope) \cup {resource}
<1> DEFINE r == [scope |-> scope, key |-> key, part |-> part, resource |-> resource]
<1>1. /\ r.scope = scope /\ r.key = key /\ r.part = part /\ r.resource = resource
      /\ idem' = idem \cup {r}
  BY DEF Saved
<1> HIDE DEF r
<1>2. \A i \in idem : i.scope = scope =>
        i.resource # resource /\ ~(i.key = key /\ i.part = part)
  BY DEF OnRecord, Resources, Records
<1>3. OneEach(idem')
  BY <1>1, <1>2 DEF OneEach
<1>4. Records(scope)' = Records(scope) \cup {r}
  BY <1>1 DEF Records
<1>5. QED
  BY <1>1, <1>3, <1>4 DEF Resources

(* What a record adds to one scope it leaves out of the others.             *)
LEMMA OtherScopes ==
    ASSUME NEW scope, NEW key, NEW part, NEW resource,
           idem' = idem \cup Saved(scope, key, part, resource),
           NEW other, other # scope
    PROVE  Records(other)' = Records(other) /\ Resources(other)' = Resources(other)
BY DEF Saved, Records, Resources

(* There is no key and no resource at first.                                *)
LEMMA InitRecords == Init => RecordsInv
<1> SUFFICES ASSUME Init PROVE RecordsInv
  OBVIOUS
<1>1. Cardinality({}) = 0 /\ 1..0 = {}
  BY FS_EmptySet
<1>2. QED
  BY <1>1 DEF Init, RecordsInv, OneEach, Records, Resources, DocIds, RunNumbers

(* The case is recorded once: before it exists no case is on record.        *)
LEMMA CaseRecord ==
    ASSUME IntakeInv, RecordsInv, version = 0, NEW key, NEW part,
           idem' = idem \cup Saved("cases", key, part, "case"),
           UNCHANGED <<docs, runs>>
    PROVE  RecordsInv'
<1>1. \A i \in idem : i.scope # "cases"
  BY DEF IntakeInv, NothingBeforeTheCase
<1>2. ~OnRecord("cases", key, part) /\ "case" \notin Resources("cases")
  BY <1>1 DEF OnRecord, Resources, Records
<1>3. OneEach(idem')
  <2>1. OneEach(idem)
    BY DEF RecordsInv
  <2>2. QED
    BY <1>2, <2>1, NewRecord
<1>4. \A i, j \in Records("cases")' : i = j
  BY <1>1 DEF Records, Saved
<1>5. Resources("documents")' = Resources("documents")
      /\ Resources("runs")' = Resources("runs")
  BY OtherScopes
<1>6. DocIds' = DocIds /\ RunNumbers' = RunNumbers
  BY DEF DocIds, RunNumbers
<1>7. QED
  BY <1>3, <1>4, <1>5, <1>6 DEF RecordsInv

(* A document comes with the record of its key.                             *)
LEMMA DocumentRecord ==
    ASSUME IntakeInv, RecordsInv, NEW s \in Sessions, CommitDocument(s)
    PROVE  RecordsInv'
<1>1. PICK x : x = session[s]
  OBVIOUS
<1>2. /\ x.pc = "stored" /\ ~OnRecord("documents", x.key, x.part)
      /\ docs' = docs \cup {[id |-> x.id, type |-> x.type, version |-> x.version]}
      /\ idem' = idem \cup Saved("documents", x.key, x.part, x.id)
      /\ runs' = runs
  BY <1>1 DEF CommitDocument
<1>3. x.id \notin DocIds
  BY <1>1, <1>2 DEF IntakeInv, SessionsHold, ReadsHold
<1>4. OneEach(idem') /\ Resources("documents")' = Resources("documents") \cup {x.id}
  <2>1. OneEach(idem) /\ x.id \notin Resources("documents")
    BY <1>3 DEF RecordsInv
  <2>2. ~OnRecord("documents", x.key, x.part)
        /\ idem' = idem \cup Saved("documents", x.key, x.part, x.id)
    BY <1>2
  <2>3. QED
    BY <2>1, <2>2, NewRecord
<1>5. Records("cases")' = Records("cases") /\ Resources("runs")' = Resources("runs")
  BY <1>2, OtherScopes
<1>6. DocIds' = DocIds \cup {x.id} /\ RunNumbers' = RunNumbers
  <2>1. PICK d : d = [id |-> x.id, type |-> x.type, version |-> x.version]
    OBVIOUS
  <2>2. docs' = docs \cup {d} /\ d.id = x.id
    BY <1>2, <2>1
  <2>3. QED
    BY <1>2, <2>2 DEF DocIds, RunNumbers
<1>7. QED
  BY <1>2, <1>4, <1>5, <1>6 DEF RecordsInv

(* So does a Run.                                                           *)
LEMMA RunRecord ==
    ASSUME IntakeInv, RecordsInv, NEW s \in Sessions, CommitRun(s)
    PROVE  RecordsInv'
<1>1. PICK x : x = session[s]
  OBVIOUS
<1>2. PICK n : n = Cardinality(runs)
  OBVIOUS
<1>3. PICK r : r = [number |-> n + 1, docs |-> x.docs]
  OBVIOUS
<1>4. /\ ~OnRecord("runs", x.key, x.part) /\ runs' = runs \cup {r}
      /\ idem' = idem \cup Saved("runs", x.key, x.part, n + 1) /\ docs' = docs
  BY <1>1, <1>2, <1>3 DEF CommitRun
<1>5. n \in Nat /\ IsFiniteSet(runs)
  BY <1>2, FS_CardinalityType DEF IntakeInv, UniqueDocuments
<1>6. RunNumbers = 1..n /\ n + 1 \notin RunNumbers
  BY <1>2, <1>5 DEF RecordsInv
<1>7. OneEach(idem') /\ Resources("runs")' = Resources("runs") \cup {n + 1}
  <2>1. OneEach(idem) /\ n + 1 \notin Resources("runs")
    BY <1>6 DEF RecordsInv
  <2>2. ~OnRecord("runs", x.key, x.part)
        /\ idem' = idem \cup Saved("runs", x.key, x.part, n + 1)
    BY <1>4
  <2>3. QED
    BY <2>1, <2>2, NewRecord
<1>8. /\ Records("cases")' = Records("cases")
      /\ Resources("documents")' = Resources("documents")
  BY <1>4, OtherScopes
<1>9. r \notin runs /\ r.number = n + 1
  BY <1>3, <1>6 DEF RunNumbers
<1>10. DocIds' = DocIds /\ RunNumbers' = RunNumbers \cup {n + 1}
  BY <1>4, <1>9 DEF DocIds, RunNumbers
<1>11. Cardinality(runs') = n + 1
  BY <1>2, <1>4, <1>5, <1>9, FS_AddElement
<1>12. (1..n) \cup {n + 1} = 1..(n + 1)
  BY <1>5
<1>13. RunNumbers' = 1..Cardinality(runs')
  BY <1>6, <1>10, <1>11, <1>12
<1>14. QED
  BY <1>7, <1>8, <1>10, <1>13 DEF RecordsInv

(* RecordsInv is inductive.                                                 *)
LEMMA NextKeepsRecords == IntakeInv /\ RecordsInv /\ [Next]_vars => RecordsInv'
<1> SUFFICES ASSUME IntakeInv, RecordsInv, [Next]_vars PROVE RecordsInv'
  OBVIOUS
<1>1. CASE UNCHANGED <<docs, runs, idem>>
  BY <1>1 DEF RecordsInv, OneEach, Records, Resources, DocIds, RunNumbers
<1>2. CASE PostCase
  BY <1>2, CaseRecord DEF PostCase
<1>3. ASSUME NEW s \in Sessions, DemoCase(s) PROVE RecordsInv'
  <2>1. CASE version = 0 /\ idem' = idem \cup Saved("cases", session[s].key, 1, "case")
    BY <1>3, <2>1, CaseRecord DEF DemoCase
  <2>2. CASE UNCHANGED idem
    BY <1>1, <1>3, <2>2 DEF DemoCase
  <2>3. QED
    BY <1>3, <2>1, <2>2 DEF DemoCase
<1>4. ASSUME NEW s \in Sessions, CommitDocument(s) \/ CommitRun(s) PROVE RecordsInv'
  BY <1>4, DocumentRecord, RunRecord
<1>5. ASSUME NEW s \in Sessions,
             PostDocument(s) \/ Admit(s) \/ Store(s) \/ PostRun(s)
               \/ ListDocuments(s) \/ PostDemo(s) \/ RefreshCase(s) \/ Abandon(s)
      PROVE  UNCHANGED <<docs, runs, idem>>
  BY <1>5 DEF PostDocument, Admit, Store, PostRun, ListDocuments, PostDemo, RefreshCase,
              Abandon, tables
<1>6. CASE UNCHANGED vars
  BY <1>1, <1>6 DEF vars
<1>7. QED
  BY <1>1, <1>2, <1>3, <1>4, <1>5, <1>6 DEF Next

(* RecordsInv is an invariant.                                              *)
LEMMA RecordsInvariant == Spec => []RecordsInv
BY InitRecords, NextKeepsRecords, IntakeInvariant, PTL DEF Spec

(* A request repeated with its key creates nothing twice, whichever of the  *)
(* repeated requests commits: every document and every Run has one record,  *)
(* and every record is of its own key (_idempotent_resource and the unique  *)
(* constraint of idempotency_records).                                     *)
THEOREM RepeatsCreateNothing == Spec => []OneResourcePerKey
<1>1. IntakeInv /\ RecordsInv => OneResourcePerKey
  <2> SUFFICES ASSUME IntakeInv, RecordsInv PROVE OneResourcePerKey
    OBVIOUS
  <2>1. \A i, j \in idem : i.scope = j.scope =>
           (i = j <=> (i.key = j.key /\ i.part = j.part))
                  /\ (i = j <=> i.resource = j.resource)
    BY DEF RecordsInv, OneEach
  <2>2. QED
    BY <2>1 DEF OneResourcePerKey, RecordsInv, Resources, Records, RunNumbers
<1>2. QED
  BY <1>1, IntakeInvariant, RecordsInvariant, PTL

-----------------------------------------------------------------------------
(* The materials of a Run.                                                 *)

OfType(D, t) == {d \in docs : d.id \in D /\ d.type = t}

(* As many documents as there are kinds, of every kind: one of each.        *)
LEMMA OneOfEachKind ==
    ASSUME IntakeTypeOK, UniqueDocuments, NEW D, D \subseteq DocIds,
           Cardinality(D) = N, TypesOf(D) = Types
    PROVE  \A t \in Types : Cardinality(OfType(D, t)) = 1
<1>1. \A i \in D : \E d \in docs : d.id = i
  BY DEF DocIds
<1> DEFINE Doc(i) == CHOOSE d \in docs : d.id = i
           kind == [i \in D |-> Doc(i).type]
<1>2. \A i \in D : Doc(i) \in docs /\ Doc(i).id = i
  BY <1>1
<1>3. \A d \in docs : d.id \in D => Doc(d.id) = d
  BY <1>2 DEF UniqueDocuments
<1> HIDE DEF Doc
<1>4. \A d \in docs : d.id \in D => kind[d.id] = d.type
  BY <1>3
<1>5. \A i \in D : kind[i] \in Types
  <2>1. \A d \in docs : d.id \in D => d.type \in Types
    BY DEF TypesOf
  <2>2. QED
    BY <1>2, <2>1
<1>6. \A t \in Types : \E i \in D : kind[i] = t
  <2>1. \A t \in Types : \E d \in docs : d.id \in D /\ d.type = t
    BY DEF TypesOf
  <2> HIDE DEF kind
  <2>2. QED
    BY <1>4, <2>1
<1>7. kind \in Surjection(D, Types)
  <2>1. \A i \in D : Doc(i).type \in Types
    BY <1>5
  <2>2. kind \in [D -> Types]
    BY <2>1
  <2> HIDE DEF kind
  <2>3. QED
    BY <1>6, <2>2 DEF Surjection
<1>8. IsFiniteSet(Types) /\ Cardinality(Types) = N
  BY NAssumption, FS_Interval DEF Types
<1>9. IsFiniteSet(D)
  <2>1. D \subseteq Ids
    BY DEF IntakeTypeOK, Documents, DocIds
  <2>2. QED
    BY <2>1, IdsAssumption, FS_Subset
<1>10. kind \in Injection(D, Types)
  BY <1>7, <1>8, <1>9, FS_SurjSameCardinalityImpliesInj
<1>11. \A i, j \in D : kind[i] = kind[j] => i = j
  <2> HIDE DEF kind
  <2>1. QED
    BY <1>10 DEF Injection, IsInjective
<1> HIDE DEF kind
<1>12. ASSUME NEW t \in Types
       PROVE  Cardinality(OfType(D, t)) = 1
  <2>1. PICK d \in docs : d.id \in D /\ d.type = t
    BY DEF TypesOf
  <2>2. \A e \in docs : e.id \in D /\ e.type = t => e = d
    BY <1>4, <1>11, <2>1 DEF UniqueDocuments
  <2>3. OfType(D, t) = {d}
    BY <2>1, <2>2 DEF OfType
  <2>4. QED
    BY <2>3, FS_Singleton
<1>13. QED
  BY <1>12

(* Documents of a kind stay those of the kind.                              *)
LEMMA OfTypeKept ==
    ASSUME UniqueDocuments', docs \subseteq docs', NEW D, D \subseteq DocIds, NEW t
    PROVE  OfType(D, t)' = OfType(D, t)
<1>1. ASSUME NEW e \in docs', e.id \in D
      PROVE  e \in docs
  <2>1. PICK d \in docs : d.id = e.id
    BY <1>1 DEF DocIds
  <2>2. d = e
    BY <2>1 DEF UniqueDocuments
  <2>3. QED
    BY <2>2
<1>2. QED
  BY <1>1 DEF OfType

MaterialsOfRuns ==
    \A r \in runs : /\ r.docs \subseteq DocIds
                    /\ \A t \in Types : Cardinality(OfType(r.docs, t)) = 1

(* The documents of a Run stay on record, one of each kind.                 *)
LEMMA NextKeepsMaterials ==
    ASSUME IntakeInv, IntakeInv', MaterialsOfRuns, [Next]_vars
    PROVE  MaterialsOfRuns'
<1>1. docs \subseteq docs'
  BY DocumentsStep DEF CommitDocument
<1>2. DocIds \subseteq DocIds'
  BY <1>1 DEF DocIds
<1>3. ASSUME NEW r \in runs
      PROVE  r.docs \subseteq DocIds' /\ \A t \in Types : Cardinality(OfType(r.docs, t)') = 1
  <2>1. r.docs \subseteq DocIds /\ \A t \in Types : Cardinality(OfType(r.docs, t)) = 1
    BY DEF MaterialsOfRuns
  <2>2. \A t \in Types : OfType(r.docs, t)' = OfType(r.docs, t)
    BY <1>1, <2>1, OfTypeKept DEF IntakeInv
  <2>3. QED
    BY <1>2, <2>1, <2>2
<1>4. CASE UNCHANGED runs
  BY <1>3, <1>4 DEF MaterialsOfRuns, OfType
<1>5. ASSUME NEW s \in Sessions, CommitRun(s)
      PROVE  MaterialsOfRuns'
  <2>1. PICK D : D = session[s].docs
    OBVIOUS
  <2>2. PICK r : r = [number |-> Cardinality(runs) + 1, docs |-> D]
    OBVIOUS
  <2>3. runs' = runs \cup {r} /\ docs' = docs /\ r.docs = D /\ session[s].pc = "listed"
    BY <1>5, <2>1, <2>2 DEF CommitRun
  <2>4. D \subseteq DocIds /\ Cardinality(D) = N /\ TypesOf(D) = Types
    BY <2>1, <2>3 DEF IntakeInv, SessionsHold, ReadsHold, WellFormed
  <2>5. \A t \in Types : Cardinality(OfType(D, t)) = 1
    BY <2>4, OneOfEachKind DEF IntakeInv
  <2>6. \A t \in Types : Cardinality(OfType(D, t)') = 1
    BY <2>3, <2>5 DEF OfType
  <2>7. QED
    BY <1>2, <1>3, <2>3, <2>4, <2>6 DEF MaterialsOfRuns, OfType
<1>6. QED
  BY <1>4, <1>5, RunsStep

(* A Run is made of one stored document of every required kind, whatever is *)
(* replaced or uploaded meanwhile, and Runs are numbered without a gap      *)
(* (create_run).                                                            *)
THEOREM RunsAreComplete == Spec => []RunsHaveTheirMaterials
<1>1. Init => MaterialsOfRuns
  BY DEF Init, MaterialsOfRuns
<1>2. IntakeInv /\ IntakeInv' /\ MaterialsOfRuns /\ [Next]_vars => MaterialsOfRuns'
  BY NextKeepsMaterials
<1>3. IntakeInv /\ RecordsInv /\ MaterialsOfRuns => RunsHaveTheirMaterials
  <2> SUFFICES ASSUME IntakeInv, RecordsInv, MaterialsOfRuns
               PROVE  RunsHaveTheirMaterials
    OBVIOUS
  <2>1. \A r \in runs : r.docs \subseteq DocIds \cap files
    BY DEF IntakeInv, UniqueDocuments, MaterialsOfRuns
  <2>2. \A r \in runs : \A t \in Types :
          Cardinality({d \in docs : d.id \in r.docs /\ d.type = t}) = 1
    BY DEF MaterialsOfRuns, OfType
  <2>3. {r.number : r \in runs} = 1..Cardinality(runs)
    BY DEF RecordsInv, RunNumbers
  <2>4. QED
    BY <2>1, <2>2, <2>3 DEF RunsHaveTheirMaterials
<1>4. QED
  BY <1>1, <1>2, <1>3, IntakeInvariant, RecordsInvariant, PTL DEF Spec

-----------------------------------------------------------------------------
(* The version of the case.                                                *)

(* While no demo scenario has filed a document the version counts them, and *)
(* the upload in flight goes on from the version as it is.                  *)
VersionCounts == version > 0 /\ NoDemoDocuments => version = 1 + Cardinality(docs)

CountInv == UploadsSeeTheCase /\ VersionCounts

(* Nothing is counted at first.                                             *)
LEMMA InitCount == Init => CountInv
BY DEF Init, Free, CountInv, UploadsSeeTheCase, Uploads, UploadPCs, VersionCounts

(* A step that starts no upload and leaves version, documents and records.  *)
LEMMA NoUploadStep ==
    ASSUME CountInv, UNCHANGED <<version, docs, idem>>,
           \A s \in Sessions : session'[s].part = 0 /\ session'[s].pc \in UploadPCs =>
             /\ session[s].part = 0 /\ session[s].pc \in UploadPCs
             /\ session'[s].case = session[s].case
    PROVE  CountInv'
<1>1. Uploads' \subseteq Uploads /\ \A s \in Uploads' : session'[s].case = session[s].case
  BY DEF Uploads
<1>2. NoDemoDocuments' <=> NoDemoDocuments
  BY DEF NoDemoDocuments
<1>3. UploadsSeeTheCase'
  BY <1>1, <1>2 DEF CountInv, UploadsSeeTheCase
<1>4. QED
  BY <1>2, <1>3 DEF CountInv, VersionCounts

(* One request steps on; what the others have read is not touched.          *)
LEMMA OneSessionStep ==
    ASSUME IntakeInv, CountInv, NEW s \in Sessions, NEW y,
           session' = [session EXCEPT ![s] = y], UNCHANGED <<version, docs, idem>>,
           y.part = 0 /\ y.pc \in UploadPCs =>
             /\ session[s].part = 0 /\ session[s].pc \in UploadPCs
             /\ y.case = session[s].case
    PROVE  CountInv'
<1>1. /\ session'[s] = y
      /\ \A t \in Sessions \ {s} : session'[t] = session[t]
  BY DEF IntakeInv, IntakeTypeOK
<1>2. QED
  BY <1>1, NoUploadStep

(* An upload that begins is the only one, and has read the version.         *)
LEMMA UploadCounts ==
    ASSUME IntakeInv, CountInv, NEW s \in Sessions, PostDocument(s)
    PROVE  CountInv'
<1>1. /\ \A t \in Sessions : session[t].part = 0 => session[t].pc \notin UploadPCs
      /\ UNCHANGED <<version, docs, idem>>
  BY DEF PostDocument, tables
<1>2. PICK y : y.case = version /\ session' = [session EXCEPT ![s] = y]
  <2>1. PICK k \in Keys, t \in Types, old \in DocIds \cup {None} :
          session' = [session EXCEPT ![s] =
                        [Free EXCEPT !.pc = "admitted", !.key = k, !.case = version,
                                     !.type = t, !.replaces = old]]
    BY DEF PostDocument
  <2>2. [Free EXCEPT !.pc = "admitted", !.key = k, !.case = version,
                     !.type = t, !.replaces = old].case = version
    BY DEF Free
  <2>3. QED
    BY <2>1, <2>2
<1>3. /\ session'[s] = y
      /\ \A t \in Sessions \ {s} : session'[t] = session[t]
  BY <1>2 DEF IntakeInv, IntakeTypeOK
<1>4. Uploads' \subseteq {s}
  BY <1>1, <1>3 DEF Uploads
<1>5. UploadsSeeTheCase'
  BY <1>1, <1>2, <1>3, <1>4 DEF UploadsSeeTheCase
<1>6. NoDemoDocuments' <=> NoDemoDocuments
  BY <1>1 DEF NoDemoDocuments
<1>7. QED
  BY <1>1, <1>5, <1>6 DEF CountInv, VersionCounts

(* The transaction: of the endpoint's upload, which is alone, or of a demo  *)
(* scenario's, after which the version no longer counts.                    *)
LEMMA CommitCounts ==
    ASSUME IntakeInv, CountInv, NEW s \in Sessions, CommitDocument(s)
    PROVE  CountInv'
<1>1. PICK x : x = session[s]
  OBVIOUS
<1>2. PICK y : y = After(s)
  OBVIOUS
<1>3. PICK d : d = [id |-> x.id, type |-> x.type, version |-> x.version]
  OBVIOUS
<1>4. /\ x.pc = "stored" /\ docs' = docs \cup {d} /\ version' = x.case + 1
      /\ idem' = idem \cup Saved("documents", x.key, x.part, x.id)
      /\ session' = [session EXCEPT ![s] = y]
  BY <1>1, <1>2, <1>3 DEF CommitDocument
<1>5. x \in SessionStates /\ d.id = x.id /\ x.id \notin DocIds
  BY <1>1, <1>3, <1>4 DEF IntakeInv, IntakeTypeOK, SessionsHold, ReadsHold
<1>6. /\ session'[s] = y
      /\ \A t \in Sessions \ {s} : session'[t] = session[t]
  BY <1>4 DEF IntakeInv, IntakeTypeOK
<1>7. y.pc \notin UploadPCs
  <2>1. y.pc \in {"free", "loaded", "comparing"}
    BY <1>1, <1>2, <1>4, <1>5, AfterDocument
       DEF IntakeInv, UniqueDocuments, SessionsHold, ReadsHold
  <2>2. QED
    BY <2>1 DEF UploadPCs
<1>8. Uploads' \subseteq Uploads \ {s}
  BY <1>6, <1>7 DEF Uploads
<1>9. CASE x.part # 0
  <2>1. PICK r : r = [scope |-> "documents", key |-> x.key, part |-> x.part,
                      resource |-> x.id]
    OBVIOUS
  <2>2. r \in idem' /\ r.scope = "documents" /\ r.part # 0
    BY <1>4, <1>9, <2>1 DEF Saved
  <2>3. ~NoDemoDocuments'
    BY <2>2 DEF NoDemoDocuments
  <2>4. QED
    BY <1>8, <2>3 DEF CountInv, UploadsSeeTheCase, VersionCounts
<1>10. CASE x.part = 0
  <2>1. s \in Uploads
    BY <1>1, <1>4, <1>10 DEF Uploads, UploadPCs
  <2>2. Uploads' = {}
    BY <1>8, <2>1 DEF CountInv, UploadsSeeTheCase
  <2>3. NoDemoDocuments' => NoDemoDocuments
    BY <1>4 DEF NoDemoDocuments
  <2>4. NoDemoDocuments => x.case = version
    BY <1>1, <2>1 DEF CountInv, UploadsSeeTheCase
  <2>5. version \in Nat /\ version # 0
    BY <1>1, <1>4 DEF IntakeInv, IntakeTypeOK, NothingBeforeTheCase
  <2>6. d \notin docs
    BY <1>5 DEF DocIds
  <2>7. Cardinality(docs') = Cardinality(docs) + 1 /\ Cardinality(docs) \in Nat
    BY <1>4, <2>6, FS_AddElement, FS_CardinalityType DEF IntakeInv, UniqueDocuments
  <2>8. VersionCounts'
    <3>1. ASSUME NoDemoDocuments'
          PROVE  version' = 1 + Cardinality(docs')
      <4>1. version = 1 + Cardinality(docs)
        BY <2>3, <2>5, <3>1 DEF CountInv, VersionCounts
      <4>2. version' = version + 1
        BY <1>4, <2>3, <2>4, <3>1
      <4>3. QED
        BY <2>7, <4>1, <4>2
    <3>2. QED
      BY <3>1 DEF VersionCounts
  <2>9. QED
    BY <2>2, <2>8 DEF CountInv, UploadsSeeTheCase
<1>11. QED
  BY <1>9, <1>10

(* The case is created before anything is uploaded.                         *)
LEMMA CaseCounts ==
    ASSUME IntakeInv, CountInv, version = 0, version' = 1, UNCHANGED docs,
           \A s \in Sessions : session'[s].pc \notin UploadPCs
    PROVE  CountInv'
<1>1. docs = {} /\ Cardinality(docs) = 0
  BY FS_EmptySet DEF IntakeInv, NothingBeforeTheCase
<1>2. Uploads' = {}
  BY DEF Uploads
<1>3. QED
  BY <1>1, <1>2 DEF CountInv, UploadsSeeTheCase, VersionCounts

(* CountInv is inductive.                                                   *)
LEMMA NextKeepsCount == IntakeInv /\ CountInv /\ [Next]_vars => CountInv'
<1> SUFFICES ASSUME IntakeInv, CountInv, [Next]_vars PROVE CountInv'
  OBVIOUS
<1>0. Free.pc \notin UploadPCs
  BY DEF Free, UploadPCs
<1>1. CASE PostCase
  <2>1. \A s \in Sessions : session'[s].pc \notin UploadPCs
    BY <1>1 DEF PostCase, IntakeInv, NothingBeforeTheCase, UploadPCs
  <2>2. QED
    BY <1>1, <2>1, CaseCounts DEF PostCase
<1>2. ASSUME NEW s \in Sessions, PostDocument(s) PROVE CountInv'
  BY <1>2, UploadCounts
<1>3. ASSUME NEW s \in Sessions, Admit(s) PROVE CountInv'
  <2>1. PICK x : x = session[s]
    OBVIOUS
  <2>2. PICK y : y = [x EXCEPT !.pc = "admitted"]
    OBVIOUS
  <2>3. x \in SessionStates /\ WellFormed(x) /\ x.pc = "loaded"
    BY <1>3, <2>1 DEF Admit, IntakeInv, IntakeTypeOK, SessionsHold
  <2>4. y.part = x.part /\ x.part # 0
    BY <2>2, <2>3, NAssumption DEF SessionStates, WellFormed
  <2>5. session' = [session EXCEPT ![s] = y] /\ UNCHANGED <<version, docs, idem>>
    BY <1>3, <2>1, <2>2 DEF Admit, IntakeInv, IntakeTypeOK, tables
  <2>6. QED
    BY <2>4, <2>5, OneSessionStep
<1>4. ASSUME NEW s \in Sessions, Store(s) PROVE CountInv'
  <2>1. PICK x : x = session[s]
    OBVIOUS
  <2>2. PICK id, v : session' = [session EXCEPT ![s].pc = "stored", ![s].id = id,
                                                ![s].version = v]
    BY <1>4 DEF Store
  <2>3. PICK y : y = [x EXCEPT !.pc = "stored", !.id = id, !.version = v]
    OBVIOUS
  <2>4. x \in SessionStates /\ x.pc = "admitted"
    BY <1>4, <2>1 DEF Store, IntakeInv, IntakeTypeOK
  <2>5. y.part = x.part /\ y.case = x.case /\ x.pc \in UploadPCs
    BY <2>3, <2>4 DEF SessionStates, UploadPCs
  <2>6. session' = [session EXCEPT ![s] = y] /\ UNCHANGED <<version, docs, idem>>
    BY <1>4, <2>1, <2>2, <2>3 DEF Store, IntakeInv, IntakeTypeOK, tables
  <2>7. QED
    BY <2>1, <2>5, <2>6, OneSessionStep
<1>5. ASSUME NEW s \in Sessions, CommitDocument(s) PROVE CountInv'
  BY <1>5, CommitCounts
<1>6. ASSUME NEW s \in Sessions, PostRun(s) PROVE CountInv'
  <2>1. PICK k \in Keys, D \in SUBSET DocIds :
          session' = [session EXCEPT ![s] =
                        [Free EXCEPT !.pc = "comparing", !.key = k,
                                     !.case = version, !.docs = D]]
    BY <1>6 DEF PostRun
  <2>2. [Free EXCEPT !.pc = "comparing", !.key = k, !.case = version, !.docs = D].pc
          \notin UploadPCs
    BY DEF Free, UploadPCs
  <2>3. UNCHANGED <<version, docs, idem>>
    BY <1>6 DEF PostRun, tables
  <2>4. QED
    BY <2>1, <2>2, <2>3, OneSessionStep
<1>7. ASSUME NEW s \in Sessions, ListDocuments(s) PROVE CountInv'
  <2>1. PICK x : x = session[s]
    OBVIOUS
  <2>2. PICK y : y = [x EXCEPT !.pc = "listed"]
    OBVIOUS
  <2>3. x \in SessionStates
    BY <2>1 DEF IntakeInv, IntakeTypeOK
  <2>4. y.pc = "listed"
    BY <2>2, <2>3 DEF SessionStates
  <2>5. session' = [session EXCEPT ![s] = y] /\ UNCHANGED <<version, docs, idem>>
    BY <1>7, <2>1, <2>2 DEF ListDocuments, IntakeInv, IntakeTypeOK, tables
  <2>6. QED
    BY <2>4, <2>5, OneSessionStep DEF UploadPCs
<1>8. ASSUME NEW s \in Sessions, CommitRun(s) \/ Abandon(s)
      PROVE  CountInv'
  <2>1. session' = [session EXCEPT ![s] = Free] /\ UNCHANGED <<version, docs>>
    BY <1>8 DEF CommitRun, Abandon, tables
  <2>2. CASE Abandon(s)
    BY <1>0, <2>1, <2>2, OneSessionStep DEF Abandon, tables
  <2>3. CASE CommitRun(s)
    <3>1. Uploads' \subseteq Uploads /\ \A t \in Uploads' : session'[t] = session[t]
      BY <1>0, <2>1 DEF IntakeInv, IntakeTypeOK, Uploads
    <3>2. NoDemoDocuments' => NoDemoDocuments
      BY <2>3 DEF CommitRun, NoDemoDocuments
    <3>3. QED
      BY <2>1, <3>1, <3>2 DEF CountInv, UploadsSeeTheCase, VersionCounts
  <2>4. QED
    BY <1>8, <2>2, <2>3
<1>9. ASSUME NEW s \in Sessions, PostDemo(s) PROVE CountInv'
  <2>1. PICK k \in Keys :
        session' = [session EXCEPT ![s] = [Free EXCEPT !.pc = "demo", !.part = 1,
                                                       !.key = k, !.case = version]]
    BY <1>9 DEF PostDemo
  <2>2. [Free EXCEPT !.pc = "demo", !.part = 1, !.key = k, !.case = version].pc
          \notin UploadPCs
    BY DEF Free, UploadPCs
  <2>3. UNCHANGED <<version, docs, idem>>
    BY <1>9 DEF PostDemo, tables
  <2>4. QED
    BY <2>1, <2>2, <2>3, OneSessionStep
<1>10. ASSUME NEW s \in Sessions, DemoCase(s) PROVE CountInv'
  <2>1. PICK x : x = session[s]
    OBVIOUS
  <2>2. PICK y : y.pc \notin UploadPCs /\ session' = [session EXCEPT ![s] = y]
    <3>1. x \in SessionStates /\ s \in DOMAIN session
      BY <2>1 DEF IntakeInv, IntakeTypeOK
    <3>2. CASE session' = [session EXCEPT ![s].pc = "created"]
      <4>1. PICK y : y = [x EXCEPT !.pc = "created"]
        OBVIOUS
      <4>2. y.pc \notin UploadPCs
        BY <3>1, <4>1 DEF SessionStates, UploadPCs
      <4>3. session' = [session EXCEPT ![s] = y]
        BY <2>1, <3>2, <4>1
      <4>4. QED
        BY <4>2, <4>3
    <3>3. ASSUME NEW c, session' = [session EXCEPT ![s] =
                     [[x EXCEPT !.pc = "loaded", !.type = 1] EXCEPT !.case = c]]
          PROVE  \E y : y.pc \notin UploadPCs /\ session' = [session EXCEPT ![s] = y]
      <4>1. PICK y : y = [[x EXCEPT !.pc = "loaded", !.type = 1] EXCEPT !.case = c]
        OBVIOUS
      <4>2. y.pc \notin UploadPCs
        BY <3>1, <4>1 DEF SessionStates, UploadPCs
      <4>3. QED
        BY <3>3, <4>1, <4>2
    <3>4. QED
      BY <1>10, <2>1, <3>2, <3>3 DEF DemoCase
  <2>3. CASE UNCHANGED <<version, idem>>
    <3>1. UNCHANGED docs
      BY <1>10 DEF DemoCase
    <3>2. QED
      BY <2>2, <2>3, <3>1, OneSessionStep
  <2>4. CASE version = 0 /\ version' = 1
    <3>1. \A t \in Sessions : session'[t].pc \notin UploadPCs
      BY <2>2, <2>4 DEF IntakeInv, IntakeTypeOK, NothingBeforeTheCase, UploadPCs
    <3>2. QED
      BY <1>10, <2>4, <3>1, CaseCounts DEF DemoCase
  <2>5. QED
    BY <1>10, <2>3, <2>4 DEF DemoCase
<1>11. ASSUME NEW s \in Sessions, RefreshCase(s) PROVE CountInv'
  <2>1. PICK x : x = session[s]
    OBVIOUS
  <2>2. PICK y : y = [x EXCEPT !.pc = "loaded", !.type = 1, !.case = version]
    OBVIOUS
  <2>3. x \in SessionStates
    BY <2>1 DEF IntakeInv, IntakeTypeOK
  <2>4. y.pc = "loaded"
    BY <2>2, <2>3 DEF SessionStates
  <2>5. session' = [session EXCEPT ![s] = y] /\ UNCHANGED <<version, docs, idem>>
    BY <1>11, <2>1, <2>2 DEF RefreshCase, IntakeInv, IntakeTypeOK, tables
  <2>6. QED
    BY <2>4, <2>5, OneSessionStep DEF UploadPCs
<1>12. CASE UNCHANGED vars
  <2>1. UNCHANGED <<version, docs, idem, session>>
    BY <1>12 DEF vars
  <2>2. QED
    BY <2>1, NoUploadStep
<1>13. QED
  BY <1>1, <1>2, <1>3, <1>4, <1>5, <1>6, <1>7, <1>8, <1>9, <1>10, <1>11, <1>12
     DEF Next

(* As long as every document came through the endpoint, the case version is *)
(* one more than their number: no two uploads write the same version        *)
(* (case.version += 1 of save_document, on the single event loop).          *)
THEOREM UploadsAreCounted == Spec => []VersionCountsMaterials
<1>1. CountInv => VersionCountsMaterials
  BY DEF CountInv, VersionCounts, NoDemoDocuments, VersionCountsMaterials
<1>2. QED
  BY <1>1, InitCount, NextKeepsCount, IntakeInvariant, PTL DEF Spec
=============================================================================
