----------------------------- MODULE FactReview -----------------------------
(***************************************************************************)
(* What becomes of the values of one Run: candidates read from materials,  *)
(* conflicts, the rulings of HITL-1, the rules and the report of HITL-2.   *)
(* ReviewRuns has the same handlers with their concurrency and reduces     *)
(* facts to their open issues; this module has the facts, and lets each    *)
(* handler run undisturbed, but for the status of the materials, which     *)
(* other Runs of the case rewrite between any two of its steps.            *)
(*                                                                         *)
(* Translated from facts.py, fact_service.py and report_service.py; the    *)
(* rules are in ReviewRules, the reading of files is in Materials.         *)
(***************************************************************************)
EXTENDS Materials

CONSTANTS
    Inputs,       \* what a Run may find: files, scans, profile, policies
    Blocks,       \* the blocks of a material
    RawValues,    \* for each field, what may be written of it
    FieldValues,  \* for each field, the values it may have
    Corrections,  \* for each field, what a reviewer may enter
    MaxRulings    \* decisions in one request: a bound

ASSUME MaxRulingsAssumption == MaxRulings \in Nat

(* What is absent is neither a number nor a name that a rule knows.         *)
ASSUME NoneAssumption == None \notin Int /\ None \notin {"allowed", "restricted", "prohibited"}

(* Amounts and terms come as Materials says, and the values of a field are  *)
(* what all that may be written or entered of it comes to.                  *)
RawOf(f) ==
    CASE f \in DecimalFields ->
           [number : Int, separated : BOOLEAN,
            unit : {"none", "yuan", "wan_yuan", "wan", "yi_yuan"}]
      [] f = "F08" -> [halves : Int, unit : {"months", "years", "years_and_months"}]
      [] OTHER -> RawValues[f] \cup Corrections[f]

ASSUME ValuesAssumption ==
    \A f \in Fields :
      /\ RawValues[f] \cup Corrections[f] \subseteq RawOf(f) \cup {None}
      /\ \A raw \in RawValues[f] : NormalizeValue(f, Cut(f, raw)) \in FieldValues[f] \cup {None}
      /\ \A raw \in Corrections[f] : NormalizeValue(f, raw) \in FieldValues[f] \cup {None}
      /\ f \in DecimalFields \cup {"F08"} => FieldValues[f] \subseteq Int

(* A Run has one material of each type, and the profile of one customer.    *)
Entries(f) == [block : Blocks, cells : BOOLEAN, raw : RawValues[f]]

ASSUME InputsAssumption ==
    \A x \in Inputs :
      /\ \A t \in DocumentTypes :
           /\ x.files[t].pages \in Nat /\ x.files[t].chars \in Nat
           /\ \A f \in Fields :
                /\ x.files[t].text[f] \in Seq(Entries(f))
                /\ x.files[t].scan[f] \in Seq(Entries(f))
      /\ x.order \in Seq(DocumentTypes)
      /\ \A t \in DocumentTypes : \E i \in DOMAIN x.order : x.order[i] = t
      /\ x.mineru \in {"off", "down", "up"}
      /\ x.profile.failures \subseteq ToolNames /\ x.profile.available \in Int
      /\ x.profile.blacklisted \in BOOLEAN /\ x.profile.currency # None
      /\ \A t \in ToolNames \ x.profile.failures : Call(x.profile, t) # None

-----------------------------------------------------------------------------
VARIABLES
    input,    \* the materials of the Run and the world around it
    documents, \* documents.status of each material
    status,   \* review_runs.status
    facts,    \* the latest FACT snapshot: candidates and value of each field
    rulings,  \* human_decisions of the fact gate, in the order given
    results,  \* the latest RULE snapshot
    judged    \* history: documents as the rules last found them

vars == <<input, documents, status, facts, rulings, results, judged>>

RunStatus == {"RUNNING", "WAITING_FACT_REVIEW", "WAITING_REPORT_REVIEW",
              "COMPLETED", "RETURNED"}
NoFacts == [f \in Fields |-> [candidates |-> <<>>, value |-> None]]
NoResults == [r \in Rules |-> Verdict("NEEDS_REVIEW", {})]

-----------------------------------------------------------------------------
(* Conflicts.  A candidate is a value (None if it could not be normalised)  *)
(* and the block it was read from.                                          *)

Values(candidates) == {candidates[i].value : i \in DOMAIN candidates}

(* The first candidate of every value.                                      *)
Distinct(candidates) ==
    FoldLeft(LAMBDA kept, x : IF x.value \in Values(kept) \cup {None} THEN kept
                                                         ELSE Append(kept, x),
             <<>>, candidates)

InConflict(candidates) == Len(Distinct(candidates)) >= 2

Magnitude(n) == IF n < 0 THEN -n ELSE n

(* Numbers differ materially by more than 10000 and more than one percent;  *)
(* of several only the first two are compared.                              *)
MateriallyDifferent(m, n) ==
    LET absolute == Magnitude(m - n)
        larger == IF Magnitude(m) > Magnitude(n) THEN Magnitude(m) ELSE Magnitude(n)
    IN  absolute > 10000 /\ absolute * 100 > larger

Material(f, candidates) ==
    LET distinct == Distinct(candidates)
    IN  /\ InConflict(candidates)
        /\ f \in DecimalFields => MateriallyDifferent(distinct[1].value, distinct[2].value)

(* Mutated: a candidate without a value counts for nothing.                 *)
PayloadOfUsable(candidates) ==
    [f \in Fields |->
       [candidates |-> [i \in DOMAIN candidates[f] |->
                          [value |-> candidates[f][i].value,
                           evidence |-> candidates[f][i].evidence, selected |-> FALSE]],
        value |-> IF Len(Distinct(candidates[f])) = 1 THEN Distinct(candidates[f])[1].value
                                                      ELSE None]]

(* build_fact_payload: a value is selected if all candidates agree on it.   *)
Payload(candidates) ==
    [f \in Fields |->
       [candidates |-> [i \in DOMAIN candidates[f] |->
                          [value |-> candidates[f][i].value,
                           evidence |-> candidates[f][i].evidence, selected |-> FALSE]],
        value |-> IF Cardinality(Values(candidates[f])) = 1 THEN candidates[f][1].value
                                                            ELSE None]]

-----------------------------------------------------------------------------
Context(fs, statuses) ==
    [facts |-> fs, documents |-> statuses,
     tools |-> [t \in ToolNames |-> Call(input.profile, t)],
     hits |-> input.hits, reviewDate |-> input.reviewDate]

Init ==
    /\ input \in Inputs
    /\ documents = [t \in DocumentTypes |-> "UPLOADED"]
    /\ status = "RUNNING"
    /\ facts = NoFacts
    /\ rulings = <<>>
    /\ results = NoResults
    /\ judged = documents

(* What process_materials_and_facts sends to the fact gate: a material      *)
(* conflict, a field without a candidate, or a material that is not parsed. *)
NeedsReview(fs, statuses) ==
    \/ \E f \in Fields : Material(f, fs[f].candidates) \/ fs[f].candidates = <<>>
    \/ \E t \in DocumentTypes : statuses[t] # "PARSED"

Parsed(mineru) == [t \in DocumentTypes |-> ParseDocument(input.files[t], mineru)]

ProcessMaterials ==
    /\ status = "RUNNING" /\ facts = NoFacts
    /\ LET parsed == Parsed(input.mineru)
           texts == [t \in DocumentTypes |-> parsed[t].text]
       IN  /\ documents' = [t \in DocumentTypes |-> parsed[t].status]
           /\ facts' = Payload(ExtractCandidates(input.files, texts, input.order))
    /\ status' = IF NeedsReview(facts', documents') THEN "WAITING_FACT_REVIEW" ELSE "RUNNING"
    /\ UNCHANGED <<input, rulings, results, judged>>

(* Another Run of the same case reads the same files, at any time, while    *)
(* the provider of scans is down or up again, and leaves their status as it *)
(* finds it.                                                                *)
AnotherRunParses ==
    /\ input.mineru # "off"
    /\ \E mineru \in {"down", "up"} :
         documents' = [t \in DocumentTypes |-> Parsed(mineru)[t].status]
    /\ UNCHANGED <<input, status, facts, rulings, results, judged>>

(* The rest of run_once: evaluate_review_core, and the report gate.         *)
EvaluateCore ==
    /\ status = "RUNNING" /\ facts # NoFacts
    /\ results' = Evaluate(Context(facts, documents))
    /\ judged' = documents
    /\ status' = "WAITING_REPORT_REVIEW"
    /\ UNCHANGED <<input, documents, facts, rulings>>

-----------------------------------------------------------------------------
(* submit_fact_review.  A decision names a conflict, which is one per field.*)

Conflicts == {f \in Fields : InConflict(facts[f].candidates)}

(* What a decision carries: the evidence of a source, or what is entered.   *)
Ruling(f, action, x) == [field |-> f, action |-> action, with |-> x]

Rulings ==
    UNION {{Ruling(f, "SELECT_SOURCE", e) : e \in CandidateEvidence(facts[f].candidates)}
             \cup {Ruling(f, "CORRECT_VALUE", raw) : raw \in Corrections[f]}
             \cup {Ruling(f, "REQUEST_RESUBMISSION", None)} : f \in Conflicts}

Requests == UNION {[1..n -> Rulings] : n \in 1..MaxRulings}

AsksForMaterial(q) == \E i \in DOMAIN q : q[i].action = "REQUEST_RESUBMISSION"

(* The candidate a source stands for: the first of the conflict's that was  *)
(* read from this block.                                                    *)
FromBlock(d) ==
    LET distinct == Distinct(facts[d.field].candidates)
    IN  {i \in DOMAIN distinct : distinct[i].evidence = d.with}
Source(d) == Distinct(facts[d.field].candidates)[Min(FromBlock(d))]

Accepted(d) ==
    /\ d.action = "SELECT_SOURCE" => FromBlock(d) # {}
    /\ d.action = "CORRECT_VALUE" => ~Questionable(d.field, d.with)

Marked(candidates, evidence) ==
    [i \in DOMAIN candidates |->
       [candidates[i] EXCEPT !.selected = (candidates[i].evidence = evidence)]]
Manual(d) == [value |-> NormalizeValue(d.field, d.with),
              evidence |-> <<"manual", d.field>>, selected |-> TRUE]

(* Mutated: what the reviewer enters is not marked as selected.             *)
ApplyUnmarked(fs, d) ==
    LET old == fs[d.field].candidates
    IN  [fs EXCEPT ![d.field] =
           IF d.action = "SELECT_SOURCE"
           THEN [candidates |-> Marked(old, d.with), value |-> Source(d).value]
           ELSE [candidates |-> Append(old, [Manual(d) EXCEPT !.selected = FALSE]),
                 value |-> Manual(d).value]]

Apply(fs, d) ==
    LET old == fs[d.field].candidates
    IN  [fs EXCEPT ![d.field] =
           IF d.action = "SELECT_SOURCE"
           THEN [candidates |-> Marked(old, d.with), value |-> Source(d).value]
           ELSE [candidates |-> Append(old, Manual(d)), value |-> Manual(d).value]]

(* Every material conflict must be named; a request for material need not.  *)
Complete(q) ==
    \A f \in Fields : Material(f, facts[f].candidates) => \E i \in DOMAIN q : q[i].field = f

(* All rulings are applied, and every field has to have a value by then;    *)
(* otherwise the request is refused and leaves no trace.                    *)
SubmitFactReview ==
    /\ status = "WAITING_FACT_REVIEW"
    /\ \E q \in Requests :
         /\ ~AsksForMaterial(q) /\ Complete(q)
         /\ \A i \in DOMAIN q : Accepted(q[i])
         /\ facts' = FoldLeft(Apply, facts, q)
         /\ \A f \in Fields : facts'[f].value # None
         /\ rulings' = q
         /\ results' = Evaluate(Context(facts', documents))
    /\ judged' = documents
    /\ status' = "WAITING_REPORT_REVIEW"
    /\ UNCHANGED <<input, documents>>

(* Mutated: the Run takes the action for its status.                        *)
RequestResubmissionAsAction ==
    /\ status = "WAITING_FACT_REVIEW"
    /\ \E q \in Requests :
         /\ q[Len(q)].action = "REQUEST_RESUBMISSION"
         /\ \A i \in DOMAIN q \ {Len(q)} :
              q[i].action # "REQUEST_RESUBMISSION" /\ Accepted(q[i])
         /\ rulings' = q
    /\ status' = "REQUEST_RESUBMISSION"
    /\ UNCHANGED <<input, documents, facts, results, judged>>

(* A request for material takes effect when its turn comes: the rulings     *)
(* before it are recorded, but not applied, and those after it are ignored. *)
RequestResubmission ==
    /\ status = "WAITING_FACT_REVIEW"
    /\ \E q \in Requests :
         /\ q[Len(q)].action = "REQUEST_RESUBMISSION"
         /\ \A i \in DOMAIN q \ {Len(q)} :
              q[i].action # "REQUEST_RESUBMISSION" /\ Accepted(q[i])
         /\ rulings' = q
    /\ status' = "RETURNED"
    /\ UNCHANGED <<input, documents, facts, results, judged>>

-----------------------------------------------------------------------------
(* submit_report_review.  The unsupported claims are those the draft was    *)
(* saved with.                                                              *)
ConfirmDraft ==
    /\ status = "WAITING_REPORT_REVIEW"
    /\ Summary(results) # "REVIEW_BLOCKED"
    /\ UnsupportedClaims(Context(facts, judged), results) = {}
    /\ status' = "COMPLETED"
    /\ UNCHANGED <<input, documents, facts, rulings, results, judged>>

ReturnForRerun ==
    /\ status = "WAITING_REPORT_REVIEW"
    /\ status' = "RETURNED"
    /\ UNCHANGED <<input, documents, facts, rulings, results, judged>>

Next ==
    \/ ProcessMaterials \/ EvaluateCore \/ AnotherRunParses
    \/ SubmitFactReview \/ RequestResubmission
    \/ ConfirmDraft \/ ReturnForRerun

Spec == Init /\ [][Next]_vars
-----------------------------------------------------------------------------
(* Properties.                                                             *)

FactTypeOK ==
    /\ status \in RunStatus
    /\ \A f \in Fields :
         /\ facts[f].value \in FieldValues[f] \cup {None}
         /\ \A i \in DOMAIN facts[f].candidates :
              /\ facts[f].candidates[i].value \in FieldValues[f] \cup {None}
              /\ facts[f].candidates[i].selected \in BOOLEAN
    /\ \A r \in Rules : results[r].status \in Statuses

Evaluated == results # NoResults

RuledOn(f) == {i \in DOMAIN rulings : rulings[i].field = f}

(* A value the rules read is what every candidate of the field says, or     *)
(* what the last ruling on the field asked for: none is chosen silently     *)
(* among contradictory or unreadable candidates.                            *)
ValuesAreAgreedOrRuled ==
    Evaluated =>
      \A f \in Fields : facts[f].value # None =>
        IF RuledOn(f) = {} THEN Values(facts[f].candidates) = {facts[f].value}
        ELSE LET last == rulings[Max(RuledOn(f))]
             IN  IF last.action = "CORRECT_VALUE"
                 THEN facts[f].value = NormalizeValue(f, last.with)
                 ELSE \E i \in DOMAIN facts[f].candidates :
                        /\ facts[f].candidates[i].value = facts[f].value
                        /\ facts[f].candidates[i].evidence = last.with

(* Whatever was selected, corrected, or both, a value the rules read is     *)
(* among the evidence they cite for it (README: risk conclusions are bound  *)
(* to evidence).                                                            *)
ValuesAreEvidenced ==
    Evaluated =>
      \A f \in Fields : facts[f].value # None =>
        \E i \in DOMAIN facts[f].candidates :
          /\ facts[f].candidates[i].value = facts[f].value
          /\ facts[f].candidates[i].evidence \in FactEvidence(Context(facts, judged), f)

(* Only a rejected material can hold up a report whose rules all came to a  *)
(* verdict: every other verdict cites evidence, and evidence of this Run,   *)
(* whatever other Runs have made of the status of the materials.            *)
ConclusionsAreSupported ==
    Evaluated /\ Summary(results) # "REVIEW_BLOCKED" =>
      UnsupportedClaims(Context(facts, judged), results) \subseteq
        {r \in {"R01"} : \E t \in DocumentTypes : judged[t] = "REJECTED"}

(* Through whatever gates it came, a confirmed report rests on materials    *)
(* that all had the status PARSED when its rules ran, on a value in every   *)
(* field the rules read, on an answer of every tool and on the policies.    *)
(* (The status may be due to another Run: it does not tell whether this     *)
(* Run's own reading got anything.)                                         *)
ConfirmedReportsAreComplete ==
    status = "COMPLETED" =>
      /\ \A t \in DocumentTypes : judged[t] = "PARSED"
      /\ input.profile.failures = {}
      /\ {"R03", "R06", "R07"} \subseteq input.hits
      /\ \A f \in {"F03", "F05", "F06", "F07", "F08", "F09", "F10", "F11", "F12", "F13"} :
           facts[f].value # None

-----------------------------------------------------------------------------
(* The rules as the texts under config/policies put them.  The texts leave  *)
(* open what becomes of a negative exposure (R08) or of negative current    *)
(* assets (R10), and of rejected materials (R01): there, and only there,    *)
(* the conditions are those of rules.py.                                    *)

Meets(r, v, p) ==
    CASE r = "R01" -> \A t \in DocumentTypes : judged[t] = "PARSED"
      [] r = "R03" -> v["F05"] = "allowed" /\ r \in input.hits
      [] r = "R04" -> "check_blacklist" \notin p.failures /\ ~p.blacklisted
      [] r = "R05" -> "get_customer_profile" \notin p.failures /\ p.risk = "NORMAL"
      [] r = "R06" -> v["F09"] = "allowed" /\ r \in input.hits
      [] r = "R07" -> v["F08"] \in 1..36 /\ r \in input.hits
      [] r = "R08" -> /\ "get_credit_exposure" \notin p.failures
                      /\ v["F07"] = p.currency
                      /\ v["F06"] \in 0..p.available
      [] r = "R09" -> /\ v["F10"] # None /\ v["F11"] # None
                      /\ v["F10"] > 0 /\ v["F11"] >= 0
                      /\ 10 * v["F11"] <= 7 * v["F10"]
      [] r = "R10" -> /\ v["F12"] # None /\ v["F13"] # None
                      /\ v["F13"] > 0 /\ v["F12"] >= v["F13"]

Breaks(r, v, p) ==
    CASE r = "R01" -> \E t \in DocumentTypes : judged[t] = "REJECTED"
      [] r = "R03" -> v["F05"] = "prohibited" /\ r \in input.hits
      [] r = "R04" -> "check_blacklist" \notin p.failures /\ p.blacklisted
      [] r = "R05" -> "get_customer_profile" \notin p.failures /\ p.risk = "HIGH_RISK"
      [] r = "R06" -> v["F09"] = "prohibited" /\ r \in input.hits
      [] r = "R07" -> v["F08"] # None /\ v["F08"] > 36 /\ r \in input.hits
      [] r = "R08" -> /\ "get_credit_exposure" \notin p.failures
                      /\ v["F07"] = p.currency
                      /\ p.available >= 0
                      /\ v["F06"] # None /\ v["F06"] > p.available
      [] r = "R09" -> /\ v["F10"] # None /\ v["F11"] # None
                      /\ v["F10"] > 0 /\ 10 * v["F11"] > 7 * v["F10"]
      [] r = "R10" -> /\ v["F12"] # None /\ v["F13"] # None
                      /\ v["F12"] >= 0 /\ v["F12"] < v["F13"]

(* Every rule but R02 passes and fails exactly when its text is met or      *)
(* broken, at the boundaries too; a tool that fails or a value that is      *)
(* missing never passes for either.                                         *)
VerdictsFollowTheTexts ==
    Evaluated =>
      LET v == [f \in Fields |-> facts[f].value]
          p == input.profile
      IN  \A r \in Rules \ {"R02"} :
            /\ results[r].status = "PASS" <=> Meets(r, v, p)
            /\ results[r].status = "FAIL" <=> Breaks(r, v, p)

(* config/rules/rule-pack-v1.yaml, R02: the company exists for no less than *)
(* a year, that is, a full calendar year lies before the review.            *)
CompanyAgeFollowsText ==
    Evaluated /\ facts["F03"].value # None =>
      LET established == facts["F03"].value
      IN  results["R02"].status = "PASS" <=>
            ~Before(input.reviewDate, Anniversary(established, established[1] + 1))

(* What a raw value says, if it says so without a separator, a fraction or  *)
(* a unit the program does not know: the plain ones.                        *)
Plain(f, raw) ==
    CASE f \in DecimalFields -> ~raw.separated /\ raw.unit # "wan"
      [] f = "F08" -> raw.unit # "years_and_months" /\ raw.halves % 2 = 0
      [] OTHER -> TRUE

Yuan(unit) ==
    CASE unit = "yi_yuan" -> 10000 * 10000
      [] unit = "wan_yuan" -> 10000
      [] unit \in {"none", "yuan"} -> 1

Meaning(f, raw) ==
    CASE f \in DecimalFields -> raw.number * Yuan(raw.unit)
      [] f = "F08" -> (raw.halves \div 2) * (IF raw.unit = "years" THEN 12 ELSE 1)
      [] f = "F07" -> IF raw \in {"RMB", "yuan"} THEN "CNY"
                      ELSE IF raw = "dollar" THEN "USD" ELSE raw
      [] OTHER -> raw

(* The text a reader of the file got, if it got one: of a PDF with less     *)
(* than 50 characters on a page the scan.                                   *)
Scanned(file) == file.format = "pdf" /\ file.chars < 50 * Max({file.pages, 1})
Readable(t) ==
    LET file == input.files[t]
    IN  file.fault = "none" /\ (Scanned(file) => input.mineru # "down")
TextRead(t) ==
    LET file == input.files[t]
    IN  IF Scanned(file) /\ input.mineru = "up" THEN file.scan ELSE file.text

(* No material that was read says otherwise: a value the rules read without *)
(* anyone having ruled on it is contradicted by nothing that stands plainly *)
(* in any file of the Run.                                                  *)
NothingReadContradicts ==
    Evaluated =>
      \A f \in Fields : facts[f].value # None /\ RuledOn(f) = {} =>
        \A t \in DocumentTypes : Readable(t) =>
          \A i \in DOMAIN TextRead(t)[f] :
            LET entry == TextRead(t)[f][i]
            IN  ~entry.cells /\ entry.raw # None /\ Plain(f, entry.raw) =>
                  facts[f].value = Meaning(f, entry.raw)

(* docs/architecture.md, table of parsers: what cannot be read of a DOCX is *)
(* left to a reviewer.                                                      *)
UnreadMaterialsAreReviewed ==
    Evaluated /\ rulings = <<>> =>
      \A t \in DocumentTypes : input.files[t].format = "docx" => Readable(t)
=============================================================================
