----------------------------- MODULE ReviewRules -----------------------------
(***************************************************************************)
(* The deterministic rules of rules.py, R01 to R10, and what               *)
(* report_service.py makes of their results: the outcome of a report and   *)
(* the claims it cannot support.                                           *)
(*                                                                         *)
(* A rule reads a context, as RuleEvaluationContext: the facts, the        *)
(* documents, the date of the review, the answers of the tools, and the    *)
(* rules for which the policies yielded a hit.  A verdict is a status and  *)
(* the evidence it cites; messages and details are left out.  Industries   *)
(* and purposes are reduced to the class the rule looks them up in.        *)
(***************************************************************************)
EXTENDS Integers, Sequences, FiniteSets

CONSTANT None  \* a value that is absent or could not be normalised

DocumentTypes == {"BUSINESS_LICENSE", "CREDIT_APPLICATION", "DUE_DILIGENCE",
                  "FINANCIAL_STATEMENTS"}
ToolNames == {"get_customer_profile", "get_credit_exposure", "check_blacklist"}
Rules == {"R01", "R02", "R03", "R04", "R05", "R06", "R07", "R08", "R09", "R10"}
Statuses == {"PASS", "WARN", "FAIL", "NEEDS_REVIEW"}

-----------------------------------------------------------------------------
(* Facts: a field holds its candidates and the value selected among them.   *)

Value(c, f) == c.facts[f].value

(* The evidence of the candidates marked as selected, or of the first one.  *)
FactEvidence(c, f) ==
    LET all == c.facts[f].candidates
        marked == {i \in DOMAIN all : all[i].selected}
        cited == IF marked = {} THEN DOMAIN all \cap {1} ELSE marked
    IN  {all[i].evidence : i \in cited}

(* ReadOnlyToolRegistry answers from the profile of the customer, or with    *)
(* an error, which counts as no answer.                                     *)
Call(profile, name) ==
    IF name \in profile.failures THEN None
    ELSE CASE name = "get_customer_profile" -> [risk |-> profile.risk]
           [] name = "get_credit_exposure" -> [available |-> profile.available,
                                               currency |-> profile.currency]
           [] name = "check_blacklist" -> [matched |-> profile.blacklisted]

Tool(c, name) == c.tools[name]
ToolEvidence(name) == {<<"tool", name>>}

(* The selected policy hits, as one reference.                              *)
Retrieved(c, rule) == IF rule \in c.hits THEN {<<"policy", rule>>} ELSE {}

-----------------------------------------------------------------------------
Verdict(status, refs) == [status |-> status, refs |-> refs]

(* The shape most rules share: no verdict on data that cannot be judged.    *)
Judge(usable, satisfied, refs) ==
    Verdict(IF ~usable THEN "NEEDS_REVIEW"
            ELSE IF satisfied THEN "PASS" ELSE "FAIL", refs)

(* R03, R06 and R07 conclude nothing without the text of the policy.        *)
OnPolicy(c, rule, verdict) ==
    IF rule \in c.hits THEN verdict ELSE Verdict("NEEDS_REVIEW", {})

RequiredMaterials(c) ==
    LET supplied == DOMAIN c.documents
        rejected == {t \in supplied : c.documents[t] = "REJECTED"}
        missing == {t \in DocumentTypes :
                      t \in supplied => c.documents[t] # "PARSED"}
    IN  IF rejected # {} THEN Verdict("FAIL", {<<"type", t>> : t \in rejected})
        ELSE IF missing = {} THEN Verdict("PASS", {<<"document", t>> : t \in supplied})
        ELSE Verdict(IF supplied = DocumentTypes THEN "NEEDS_REVIEW" ELSE "FAIL",
                     {<<"type", t>> : t \in missing})

(* Dates are <<year, month, day>>.                                          *)
Before(d, e) ==
    \/ d[1] < e[1]
    \/ d[1] = e[1] /\ d[2] < e[2]
    \/ d[1] = e[1] /\ d[2] = e[2] /\ d[3] < e[3]
IsLeap(year) == year % 4 = 0 /\ (year % 100 # 0 \/ year % 400 = 0)

Anniversary(d, year) ==
    IF d[2] = 2 /\ d[3] = 29 /\ ~IsLeap(year) THEN <<year, 2, 28>>
                                              ELSE <<year, d[2], d[3]>>

CompanyAge(c) ==
    LET established == Value(c, "F03")
    IN  Judge(established # None /\ ~Before(c.reviewDate, established),
              ~Before(c.reviewDate, Anniversary(established, c.reviewDate[1])),
              FactEvidence(c, "F03"))

IndustryAdmission(c) ==
    LET industry == Value(c, "F05")
        refs == FactEvidence(c, "F05") \cup Retrieved(c, "R03")
    IN  OnPolicy(c, "R03",
          Verdict(CASE industry = "allowed" -> "PASS"
                    [] industry = "restricted" -> "WARN"
                    [] industry = "prohibited" -> "FAIL"
                    [] OTHER -> "NEEDS_REVIEW", refs))

BlacklistClear(c) ==
    LET answer == Tool(c, "check_blacklist")
    IN  Judge(answer # None, ~answer.matched, ToolEvidence("check_blacklist"))

CustomerRisk(c) ==
    LET answer == Tool(c, "get_customer_profile")
        risk == IF answer = None THEN "UNKNOWN" ELSE answer.risk
    IN  Verdict(CASE risk = "NORMAL" -> "PASS"
                  [] risk = "WATCH" -> "WARN"
                  [] risk = "HIGH_RISK" -> "FAIL"
                  [] OTHER -> "NEEDS_REVIEW", ToolEvidence("get_customer_profile"))

LoanPurpose(c) ==
    LET purpose == Value(c, "F09")
    IN  OnPolicy(c, "R06",
          Judge(purpose \in {"allowed", "prohibited"}, purpose = "allowed",
                FactEvidence(c, "F09") \cup Retrieved(c, "R06")))

(* Mutated: the boundary is excluded.                                       *)
TenorBelowLimit(c) ==
    LET months == Value(c, "F08")
    IN  OnPolicy(c, "R07",
          Judge(months # None /\ months > 0, months < 36,
                FactEvidence(c, "F08") \cup Retrieved(c, "R07")))

TenorLimit(c) ==
    LET months == Value(c, "F08")
    IN  OnPolicy(c, "R07",
          Judge(months # None /\ months > 0, months <= 36,
                FactEvidence(c, "F08") \cup Retrieved(c, "R07")))

AvailableExposure(c) ==
    LET requested == Value(c, "F06")
        exposure == Tool(c, "get_credit_exposure")
    IN  Judge(/\ requested # None /\ requested >= 0
              /\ exposure # None /\ exposure.available >= 0
              /\ Value(c, "F07") = exposure.currency,
              requested <= exposure.available,
              FactEvidence(c, "F06") \cup ToolEvidence("get_credit_exposure"))

(* A quotient is compared by cross-multiplication.                          *)
LeverageRatio(c) ==
    LET assets == Value(c, "F10")
        liabilities == Value(c, "F11")
    IN  Judge(assets # None /\ liabilities # None /\ assets > 0 /\ liabilities >= 0,
              liabilities * 100 <= assets * 70,
              FactEvidence(c, "F10") \cup FactEvidence(c, "F11") \cup Retrieved(c, "R09"))

CurrentRatio(c) ==
    LET assets == Value(c, "F12")
        liabilities == Value(c, "F13")
    IN  Judge(assets # None /\ liabilities # None /\ assets >= 0 /\ liabilities > 0,
              assets >= liabilities,
              FactEvidence(c, "F12") \cup FactEvidence(c, "F13") \cup Retrieved(c, "R10"))

Evaluate(c) ==
    [R01 |-> RequiredMaterials(c), R02 |-> CompanyAge(c),
     R03 |-> IndustryAdmission(c), R04 |-> BlacklistClear(c),
     R05 |-> CustomerRisk(c),      R06 |-> LoanPurpose(c),
     R07 |-> TenorLimit(c),        R08 |-> AvailableExposure(c),
     R09 |-> LeverageRatio(c),     R10 |-> CurrentRatio(c)]

-----------------------------------------------------------------------------
(* Mutated: a failed rule outranks one that came to no verdict.             *)
SummaryFailureFirst(results) ==
    LET statuses == {results[r].status : r \in Rules}
    IN  IF "FAIL" \in statuses THEN "NON_COMPLIANT"
        ELSE IF "NEEDS_REVIEW" \in statuses THEN "REVIEW_BLOCKED"
        ELSE IF "WARN" \in statuses THEN "WARNING" ELSE "PASS"

Summary(results) ==
    LET statuses == {results[r].status : r \in Rules}
    IN  IF "NEEDS_REVIEW" \in statuses THEN "REVIEW_BLOCKED"
        ELSE IF "FAIL" \in statuses THEN "NON_COMPLIANT"
        ELSE IF "WARN" \in statuses THEN "WARNING" ELSE "PASS"

(* Evidence is a pair of what it is and which one: a block of a material, a  *)
(* manual entry, a tool, a policy - or, in R01 only, a kind of material.     *)
CandidateEvidence(candidates) == {candidates[i].evidence : i \in DOMAIN candidates}

(* Mutated: the answers of the tools are left out.                          *)
ValidEvidenceOfFacts(c) ==
    (UNION {CandidateEvidence(c.facts[f].candidates) : f \in DOMAIN c.facts})
      \cup (UNION {Retrieved(c, r) : r \in Rules})

(* _valid_evidence_ids: a tool counts even if its answer is an error.       *)
ValidEvidence(c) ==
    (UNION {CandidateEvidence(c.facts[f].candidates) : f \in DOMAIN c.facts})
      \cup (UNION {Retrieved(c, r) : r \in Rules})
      \cup (UNION {ToolEvidence(t) : t \in ToolNames})

(* The risks (every rule not passed) whose claim nothing supports.          *)
UnsupportedClaims(c, results) ==
    {r \in Rules : /\ results[r].status # "PASS"
                   /\ results[r].refs = {} \/ ~(results[r].refs \subseteq ValidEvidence(c))}
=============================================================================
