---------------------------- MODULE MCFactReview ----------------------------
(* Instances of FactReview for TLC: a case without a flaw, and some     *)
(* that differ from it in one thing or two.                                 *)
EXTENDS FactReview

Entry(n, raw) == [block |-> n, cells |-> FALSE, raw |-> raw]
Row(n, raw) == [block |-> n, cells |-> TRUE, raw |-> raw]
One(raw) == <<Entry(1, raw)>>
Two(raw, other) == <<Entry(1, raw), Entry(2, other)>>

Amount(n) == [number |-> n, unit |-> "none", separated |-> FALSE]
AmountIn(n, unit) == [number |-> n, unit |-> unit, separated |-> FALSE]
Separated(n) == [number |-> n, unit |-> "yuan", separated |-> TRUE]
Term(halves, unit) == [halves |-> halves, unit |-> unit]

CleanRaw ==
    [F01 |-> "Acme", F02 |-> "code", F03 |-> <<2020, 6, 15>>, F04 |-> "Li",
     F05 |-> "allowed", F06 |-> AmountIn(150, "wan_yuan"), F07 |-> "yuan",
     F08 |-> Term(6, "years"), F09 |-> "allowed",
     F10 |-> Amount(2000000), F11 |-> Amount(1400000), F12 |-> Amount(1000000),
     F13 |-> Amount(1000000), F14 |-> Amount(900000), F15 |-> Amount(100000)]

(* What else the materials may say of a field: nothing, nothing legible, a  *)
(* value beside an illegible one, other values, contradictions.             *)
Flaws(raw) == {<<>>, One(None), Two(raw, None)}

(* Numbers: one beyond the boundary, immaterial and material differences,   *)
(* two values in one block, three values of which the last is far off, and  *)
(* a number written with separators.                                        *)
Amounts(n) ==
    {One(Amount(m)) : m \in {n - 1, n + 1, 0, -1}}
      \cup {Two(Amount(n), Amount(m)) : m \in {n, n + 10000, 2 * n}}
      \cup {<<Entry(1, Amount(n)), Entry(1, Amount(2 * n))>>,
            <<Entry(1, Amount(n)), Entry(2, Amount(n + 1)), Entry(3, Amount(2 * n))>>,
            One(Separated(n))}

OtherTexts ==
    [f \in Fields |-> Flaws(CleanRaw[f]) \cup
       CASE f = "F06" -> Amounts(1500000)
                           \cup {One(AmountIn(1, "yi_yuan")), One(AmountIn(150, "wan"))}
         [] f \in {"F10", "F11", "F12", "F13"} -> Amounts(CleanRaw[f].number)
         [] f = "F03" -> {One(<<2026, 8, 1>>), One(<<2024, 2, 29>>), One(<<2020, 12, 1>>),
                          One(<<2025, 2, 29>>), One(<<2025, 3, 1>>),
                          Two(<<2020, 6, 15>>, <<2024, 6, 15>>)}
         [] f \in {"F05", "F09"} -> {One("restricted"), One("prohibited"), One("other"),
                                     Two("allowed", "prohibited")}
         [] f = "F07" -> {One("dollar"), One("EUR"), Two("yuan", "RMB"), Two("yuan", "USD")}
         [] f = "F08" -> {One(Term(2 * n, "months")) : n \in {37, 1, 0, -36}}
                           \cup {Two(Term(6, "years"), Term(72, "months")),
                                 Two(Term(72, "months"), Term(74, "months")),
                                 One(Term(1, "months")), One(Term(3, "years")),
                                 One(Term(8, "years_and_months"))}
         [] f \in {"F14", "F15"} -> {Two(CleanRaw[f], Amount(2 * CleanRaw[f].number))}
         [] OTHER -> {Two(CleanRaw[f], "other")}]

(* What a reviewer may enter for a value, some of it refused.               *)
Entered ==
    [f \in Fields |-> CASE f \in DecimalFields -> {AmountIn(120, "wan_yuan")}
                        [] f = "F03" -> {<<2020, 6, 16>>, <<2020, 6, 31>>}
                        [] f = "F05" -> {"restricted"}
                        [] f = "F07" -> {"USD", "EUR"}
                        [] f = "F08" -> {Term(4, "years"), Term(1, "months")}
                        [] OTHER -> {"corrected"}]

-----------------------------------------------------------------------------
File(format, text) ==
    [format |-> format, fault |-> "none", chars |-> 100, pages |-> 2, text |-> text,
     scan |-> text]

(* The application names every field, the other materials none.             *)
Clean == [files |-> [t \in DocumentTypes |->
                       CASE t = "CREDIT_APPLICATION" ->
                              File("docx", [f \in Fields |-> One(CleanRaw[f])])
                         [] t = "FINANCIAL_STATEMENTS" -> File("xlsx", Nothing)
                         [] t = "BUSINESS_LICENSE" -> File("docx", Nothing)
                         [] t = "DUE_DILIGENCE" -> File("pdf", Nothing)],
          order |-> <<"BUSINESS_LICENSE", "CREDIT_APPLICATION", "DUE_DILIGENCE",
                      "FINANCIAL_STATEMENTS">>,
          mineru |-> "off",
          profile |-> [risk |-> "NORMAL", available |-> 1500000, currency |-> "CNY",
                       blacklisted |-> FALSE, failures |-> {}],
          hits |-> Rules,
          reviewDate |-> <<2025, 2, 28>>]

(* The program as built asks a registry without profiles, which falls back  *)
(* on the one in Clean; tests give it others.                               *)
OtherProfiles ==
    LET p == Clean.profile
    IN  {[p EXCEPT !.failures = {t}] : t \in ToolNames}
          \cup {[p EXCEPT !.risk = x] : x \in {"WATCH", "HIGH_RISK", "UNKNOWN"}}
          \cup {[p EXCEPT !.available = n] : n \in {1499999, -1}}
          \cup {[p EXCEPT !.currency = "USD"], [p EXCEPT !.blacklisted = TRUE]}

With(x, f, y) == [x EXCEPT !.files["CREDIT_APPLICATION"].text[f] = y]
Dated(x, y) == [x EXCEPT !.reviewDate = y]
Asking(x, p) == [x EXCEPT !.profile = p]
Failing(x, t, fault) == [x EXCEPT !.files[t].fault = fault]

(* A second material that speaks of a field: a row of a workbook and of a   *)
(* document, and a PDF at the limit of what counts as text and below, with  *)
(* a scan of its own.                                                       *)
SecondSource(x) ==
    {[x EXCEPT !.files["FINANCIAL_STATEMENTS"].text["F10"] = <<Row(1, Amount(4000000))>>],
     [x EXCEPT !.files["BUSINESS_LICENSE"].text["F01"] = <<Row(1, "other")>>]}
      \cup {[x EXCEPT !.mineru = m, !.files["DUE_DILIGENCE"].chars = n,
                      !.files["DUE_DILIGENCE"].text["F05"] = One("prohibited"),
                      !.files["DUE_DILIGENCE"].scan["F05"] = y] :
              m \in {"off", "down", "up"}, n \in {99, 100},
              y \in {One("allowed"), One("restricted")}}

Faulty(x) ==
    {Failing(x, t, "gone") : t \in {"CREDIT_APPLICATION", "DUE_DILIGENCE"}}
      \cup {Failing(x, t, "broken") : t \in DocumentTypes}
      \cup {Failing(x, "DUE_DILIGENCE", "encrypted"),
            Failing(x, "FINANCIAL_STATEMENTS", "uncached")}

Varied(x) ==
    {x} \cup UNION {{With(x, f, y) : y \in OtherTexts[f]} : f \in Fields}
        \cup Faulty(x) \cup SecondSource(x)
        \cup {Asking(x, p) : p \in OtherProfiles}
        \cup {[x EXCEPT !.hits = @ \ {r}] : r \in {"R03", "R06", "R07", "R10"}}
        \cup {Dated(x, y) : y \in {<<2025, 2, 27>>, <<2024, 2, 29>>, <<2026, 3, 1>>}}

(* The flaws every other one is combined with: something to rule on, a bar  *)
(* to a verdict, and a failed rule or a warning.                            *)
FirstFlaws ==
    {Clean,
     With(Clean, "F10", Two(Amount(2000000), Amount(4000000))),
     With(Clean, "F12", Two(Amount(1000000), Amount(1010000))),
     With(Clean, "F05", Two("allowed", "prohibited")), With(Clean, "F01", <<>>),
     With(Clean, "F11", Two(Amount(1400000), None)), With(Clean, "F13", One(Amount(0))),
     With(Clean, "F07", Two("yuan", "USD")), With(Clean, "F05", One("restricted")),
     Dated(Clean, <<2026, 3, 1>>), Dated(Clean, <<2024, 2, 29>>),
     Failing(Clean, "DUE_DILIGENCE", "encrypted"),
     [Clean EXCEPT !.profile.blacklisted = TRUE]}

OneFlaw == Varied(Clean)
TwoFlaws == UNION {Varied(x) : x \in FirstFlaws}

-----------------------------------------------------------------------------
(* Everything these inputs say, and the values it and the entries come to.  *)
SomeRaw ==
    [f \in Fields |->
       UNION {{y[i].raw : i \in DOMAIN y} : y \in OtherTexts[f] \cup {One(CleanRaw[f])}}
         \cup (CASE f = "F10" -> {Amount(4000000)}
                 [] f \in {"F01", "F05"} -> {"other", "restricted", "prohibited"}
                 [] OTHER -> {})]

SomeBlocks == 1..3

SomeValues ==
    [f \in Fields |-> ({NormalizeValue(f, Cut(f, raw)) : raw \in SomeRaw[f]}
                         \cup {NormalizeValue(f, raw) : raw \in Entered[f]}) \ {None}]
=============================================================================
