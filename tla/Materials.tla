----------------------------- MODULE Materials ------------------------------
(***************************************************************************)
(* How the materials of a Run are read: parsing.py, the part of facts.py   *)
(* that finds labelled values and normalises them, and the status that     *)
(* fact_service.py gives a document for it.                                *)
(*                                                                         *)
(* A file is what its parser can make of it: its format, what is wrong     *)
(* with it, the pages and characters of a PDF, and its text.  The text     *)
(* gives for each field what is written about it, in the order the code    *)
(* finds it (longer labels first): the block it stands in, whether it is   *)
(* a label and a value on a line or two cells of a row, and the raw value. *)
(* What a scan of the file would yield instead is a text of its own.       *)
(*                                                                         *)
(* A raw value is None if nothing legible follows the label.  An amount is *)
(* a number with a unit, written with thousands separators or not; wan is  *)
(* ten thousand, yi a hundred million.  A term is a number of half units,  *)
(* a date a year, month and day.  Blanks and quotes around a value are     *)
(* left out.                                                               *)
(***************************************************************************)
EXTENDS ReviewRules, SequencesExt

Fields == {"F01", "F02", "F03", "F04", "F05", "F06", "F07", "F08", "F09", "F10",
           "F11", "F12", "F13", "F14", "F15"}
DecimalFields == {"F06", "F10", "F11", "F12", "F13", "F14", "F15"}

MinCharsPerPage == 50

Nothing == [f \in Fields |-> <<>>]

-----------------------------------------------------------------------------
(* parse_document.  A document is read, or left to a reviewer, with what    *)
(* text was found all the same.                                             *)

ReadAs(text) == [text |-> text, status |-> "PARSED"]
ForReview(text) == [text |-> text, status |-> "NEEDS_REVIEW"]

(* Mutated: the limit itself counts as too little.                          *)
TooSparseAtLimit(file) ==
    file.chars <= MinCharsPerPage * (IF file.pages = 0 THEN 1 ELSE file.pages)

(* A page count of zero counts as one.  The provider of scans is not        *)
(* configured ("off"), fails ("down"), or answers ("up").                   *)
TooSparse(file) ==
    file.chars < MinCharsPerPage * (IF file.pages = 0 THEN 1 ELSE file.pages)

ParsePdf(file, mineru) ==
    IF file.fault = "encrypted" THEN [text |-> Nothing, status |-> "REJECTED"]
    ELSE IF ~TooSparse(file) THEN ReadAs(file.text)
    ELSE CASE mineru = "off" -> ForReview(file.text)
           [] mineru = "down" -> ForReview(Nothing)
           [] mineru = "up" -> ReadAs(file.scan)

(* A file that is gone is left to a reviewer (fact_service.py).  A reader   *)
(* that raises leaves nothing, but only a PDF is then left to a reviewer;   *)
(* a workbook with formulas that have no cached value is.                   *)
ParseDocument(file, mineru) ==
    CASE file.fault = "gone" -> ForReview(Nothing)
      [] file.fault = "broken" ->
           IF file.format = "pdf" THEN ForReview(Nothing) ELSE ReadAs(Nothing)
      [] file.fault = "uncached" -> ForReview(file.text)
      [] OTHER -> IF file.format = "pdf" THEN ParsePdf(file, mineru) ELSE ReadAs(file.text)

-----------------------------------------------------------------------------
(* normalize_value.                                                        *)

IsDate(d) ==
    /\ d[2] \in 1..12
    /\ d[3] \in 1..(CASE d[2] = 2 -> IF IsLeap(d[1]) THEN 29 ELSE 28
                      [] d[2] \in {4, 6, 9, 11} -> 30
                      [] OTHER -> 31)

(* A number with the unit spelled out; ten thousand without the word for    *)
(* the currency is not a unit.                                              *)
Multiplier(unit) ==
    CASE unit = "yi_yuan" -> 100000000
      [] unit = "wan_yuan" -> 10000
      [] OTHER -> 1

(* Years count as twelve months unless months are mentioned too, in which   *)
(* case the first number is taken as it is.                                 *)
Months(term) ==
    LET halves == IF term.unit = "years" THEN 12 * term.halves ELSE term.halves
    IN  IF halves % 2 = 0 THEN halves \div 2 ELSE None

KnownCurrencies == {"CNY", "RMB", "yuan", "USD", "dollar"}
Currency(name) ==
    CASE name \in {"CNY", "RMB", "yuan"} -> "CNY"
      [] name \in {"USD", "dollar"} -> "USD"
      [] OTHER -> name

NormalizeValue(f, raw) ==
    CASE raw = None -> None
      [] f \in DecimalFields -> raw.number * Multiplier(raw.unit)
      [] f = "F03" -> IF IsDate(raw) THEN raw ELSE None
      [] f = "F07" -> Currency(raw)
      [] f = "F08" -> Months(raw)
      [] OTHER -> raw

(* The reasons against a value that are not simply its absence.             *)
Questionable(f, raw) ==
    NormalizeValue(f, raw) = None \/ (f = "F07" /\ raw \notin KnownCurrencies)

-----------------------------------------------------------------------------
(* extract_candidates.                                                     *)

LeadingGroup[n \in Nat] == IF n < 1000 THEN n ELSE LeadingGroup[n \div 1000]

(* A value ends before the first comma: of an amount with separators, the   *)
(* leading group is left.                                                   *)
Cut(f, raw) ==
    IF f \in DecimalFields /\ raw # None
    THEN LET sign == IF raw.number < 0 THEN -1 ELSE 1
         IN  IF raw.separated /\ sign * raw.number >= 1000
             THEN [number |-> sign * LeadingGroup[sign * raw.number],
                   unit |-> "none", separated |-> FALSE]
             ELSE raw
    ELSE raw

(* The first two cells of a workbook's row are put as label and value; the  *)
(* cells of a table in a document are not.                                  *)
Found(file, entry) == entry.cells => file.format = "xlsx"

(* One candidate for every value and block.                                 *)
Unique(candidates) ==
    FoldLeft(LAMBDA kept, x : IF \E i \in DOMAIN kept : kept[i] = x THEN kept
                                                                   ELSE Append(kept, x),
             <<>>, candidates)

Candidate(f, t, entry) ==
    [value |-> NormalizeValue(f, Cut(f, entry.raw)), evidence |-> <<t, entry.block>>]

CandidatesIn(f, t, file, text) ==
    FoldLeft(LAMBDA all, entry : IF Found(file, entry) THEN Append(all, Candidate(f, t, entry))
                                                       ELSE all,
             <<>>, text[f])

(* The documents are read in the order the request for the Run named them.  *)
ExtractCandidates(files, texts, order) ==
    [f \in Fields |->
       Unique(FoldLeft(LAMBDA all, t : all \o CandidatesIn(f, t, files[t], texts[t]),
                       <<>>, order))]
=============================================================================
