\* Cases that differ from a flawless one in one thing or two, and every request
\* of at most two rulings.
CONSTANTS
    None = None
    Inputs <- TwoFlaws
    Blocks <- SomeBlocks
    RawValues <- SomeRaw
    FieldValues <- SomeValues
    Corrections <- Entered
    MaxRulings = 2
SPECIFICATION Spec
INVARIANTS FactTypeOK VerdictsFollowTheTexts ValuesAreAgreedOrRuled
    ValuesAreEvidenced NothingReadContradicts ConclusionsAreSupported ConfirmedReportsAreComplete
\* A Run that is over, or that no reviewer can answer, stops.
CHECK_DEADLOCK FALSE
