\* A flawless case, and all that differ from it in one thing.
CONSTANTS
    None = None
    Inputs <- OneFlaw
    Blocks <- SomeBlocks
    RawValues <- SomeRaw
    FieldValues <- SomeValues
    Corrections <- Entered
    MaxRulings = 1
SPECIFICATION Spec
INVARIANTS UnreadMaterialsAreReviewed
\* A Run that is over, or that no reviewer can answer, stops.
CHECK_DEADLOCK FALSE
