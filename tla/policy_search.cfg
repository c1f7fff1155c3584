\* Every text of at most four lines of ten kinds, and every search of one with
\* four chunks; the ranks that count are scaled down with RrfK.
CONSTANTS
    Texts <- PolicyTexts
    SearchedTexts <- Searched
    MaxChars = 600
    Overlap = 80
    RrfK = 2
    Depth = 3
    Kept = 2
    TopK = 1
SPECIFICATION Spec
INVARIANTS PolicyTypeOK NoPolicyTextIsLost ChunksAreBounded AgreementWins
    FusionFollowsRankings
\* A text is read and searched once.
CHECK_DEADLOCK FALSE
