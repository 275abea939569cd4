SPECIFICATION MCSpec
CONSTANTS
    Letters = {"a"}
    Digits = {"1"}
    Singles <- MCSingles
    Halves = {"&"}
    Doubles <- MCDoubles
    Keywords <- MCKeywords
    Texts <- AnyText
INVARIANTS
    Inv
    MaximalMunch
    PiecesRecovered
PROPERTY LexEnds
CHECK_DEADLOCK FALSE
