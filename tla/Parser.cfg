SPECIFICATION MCSpec
CONSTANT Sources <- ShortSources
INVARIANTS
    TreeIsSource
    NothingMissing
    TreeRecovered
CHECK_DEADLOCK FALSE
