\* Three rounds, Product from the second, every second Sum.
SPECIFICATION FairSpec
CONSTANTS
    Rounds = 3
    Late = 2
    Amount = 2
    Index <- Numbers
    PipeCap = 1
INVARIANTS DecodersRun NothingRefused DecimationExact
PROPERTIES DecimationArrives ProductFromThen
CHECK_DEADLOCK FALSE
