\* Two stacked encoder layers and a decoder layer on one registry.
SPECIFICATION FairSpec
CONSTANTS
    t1 = t1
    t2 = t2
    p = p
    s = s
    Threads = {t1, t2}
    NoThread = NoThread
    NRoots = 2
    Depends = {1, 2}
    Below <- Stack
    Decoders = {3}
    Suffixes = {2}
    Affix <- StackAffix
    Users <- StackUsers
    Samples <- StackSamples
    Ops <- StackOps
    MaxLives <- StackLives
INVARIANTS UseCountsExact RegistryExact RoutesAgree BoundTypeDeclared
PROPERTY CallsReturn
CHECK_DEADLOCK FALSE
