\* Samples that depend on no typedef, registered through a renaming encoder.
SPECIFICATION Spec
CONSTANTS
    t1 = t1
    t2 = t2
    p = p
    s = s
    Threads = {t1, t2}
    NoThread = NoThread
    NRoots = 2
    Depends = {}
    Below <- Stack
    Decoders = {3}
    Suffixes = {2}
    Affix <- StackAffix
    Users <- StackUsers
    Samples <- StackSamples
    Ops <- StackOps
    MaxLives <- StackLives
INVARIANT BoundTypeDeclared
CHECK_DEADLOCK FALSE
