SPECIFICATION EncoderSpec
CONSTANTS
    Point = Point
    Line = Line
    Text = Text
    Keys = {Point, Line, Text}
    NoKey = NoKey
    EncoderSignatures <- SharedTypes
    Threads = {t1, t2}
    TypeDecls = {64, 65}
    Deps <- SharedDeps
    SentSamples = {66, 67}
    SentRefs = {66}
    StartResults = {"ok"}
    PeerVersions = {2014}
    MaxPackets = 9
SYMMETRY Symmetry
INVARIANTS EncoderTypeOK DeclaredOnce SignatureBeforeSamples TypesBeforeUse NothingAfterTruncation
CHECK_DEADLOCK FALSE
