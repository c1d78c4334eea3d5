SPECIFICATION EncoderSpec
CONSTANTS
    Point = Point
    Line = Line
    Text = Text
    Keys = {Point, Line, Text}
    NoKey = NoKey
    EncoderSignatures <- PlainSamples
    Threads = {t1, t2}
    TypeDecls = {}
    Deps <- PlainDeps
    SentSamples = {64}
    SentRefs = {}
    StartResults = {"ok", "already"}
    PeerVersions = {2014}
    MaxPackets = 4
SYMMETRY Symmetry
INVARIANTS SignatureBeforeSamples
CHECK_DEADLOCK FALSE
