SPECIFICATION Spec
CONSTANTS
    Point = Point
    Text = Text
    Keys = {Point, Text}
    NoKey = NoKey
    EncoderSignatures <- PointText
    DecoderSignatures <- TextPoint
    Threads = {t1}
    TypeDecls = {}
    Deps <- NoDeps
    SentSamples = {64}
    SentRefs = {64, 65}
    StartResults = {"ok"}
    PeerVersions = {2014}
    MaxPackets = 5
    HandledSamples = {65}
    HandledTypes = {}
    HandledRefs = {64, 65}
    Handlers = {h1}
    NoHandler = NoHandler
    ForeignTags = {}
PROPERTY ReferenceStaysKnown
CHECK_DEADLOCK FALSE
