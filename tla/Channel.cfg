\* The sender's 64 is the receiver's 65, of which it has two; the receiver's
\* own 64 is another sample.
SPECIFICATION FairSpec
CONSTANTS
    Point = Point
    Text = Text
    Keys = {Point, Text}
    NoKey = NoKey
    EncoderSignatures <- PointText
    DecoderSignatures <- TextPointPoint
    Threads = {t1}
    TypeDecls = {}
    Deps <- NoDeps
    SentSamples = {64}
    SentRefs = {64}
    StartResults = {"ok", "already", "error"}
    PeerVersions = {2014, 2006}
    MaxPackets = 5
    HandledSamples = {65, 66}
    HandledTypes = {5}
    HandledRefs = {65}
    Handlers = {h1}
    NoHandler = NoHandler
    ForeignTags = {0}
INVARIANTS TypeOK RightHandler RemoteIndexAgrees VersionFirst
PROPERTIES ImplementsTypedChannel EventuallyDelivered
CHECK_DEADLOCK FALSE
