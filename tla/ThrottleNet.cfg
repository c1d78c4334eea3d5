\* Two senders on different channels, messages of one and three fragments.
SPECIFICATION FairSpec
CONSTANTS
    s1 = s1
    s2 = s2
    Senders = {s1, s2}
    Chn <- Channels
    RecvChn = 1
    FragSizes <- Sizes
    Lengths <- PacketLengths
    CharMod = 5
    BufferSize = 6
    MaxPackets <- PacketCounts
    NetCap = 1
INVARIANTS OffsetsKept Rebuilt Resync DecodesWhole
PROPERTY SendEnds
CHECK_DEADLOCK FALSE
