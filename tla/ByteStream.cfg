\* Packed numbers of one to three bytes.
SPECIFICATION FairSpec
CONSTANTS
    Group = 4
    Word = 32
    MaxGroups = 3
    BufferSize = 6
    ReadSize = 2
    Writers = {"fd", "dyn"}
    WriterLayer = {"start"}
    LABCOMM_USER = 8
    Calls <- SomeCalls
    Layout <- Layouts
    MaxCalls = 3
INVARIANTS TypeOK StreamInOrder NoSpuriousError InStep
PROPERTIES EventuallyDecoded
CHECK_DEADLOCK FALSE
