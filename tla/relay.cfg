CONSTANTS
    IntLen = 1
    LenLen = 1
    OffLen = 1
    Width = 6
    BufferSize = 2
    HeaderLen = 2
    FileSizes = {0, 1, 3}
    NameLens = {1, 2}
    ChatLen = 1
SPECIFICATION FairSpec
INVARIANTS RelayTypeOK PacketsFit   ServerKeepsFrame
PROPERTIES FileArrives RelayThreadEnds
