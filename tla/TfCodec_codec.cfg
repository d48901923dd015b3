SPECIFICATION Spec
CONSTANTS
    None = None
    Paths <- MC_Paths
    Offsets <- MC_Offsets
    DataBlocks <- MC_DataBlocks
    Garbage <- MC_Garbage
    MaxWrite = 2
    MaxRead = 4
    MaxPacket = 2
    NoDev = NoDev
    WriteLens = {1, 2, 3, 4, 5}
    ReadSizes = {7}
    Pendings <- MC_Pendings
    Busses <- MC_Busses
    DevIndexes = {0, 1, 2}
    Replies <- MC_Replies
    LengthFloor <- MC_WellFormedFloor
INVARIANTS WireMatchesSpec ParseInvertsFinalize ReplyDecodesAsSent
PROPERTIES SendDelivers ReadOneTransfer BuildsOpenSameDevice UnpackInBounds
