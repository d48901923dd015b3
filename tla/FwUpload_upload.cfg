\* Two link faults at most: a failed write, a damaged packet or a read
\* timing out; reads are otherwise whole.
CONSTANTS
    None = None
    Image <- MC_Image
    BlockLens <- MC_BlockLens
    MaxData = 2
    Seq0 = 255
    MaxFaults = 2
    Truncations = {}
    Stale = {0}
SPECIFICATION Spec
INVARIANTS
    TypeOK
    ImageIntact
PROPERTIES
    UploadEnds
    TransferSizes
\* The upload program ends after tf_fw_reboot or a failed call.
CHECK_DEADLOCK FALSE
