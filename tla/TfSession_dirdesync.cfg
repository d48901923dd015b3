\* A damaged DIRENT batch, the listing then abandoned as src/tf_io.h allows.
CONSTANTS
    None = None
    OneShotCmds <- MC_OneShotCmds
    DevFailCodes <- MC_DevFailCodes
    InitDevStates <- MC_InitDevStates
    MaxChunks = 2
    MaxWriteFail = 0
    MaxLate = 0
    MaxCorrupt = 1
SPECIFICATION Spec
INVARIANTS
    SyncAtRest
