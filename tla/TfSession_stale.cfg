\* A reply that arrives after tf_get_response has timed out.
CONSTANTS
    None = None
    OneShotCmds <- MC_OneShotCmds
    DevFailCodes <- MC_DevFailCodes
    InitDevStates <- MC_InitDevStates
    MaxChunks = 2
    MaxWriteFail = 0
    MaxLate = 1
    MaxCorrupt = 0
SPECIFICATION Spec
INVARIANTS
    SyncAtRest
