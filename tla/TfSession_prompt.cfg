\* A prompt device and a reliable USB link; the session starts against a
\* device left in any protocol state by an aborted session.
CONSTANTS
    None = None
    OneShotCmds <- MC_OneShotCmds
    DevFailCodes <- MC_DevFailCodes
    InitDevStates <- MC_InitDevStates
    MaxChunks = 2
    MaxWriteFail = 0
    MaxLate = 0
    MaxCorrupt = 0
SPECIFICATION Spec
INVARIANTS
    TypeOK
    SyncAtRest
    AckDiscipline
PROPERTIES
    CallsReturn
    ApiRefinement
