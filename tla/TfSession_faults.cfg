\* A USB link that fails writes, damages replies and lets a read time out
\* before a slow device answers, each a bounded number of times.
CONSTANTS
    None = None
    OneShotCmds <- MC_OneShotCmds
    DevFailCodes <- MC_DevFailCodes
    InitDevStates <- MC_InitDevStates
    MaxChunks = 2
    MaxWriteFail = 5
    MaxLate = 1
    MaxCorrupt = 1
SPECIFICATION Spec
INVARIANTS
    AckDiscipline
PROPERTIES
    CallsReturn
\* tf_init may give up (-1); the session is then unusable and the program
\* closes it, so a stopped behaviour is legitimate here.
CHECK_DEADLOCK FALSE
CONSTRAINT
    QueueBound
