SPECIFICATION Spec
CONSTANTS
    None = None
    p1 = p1
    p2 = p2
    p3 = p3
    Procs <- MC_Procs
INVARIANTS TypeOK DeviceExclusive
PROPERTY OpenReturns
