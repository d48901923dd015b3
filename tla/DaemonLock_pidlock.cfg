SPECIFICATION Spec
CONSTANTS
    None = None
    d1 = d1
    d2 = d2
    Procs <- MC_Procs
    BlockSeconds = 2
INVARIANTS TypeOK PidNamesHolder
PROPERTY CallsReturn
