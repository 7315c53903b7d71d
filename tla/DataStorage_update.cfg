SPECIFICATION Spec
CONSTANTS
    Rows <- MixedRows
    Values <- ThreeValues
    Qualities = {0, 128}
    Updaters = {u1}
    Simulators = {m1}
    Ramps <- OneRamp
    Sessions = {s1, s2}
    MaxRows = 2
    MaxSteps = 3
    MaxChanges = 2
SYMMETRY Symmetric
INVARIANTS
    TypeOK
    IndexesAgree
    NoChangeMissed
    DriftReported
CHECK_DEADLOCK FALSE
