SPECIFICATION Spec
CONSTANTS
    Rows <- TwoSignals
    Values <- ThreeValues
    Qualities = {0}
    Updaters = {u1, u2}
    Simulators = {}
    Ramps = {}
    Sessions = {s1}
    MaxRows = 2
    MaxSteps = 0
    MaxChanges = 3
SYMMETRY Symmetric
INVARIANTS
    LastEventCurrent
CHECK_DEADLOCK FALSE
