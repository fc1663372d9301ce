CONSTANTS
    None = None
    Left = Left
    Callers = {c1, c2}
    Engines = {e1, e2}
    Threshold = 2
    Configs <- MixedConfigs
    MaxFails = 2
SPECIFICATION Spec
CHECK_DEADLOCK FALSE

PROPERTIES
    StopStops
