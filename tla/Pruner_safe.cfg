SPECIFICATION Spec
CONSTANTS
    Sessions = {s1, s2, s3}
    Tasks = {t1}
    Leftovers = {f1}
    Cleaners = {x1}
    Size <- Sizes
    MaxAge = 1
    MaxCount = 2
    MaxSize = 3
    MaxClock = 2
    None = None
INVARIANT TypeOK
PROPERTIES RetentionPolicy ActiveImmunity
