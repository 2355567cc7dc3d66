SPECIFICATION MCSpec
CONSTANTS
    Names = {i1, i2}
    MaxEvents = 2
    SimpleEvents = 3
    MaxLosses = 1
    MaxOutput = 2
    MaxKeys = 2
    MaxFilesMade = 5
INVARIANTS
    InstancesAreCurrent
    FilesAreApart
PROPERTIES
    TextArrives
    ShowsInstance
CHECK_DEADLOCK FALSE
