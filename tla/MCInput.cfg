SPECIFICATION MCSpec
CONSTANTS
    PauseAt = 2
    SliceAt = 1
    MaxWrites = 5
    Bytes = {65, 128, 129, 159, 160, 192, 195, 224, 227, 237, 240, 255}
    Units = {65, 55357, 56832}
    Codes = {24, 27, 36, 49, 57, 59, 63, 65, 80, 88, 91, 93, 127, 133, 144, 156, 157, 8212}
    Letters = {65, 127, 8212}
    MaxText = 3
    MaxRun = 2
    Sockets = {s1, s2}
    MaxMessages = 3
    Cap = 1
    MaxKeys = 2
    MaxTerminals = 2
INVARIANTS
    StreamsHold
    TerminalsHold
PROPERTIES
    CutsChangeNothing
    SequencesAreWhole
    StreamsArrive
    Reconnected
CHECK_DEADLOCK FALSE
