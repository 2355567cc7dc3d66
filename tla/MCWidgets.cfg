SPECIFICATION MCSpec
CONSTANTS
    a = a
    Cols = 2
    Rows = 2
    MaxLines = 3
    Texts <- MCTexts
    MaxFeeds = 2
    MaxInputs = 2
    MaxSigns = 3
    MaxRows = 3
    BarRows = 2
    MaxLength = 5
    RowHeight = 3
    Items = {i1, i2}
    MaxMaxLength = 3
    MaxStart = 4
INVARIANTS
    
    TypedOnce
    BarIsWhereDisplayIs
PROPERTIES
    RowsAreDrawn
    ListImplementsSequence
CHECK_DEADLOCK FALSE
