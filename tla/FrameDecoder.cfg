\* The caller may stop calling: a finished, crashed or run-off program has no next step.
SPECIFICATION FairSpec
CONSTANTS
    Pictures <- MCPictures
    Junk <- MCJunk
    Bitmaps <- MCBitmaps
    DCTSIZE = 1
    MaxLines = 10
INVARIANTS TypeOK EndMarkerEnds
PROPERTIES IntactShown DamageConfined RowsFresh CallEnds
CHECK_DEADLOCK FALSE
