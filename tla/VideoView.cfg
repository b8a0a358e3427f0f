SPECIFICATION FairSpec
CONSTANTS
    s1 = s1
    s2 = s2
    s3 = s3
    Streams = {s1, s2, s3}
    NoStream = NoStream
    MaxRequests = 2
CHECK_DEADLOCK FALSE
INVARIANTS TypeOK SurfaceOutlivesDrawing CrashNeedsLateResult StreamsAccounted PlaysOnlyWanted
PROPERTY StopReturns
