CONSTANTS
    s1 = s1
    s2 = s2
    Streams = {s1, s2}
    Fd <- Descriptors
    NULL = NULL
    MaxOut = 1
SPECIFICATION FairSpec
PROPERTIES IterationReportsWait OutgoingEventuallyServed
CHECK_DEADLOCK FALSE
