SPECIFICATION Spec
CONSTANTS
    l1 = l1
    l2 = l2
    l3 = l3
    l4 = l4
    f1 = f1
    f2 = f2
    stop = stop
    Logs <- MCLogs4
    Poison <- MCPoison
    Flushes <- MCFlushes3
    Unanswered <- MCAllAnswered
    Stopper = stop
    BatchSize = 2
    RequeueLimit = 2
    MaxSize = 2
    MaxAge = 1
    MaxRetries = 1
    MaxLostAcks = 1
    MaxCrashes = 1
    StopCalled = TRUE
SYMMETRY MCSymmetry
VIEW MCView
INVARIANTS
    TypeOK
    OneHolder
    NoLogVanishes
    DuplicateOnlyByLostAck
    MemorySortedByAge
PROPERTY
    ImplementsDelivery
