SPECIFICATION FairSpec
CONSTANTS
    c1 = c1
    c2 = c2
    r1 = r1
    Clients = {c1, c2}
    CreatedAt <- MCCreatedAt
    DailyKeys <- MCDailyKeys
    TopKeys <- MCTopKeys
    Windows <- MCWindows
    WindowOf <- MCWindowOf
    TopLimit <- MCTopLimit
    Readers = {r1}
    Unanswered = {"top"}
    TTL = 1
    MaxRows = 1
INVARIANT
    TypeOK
PROPERTIES
    FailsOnlyWithDatabase
    WrittenReportsAreCurrent
    CacheConverges
    TasksSettle
