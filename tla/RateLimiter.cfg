SPECIFICATION Spec
CONSTANTS
    c1 = c1
    check1 = check1
    check2 = check2
    check3 = check3
    endpoint1 = endpoint1
    usage1 = usage1
    reset1 = reset1
    Clients <- MCClients
    Requests <- MCRequests
    ClientOf <- MCClientOf
    Kind <- MCKind
    ClientLimit <- MCClientLimit
    DefaultLimit = 2
    Window = 2
    Grace = 1
    MaxClock = 3
    MaxLostReplies = 1
INVARIANTS
    TypeOK
    
    MemoryWindowLimit
    AdmissionsCounted
PROPERTY
    ResetAtFreesRoom
SYMMETRY MCSymmetry
VIEW MCView
