SPECIFICATION FairSpec
CONSTANTS
    reg1 = reg1
    reg2 = reg2
    email1 = email1
    replica1 = replica1
    replica2 = replica2
    request1 = request1
    Registrations = {reg1, reg2}
    Email <- MCEmail
    Replicas = {replica1, replica2}
    Requests = {request1}
    NoCredential = NoCredential
    Forged = Forged
    MaxVersions = 4
INVARIANTS
    TypeOK
PROPERTIES
    ImplementsRegistry
    ServedWasActive
    RefusedForCause
    RevocationTakesEffect
