SPECIFICATION FairSpec
CONSTANTS
    request1 = request1
    stream1 = stream1
    socket1 = socket1
    sigint = sigint
    sigterm = sigterm
    Requests = {request1}
    Streams = {stream1}
    Sockets = {socket1}
    Deployments <- MCDeployments
    PrewarmEnabled = TRUE
    MaxReconnectAttempts = 2
    Signals = {sigint, sigterm}
PROPERTY
    ConnectedAfterReconnect
CHECK_DEADLOCK FALSE
