SPECIFICATION FairSpec
CONSTANTS
    node1 = node1
    node2 = node2
    hit1 = hit1
    hit2 = hit2
    client1 = client1
    client2 = client2
    socket1 = socket1
    Nodes = {node1, node2}
    Hits = {hit1, hit2}
    Clients = {client1, client2}
    HitOf <- MCHitOf
    Sockets = {socket1}
    SocketOf <- MCSocketOf
    MaxLosses = 1
INVARIANTS
    TypeOK
    DeliveredInOrder
    PublishedAgainOnlyByLoss

    
