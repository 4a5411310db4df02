CONSTANTS
    s1 = s1 s2 = s2 s3 = s3 c1 = c1 c2 = c2
    MaxEvents = 2
    Connections = {s1, s2}
    Clients = {c1}
    ClientOf <- TwoClients
    ReplayLimit = 3
SPECIFICATION StreamSpec
INVARIANTS
    ReconnectMissesNothing
CHECK_DEADLOCK FALSE
