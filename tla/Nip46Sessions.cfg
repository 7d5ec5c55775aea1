\* Two sessions, room for one, two requests to consume, any number of restarts.
SPECIFICATION FairSpec
CONSTANTS
    s1 = s1
    s2 = s2
    ip1 = ip1
    Sessions = {s1, s2}
    Ips = {ip1}
    IpOf <- Clients
    Consumers = {c1, c2}
    None = None
    MaxSessions = 1
    MaxPerIp = 1
INVARIANTS
    TypeOK
    CapsHold
PROPERTIES
    OneSignIn
    SlotsAreFreed
CHECK_DEADLOCK FALSE
