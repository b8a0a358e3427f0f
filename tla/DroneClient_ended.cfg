SPECIFICATION Spec
CONSTANTS
    c1 = c1
    c2 = c2
    c3 = c3
    s1 = s1
    s2 = s2
    l1 = l1
    NoClient = NoClient
    Clients = {c1, c2, c3}
    Senders = {s1, s2}
    Listeners = {l1}
    MaxQueue = 1
    MaxConnects = 1
CHECK_DEADLOCK FALSE
PROPERTY EndedStaysEnded
