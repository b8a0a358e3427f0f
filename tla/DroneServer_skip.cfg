SPECIFICATION Spec
CONSTANTS
    p1 = p1
    p2 = p2
    g1 = g1
    Pins <- MCPins
    Commands <- MCCommands
    PingThreads = {p1, p2}
    GuardThreads = {}
PROPERTY NoValueWhileDescending
