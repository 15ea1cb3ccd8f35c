SPECIFICATION FairSpec
CONSTANTS
    w1 = w1
    w2 = w2
    w3 = w3
    lab = lab
    overflow = overflow
    Session = {lab, overflow}
    Onprem = {lab}
    Window = {w1, w2, w3}
    SessionOf <- MCSessionOf
    MaxConns = 3
    MaxOpens = 2
    MaxFaults = 1
INVARIANTS
    TypeOK
    HolderIsServed
    OlderAreTold
PROPERTIES
    TerminalsSettle
    LostPeersAreReclaimed
CHECK_DEADLOCK FALSE
