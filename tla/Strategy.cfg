SPECIFICATION FairSpec
CONSTANTS
    c1 = c1
    c2 = c2
    n1 = n1
    n2 = n2
    p1 = p1
    p2 = p2
    e1 = e1
    s1 = s1
    s2 = s2
    Callers <- MCCallers
    Networks <- MCNetworks
    Ports <- MCPorts
    Sweeps = 1
    Endpoints <- MCEndpoints
    Snis <- MCSnis
    Masque <- MCMasque
    Wg <- MCWg
    MaxProbes = 2
    None = None
INVARIANTS
    DecidedAndSaved
    ChoiceIsJustified
    BestSniHeadsTheList
PROPERTIES
    ImplementsProbeSlot
    ProbeEnds
CHECK_DEADLOCK FALSE
