SPECIFICATION Spec
CONSTANTS
    Sockets = {s1, s2}
    GenPorts = {g1, g2}
    OtherPorts = {max}
    MaxPort = max
    Unspec = zero
    MaxTries = 2
INVARIANTS
    TypeOK
    BugFree
    PortsAccounted
    PortsExclusive
    AutoConnectNeverInUse
PROPERTIES
    ConnectReturnsBoundAddress
    ConnectTerminates
