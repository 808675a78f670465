SPECIFICATION Spec
CONSTANTS
    Clients = {1, 3}
    Machines = {1, 2}
    Host <- MCHost
    Admins = {101, 102}
    Licenses = {k}
    Enough <- MCEnough
    Ttl <- MCTtl
    Buffer = 1
    NoMachine = NoMachine
    NoLicense = NoLicense
    Corrupt = Corrupt
    MaxClock = 4
    MaxFaults = 0
CHECK_DEADLOCK FALSE
INVARIANT RevokedIsBlocked
