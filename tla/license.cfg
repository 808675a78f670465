SPECIFICATION Spec
CONSTANTS
    Clients = {1, 2, 3}
    Machines = {1, 2}
    Host <- MCHost
    Admins = {101, 102}
    Licenses = {k}
    Enough <- MCEnough
    Ttl <- MCTtl
    Buffer = 1
    NoMachine = NoMachine
    NoLicense = NoLicense
    Corrupt = Corrupt
    MaxClock = 4
    MaxFaults = 1
CHECK_DEADLOCK FALSE
INVARIANT TypeOK
INVARIANT OneMachine
INVARIANT AdminsObeyed
INVARIANT TrustEndsWithTtl
