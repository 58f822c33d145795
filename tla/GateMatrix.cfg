CONSTANTS
    Admins = {adm}
    Staff = {plat}
    EndUsers = {usr}
    NoActor = NoActor
    Tenants = {t1, t2}
    ConsoleKey = ConsoleKey
    NoKey = NoKey
    Registry = Registry
    Requests = {r1}
    TTL = 1
    MaxLatency = 1
    MaxClock = 3
SPECIFICATION CastSpec
INVARIANTS
    KeyFollowsMatrix
    BootstrapReachable
    DefaultIsSole
PROPERTIES
    DoorSpec
