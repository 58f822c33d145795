CONSTANTS
    Admins = {ann, bob}
    Lead = ann
    First = r1
    Staff = {}
    EndUsers = {}
    NoActor = NoActor
    Tenants = {t1}
    ConsoleKey = ConsoleKey
    NoKey = NoKey
    Registry = Registry
    Requests = {r1, r2}
    TTL = 1
    MaxLatency = 1
    MaxClock = 3
SPECIFICATION RacesSpec
INVARIANTS
    TypeOK
    RevokedIsRefused
    GrantedIsAdmitted
    IInv
PROPERTIES
    EveryRequestAnswered
