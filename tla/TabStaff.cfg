CONSTANTS
    Admins = {adm}
    Staff = {plat}
    EndUsers = {usr}
    NoActor = NoActor
    Tenants = {t1, t2}
    ConsoleKey = ConsoleKey
    NoKey = NoKey
    Registry = Registry
    Tabs = {tab1}
    Slots = {c1}
    FileLinks = FALSE
    MaxSessions = 2
SPECIFICATION TurnsSpec
INVARIANTS
    ChoiceIsOffered
PROPERTIES
    BootEnds
