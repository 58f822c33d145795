CONSTANTS
    Admins = {}
    Staff = {plat}
    EndUsers = {}
    NoActor = NoActor
    Tenants = {t1}
    ConsoleKey = ConsoleKey
    NoKey = NoKey
    Registry = Registry
    Tabs = {tab1}
    Slots = {c1}
    FileLinks = FALSE
    MaxSessions = 1
SPECIFICATION VanishingSpec
SYMMETRY Symmetry
PROPERTIES
    DeadDrillDownFallsBack
