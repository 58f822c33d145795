CONSTANTS
    Admins = {adm}
    Staff = {plat}
    EndUsers = {}
    NoActor = NoActor
    Tenants = {t1}
    ConsoleKey = ConsoleKey
    NoKey = NoKey
    Registry = Registry
    Tabs = {tab1, tab2}
    Slots = {c1}
    FileLinks = FALSE
    MaxSessions = 2
SPECIFICATION Spec
SYMMETRY Symmetry
INVARIANTS
    ChoiceBelongsToUser
