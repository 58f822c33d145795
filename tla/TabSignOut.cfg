CONSTANTS
    Admins = {adm}
    Staff = {}
    EndUsers = {}
    NoActor = NoActor
    Tenants = {t1}
    ConsoleKey = ConsoleKey
    NoKey = NoKey
    Registry = Registry
    Tabs = {tab1}
    Slots = {c1}
    FileLinks = FALSE
    MaxSessions = 1
SPECIFICATION Spec
SYMMETRY Symmetry
PROPERTIES
    SignOutRevokes
