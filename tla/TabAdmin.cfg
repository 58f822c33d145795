CONSTANTS
    Admins = {adm}
    Staff = {}
    EndUsers = {}
    NoActor = NoActor
    Tenants = {t1, t2}
    ConsoleKey = ConsoleKey
    NoKey = NoKey
    Registry = Registry
    Tabs = {tab1}
    Slots = {c1, c2}
    FileLinks = TRUE
    MaxSessions = 2
SPECIFICATION Spec
SYMMETRY Symmetry
INVARIANTS
    TypeOK
    ChoiceIsOffered
PROPERTIES
    RefusalIsRetried
    LiveSessionSurvives401
    StayingPageMatchesChoice
