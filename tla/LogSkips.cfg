SPECIFICATION PagesSpec
CONSTANTS
    TablePages <- MCTablePages
    Filters = {"all", "odd"}
    Hits <- MCHits
    MaxRow = 3
    FirstRows <- MCFirstRows
    PageSize = 1
    MaxPage = 2
    MaxAsked = 2
    EditPages <- MCEditPages
    FirstIds = {"a"}
    NewIds = {"b"}
    BuiltIn = {}
    MaxSaves = 1
    MaxMoves = 1
    Panels <- MCPanels
    Topics = {"x", "y"}
    Calls = {1, 2}
    MaxQuestions = 1
    OldTenants = {t1}
    NewTenants = {t2}
    Services = {sms}
    Admins = {ann}
    WriteSlots = {1, 2}
    LoadSlots = {1}
    MaxWrites = 0
    Issuers <- MCIssuers
    Keys = {"k1", "k2"}
    MintSlots = {1, 2}
    MaxSecrets = 1
    CodeForms <- MCCodeForms
    Addresses = {"x", "y"}
    SendSlots = {1, 2}
    Wait = 2
    MaxSends = 0
    Files = {"f", "g"}
PROPERTIES
    LogSkipsNothing
CHECK_DEADLOCK FALSE
