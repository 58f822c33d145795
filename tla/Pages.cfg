SPECIFICATION PagesSpec
CONSTANTS
    TablePages <- MCTablePages
    Filters = {"all", "odd"}
    Hits <- MCHits
    MaxRow = 4
    FirstRows <- MCFirstRows
    PageSize = 1
    MaxPage = 2
    MaxAsked = 2
    EditPages <- MCEditPages
    FirstIds = {"a"}
    NewIds = {"b"}
    BuiltIn = {}
    MaxSaves = 2
    MaxMoves = 1
    Panels <- MCPanels
    Topics = {"x", "y"}
    Calls = {1, 2}
    MaxQuestions = 4
    OldTenants = {t1, t2}
    NewTenants = {t3}
    Services = {sms}
    Admins = {ann}
    WriteSlots = {1, 2}
    LoadSlots = {1}
    MaxWrites = 3
    Issuers <- MCIssuers
    Keys = {"k1", "k2"}
    MintSlots = {1, 2}
    MaxSecrets = 3
    CodeForms <- MCCodeForms
    Addresses = {"x", "y"}
    SendSlots = {1, 2}
    Wait = 2
    MaxSends = 3
    Files = {"f", "g"}
INVARIANTS
    PagesTypeOK ChainOfWindow RowsKeepApart NameFitsAnswer CopiesAgree
    ShownSecretsWork DeleteIsTyped OneIntervalPerVisit DropZoneWaits MenuLeads
PROPERTIES
    NoRowTwice NextPageFollows LateAnswerDropped
CHECK_DEADLOCK FALSE
