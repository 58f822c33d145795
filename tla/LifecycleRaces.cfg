CONSTANTS
    Servers = {s}
    Embedders = {e1, e2}
    Deployments <- SomeDeployments
    Nobody = Nobody
    MaxCalls = 1
SPECIFICATION FairSpec
INVARIANTS
    IInv
    UpstreamsOutliveUsers
    SlotsMatchModules
    NothingLeftBehind
    CallsFindBackends
PROPERTIES
    ShutdownEnds
