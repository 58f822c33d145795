CONSTANTS
    Picks = {p1, p2}
    Sizes = {1}
    MaxInline = 2
    MaxTotal = 2
    Files = {f1}
    Text = Text
    NoFile = NoFile
    MaxBatch = 2
    MaxKeys = 2
SPECIFICATION FairSpec
INVARIANTS
    TypeOK
    LinksWork
PROPERTIES
    OnlyCommandsStray
    UploadEnds
    RowsLeaveByHand
