CONSTANTS
    Picks = {p1, p2}
    Sizes = {1, 2}
    MaxInline = 2
    MaxTotal = 5
    Files = {f1}
    Text = Text
    NoFile = NoFile
    MaxBatch = 3
    MaxKeys = 3
SPECIFICATION Spec
SYMMETRY Symmetry
INVARIANTS
    InlineTotalBounded
