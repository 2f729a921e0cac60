SPECIFICATION MCSpec
CONSTANTS
    Customers = {1, 2, 3, 4}
    Few = {1, 2}
    Nobody = 0
    Missing = Missing
    v1 = v1
    v2 = v2
    Values = {v1, v2}
    Inquiries <- MCInquiries
    Similar <- MCSimilar
    MaxEdits = 1
    Notes = {n1}
    NoNote = NoNote
    Workers = {w1, w2}
    Gone = Gone
    MaxAttempts = 2
    MaxCrashes = 1
CHECK_DEADLOCK FALSE
INVARIANT CustomerInv
INVARIANT MergeLosesNothing
INVARIANT ProjectedForItsCustomer
PROPERTY EveryNoteSettles
PROPERTY OnlyAMergeMoves
