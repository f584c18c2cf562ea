SPECIFICATION Spec
CONSTANTS
    Watchers = {w1, w2}
    Cancellers = {k1, k2}
    Streams = {w1}
    Embeddings = {w2}
    Lines = 3
INVARIANTS TypeOK NoMissedCancel NoFalseCancel CleanEndIsComplete RenamedUnlessCut
PROPERTY CancelNoticed
CHECK_DEADLOCK FALSE
