SPECIFICATION FairSpec
CONSTANTS
    Chat = {c1}
    Embeddings = {e1, e2}
    Streams = {c1}
    Dual = TRUE
    MaxActive = 1
    ColdMax = 1
INVARIANTS TypeOK OutcomesCounted
PROPERTY QueueMoves
CHECK_DEADLOCK FALSE
