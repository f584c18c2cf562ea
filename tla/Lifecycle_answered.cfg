SPECIFICATION RestlessSpec
CONSTANTS
    c1 = c1
    c2 = c2
    t1 = t1
    Calls = {c1, c2}
    Tasks = {t1}
    EmbeddingsCalls = {}
    Droppable = {c1}
PROPERTIES EveryCallAnswered BootTaskEnds
