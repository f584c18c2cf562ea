SPECIFICATION Spec
CONSTANTS
    c1 = c1
    c2 = c2
    t1 = t1
    Calls = {c1, c2}
    Tasks = {t1}
    EmbeddingsCalls = {c2}
    Droppable = {c1}
INVARIANTS TypeOK SingleBootstrap StatusCoherent NoLostWakeup
PROPERTY ImplementsBackendGate
