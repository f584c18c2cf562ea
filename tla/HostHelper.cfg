SPECIFICATION FairSpec
CONSTANT Rpcs = {r1, r2}
INVARIANTS TypeOK ReadyWasServed
PROPERTIES HelperEnds ObservedReady
