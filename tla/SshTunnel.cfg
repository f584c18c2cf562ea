SPECIFICATION FairSpec
CONSTANTS
    Callers = {c1, c2}
    Children = {k1, k2, k3}
    NoChild = NoChild
    Nobody = Nobody
INVARIANTS TypeOK OneTunnel NoLeakedTunnel
PROPERTY TunnelRepaired
