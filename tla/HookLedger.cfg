SPECIFICATION Spec
CONSTANTS
    None = None
    Keys = {k1}
    Panels = {p1}
    PanelOf <- OnePanel
    Runtimes = {r1}
    Generations = {g1, g2}
    Owners = {o1, o2}
    MaxEpoch = 5
    MaxGenerations = 2
INVARIANTS TypeOK OneLiveBirth SingleFactory
PROPERTIES EffectsByOwnerOnly NoLateChild ClosedForGood
