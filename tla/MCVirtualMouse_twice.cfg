SPECIFICATION Spec
CONSTANTS
    Reports <- FewReports
    Appliers = {main, device}
    Movers = {1, 2}
INVARIANT DisabledIsStill
