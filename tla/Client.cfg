SPECIFICATION Spec
CONSTANTS
    f1 = f1
    f2 = f2
    c1 = c1
    c2 = c2
    p1 = p1
    p2 = p2
    None = None
    Fixed = {f1}
    Curve = {c1, c2}
    Left <- SomeLeft
    Stored = c2
    Picture = {p1, p2}
    Days <- OnDays
    MaxFaults = 1
    MaxEdits = 2
INVARIANTS OneAtATime ScreenIsHonest
PROPERTIES WritesEnd RecoveryIsShown
