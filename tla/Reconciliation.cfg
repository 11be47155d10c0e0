SPECIFICATION Spec
CONSTANTS
    Channel = {"pump"}
    k1 = k1
    k2 = k2
    Curve <- Curves
    Duty <- Duties
    Window <- Windows
    None = None
    CurveSettle = 3
    MaxPlugs = 2
    Discards = TRUE
PROPERTIES
    
    DiscardIsNoticed
    AbsenceIsForgotten
