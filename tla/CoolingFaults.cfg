SPECIFICATION Either
CONSTANTS
    k1 = k1
    k2 = k2
    Torn = Torn
    Factory = Factory
    None = None
    Duty <- DutyValue
    Curve <- OneCurve
    Window <- OneWindow
    MinDuty <- Floors
    FullSpeed = 60
    Faults = {"fail", "ignore", "drift"}
    MinInterval = 0
    CurveSettle = 0
    Requests <- AllPrograms
    MaxPlugs = 1
INVARIANTS RecordIsTrue RollbackIsExact ConfirmedIsApplied
