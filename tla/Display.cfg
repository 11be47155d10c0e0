SPECIFICATION Spec
CONSTANTS
    Kind = {"field", "gauge", "clip", "broken"}
    Brightness = {20, 80}
    Reading = {30, 40}
    Begin <- TwoFrames
    Interval = 2
    None = None
    Torn = Torn
    MaxTime = 7
    MaxPlugs = 2
    Faults = {"refusal", "lands", "unplug"}
INVARIANTS PanelIsKnown
PROPERTIES RefusalEndsStream KeepsTime
