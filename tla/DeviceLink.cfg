SPECIFICATION Spec
CONSTANTS
    Picture = {p1, p2}
    None = None
    Torn = Torn
    MaxReads = 5
    Drained = 4
    Backlog = 4
    MaxStatus = 2
    MaxFrames = 2
    Faults = {"silent", "refusal", "unplug"}
CHECK_DEADLOCK FALSE
INVARIANTS  FrameIsShown
PROPERTIES FramesRunTheirCourse
