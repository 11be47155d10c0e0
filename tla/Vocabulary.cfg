SPECIFICATION Spec
CONSTANTS
    pump = pump
    fan = fan
    cpu = cpu
    gpu = gpu
    red = red
    blue = blue
    gif = gif
    torn = torn
    MaxDuty = 6
    MaxPercent = 3
    PointCount = 4
    StepC = 2
    NodeCount = 3
    MinDuty <- Floors
    Committed <- Programs
    Readback <- Reports
    MaxGestures = 4
    Section = {"kraken"}
    StaleAfter = 2
    DropAfter = 3
    Window = 2
    StallCount = 3
    MaxTime = 4
    Sensors = {"gap", "absent", "clock"}
    Swatch = {16747520}
    Accent = 7294706
    Level <- PastEnds
    Paces = {"slowest", "normal"}
    Answers = {0, 2, 7}
    EffectsProven = TRUE
    MaxEdits = 3
    PanelMetric = {cpu, gpu}
    Ink = {red, blue}
    FirstInk = red
    Value = {40}
    Path = {gif, torn}
    Film <- Films
    NoPath = NoPath
    NoInk = NoInk
    Unread = Unread
    Unsent = Unsent
    Nowhere = Nowhere
    Reported <- Presets
    MaxPanelEdits = 2
    MaxTimers = 3
    MaxSamples = 2
    Speed = {"slow", "fast"}
    ProbeChannels = {0, 1, 2}
    CadenceSteps = 2
    CadenceCommands = 2
    Collectors = {"kraken", "gpu"}
    Panics <- Cries
    Messages <- Told
    Serials <- Numbers
    Word <- Words
    MinSecret = 2
    Capacity = 2
    MaxTicks = 2
    Counters = {"iowait", "guest"}
    LightingChannels = {"first"}
    MaxInputs = 4
    MaxNews = 2
CHECK_DEADLOCK FALSE
INVARIANTS EditorIsSound WhatIsToldIsTrue  AlgorithmsAgree RowsAreTold PreviewIsAlive PanelIsDrawn GatesAgree ProbesAreHonest WindowIsSound
PROPERTIES EditorKeepsTheGrid FilmKeepsPace
