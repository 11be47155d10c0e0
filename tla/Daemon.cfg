SPECIFICATION Spec
CONSTANTS
    night = night
    blue = blue
    red = red
    Name = {night}
    Safe = Safe
    Light = {}
    Value = {blue, red}
    Onboard = Onboard
    None = None
    Offered <- TwoProfiles
    MaxStops = 1
    Losses = TRUE
INVARIANTS RestoredAsLeft SessionIsWhatRan
PROPERTIES AlwaysServes
