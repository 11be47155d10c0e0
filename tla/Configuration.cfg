SPECIFICATION Spec
CONSTANTS
    night = night
    blue = blue
    Name = {night}
    Safe = Safe
    Light = {}
    Value = {blue}
    Onboard = Onboard
    None = None
    Missing = Missing
    Unusable = Unusable
    Partial = Partial
    MaxStops <- Stops
    FaultSets = {{"write", "power"}, {"read", "preserve", "write"}, {"sync"}}
INVARIANTS LoadableAfterCrash NothingIsLost
PROPERTIES ImplementsStore
