SPECIFICATION LightingSpec
CONSTANTS
    ring = ring
    fan = fan
    blue = blue
    red = red
    Channel = {ring, fan}
    Program = {blue, red}
    Dark = Dark
    NoProgram = NoProgram
    MinInterval = 2
    MaxAttachments = 2
    LightingFaults = {"write", "unplug", "restart"}
INVARIANTS RecordIsTrue FloorHolds
