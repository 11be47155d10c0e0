SPECIFICATION Spec
CONSTANTS
    Daemon = {d1, d2}
    Probe = Probe
    Client = {c1}
    Other = Other
    None = None
    Dead = Dead
    Faults = {"kill", "panic", "other"}
CHECK_DEADLOCK FALSE
 
PROPERTIES StopFinishesWrites EveryoneLeaves
