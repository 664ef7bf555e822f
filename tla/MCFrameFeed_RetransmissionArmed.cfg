\* Violated: see the finding of the run.
CONSTANTS
    Endpoints = {e1, e2}
    Kinds = {"Player"}
    Positions = {p1, p2}
    MaxThreads = 1
    MaxFrames = 2
    MaxEntities = 2
SPECIFICATION Spec
PROPERTY
    RetransmissionArmed
