\* The threads keep running.  No symmetry: the run checks liveness.
CONSTANTS
    Endpoints = {e1, e2}
    Kinds = {"Player"}
    Positions = {p1, p2}
    MaxThreads = 1
    MaxFrames = 2
    MaxEntities = 1
SPECIFICATION FairSpec
PROPERTIES
    FramesGoOut
