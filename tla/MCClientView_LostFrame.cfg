\* Violated: see the finding of the run.
CONSTANTS
    Entities = {1}
    MaxFrames = 3
SPECIFICATION Spec
INVARIANT
    LostFramesSurvived
\* The client closes, or reaches undefined behaviour.
CHECK_DEADLOCK FALSE
